--------------------------- MODULE TaskQueueProofs ---------------------------
(***************************************************************************)
(* The task queues for every number of loops, calls and tasks: no wake-up  *)
(* is lost, what one thread hands to a loop runs in the order of its       *)
(* calls, a loop is a Mailbox, and no task runs twice.                     *)
(***************************************************************************)
EXTENDS TaskQueue, IdSeqTheorems, SequenceTheorems

(* A task of an earlier call, or an earlier task of the same call.         *)
Before(a, b) == a.from = b.from => a.n < b.n \/ (a.n = b.n /\ a.part < b.part)

Sorted(s) == \A i, j \in DOMAIN s : i < j => Before(s[i], s[j])

Precede(s, t) == \A a \in Elements(s), b \in Elements(t) : Before(a, b)

(* NoLostWakeup holds because nobody resets the event fd later in a round  *)
(* than its events: until the swap the queue may be filled unannounced.    *)
QueueWoken ==
  \A l \in Loops :
    pc[l] \notin {"events", "pending"} /\ tasks[l] # <<>> =>
      readable[l] \/ mtx[l] # NoThread

(* The tasks there are come from calls made so far.                        *)
FromCalls ==
  \A l \in Loops :
    \A a \in Elements(executed[l]) \cup Elements(tmptasks[l]) \cup Elements(tasks[l]) :
      a.n <= posts[a.from]

(* A thread does not queue tasks for its own loop: it runs them.           *)
FromOthers ==
  \A l \in Loops : \A a \in Elements(tmptasks[l]) \cup Elements(tasks[l]) : a.from # l

(* What has run, what was taken and what is queued is in the order of      *)
(* calls, thread by thread.                                                *)
CallOrder ==
  \A l \in Loops : /\ Sorted(executed[l]) /\ Sorted(tmptasks[l]) /\ Sorted(tasks[l])
                   /\ Precede(executed[l], tmptasks[l])
                   /\ Precede(executed[l], tasks[l])
                   /\ Precede(tmptasks[l], tasks[l])

Inv == TypeOK /\ QueueWoken /\ FromCalls /\ FromOthers /\ CallOrder

----------------------------------------------------------------------------
(* Sequences of tasks.                                                     *)

(* An empty queue is sorted and has no elements.                           *)
LEMMA EmptySorted == Sorted(<<>>) /\ Elements(<<>>) = {}
  BY DEF Sorted, Elements

(* A list followed by one that it precedes is sorted when both are.        *)
LEMMA ConcatSorted ==
  ASSUME NEW S, NEW s \in Seq(S), NEW t \in Seq(S),
         Sorted(s), Sorted(t), Precede(s, t)
  PROVE  Sorted(s \o t)
<1> DEFINE c == s \o t
<1>1. /\ Len(c) = Len(s) + Len(t)
      /\ \A i \in 1..Len(s) : c[i] = s[i] /\ s[i] \in Elements(s)
      /\ \A i \in 1..Len(t) : c[Len(s) + i] = t[i] /\ t[i] \in Elements(t)
  BY DEF Elements
<1>2. /\ DOMAIN c = 1..(Len(s) + Len(t)) /\ DOMAIN s = 1..Len(s)
      /\ DOMAIN t = 1..Len(t) /\ Len(s) \in Nat /\ Len(t) \in Nat
  BY <1>1
<1> HIDE DEF c
<1>3. ASSUME NEW i \in DOMAIN c, i \notin 1..Len(s)
      PROVE  /\ i - Len(s) \in 1..Len(t)
             /\ c[i] = t[i - Len(s)] /\ c[i] \in Elements(t)
  <2>1. i - Len(s) \in 1..Len(t) /\ i = Len(s) + (i - Len(s))
    BY <1>2, <1>3
  <2> QED
    BY <1>1, <2>1
<1>4. ASSUME NEW i \in DOMAIN c, NEW j \in DOMAIN c, i < j
      PROVE  Before(c[i], c[j])
  <2>1. CASE i \in 1..Len(s) /\ j \in 1..Len(s)
    BY <1>1, <1>2, <1>4, <2>1 DEF Sorted
  <2>2. CASE i \in 1..Len(s) /\ j \notin 1..Len(s)
    BY <1>1, <1>3, <2>2 DEF Precede
  <2>3. CASE i \notin 1..Len(s)
    <3>1. j \notin 1..Len(s)
      BY <1>2, <1>4, <2>3
    <3>2. i - Len(s) < j - Len(s)
      BY <1>2, <1>4
    <3> QED
      BY <1>2, <1>3, <2>3, <3>1, <3>2 DEF Sorted
  <2> QED
    BY <2>1, <2>2, <2>3
<1> QED
  BY <1>4 DEF Sorted, c

(* Taking the first task off a sorted list leaves later ones.              *)
LEMMA TailSorted ==
  ASSUME NEW S, NEW s \in Seq(S), s # <<>>, Sorted(s)
  PROVE  /\ Sorted(Tail(s))
         /\ \A b \in Elements(Tail(s)) : Before(Head(s), b)
<1> DEFINE t == Tail(s)
<1>1. /\ Len(s) \in Nat \ {0}
      /\ Len(t) = Len(s) - 1
      /\ DOMAIN s = 1..Len(s) /\ DOMAIN t = 1..Len(t)
      /\ \A i \in 1..Len(t) : t[i] = s[i + 1]
      /\ Head(s) = s[1]
  OBVIOUS
<1> HIDE DEF t
<1>2. ASSUME NEW i \in DOMAIN t
      PROVE  i + 1 \in DOMAIN s /\ 1 \in DOMAIN s /\ 1 < i + 1
  BY <1>1
<1>3. Sorted(t)
  <2> SUFFICES ASSUME NEW i \in DOMAIN t, NEW j \in DOMAIN t, i < j
               PROVE  Before(t[i], t[j])
    BY DEF Sorted
  <2>1. i + 1 < j + 1
    BY <1>1
  <2> QED
    BY <1>1, <1>2, <2>1 DEF Sorted
<1>4. \A b \in Elements(t) : Before(Head(s), b)
  BY <1>1, <1>2 DEF Elements, Sorted
<1> QED
  BY <1>3, <1>4 DEF t

(* The tasks of a call, in order, carry its thread and its number.         *)
LEMMA BatchFacts ==
  ASSUME NEW t \in Loops, NEW n \in Nat, NEW size \in Sizes
  PROVE  /\ BatchOf(t, n, size) \in Seq(Tasks)
         /\ Sorted(BatchOf(t, n, size))
         /\ \A a \in Elements(BatchOf(t, n, size)) : a.from = t /\ a.n = n
<1> DEFINE b == BatchOf(t, n, size)
<1>1. size \in Nat
  BY TaskQueueAssumption
<1>2. \A i \in 1..size : /\ b[i] = [from |-> t, n |-> n, part |-> i, size |-> size]
                         /\ b[i] \in Tasks
  BY <1>1 DEF BatchOf, Tasks
<1>3. DOMAIN b = 1..size
  BY DEF BatchOf
<1>4. b \in [1..size -> Tasks]
  BY <1>2 DEF BatchOf
<1>5. b \in Seq(Tasks)
  BY <1>1, <1>4
<1> HIDE DEF b
<1>6. Sorted(b)
  BY <1>2, <1>3 DEF Sorted, Before
<1>7. \A a \in Elements(b) : a.from = t /\ a.n = n
  BY <1>2, <1>3 DEF Elements
<1> QED
  BY <1>5, <1>6, <1>7 DEF b

(* A new call: its tasks are nowhere yet and come after those of the same  *)
(* thread that are.                                                        *)
LEMMA NewCall ==
  ASSUME Inv, NEW t \in Loops, NEW size \in Sizes, Calls(t)
  PROVE  /\ Batch(t, size) \in Seq(Tasks)
         /\ Batch(t, size) \in Batches
         /\ Sorted(Batch(t, size))
         /\ \A b \in Elements(Batch(t, size)) : b.from = t /\ b.n = posts'[t]
         /\ \A l \in Loops :
              /\ Precede(executed[l], Batch(t, size))
              /\ Precede(tmptasks[l], Batch(t, size))
              /\ Precede(tasks[l], Batch(t, size))
              /\ Elements(Batch(t, size)) \cap Elements(executed[l]) = {}
              /\ Elements(Batch(t, size)) \cap Elements(tmptasks[l]) = {}
              /\ Elements(Batch(t, size)) \cap Elements(tasks[l]) = {}
         /\ posts' \in [Loops -> 0..MaxPosts]
         /\ \A l \in Loops : posts[l] <= posts'[l]
<1> DEFINE n == posts[t] + 1
           b == Batch(t, size)
<1>1. /\ n \in 1..MaxPosts /\ n \in Nat
      /\ posts' = [posts EXCEPT ![t] = n]
  BY TaskQueueAssumption DEF Calls, Inv, TypeOK
<1>2. /\ posts' \in [Loops -> 0..MaxPosts]
      /\ posts'[t] = n
      /\ \A l \in Loops : posts[l] <= posts'[l]
  BY <1>1, TaskQueueAssumption DEF Inv, TypeOK
<1>3. b = BatchOf(t, n, size)
  BY DEF Batch
<1>4. b \in Batches
  BY <1>1, <1>3 DEF Batches
<1>5. /\ b \in Seq(Tasks) /\ Sorted(b)
      /\ \A a \in Elements(b) : a.from = t /\ a.n = n
  BY <1>1, <1>3, BatchFacts
<1>6. ASSUME NEW l \in Loops,
             NEW a \in Elements(executed[l]) \cup Elements(tmptasks[l])
                         \cup Elements(tasks[l])
      PROVE  a.n \in Nat /\ a.n <= posts[a.from]
  <2>1. a \in Tasks
    BY <1>6, ElementsIn DEF Inv, TypeOK
  <2> QED
    BY <2>1 DEF Tasks, Inv, FromCalls
<1> HIDE DEF b
<1>7. ASSUME NEW l \in Loops,
             NEW a \in Elements(executed[l]) \cup Elements(tmptasks[l])
                         \cup Elements(tasks[l]),
             NEW c \in Elements(b)
      PROVE  Before(a, c) /\ a # c
  <2>1. c.from = t /\ c.n = posts[t] + 1 /\ posts[t] \in Nat
    BY <1>1, <1>5 DEF Inv, TypeOK
  <2>2. a.from = t => a.n < c.n
    BY <1>6, <2>1
  <2> QED
    BY <1>6, <2>1, <2>2 DEF Before
<1>8. ASSUME NEW l \in Loops
      PROVE  /\ Precede(executed[l], b)
             /\ Precede(tmptasks[l], b)
             /\ Precede(tasks[l], b)
             /\ Elements(b) \cap Elements(executed[l]) = {}
             /\ Elements(b) \cap Elements(tmptasks[l]) = {}
             /\ Elements(b) \cap Elements(tasks[l]) = {}
  BY <1>7 DEF Precede
<1> QED
  BY <1>2, <1>4, <1>5, <1>8 DEF b

----------------------------------------------------------------------------
(* The invariant.                                                          *)

(* The inductive invariant holds initially ..                              *)
LEMMA InitInv == Init => Inv
<1> SUFFICES ASSUME Init PROVE Inv
  OBVIOUS
<1>1. TypeOK
  BY TaskQueueAssumption DEF Init, TypeOK, NothingTaken
<1>2. \A l \in Loops : /\ executed[l] = <<>> /\ tmptasks[l] = <<>> /\ tasks[l] = <<>>
  BY DEF Init
<1>3. QueueWoken
  BY <1>2 DEF QueueWoken
<1>4. FromCalls /\ FromOthers
  BY <1>2, EmptySorted DEF FromCalls, FromOthers
<1>5. CallOrder
  BY <1>2, EmptySorted DEF CallOrder, Precede
<1> QED
  BY <1>1, <1>3, <1>4, <1>5 DEF Inv

(* runInLoop on the loop's own thread.                                     *)
LEMMA RunInlineInv ==
  ASSUME Inv, NEW l \in Loops, NEW size \in Sizes, RunInline(l, size)
  PROVE  Inv'
<1> DEFINE b == Batch(l, size)
<1>1. /\ executed' = [executed EXCEPT ![l] = @ \o b]
      /\ UNCHANGED <<pc, reported, readable, tasks, tmptasks, mtx>>
      /\ Calls(l)
  BY DEF RunInline
<1>2. /\ b \in Seq(Tasks) /\ Sorted(b)
      /\ \A a \in Elements(b) : a.from = l /\ a.n = posts'[l]
      /\ \A k \in Loops : Precede(executed[k], b)
      /\ posts' \in [Loops -> 0..MaxPosts]
      /\ \A k \in Loops : posts[k] <= posts'[k]
  BY <1>1, NewCall
<1> HIDE DEF b
<1>3. /\ executed \in [Loops -> Seq(Tasks)]
      /\ executed[l] \o b \in Seq(Tasks)
      /\ Elements(executed[l] \o b) = Elements(executed[l]) \cup Elements(b)
  BY <1>2, ConcatElements DEF Inv, TypeOK
<1>4. /\ executed' \in [Loops -> Seq(Tasks)]
      /\ executed'[l] = executed[l] \o b
      /\ \A k \in Loops \ {l} : executed'[k] = executed[k]
  BY <1>1, <1>3
<1>5. TypeOK'
  BY <1>1, <1>2, <1>4 DEF Inv, TypeOK, NothingTaken
<1>6. QueueWoken' /\ FromOthers'
  BY <1>1 DEF Inv, QueueWoken, FromOthers
<1>7. FromCalls'
  <2> SUFFICES ASSUME NEW k \in Loops,
                      NEW a \in Elements(executed'[k]) \cup Elements(tmptasks'[k])
                                  \cup Elements(tasks'[k])
               PROVE  a.n <= posts'[a.from]
    BY DEF FromCalls
  <2>1. a \in Tasks
    BY <1>5, ElementsIn DEF TypeOK
  <2>2. CASE a \in Elements(b)
    BY <1>2, <2>1, <2>2 DEF Tasks, Inv, TypeOK
  <2>3. CASE a \notin Elements(b)
    <3>1. a.n <= posts[a.from]
      BY <1>1, <1>3, <1>4, <2>3 DEF Inv, FromCalls
    <3>2. a.from \in Loops /\ a.n \in Int
      BY <2>1 DEF Tasks
    <3>3. posts[a.from] \in Int /\ posts'[a.from] \in Int
      BY <1>2, <3>2 DEF Inv, TypeOK
    <3>4. posts[a.from] <= posts'[a.from]
      BY <1>2, <3>2
    <3> QED
      BY <3>1, <3>2, <3>3, <3>4
  <2> QED
    BY <2>2, <2>3
<1>8. CallOrder'
  <2> SUFFICES ASSUME NEW k \in Loops
               PROVE  /\ Sorted(executed'[k])
                      /\ Precede(executed'[k], tmptasks[k])
                      /\ Precede(executed'[k], tasks[k])
    BY <1>1 DEF Inv, CallOrder
  <2>1. CASE k # l
    BY <1>4, <2>1 DEF Inv, CallOrder
  <2>2. CASE k = l
    <3>1. Sorted(executed[l] \o b)
      BY <1>2, <1>3, ConcatSorted DEF Inv, TypeOK, CallOrder
    <3>2. \A a \in Elements(b), c \in Elements(tmptasks[l]) \cup Elements(tasks[l]) :
            a.from # c.from
      BY <1>2 DEF Inv, FromOthers
    <3>3. Precede(b, tmptasks[l]) /\ Precede(b, tasks[l])
      BY <3>2 DEF Precede, Before
    <3>4. Precede(executed[l], tmptasks[l]) /\ Precede(executed[l], tasks[l])
      BY DEF Inv, CallOrder
    <3> QED
      BY <1>3, <1>4, <2>2, <3>1, <3>3, <3>4 DEF Precede
  <2> QED
    BY <2>1, <2>2
<1> QED
  BY <1>5, <1>6, <1>7, <1>8 DEF Inv

(* queueInLoop.                                                            *)
LEMMA QueueInLoopInv ==
  ASSUME Inv, NEW t \in Loops, NEW l \in Loops, NEW size \in Sizes,
         QueueInLoop(t, l, size)
  PROVE  Inv'
<1> DEFINE b == Batch(t, size)
<1>1. /\ tasks' = [tasks EXCEPT ![l] = @ \o b]
      /\ mtx' = [mtx EXCEPT ![l] = t]
      /\ UNCHANGED <<pc, reported, readable, tmptasks, executed>>
      /\ Calls(t) /\ t # l
  BY DEF QueueInLoop
<1>2. /\ b \in Seq(Tasks) /\ Sorted(b)
      /\ \A a \in Elements(b) : a.from = t /\ a.n = posts'[t]
      /\ \A k \in Loops : /\ Precede(executed[k], b)
                          /\ Precede(tmptasks[k], b)
                          /\ Precede(tasks[k], b)
      /\ posts' \in [Loops -> 0..MaxPosts]
      /\ \A k \in Loops : posts[k] <= posts'[k]
  BY <1>1, NewCall
<1> HIDE DEF b
<1>3. /\ tasks \in [Loops -> Seq(Tasks)]
      /\ tasks[l] \o b \in Seq(Tasks)
      /\ Elements(tasks[l] \o b) = Elements(tasks[l]) \cup Elements(b)
  BY <1>2, ConcatElements DEF Inv, TypeOK
<1>4. /\ tasks' \in [Loops -> Seq(Tasks)]
      /\ tasks'[l] = tasks[l] \o b
      /\ \A k \in Loops \ {l} : tasks'[k] = tasks[k]
      /\ mtx' \in [Loops -> Loops \cup {NoThread}]
      /\ mtx'[l] = t /\ t # NoThread
      /\ \A k \in Loops \ {l} : mtx'[k] = mtx[k]
  BY <1>1, <1>3, TaskQueueAssumption DEF Inv, TypeOK
<1>5. TypeOK'
  BY <1>1, <1>2, <1>4 DEF Inv, TypeOK, NothingTaken
<1>6. QueueWoken'
  BY <1>1, <1>4 DEF Inv, QueueWoken
<1>7. FromCalls'
  <2> SUFFICES ASSUME NEW k \in Loops,
                      NEW a \in Elements(executed'[k]) \cup Elements(tmptasks'[k])
                                  \cup Elements(tasks'[k])
               PROVE  a.n <= posts'[a.from]
    BY DEF FromCalls
  <2>1. a \in Tasks
    BY <1>5, ElementsIn DEF TypeOK
  <2>2. CASE a \in Elements(b)
    BY <1>2, <2>1, <2>2 DEF Tasks, Inv, TypeOK
  <2>3. CASE a \notin Elements(b)
    <3>1. a.n <= posts[a.from]
      BY <1>1, <1>3, <1>4, <2>3 DEF Inv, FromCalls
    <3>2. a.from \in Loops /\ a.n \in Int
      BY <2>1 DEF Tasks
    <3>3. posts[a.from] \in Int /\ posts'[a.from] \in Int
      BY <1>2, <3>2 DEF Inv, TypeOK
    <3>4. posts[a.from] <= posts'[a.from]
      BY <1>2, <3>2
    <3> QED
      BY <3>1, <3>2, <3>3, <3>4
  <2> QED
    BY <2>2, <2>3
<1>8. FromOthers'
  <2> SUFFICES ASSUME NEW k \in Loops,
                      NEW a \in Elements(tmptasks'[k]) \cup Elements(tasks'[k])
               PROVE  a.from # k
    BY DEF FromOthers
  <2>1. CASE k = l /\ a \in Elements(b)
    BY <1>1, <1>2, <2>1
  <2>2. CASE ~(k = l /\ a \in Elements(b))
    BY <1>1, <1>3, <1>4, <2>2 DEF Inv, FromOthers
  <2> QED
    BY <2>1, <2>2
<1>9. CallOrder'
  <2> SUFFICES ASSUME NEW k \in Loops
               PROVE  /\ Sorted(tasks'[k])
                      /\ Precede(executed[k], tasks'[k])
                      /\ Precede(tmptasks[k], tasks'[k])
    BY <1>1 DEF Inv, CallOrder
  <2>1. CASE k # l
    BY <1>4, <2>1 DEF Inv, CallOrder
  <2>2. CASE k = l
    <3>1. Sorted(tasks[l] \o b)
      BY <1>2, <1>3, ConcatSorted DEF Inv, TypeOK, CallOrder
    <3>2. Precede(executed[l], tasks[l]) /\ Precede(tmptasks[l], tasks[l])
      BY DEF Inv, CallOrder
    <3> QED
      BY <1>2, <1>3, <1>4, <2>2, <3>1, <3>2 DEF Precede
  <2> QED
    BY <2>1, <2>2
<1> QED
  BY <1>5, <1>6, <1>7, <1>8, <1>9 DEF Inv

(* do_pending_task takes the queue.                                        *)
LEMMA SwapInv ==
  ASSUME Inv, NEW l \in Loops, Swap(l)
  PROVE  Inv'
<1>1. /\ pc[l] = "pending"
      /\ tmptasks' = [tmptasks EXCEPT ![l] = tasks[l]]
      /\ tasks' = [tasks EXCEPT ![l] = <<>>]
      /\ pc' = [pc EXCEPT ![l] = "run"]
      /\ UNCHANGED <<reported, readable, mtx, posts, executed>>
  BY DEF Swap
<1>2. /\ tmptasks'[l] = tasks[l] /\ tasks'[l] = <<>> /\ pc'[l] = "run"
      /\ \A k \in Loops \ {l} : /\ tmptasks'[k] = tmptasks[k]
                                /\ tasks'[k] = tasks[k]
                                /\ pc'[k] = pc[k]
      /\ tmptasks' \in [Loops -> Seq(Tasks)]
      /\ tasks' \in [Loops -> Seq(Tasks)]
  BY <1>1, EmptySeq DEF Inv, TypeOK
<1>3. TypeOK'
  BY <1>1, <1>2 DEF Inv, TypeOK, NothingTaken
<1>4. QueueWoken'
  BY <1>1, <1>2 DEF Inv, QueueWoken
<1>5. FromCalls' /\ FromOthers'
  BY <1>1, <1>2, EmptySorted DEF Inv, FromCalls, FromOthers
<1>6. CallOrder'
  BY <1>1, <1>2, EmptySorted DEF Inv, CallOrder, Precede
<1> QED
  BY <1>3, <1>4, <1>5, <1>6 DEF Inv

(* .. and runs the first task of it.                                       *)
LEMMA RunTaskInv ==
  ASSUME Inv, NEW l \in Loops, RunTask(l)
  PROVE  Inv'
<1> DEFINE h == Head(tmptasks[l])
<1>1. /\ executed' = [executed EXCEPT ![l] = Append(@, h)]
      /\ tmptasks' = [tmptasks EXCEPT ![l] = Tail(@)]
      /\ tmptasks[l] # <<>> /\ pc[l] = "run"
      /\ UNCHANGED <<pc, reported, readable, tasks, mtx, posts>>
  BY DEF RunTask
<1>2. /\ tmptasks[l] \in Seq(Tasks) /\ executed[l] \in Seq(Tasks)
      /\ h \in Tasks /\ h \in Elements(tmptasks[l])
      /\ Tail(tmptasks[l]) \in Seq(Tasks)
      /\ Elements(tmptasks[l]) = {h} \cup Elements(Tail(tmptasks[l]))
      /\ Sorted(Tail(tmptasks[l]))
      /\ \A b \in Elements(Tail(tmptasks[l])) : Before(h, b)
  BY <1>1, HeadIn, TailElements, TailSorted DEF Inv, TypeOK, CallOrder
<1> HIDE DEF h
<1>3. /\ Append(executed[l], h) = executed[l] \o <<h>>
      /\ Append(executed[l], h) \in Seq(Tasks)
      /\ Elements(Append(executed[l], h)) = Elements(executed[l]) \cup {h}
  BY <1>2, AppendIsConcat, AppendElements
<1>4. /\ executed'[l] = Append(executed[l], h)
      /\ tmptasks'[l] = Tail(tmptasks[l])
      /\ \A k \in Loops \ {l} : /\ executed'[k] = executed[k]
                                /\ tmptasks'[k] = tmptasks[k]
      /\ executed' \in [Loops -> Seq(Tasks)]
      /\ tmptasks' \in [Loops -> Seq(Tasks)]
  BY <1>1, <1>2, <1>3 DEF Inv, TypeOK
<1>5. TypeOK'
  BY <1>1, <1>4 DEF Inv, TypeOK, NothingTaken
<1>6. QueueWoken'
  BY <1>1, <1>4 DEF Inv, QueueWoken
<1>7. FromCalls' /\ FromOthers'
  BY <1>1, <1>2, <1>3, <1>4 DEF Inv, FromCalls, FromOthers
<1>8. CallOrder'
  <2> SUFFICES ASSUME NEW k \in Loops
               PROVE  /\ Sorted(executed'[k]) /\ Sorted(tmptasks'[k])
                      /\ Precede(executed'[k], tmptasks'[k])
                      /\ Precede(executed'[k], tasks[k])
                      /\ Precede(tmptasks'[k], tasks[k])
    BY <1>1 DEF Inv, CallOrder
  <2>1. CASE k # l
    BY <1>4, <2>1 DEF Inv, CallOrder
  <2>2. CASE k = l
    <3>1. /\ Sorted(executed[l])
          /\ Precede(executed[l], tmptasks[l])
          /\ Precede(executed[l], tasks[l])
          /\ Precede(tmptasks[l], tasks[l])
      BY DEF Inv, CallOrder
    <3>2. /\ <<h>> \in Seq(Tasks) /\ Sorted(<<h>>) /\ Elements(<<h>>) = {h}
      BY <1>2 DEF Sorted, Elements
    <3>3. Sorted(executed[l] \o <<h>>)
      BY <1>2, <3>1, <3>2, ConcatSorted DEF Precede
    <3>4. /\ Precede(Append(executed[l], h), Tail(tmptasks[l]))
          /\ Precede(Append(executed[l], h), tasks[l])
          /\ Precede(Tail(tmptasks[l]), tasks[l])
      BY <1>2, <1>3, <3>1 DEF Precede
    <3> QED
      BY <1>2, <1>3, <1>4, <2>2, <3>3, <3>4
  <2> QED
    BY <2>1, <2>2
<1> QED
  BY <1>5, <1>6, <1>7, <1>8 DEF Inv

(* .. and every step keeps it.                                             *)
LEMMA NextInv == Inv /\ [Next]_vars => Inv'
<1> SUFFICES ASSUME Inv, [Next]_vars PROVE Inv'
  OBVIOUS
<1>1. ASSUME NEW l \in Loops, NEW size \in Sizes, RunInline(l, size) PROVE Inv'
  BY <1>1, RunInlineInv
<1>2. ASSUME NEW l \in Loops, NEW t \in Loops, NEW size \in Sizes,
             QueueInLoop(t, l, size)
      PROVE  Inv'
  BY <1>2, QueueInLoopInv
<1>3. ASSUME NEW l \in Loops, NEW t \in Loops, Wakeup(t, l) PROVE Inv'
  <2>1. TypeOK'
    BY <1>3 DEF Wakeup, Inv, TypeOK, NothingTaken
  <2>2. QueueWoken'
    BY <1>3 DEF Wakeup, Inv, TypeOK, QueueWoken
  <2>3. FromCalls' /\ FromOthers' /\ CallOrder'
    BY <1>3 DEF Wakeup, Inv, FromCalls, FromOthers, CallOrder
  <2> QED
    BY <2>1, <2>2, <2>3 DEF Inv
<1>4. ASSUME NEW l \in Loops,
             WaitWoken(l) \/ WaitOther(l) \/ ReadEventFd(l) \/ EventsDone(l)
               \/ RunDone(l)
      PROVE  Inv'
  <2>1. TypeOK'
    BY <1>4 DEF WaitWoken, WaitOther, ReadEventFd, EventsDone, RunDone, Inv,
                TypeOK, NothingTaken
  <2>2. QueueWoken'
    BY <1>4 DEF WaitWoken, WaitOther, ReadEventFd, EventsDone, RunDone, Inv,
                TypeOK, QueueWoken
  <2>3. FromCalls' /\ FromOthers' /\ CallOrder'
    BY <1>4 DEF WaitWoken, WaitOther, ReadEventFd, EventsDone, RunDone, Inv,
                FromCalls, FromOthers, CallOrder
  <2> QED
    BY <2>1, <2>2, <2>3 DEF Inv
<1>5. ASSUME NEW l \in Loops, Swap(l) PROVE Inv'
  BY <1>5, SwapInv
<1>6. ASSUME NEW l \in Loops, RunTask(l) PROVE Inv'
  BY <1>6, RunTaskInv
<1>7. CASE UNCHANGED vars
  BY <1>7 DEF vars, Inv, TypeOK, QueueWoken, NothingTaken, FromCalls, FromOthers,
              CallOrder
<1> QED
  BY <1>1, <1>2, <1>3, <1>4, <1>5, <1>6, <1>7 DEF Next, LoopStep

(* Everything keeps its type, in particular the queues hold tasks of calls *)
(* that were made (EventLoop.h:86-102).                                    *)
THEOREM TypeCorrect == Spec => []TypeOK
<1>1. Inv => TypeOK
  BY DEF Inv
<1> QED
  BY <1>1, InitInv, NextInv, PTL DEF Spec

(* No loop sleeps in epoll_wait over a queue that nobody told it about:    *)
(* reading the event fd before taking the queue never eats a wake-up       *)
(* (EventLoop.cpp:68-78, 107-112, 136-145).                                *)
THEOREM NeverSleepsOverWork == Spec => []NoLostWakeup
<1>1. Inv => NoLostWakeup
  BY DEF Inv, QueueWoken, NoLostWakeup
<1> QED
  BY <1>1, InitInv, NextInv, PTL DEF Spec

(* What one thread hands to a loop, through the queue or inline, runs in   *)
(* the order of its calls (EventLoop.cpp:97-130).                          *)
THEOREM RunsInCallOrder == Spec => []ProducerOrder
<1>1. Inv => ProducerOrder
  BY DEF Inv, CallOrder, Sorted, Before, ProducerOrder
<1> QED
  BY <1>1, InitInv, NextInv, PTL DEF Spec

----------------------------------------------------------------------------
(* The tasks of one call run together.                                     *)

SameCall(a, b) == a.from = b.from /\ a.n = b.n

(* Task number p of the call that a belongs to.                            *)
PartOf(a, p) == [a EXCEPT !.part = p]

(* Which tasks of a's call are in S.                                       *)
PartsIn(S, a) == {b.part : b \in {c \in S : SameCall(c, a)}}

(* Task number p of the call of s[i] is in s, as far from s[i] as it is in *)
(* the call.                                                               *)
InPlace(s, i, p) == /\ i + p - s[i].part \in DOMAIN s
                    /\ s[i + p - s[i].part] = PartOf(s[i], p)

(* Calls are in the queue whole; of what was taken the front has gone.     *)
Whole(s) == \A i \in DOMAIN s : \A p \in 1..s[i].size : InPlace(s, i, p)

Rest(s) == \A i \in DOMAIN s : \A p \in 1..s[i].size :
             i + p - s[i].part >= 1 => InPlace(s, i, p)

PartsInRange ==
  \A l \in Loops :
    \A a \in Elements(executed[l]) \cup Elements(tmptasks[l]) \cup Elements(tasks[l]) :
      a.part \in 1..a.size

QueueWhole == \A l \in Loops : Whole(tasks[l]) /\ Rest(tmptasks[l])

(* Of the call that is being run the earlier tasks have run ..             *)
NextInCall(S, h) == /\ PartsIn(S, h) = 1..(h.part - 1)
                    /\ \A a \in S : SameCall(a, h) => a.size = h.size

HeadIsNext ==
  \A l \in Loops :
    tmptasks[l] # <<>> => NextInCall(Elements(executed[l]), tmptasks[l][1])

(* .. and a call of which some task has run has run up to one, which is    *)
(* its last or the one before the next to run.                             *)
RunUpTo(S, s, a, m) ==
  /\ PartsIn(S, a) = 1..m
  /\ m < a.size => s # <<>> /\ s[1] = PartOf(a, m + 1)

CallsRun ==
  \A l \in Loops : \A a \in Elements(executed[l]) :
    \E m \in 1..a.size : RunUpTo(Elements(executed[l]), tmptasks[l], a, m)

CallInv == PartsInRange /\ QueueWhole /\ HeadIsNext /\ CallsRun

(* Numbering a task anew changes nothing else of it.                       *)
LEMMA PartOfFacts ==
  ASSUME NEW a \in Tasks, NEW p \in Nat
  PROVE  /\ PartOf(a, p) \in Tasks
         /\ PartOf(a, p).from = a.from /\ PartOf(a, p).n = a.n
         /\ PartOf(a, p).size = a.size /\ PartOf(a, p).part = p
         /\ PartOf(a, a.part) = a
         /\ \A q \in Nat : PartOf(PartOf(a, p), q) = PartOf(a, q)
         /\ a.part \in Nat /\ a.size \in Nat /\ a.n \in Nat /\ a.from \in Loops
  BY TaskQueueAssumption DEF PartOf, Tasks

(* A call is whole when it is handed over.                                 *)
LEMMA BatchWhole ==
  ASSUME NEW t \in Loops, NEW n \in Nat, NEW size \in Sizes
  PROVE  /\ Whole(BatchOf(t, n, size))
         /\ \A a \in Elements(BatchOf(t, n, size)) :
              /\ a.part \in 1..a.size /\ a.size = size
              /\ PartsIn(Elements(BatchOf(t, n, size)), a) = 1..size
<1> DEFINE b == BatchOf(t, n, size)
           e(i) == [from |-> t, n |-> n, part |-> i, size |-> size]
<1>1. size \in Nat /\ DOMAIN b = 1..size
  BY TaskQueueAssumption DEF BatchOf
<1>2. \A i \in 1..size : /\ b[i] = e(i) /\ b[i] \in Tasks
                         /\ b[i].part = i /\ b[i].size = size
                         /\ b[i].from = t /\ b[i].n = n
  BY <1>1 DEF BatchOf, Tasks
<1>3. \A i, p \in 1..size : e(p) = PartOf(b[i], p)
  BY <1>1, <1>2 DEF PartOf
<1> HIDE DEF b, e
<1>4. Whole(b)
  <2> SUFFICES ASSUME NEW i \in 1..size, NEW p \in 1..size PROVE InPlace(b, i, p)
    BY <1>1, <1>2 DEF Whole
  <2>1. i + p - b[i].part = p
    BY <1>1, <1>2
  <2> QED
    BY <1>1, <1>2, <1>3, <2>1 DEF InPlace
<1>5. ASSUME NEW a \in Elements(b)
      PROVE  a.part \in 1..a.size /\ a.size = size /\ PartsIn(Elements(b), a) = 1..size
  <2>1. PICK i \in 1..size : a = b[i]
    BY <1>1 DEF Elements
  <2>2. a.part \in 1..a.size /\ a.size = size
    BY <1>2, <2>1
  <2>3. {c \in Elements(b) : SameCall(c, a)} = Elements(b)
    BY <1>1, <1>2, <2>1 DEF SameCall, Elements
  <2>4. {c.part : c \in Elements(b)} = 1..size
    BY <1>1, <1>2 DEF Elements
  <2> QED
    BY <2>2, <2>3, <2>4 DEF PartsIn
<1> QED
  BY <1>4, <1>5 DEF b

(* Whole calls behind whole calls.                                         *)
LEMMA ConcatWhole ==
  ASSUME NEW s \in Seq(Tasks), NEW t \in Seq(Tasks), Whole(s), Whole(t)
  PROVE  Whole(s \o t)
<1> DEFINE c == s \o t
<1>1. /\ DOMAIN c = 1..(Len(s) + Len(t)) /\ DOMAIN s = 1..Len(s)
      /\ DOMAIN t = 1..Len(t) /\ Len(s) \in Nat /\ Len(t) \in Nat
      /\ \A i \in 1..Len(s) : c[i] = s[i] /\ s[i] \in Tasks
      /\ \A i \in 1..Len(t) : c[Len(s) + i] = t[i] /\ t[i] \in Tasks
  OBVIOUS
<1> HIDE DEF c
<1> SUFFICES ASSUME NEW i \in DOMAIN c, NEW p \in 1..c[i].size
             PROVE  InPlace(c, i, p)
  BY DEF Whole, c
<1>2. CASE i \in 1..Len(s)
  <2>1. c[i] = s[i] /\ s[i].part \in Nat /\ p \in 1..s[i].size
    BY <1>1, <1>2, PartOfFacts
  <2>2. InPlace(s, i, p)
    BY <1>1, <1>2, <2>1 DEF Whole
  <2> QED
    BY <1>1, <2>1, <2>2 DEF InPlace
<1>3. CASE i \notin 1..Len(s)
  <2>1. PICK j \in 1..Len(t) : i = Len(s) + j
    <3>1. i - Len(s) \in 1..Len(t) /\ i = Len(s) + (i - Len(s))
      BY <1>1, <1>3
    <3> QED
      BY <3>1
  <2>2. c[i] = t[j] /\ t[j].part \in Nat /\ t[j].size \in Nat /\ p \in 1..t[j].size
    BY <1>1, <2>1, PartOfFacts
  <2>3. InPlace(t, j, p)
    BY <1>1, <2>2 DEF Whole
  <2>4. PICK k \in 1..Len(t) : k = j + p - t[j].part /\ t[k] = PartOf(t[j], p)
    BY <1>1, <2>3 DEF InPlace
  <2>5. i + p - c[i].part = Len(s) + k
    BY <1>1, <2>1, <2>2, <2>4
  <2>6. Len(s) + k \in DOMAIN c
    BY <1>1
  <2> QED
    BY <1>1, <2>2, <2>4, <2>5, <2>6 DEF InPlace
<1> QED
  BY <1>2, <1>3

(* Running the first task of what was taken leaves the rest of it.         *)
LEMMA TailRest ==
  ASSUME NEW s \in Seq(Tasks), s # <<>>, Rest(s)
  PROVE  Rest(Tail(s))
<1> DEFINE t == Tail(s)
<1>1. /\ Len(s) \in Nat \ {0}
      /\ DOMAIN s = 1..Len(s) /\ DOMAIN t = 1..(Len(s) - 1)
      /\ \A i \in 1..(Len(s) - 1) : t[i] = s[i + 1] /\ s[i + 1] \in Tasks
  OBVIOUS
<1> HIDE DEF t
<1> SUFFICES ASSUME NEW i \in DOMAIN t, NEW p \in 1..t[i].size,
                    i + p - t[i].part >= 1
             PROVE  InPlace(t, i, p)
  BY DEF Rest, t
<1>2. /\ t[i] = s[i + 1] /\ i + 1 \in DOMAIN s
      /\ s[i + 1].part \in Nat /\ s[i + 1].size \in Nat
      /\ p \in 1..s[i + 1].size
  BY <1>1, PartOfFacts
<1> DEFINE k == i + p - t[i].part
<1>3. k \in Int /\ k >= 1 /\ (i + 1) + p - s[i + 1].part = k + 1
  <2>1. i \in Int /\ p \in Int /\ k = i + p - s[i + 1].part
    BY <1>1, <1>2
  <2>2. k >= 1
    OBVIOUS
  <2>3. s[i + 1].part \in Int
    BY <1>2
  <2>4. \A x, y, z \in Int : x + y - z \in Int /\ (x + 1) + y - z = (x + y - z) + 1
    OBVIOUS
  <2> HIDE DEF k
  <2> QED
    BY <2>1, <2>2, <2>3, <2>4
<1> HIDE DEF k
<1>4. InPlace(s, i + 1, p)
  <2>1. (i + 1) + p - s[i + 1].part >= 1
    BY <1>3
  <2> QED
    BY <1>2, <2>1 DEF Rest
<1>5. k + 1 \in DOMAIN s /\ s[k + 1] = PartOf(s[i + 1], p)
  BY <1>3, <1>4 DEF InPlace
<1>6. k \in DOMAIN t /\ t[k] = s[k + 1]
  BY <1>1, <1>3, <1>5
<1> QED
  BY <1>2, <1>5, <1>6 DEF InPlace, k

(* Tasks of other calls do not count.                                      *)
LEMMA OtherCalls ==
  ASSUME NEW S, NEW T, NEW a, \A b \in T : ~SameCall(b, a)
  PROVE  /\ PartsIn(S \cup T, a) = PartsIn(S, a)
         /\ PartsIn(T, a) = {}
  BY DEF PartsIn

(* The parts of a call are those before and those that are new.            *)
LEMMA PartsUnion ==
  ASSUME NEW S, NEW T, NEW a
  PROVE  PartsIn(S \cup T, a) = PartsIn(S, a) \cup PartsIn(T, a)
  BY DEF PartsIn

(* It holds initially ..                                                   *)
LEMMA InitCallInv == Init => CallInv
<1> SUFFICES ASSUME Init PROVE CallInv
  OBVIOUS
<1>1. \A l \in Loops : /\ executed[l] = <<>> /\ tmptasks[l] = <<>> /\ tasks[l] = <<>>
  BY DEF Init
<1> QED
  BY <1>1, EmptySorted
     DEF CallInv, PartsInRange, QueueWhole, Whole, Rest, HeadIsNext, CallsRun

(* .. an inline call runs at once and disturbs no other ..                 *)
LEMMA RunInlineCallInv ==
  ASSUME Inv, CallInv, NEW l \in Loops, NEW size \in Sizes, RunInline(l, size)
  PROVE  CallInv'
<1> DEFINE b == Batch(l, size)
           S == Elements(executed[l])
           B == Elements(b)
<1>1. /\ executed' = [executed EXCEPT ![l] = @ \o b]
      /\ UNCHANGED <<tasks, tmptasks>>
      /\ Calls(l)
  BY DEF RunInline
<1>2. posts[l] \in Nat /\ posts[l] + 1 \in Nat /\ b = BatchOf(l, posts[l] + 1, size)
  BY DEF Batch, Inv, TypeOK
<1>3. /\ b \in Seq(Tasks)
      /\ \A c \in B : c.from = l /\ c.n = posts[l] + 1
  BY <1>2, BatchFacts
<1>4. \A c \in B : /\ c.part \in 1..c.size /\ c.size = size
                   /\ PartsIn(B, c) = 1..size
  BY <1>2, BatchWhole
<1> HIDE DEF b
<1>5. /\ executed[l] \in Seq(Tasks) /\ tmptasks[l] \in Seq(Tasks)
      /\ Elements(executed[l] \o b) = S \cup B
      /\ executed'[l] = executed[l] \o b
      /\ \A k \in Loops \ {l} : executed'[k] = executed[k]
  BY <1>1, <1>3, ConcatElements DEF Inv, TypeOK
<1> HIDE DEF S, B
<1>6. ASSUME NEW a \in S, NEW c \in B PROVE ~SameCall(a, c) /\ ~SameCall(c, a)
  <2>1. a \in Tasks /\ a.n <= posts[a.from]
    BY <1>5, ElementsIn DEF S, Inv, FromCalls
  <2>2. a.n \in Nat
    BY <2>1, PartOfFacts
  <2> QED
    BY <1>2, <1>3, <2>1, <2>2 DEF SameCall
<1>7. PartsInRange'
  BY <1>1, <1>4, <1>5 DEF S, CallInv, PartsInRange
<1>8. QueueWhole'
  BY <1>1 DEF CallInv, QueueWhole
<1>9. HeadIsNext'
  <2> SUFFICES ASSUME NEW k \in Loops, tmptasks[k] # <<>>
               PROVE  NextInCall(Elements(executed'[k]), tmptasks[k][1])
    BY <1>1 DEF HeadIsNext
  <2>1. NextInCall(Elements(executed[k]), tmptasks[k][1])
    BY DEF CallInv, HeadIsNext
  <2>2. CASE k # l
    BY <1>5, <2>1, <2>2
  <2>3. CASE k = l
    <3>1. tmptasks[l][1] \in Elements(tmptasks[l])
      BY <1>5, <2>3 DEF Elements
    <3>2. tmptasks[l][1].from # l
      BY <3>1 DEF Inv, FromOthers
    <3>3. \A c \in B : ~SameCall(c, tmptasks[l][1])
      BY <1>3, <3>2 DEF SameCall
    <3>4. PartsIn(S \cup B, tmptasks[l][1]) = PartsIn(S, tmptasks[l][1])
      BY <3>3 DEF PartsIn
    <3> QED
      BY <1>5, <2>1, <2>3, <3>3, <3>4 DEF NextInCall, S
  <2> QED
    BY <2>2, <2>3
<1>10. CallsRun'
  <2> SUFFICES ASSUME NEW k \in Loops, NEW a \in Elements(executed'[k])
               PROVE  \E m \in 1..a.size :
                        RunUpTo(Elements(executed'[k]), tmptasks[k], a, m)
    BY <1>1 DEF CallsRun
  <2>1. CASE k # l
    BY <1>5, <2>1 DEF CallInv, CallsRun
  <2>2. CASE k = l /\ a \in S
    <3>1. PICK m \in 1..a.size : RunUpTo(S, tmptasks[l], a, m)
      BY <2>2 DEF CallInv, CallsRun, S
    <3>2. PartsIn(S \cup B, a) = PartsIn(S, a)
      BY <1>6, <2>2, OtherCalls
    <3> QED
      BY <1>5, <2>2, <3>1, <3>2 DEF RunUpTo
  <2>3. CASE k = l /\ a \in B
    <3>1. PartsIn(S, a) = {}
      BY <1>6, <2>3, OtherCalls
    <3>2. PartsIn(S \cup B, a) = 1..size
      <4>1. PartsIn(S \cup B, a) = PartsIn(S, a) \cup PartsIn(B, a)
        BY PartsUnion
      <4> QED
        BY <1>4, <2>3, <3>1, <4>1
    <3>3. size \in 1..a.size /\ a.size = size
      BY <1>4, <2>3, TaskQueueAssumption
    <3>4. RunUpTo(S \cup B, tmptasks[l], a, size)
      BY <3>2, <3>3, TaskQueueAssumption DEF RunUpTo
    <3> QED
      BY <1>5, <2>3, <3>3, <3>4
  <2> QED
    BY <1>5, <2>1, <2>2, <2>3
<1> QED
  BY <1>7, <1>8, <1>9, <1>10 DEF CallInv

(* .. a call is queued whole ..                                            *)
LEMMA QueueInLoopCallInv ==
  ASSUME Inv, CallInv, NEW t \in Loops, NEW l \in Loops, NEW size \in Sizes,
         QueueInLoop(t, l, size)
  PROVE  CallInv'
<1> DEFINE b == Batch(t, size)
<1>1. /\ tasks' = [tasks EXCEPT ![l] = @ \o b]
      /\ UNCHANGED <<tmptasks, executed>>
  BY DEF QueueInLoop
<1>2. posts[t] + 1 \in Nat /\ b = BatchOf(t, posts[t] + 1, size)
  BY DEF Batch, Inv, TypeOK
<1>3. b \in Seq(Tasks) /\ Whole(b) /\ \A c \in Elements(b) : c.part \in 1..c.size
  BY <1>2, BatchFacts, BatchWhole
<1> HIDE DEF b
<1>4. /\ tasks[l] \in Seq(Tasks)
      /\ Elements(tasks[l] \o b) = Elements(tasks[l]) \cup Elements(b)
      /\ tasks'[l] = tasks[l] \o b
      /\ \A k \in Loops \ {l} : tasks'[k] = tasks[k]
  BY <1>1, <1>3, ConcatElements DEF Inv, TypeOK
<1>5. Whole(tasks[l] \o b)
  BY <1>3, <1>4, ConcatWhole DEF CallInv, QueueWhole
<1>6. PartsInRange'
  BY <1>1, <1>3, <1>4 DEF CallInv, PartsInRange
<1>7. QueueWhole'
  BY <1>1, <1>4, <1>5 DEF CallInv, QueueWhole
<1>8. HeadIsNext' /\ CallsRun'
  BY <1>1 DEF CallInv, HeadIsNext, CallsRun
<1> QED
  BY <1>6, <1>7, <1>8 DEF CallInv

(* .. a first task of a list whose calls are whole begins its call ..      *)
LEMMA FirstBegins ==
  ASSUME NEW S \in SUBSET Tasks, NEW s \in Seq(Tasks), s # <<>>,
         \A a \in S : a.part \in 1..a.size,
         s[1].part = 1, \A a \in S : Before(a, s[1])
  PROVE  NextInCall(S, s[1])
<1>1. \A a \in S : ~SameCall(a, s[1])
  <2> SUFFICES ASSUME NEW a \in S, SameCall(a, s[1]) PROVE FALSE
    OBVIOUS
  <2>1. a \in Tasks /\ a.part \in Nat /\ a.size \in Nat /\ a.n \in Nat
    BY PartOfFacts
  <2>2. a.part >= 1
    BY <2>1
  <2> QED
    BY <2>1, <2>2 DEF Before, SameCall
<1>2. PartsIn(S, s[1]) = {}
  BY <1>1, OtherCalls
<1>3. 1..(s[1].part - 1) = {}
  OBVIOUS
<1> QED
  BY <1>1, <1>2, <1>3 DEF NextInCall

(* .. so that what is taken starts with a first task ..                    *)
LEMMA SwapCallInv ==
  ASSUME Inv, CallInv, NEW l \in Loops, Swap(l)
  PROVE  CallInv'
<1>1. /\ pc[l] = "pending"
      /\ tmptasks' = [tmptasks EXCEPT ![l] = tasks[l]]
      /\ tasks' = [tasks EXCEPT ![l] = <<>>]
      /\ UNCHANGED executed
  BY DEF Swap
<1>2. /\ tmptasks'[l] = tasks[l] /\ tasks'[l] = <<>>
      /\ \A k \in Loops \ {l} : tmptasks'[k] = tmptasks[k] /\ tasks'[k] = tasks[k]
      /\ tmptasks[l] = <<>>
      /\ tasks[l] \in Seq(Tasks) /\ executed[l] \in Seq(Tasks)
  BY <1>1 DEF Inv, TypeOK, NothingTaken
<1>3. PartsInRange'
  BY <1>1, <1>2, EmptySorted DEF CallInv, PartsInRange
<1>4. QueueWhole'
  <2>1. Whole(<<>>)
    BY DEF Whole
  <2>2. Whole(tasks[l]) => Rest(tasks[l])
    BY DEF Whole, Rest
  <2> QED
    BY <1>2, <2>1, <2>2 DEF CallInv, QueueWhole
<1>5. HeadIsNext'
  <2> SUFFICES ASSUME tasks[l] # <<>>
               PROVE  NextInCall(Elements(executed[l]), tasks[l][1])
    BY <1>1, <1>2 DEF CallInv, HeadIsNext
  <2> DEFINE h == tasks[l][1]
  <2>1. 1 \in DOMAIN tasks[l] /\ h \in Elements(tasks[l]) /\ h \in Tasks
    BY <1>2 DEF Elements
  <2>2. h.part \in 1..h.size /\ h.part \in Nat /\ h.size \in Nat
    BY <2>1, PartOfFacts DEF CallInv, PartsInRange
  <2>3. 1 \in 1..h.size
    BY <2>2
  <2>4. 1 + 1 - h.part \in DOMAIN tasks[l]
    BY <2>1, <2>3 DEF CallInv, QueueWhole, Whole, InPlace
  <2>5. DOMAIN tasks[l] \subseteq Nat \ {0}
    BY <1>2
  <2> HIDE DEF h
  <2>6. h.part = 1
    BY <2>2, <2>4, <2>5
  <2>7. \A a \in Elements(executed[l]) : Before(a, h) /\ a.part \in 1..a.size
    BY <2>1 DEF Inv, CallOrder, Precede, CallInv, PartsInRange
  <2> QED
    BY <1>2, <2>6, <2>7, FirstBegins, ElementsIn DEF h
<1>6. CallsRun'
  <2> SUFFICES ASSUME NEW k \in Loops, NEW a \in Elements(executed[k])
               PROVE  \E m \in 1..a.size :
                        RunUpTo(Elements(executed[k]), tmptasks'[k], a, m)
    BY <1>1 DEF CallsRun
  <2>1. PICK m \in 1..a.size : RunUpTo(Elements(executed[k]), tmptasks[k], a, m)
    BY DEF CallInv, CallsRun
  <2>2. CASE k # l
    BY <1>2, <2>1, <2>2
  <2>3. CASE k = l
    BY <1>2, <2>1, <2>3 DEF RunUpTo
  <2> QED
    BY <2>2, <2>3
<1> QED
  BY <1>3, <1>4, <1>5, <1>6 DEF CallInv

(* .. after a task the next of its call is first, or that of a new call .. *)
LEMMA NextAfterHead ==
  ASSUME NEW S \in SUBSET Tasks, NEW s \in Seq(Tasks), s # <<>>,
         Rest(s), Sorted(s), NextInCall(S, s[1]),
         \A a \in S : \A b \in Elements(s) : Before(a, b),
         \A a \in S \cup Elements(s) : a.part \in 1..a.size
  PROVE  /\ PartsIn(S \cup {s[1]}, s[1]) = 1..s[1].part
         /\ s[1].part < s[1].size =>
              Tail(s) # <<>> /\ Tail(s)[1] = PartOf(s[1], s[1].part + 1)
         /\ Tail(s) # <<>> => NextInCall(S \cup {s[1]}, Tail(s)[1])
<1> DEFINE h == s[1]
           T == S \cup {h}
<1>1. /\ Len(s) \in Nat \ {0} /\ DOMAIN s = 1..Len(s)
      /\ Tail(s) \in Seq(Tasks)
      /\ Len(Tail(s)) = Len(s) - 1
      /\ Tail(s) # <<>> <=> Len(s) > 1
      /\ Len(s) > 1 => Tail(s)[1] = s[2]
  <2>1. /\ Len(s) \in Nat \ {0} /\ DOMAIN s = 1..Len(s)
        /\ Tail(s) \in Seq(Tasks)
        /\ Len(Tail(s)) = Len(s) - 1
        /\ \A i \in 1..(Len(s) - 1) : Tail(s)[i] = s[i + 1]
    OBVIOUS
  <2>2. Tail(s) = <<>> <=> Len(Tail(s)) = 0
    BY <2>1, EmptySeq
  <2>3. Len(s) > 1 => 1 \in 1..(Len(s) - 1) /\ 1 + 1 = 2
    BY <2>1
  <2>4. Len(s) > 1 => Tail(s)[1] = s[2]
    BY <2>1, <2>3
  <2>5. Tail(s) # <<>> <=> Len(s) > 1
    BY <2>1, <2>2
  <2> QED
    BY <2>1, <2>4, <2>5
<1>2. h \in Elements(s) /\ h \in Tasks
  BY <1>1 DEF Elements
<1>3. h.part \in 1..h.size /\ h.part \in Nat /\ h.size \in Nat
  BY <1>2, PartOfFacts
<1>4. PartsIn({h}, h) = {h.part}
  BY DEF PartsIn, SameCall
<1>5. PartsIn(T, h) = 1..h.part
  <2>1. PartsIn(T, h) = PartsIn(S, h) \cup PartsIn({h}, h)
    BY PartsUnion
  <2>2. PartsIn(S, h) = 1..(h.part - 1)
    BY DEF NextInCall
  <2>3. \A q \in Nat \ {0} : (1..(q - 1)) \cup {q} = 1..q
    OBVIOUS
  <2>4. h.part \in Nat \ {0}
    BY <1>3
  <2> QED
    BY <1>4, <2>1, <2>2, <2>3, <2>4
<1>6. ASSUME h.part < h.size
      PROVE  Tail(s) # <<>> /\ Tail(s)[1] = PartOf(h, h.part + 1)
  <2>1. 1 \in DOMAIN s /\ h.part + 1 \in 1..h.size /\ 1 + (h.part + 1) - h.part = 2
    BY <1>1, <1>3, <1>6
  <2>2. InPlace(s, 1, h.part + 1)
    BY <2>1 DEF Rest
  <2>3. 2 \in DOMAIN s /\ s[2] = PartOf(h, h.part + 1)
    BY <2>1, <2>2 DEF InPlace
  <2> QED
    BY <1>1, <2>3
<1>7. ASSUME Tail(s) # <<>> PROVE NextInCall(T, Tail(s)[1])
  <2> DEFINE g == s[2]
  <2>1. /\ Tail(s)[1] = g /\ g \in Tasks /\ g \in Elements(s)
        /\ 2 \in DOMAIN s /\ 1 \in DOMAIN s
    BY <1>1, <1>7 DEF Elements
  <2>2. /\ g.part \in 1..g.size /\ g.part \in Nat /\ g.size \in Nat
        /\ Before(h, g)
    BY <2>1, PartOfFacts DEF Sorted
  <2>3. CASE g.part = 1
    <3>1. \A a \in T : Before(a, g) /\ a.part \in 1..a.size
      BY <1>2, <2>1, <2>2
    <3>2. T \in SUBSET Tasks
      BY <1>2
    <3> QED
      BY <1>1, <1>7, <2>1, <2>3, <3>1, <3>2, FirstBegins
  <2>4. CASE g.part # 1
    <3>1. /\ g.part - 1 \in 1..g.size /\ g.part - 1 \in Nat
          /\ 2 + (g.part - 1) - g.part = 1
      BY <2>2, <2>4
    <3>2. 2 + (g.part - 1) - g.part >= 1
      BY <3>1
    <3>3. InPlace(s, 2, g.part - 1)
      BY <2>1, <3>1, <3>2 DEF Rest
    <3>4. h = PartOf(g, g.part - 1)
      BY <3>1, <3>3 DEF InPlace
    <3>5. h.from = g.from /\ h.n = g.n /\ h.size = g.size /\ h.part = g.part - 1
      BY <2>1, <3>1, <3>4, PartOfFacts
    <3>6. \A a : SameCall(a, g) <=> SameCall(a, h)
      BY <3>5 DEF SameCall
    <3>7. PartsIn(T, g) = PartsIn(T, h)
      BY <3>6 DEF PartsIn
    <3>8. \A a \in T : SameCall(a, g) => a.size = g.size
      BY <3>5, <3>6 DEF NextInCall
    <3> QED
      BY <1>5, <2>1, <3>5, <3>7, <3>8 DEF NextInCall
  <2> QED
    BY <2>3, <2>4
<1> QED
  BY <1>5, <1>6, <1>7

(* .. running a task runs the next of its call ..                          *)
LEMMA RunTaskCallInv ==
  ASSUME Inv, CallInv, NEW l \in Loops, RunTask(l)
  PROVE  CallInv'
<1> DEFINE s == tmptasks[l]
           h == s[1]
           S == Elements(executed[l])
           T == S \cup {h}
<1>1. /\ executed' = [executed EXCEPT ![l] = Append(@, Head(s))]
      /\ tmptasks' = [tmptasks EXCEPT ![l] = Tail(@)]
      /\ s # <<>>
      /\ UNCHANGED tasks
  BY DEF RunTask
<1>2. /\ s \in Seq(Tasks) /\ executed[l] \in Seq(Tasks)
      /\ Head(s) = h /\ h \in Tasks /\ h \in Elements(s)
      /\ Tail(s) \in Seq(Tasks)
      /\ Elements(s) = {h} \cup Elements(Tail(s))
  BY <1>1, HeadIn, TailElements DEF Inv, TypeOK
<1>3. /\ executed'[l] = Append(executed[l], h)
      /\ Elements(executed'[l]) = T
      /\ tmptasks'[l] = Tail(s)
      /\ \A k \in Loops \ {l} : /\ executed'[k] = executed[k]
                                /\ tmptasks'[k] = tmptasks[k]
  BY <1>1, <1>2, AppendElements DEF Inv, TypeOK
<1>4. /\ S \in SUBSET Tasks /\ Rest(s) /\ Sorted(s) /\ NextInCall(S, h)
      /\ \A a \in S : \A b \in Elements(s) : Before(a, b)
      /\ \A a \in S \cup Elements(s) : a.part \in 1..a.size
  BY <1>1, <1>2, ElementsIn
     DEF Inv, CallOrder, Precede, CallInv, QueueWhole, HeadIsNext, PartsInRange
<1>5. /\ PartsIn(T, h) = 1..h.part
      /\ h.part < h.size => Tail(s) # <<>> /\ Tail(s)[1] = PartOf(h, h.part + 1)
      /\ Tail(s) # <<>> => NextInCall(T, Tail(s)[1])
      /\ h.part \in 1..h.size /\ h.part \in Nat /\ h.size \in Nat
  BY <1>1, <1>2, <1>4, NextAfterHead, PartOfFacts
<1>6. PartsInRange'
  BY <1>1, <1>2, <1>3 DEF CallInv, PartsInRange
<1>7. QueueWhole'
  BY <1>1, <1>2, <1>3, <1>4, TailRest DEF CallInv, QueueWhole
<1>8. HeadIsNext'
  BY <1>3, <1>5 DEF CallInv, HeadIsNext
<1>9. CallsRun'
  <2> SUFFICES ASSUME NEW k \in Loops, NEW a \in Elements(executed'[k])
               PROVE  \E m \in 1..a.size :
                        RunUpTo(Elements(executed'[k]), tmptasks'[k], a, m)
    BY DEF CallsRun
  <2>1. CASE k # l
    BY <1>3, <2>1 DEF CallInv, CallsRun
  <2>2. CASE k = l
    <3> HIDE DEF s, h, S
    <3>1. ASSUME NEW c \in T, SameCall(c, h), c = PartOf(h, c.part)
          PROVE  RunUpTo(T, Tail(s), c, h.part) /\ h.part \in 1..c.size
      <4>1. c.size = h.size /\ c.part \in Nat
        <5>1. c.size = h.size
          BY <1>4, <3>1 DEF NextInCall
        <5> QED
          BY <1>2, <1>4, <5>1, PartOfFacts
      <4>2. PartsIn(T, c) = PartsIn(T, h)
        BY <3>1 DEF PartsIn, SameCall
      <4>3. PartOf(c, h.part + 1) = PartOf(h, h.part + 1)
        BY <1>2, <1>5, <3>1, <4>1, PartOfFacts
      <4> QED
        BY <1>5, <4>1, <4>2, <4>3 DEF RunUpTo
    <3>2. ASSUME NEW c \in T, SameCall(c, h) PROVE c = PartOf(h, c.part)
      <4>1. c \in Tasks /\ c.size = h.size /\ c.from = h.from /\ c.n = h.n
        BY <1>2, <1>4, <3>2 DEF NextInCall, SameCall
      <4> QED
        BY <1>2, <4>1 DEF PartOf, Tasks
    <3>3. CASE SameCall(a, h)
      BY <1>3, <2>2, <3>1, <3>2, <3>3
    <3>4. CASE ~SameCall(a, h)
      <4>1. a \in S /\ a \in Tasks /\ a.size \in Nat
        BY <1>2, <1>3, <1>4, <2>2, <3>4, PartOfFacts DEF SameCall
      <4>2. PICK m \in 1..a.size : RunUpTo(S, s, a, m)
        BY <4>1 DEF CallInv, CallsRun, S, s
      <4>3. m = a.size
        <5> SUFFICES ASSUME m < a.size PROVE FALSE
          BY <4>1
        <5>1. h = PartOf(a, m + 1) /\ m + 1 \in Nat
          BY <4>1, <4>2 DEF RunUpTo, h
        <5>2. SameCall(a, h)
          BY <4>1, <5>1, PartOfFacts DEF SameCall
        <5> QED
          BY <3>4, <5>2
      <4>4. PartsIn(T, a) = PartsIn(S, a)
        BY <3>4 DEF PartsIn, SameCall
      <4>5. RunUpTo(T, Tail(s), a, m)
        BY <4>1, <4>2, <4>3, <4>4 DEF RunUpTo
      <4> QED
        BY <1>3, <2>2, <4>5 DEF s
    <3> QED
      BY <3>3, <3>4
  <2> QED
    BY <2>1, <2>2
<1> QED
  BY <1>6, <1>7, <1>8, <1>9 DEF CallInv

(* .. and every step keeps it.                                             *)
LEMMA NextCallInv == Inv /\ CallInv /\ [Next]_vars => CallInv'
<1> SUFFICES ASSUME Inv, CallInv, [Next]_vars PROVE CallInv'
  OBVIOUS
<1>1. ASSUME NEW l \in Loops, NEW size \in Sizes, RunInline(l, size) PROVE CallInv'
  BY <1>1, RunInlineCallInv
<1>2. ASSUME NEW l \in Loops, NEW t \in Loops, NEW size \in Sizes,
             QueueInLoop(t, l, size)
      PROVE  CallInv'
  BY <1>2, QueueInLoopCallInv
<1>3. ASSUME NEW l \in Loops, Swap(l) PROVE CallInv'
  BY <1>3, SwapCallInv
<1>4. ASSUME NEW l \in Loops, RunTask(l) PROVE CallInv'
  BY <1>4, RunTaskCallInv
<1>5. ASSUME UNCHANGED <<tasks, tmptasks, executed>> PROVE CallInv'
  BY <1>5 DEF CallInv, PartsInRange, QueueWhole, HeadIsNext, CallsRun
<1>6. ASSUME NEW l \in Loops, NEW t \in Loops,
             \/ WaitWoken(l) \/ WaitOther(l) \/ ReadEventFd(l) \/ EventsDone(l)
             \/ RunDone(l) \/ Wakeup(t, l)
      PROVE  UNCHANGED <<tasks, tmptasks, executed>>
  BY <1>6 DEF WaitWoken, WaitOther, ReadEventFd, EventsDone, RunDone, Wakeup
<1>7. CASE UNCHANGED vars
  BY <1>5, <1>7 DEF vars
<1> QED
  BY <1>1, <1>2, <1>3, <1>4, <1>5, <1>6, <1>7 DEF Next, LoopStep

(* The invariant says of a call that has begun that the rest of it is what *)
(* the loop runs next.                                                     *)
LEMMA CallInvTogether == Inv /\ CallInv => BatchTogether
<1> SUFFICES ASSUME Inv, CallInv, NEW l \in Loops, NEW i \in DOMAIN executed[l]
             PROVE  LET a == executed[l][i]
                        done == {executed[l][j].part : j \in {k \in DOMAIN executed[l] :
                                   executed[l][k].from = a.from /\ executed[l][k].n = a.n}}
                    IN  done # 1..a.size =>
                          /\ pc[l] = "run"
                          /\ \A p \in 1..a.size \ done :
                               LET k == p - Cardinality(done)
                               IN  /\ k \in DOMAIN tmptasks[l]
                                   /\ tmptasks[l][k] = [a EXCEPT !.part = p]
  BY DEF BatchTogether
<1> DEFINE a == executed[l][i]
           s == tmptasks[l]
           done == {executed[l][j].part : j \in {k \in DOMAIN executed[l] :
                      executed[l][k].from = a.from /\ executed[l][k].n = a.n}}
<1>0. PartsIn(Elements(executed[l]), a) = done
  BY DEF PartsIn, SameCall, Elements
<1>1. a \in Elements(executed[l]) /\ a \in Tasks /\ s \in Seq(Tasks)
  BY DEF Elements, Inv, TypeOK
<1>2. PICK m \in 1..a.size : RunUpTo(Elements(executed[l]), s, a, m)
  BY <1>1 DEF CallInv, CallsRun
<1> HIDE DEF a, done
<1>3. a.size \in Nat /\ m \in Nat /\ done = 1..m
  BY <1>0, <1>1, <1>2, PartOfFacts DEF RunUpTo
<1>4. Cardinality(done) = m
  <2>1. Cardinality(1..m) = IF 1 > m THEN 0 ELSE m - 1 + 1
    BY <1>3, FS_Interval
  <2> QED
    BY <1>2, <1>3, <2>1
<1> SUFFICES ASSUME done # 1..a.size
             PROVE  /\ pc[l] = "run"
                    /\ \A p \in 1..a.size \ done :
                         /\ p - m \in DOMAIN s
                         /\ s[p - m] = PartOf(a, p)
  BY <1>4 DEF a, done, PartOf
<1>5. m < a.size
  BY <1>3
<1>6. s # <<>> /\ s[1] = PartOf(a, m + 1) /\ 1 \in DOMAIN s
  BY <1>1, <1>2, <1>5 DEF RunUpTo
<1>7. pc[l] = "run"
  BY <1>6 DEF Inv, TypeOK, NothingTaken
<1>8. s[1].part = m + 1 /\ s[1].size = a.size
  BY <1>1, <1>3, <1>6, PartOfFacts
<1>9. ASSUME NEW p \in 1..a.size \ done
      PROVE  p - m \in DOMAIN s /\ s[p - m] = PartOf(a, p)
  <2>1. p \in Nat /\ 1 + p - s[1].part = p - m /\ p - m >= 1
    BY <1>3, <1>8, <1>9
  <2>2. InPlace(s, 1, p)
    BY <1>6, <1>8, <2>1 DEF CallInv, QueueWhole, Rest
  <2>3. PartOf(s[1], p) = PartOf(a, p)
    BY <1>1, <1>3, <1>6, <2>1, PartOfFacts
  <2> QED
    BY <2>1, <2>2, <2>3 DEF InPlace
<1> QED
  BY <1>7, <1>9

(* The tasks of one call run together: whoever sees the first done sees    *)
(* nothing else on that loop before the last (EventLoop.cpp:97-145).       *)
THEOREM CallsRunTogether == Spec => []BatchTogether
  BY InitInv, NextInv, InitCallInv, NextCallInv, CallInvTogether, PTL DEF Spec

----------------------------------------------------------------------------
(* A loop is a mailbox.                                                    *)

(* The mail of a loop is a sequence of tasks.                              *)
LEMMA MailFacts ==
  ASSUME TypeOK, NEW l \in Loops
  PROVE  /\ Mail[l] = tmptasks[l] \o tasks[l]
         /\ Elements(Mail[l]) = Elements(tmptasks[l]) \cup Elements(tasks[l])
  BY ConcatElements DEF Mail, TypeOK

(* The tasks of a call are new to the mailbox.                             *)
LEMMA CallIsFresh ==
  ASSUME Inv, NEW t \in Loops, NEW size \in Sizes, Calls(t)
  PROVE  Batch(t, size) \in Batches /\ Abstract!Fresh(Batch(t, size))
<1>1. Batch(t, size) \in Batches
  BY NewCall
<1>2. ASSUME NEW l \in Loops
      PROVE  Elements(Batch(t, size)) \cap (Elements(Mail[l]) \cup Elements(executed[l])) = {}
  <2>1. Elements(Mail[l]) = Elements(tmptasks[l]) \cup Elements(tasks[l])
    BY MailFacts DEF Inv
  <2>2. /\ Elements(Batch(t, size)) \cap Elements(executed[l]) = {}
        /\ Elements(Batch(t, size)) \cap Elements(tmptasks[l]) = {}
        /\ Elements(Batch(t, size)) \cap Elements(tasks[l]) = {}
    BY NewCall
  <2> QED
    BY <2>1, <2>2
<1> QED
  BY <1>1, <1>2 DEF Abstract!Fresh, Abstract!Elements, Elements

(* What is queued behind the queue is queued behind the mail.              *)
LEMMA ConcatLast ==
  ASSUME NEW S, NEW s \in Seq(S), NEW t \in Seq(S), NEW u \in Seq(S)
  PROVE  s \o (t \o u) = (s \o t) \o u
<1> (s \o t) \o u = s \o (t \o u)
  BY ConcatAssociative
<1> QED
  OBVIOUS

(* queueInLoop is a Post of Mailbox.                                       *)
LEMMA QueueInLoopPosts ==
  ASSUME Inv, NEW t \in Loops, NEW l \in Loops, NEW size \in Sizes,
         QueueInLoop(t, l, size)
  PROVE  Abstract!Post(l, Batch(t, size))
<1> DEFINE b == Batch(t, size)
<1>1. /\ tasks' = [tasks EXCEPT ![l] = @ \o b]
      /\ UNCHANGED <<tmptasks, executed>>
      /\ b \in Seq(Tasks)
  BY NewCall DEF QueueInLoop
<1> HIDE DEF b
<1>2. /\ tasks \in [Loops -> Seq(Tasks)] /\ tmptasks \in [Loops -> Seq(Tasks)]
  BY DEF Inv, TypeOK
<1>3. tasks'[l] = tasks[l] \o b /\ \A k \in Loops \ {l} : tasks'[k] = tasks[k]
  BY <1>1, <1>2
<1>4. tmptasks[l] \o (tasks[l] \o b) = (tmptasks[l] \o tasks[l]) \o b
  <2>1. tmptasks[l] \in Seq(Tasks) /\ tasks[l] \in Seq(Tasks) /\ b \in Seq(Tasks)
    BY <1>1, <1>2
  <2>2. \A x, y, z \in Seq(Tasks) : x \o (y \o z) = (x \o y) \o z
    BY ConcatLast
  <2> DEFINE x == tmptasks[l]
             y == tasks[l]
  <2> HIDE DEF x, y
  <2>3. x \in Seq(Tasks) /\ y \in Seq(Tasks)
    BY <2>1 DEF x, y
  <2>4. x \o (y \o b) = (x \o y) \o b
    BY <2>1, <2>2, <2>3
  <2> QED
    BY <2>4 DEF x, y
<1>5. ASSUME NEW k \in Loops
      PROVE  tmptasks'[k] \o tasks'[k] =
               IF k = l THEN (tmptasks[l] \o tasks[l]) \o b ELSE tmptasks[k] \o tasks[k]
  <2>1. CASE k = l
    BY <1>1, <1>3, <1>4, <2>1
  <2>2. CASE k # l
    <3>1. tmptasks'[k] = tmptasks[k] /\ tasks'[k] = tasks[k]
      BY <1>1, <1>3, <2>2
    <3> QED
      BY <2>2, <3>1
  <2> QED
    BY <2>1, <2>2
<1>6. Mail' = [Mail EXCEPT ![l] = @ \o b]
  BY <1>5 DEF Mail
<1> QED
  BY <1>1, <1>6 DEF Abstract!Post, b

(* do_pending_task's swap changes nothing that Mailbox sees.               *)
LEMMA SwapStutters ==
  ASSUME Inv, NEW l \in Loops, Swap(l)
  PROVE  UNCHANGED <<Mail, executed>>
<1>1. /\ tmptasks' = [tmptasks EXCEPT ![l] = tasks[l]]
      /\ tasks' = [tasks EXCEPT ![l] = <<>>]
      /\ UNCHANGED executed
      /\ tmptasks[l] = <<>>
  BY DEF Swap, Inv, TypeOK, NothingTaken
<1>2. /\ tasks \in [Loops -> Seq(Tasks)] /\ tmptasks \in [Loops -> Seq(Tasks)]
  BY DEF Inv, TypeOK
<1>3. tasks[l] \o <<>> = tasks[l] /\ <<>> \o tasks[l] = tasks[l]
  BY <1>2, ConcatEmptySeq
<1>4. ASSUME NEW k \in Loops PROVE tmptasks'[k] \o tasks'[k] = tmptasks[k] \o tasks[k]
  BY <1>1, <1>2, <1>3
<1> QED
  BY <1>1, <1>4 DEF Mail

(* Running a task is a Run of Mailbox: it is the first of the mail.        *)
LEMMA RunTaskRunsFirst ==
  ASSUME Inv, NEW l \in Loops, RunTask(l)
  PROVE  Abstract!RunFirst(l)
<1>1. /\ tmptasks[l] # <<>>
      /\ executed' = [executed EXCEPT ![l] = Append(@, Head(tmptasks[l]))]
      /\ tmptasks' = [tmptasks EXCEPT ![l] = Tail(@)]
      /\ UNCHANGED tasks
  BY DEF RunTask
<1>2. /\ tmptasks \in [Loops -> Seq(Tasks)]
      /\ tmptasks[l] \in Seq(Tasks) /\ tasks[l] \in Seq(Tasks)
  BY DEF Inv, TypeOK
<1>3. /\ tmptasks[l] \o tasks[l] # <<>>
      /\ Head(tmptasks[l] \o tasks[l]) = Head(tmptasks[l])
      /\ Tail(tmptasks[l] \o tasks[l]) = Tail(tmptasks[l]) \o tasks[l]
  BY <1>1, <1>2
<1>4. Mail' = [Mail EXCEPT ![l] = Tail(@)]
  BY <1>1, <1>2, <1>3 DEF Mail
<1> QED
  BY <1>1, <1>3, <1>4, MailFacts DEF Abstract!RunFirst, Inv

(* Every step is a step of Mailbox or changes nothing that it sees.        *)
LEMMA NextMailbox == Inv /\ [Next]_vars => [Abstract!Next]_(Abstract!vars)
<1> SUFFICES ASSUME Inv, [Next]_vars
             PROVE  [Abstract!Next]_(Abstract!vars)
  OBVIOUS
<1>1. ASSUME NEW l \in Loops, NEW size \in Sizes, RunInline(l, size)
      PROVE  Abstract!Next
  <2>1. Abstract!RunAtOnce(l, Batch(l, size))
    BY <1>1 DEF RunInline, Abstract!RunAtOnce, Mail
  <2> QED
    BY <1>1, <2>1, CallIsFresh DEF RunInline, Abstract!Next
<1>2. ASSUME NEW l \in Loops, NEW t \in Loops, NEW size \in Sizes,
             QueueInLoop(t, l, size)
      PROVE  Abstract!Next
  BY <1>2, CallIsFresh, QueueInLoopPosts DEF QueueInLoop, Abstract!Next
<1>3. ASSUME NEW l \in Loops, RunTask(l) PROVE Abstract!Next
  BY <1>3, RunTaskRunsFirst DEF Abstract!Next
<1>4. ASSUME NEW l \in Loops, Swap(l) PROVE UNCHANGED Abstract!vars
  BY <1>4, SwapStutters DEF Abstract!vars
<1>5. ASSUME NEW l \in Loops, NEW t \in Loops, Wakeup(t, l)
      PROVE  UNCHANGED Abstract!vars
  BY <1>5 DEF Wakeup, Mail, Abstract!vars
<1>6. ASSUME NEW l \in Loops,
             WaitWoken(l) \/ WaitOther(l) \/ ReadEventFd(l) \/ EventsDone(l)
               \/ RunDone(l)
      PROVE  UNCHANGED Abstract!vars
  BY <1>6 DEF WaitWoken, WaitOther, ReadEventFd, EventsDone, RunDone, Mail,
              Abstract!vars
<1>7. CASE UNCHANGED vars
  BY <1>7 DEF vars, Mail, Abstract!vars
<1> QED
  BY <1>1, <1>2, <1>3, <1>4, <1>5, <1>6, <1>7 DEF Next, LoopStep

(* The initial states are those of Mailbox.                                *)
LEMMA InitMailbox == Init => Abstract!Init
<1> SUFFICES ASSUME Init PROVE Abstract!Init
  OBVIOUS
<1>1. <<>> \o <<>> = <<>>
  OBVIOUS
<1>2. Mail = [l \in Loops |-> <<>>]
  BY <1>1 DEF Mail, Init
<1> QED
  BY <1>2 DEF Init, Abstract!Init

(* EventLoop implements Mailbox: what is handed over runs once, in order   *)
(* and by the loop it was handed to, and nothing else runs                 *)
(* (EventLoop.cpp:97-145).                                                 *)
THEOREM IsAMailbox == Spec => IsMailbox
  BY InitMailbox, InitInv, NextInv, NextMailbox, PTL
     DEF Spec, IsMailbox, Abstract!Safety

----------------------------------------------------------------------------
(* Every task runs once.                                                   *)

(* All that loop l has run or was handed and has still to run.             *)
Given(l) == Elements(executed[l]) \cup Elements(Mail[l])

(* No task was handed to two loops.                                        *)
Apart == \A l, m \in Loops : l # m => Given(l) \cap Given(m) = {}

LEMMA MailTypes ==
  ASSUME TypeOK
  PROVE  /\ Mail \in [Loops -> Seq(Tasks)] /\ executed \in [Loops -> Seq(Tasks)]
  BY DEF TypeOK, Mail

(* A call adds its tasks to one loop, a loop that runs a task keeps it.    *)
LEMMA GivenGrows ==
  ASSUME TypeOK, TypeOK', Abstract!Next
  PROVE  \E l \in Loops, new \in SUBSET Tasks :
           /\ \A m \in Loops : new \cap Given(m) = {}
           /\ \A m \in Loops : Given(m)' = IF m = l THEN Given(m) \cup new ELSE Given(m)
<1>0. /\ Mail \in [Loops -> Seq(Tasks)] /\ executed \in [Loops -> Seq(Tasks)]
      /\ Mail' \in [Loops -> Seq(Tasks)] /\ executed' \in [Loops -> Seq(Tasks)]
  BY MailTypes DEF TypeOK, Mail
<1>1. ASSUME NEW l \in Loops, Abstract!RunFirst(l)
      PROVE  \A m \in Loops : Given(m)' = Given(m)
  <2>1. /\ Mail[l] # <<>> /\ Mail' = [Mail EXCEPT ![l] = Tail(Mail[l])]
        /\ executed' = [executed EXCEPT ![l] = Append(executed[l], Head(Mail[l]))]
    BY <1>1 DEF Abstract!RunFirst
  <2>2. /\ Mail[l] \in Seq(Tasks) /\ executed[l] \in Seq(Tasks)
        /\ Mail'[l] = Tail(Mail[l])
        /\ executed'[l] = Append(executed[l], Head(Mail[l]))
    BY <1>0, <2>1
  <2>3. Elements(Mail[l]) = {Head(Mail[l])} \cup Elements(Mail'[l])
    BY <2>1, <2>2, TailElements
  <2>4. Elements(executed'[l]) = Elements(executed[l]) \cup {Head(Mail[l])}
    <3>1. Head(Mail[l]) \in Tasks
      BY <2>1, <2>2, HeadIn
    <3> QED
      BY <2>2, <3>1, AppendElements
  <2>5. Given(l)' = Given(l)
    BY <2>3, <2>4 DEF Given, Elements
  <2>6. ASSUME NEW m \in Loops, m # l PROVE Given(m)' = Given(m)
    <3>1. Mail'[m] = Mail[m] /\ executed'[m] = executed[m]
      BY <1>0, <2>1, <2>6
    <3> QED
      BY <3>1 DEF Given, Elements
  <2> QED
    BY <2>5, <2>6
<1>2. ASSUME NEW l \in Loops, NEW batch \in Batches, Abstract!Fresh(batch),
             Abstract!Post(l, batch) \/ Abstract!RunAtOnce(l, batch)
      PROVE  /\ Elements(batch) \in SUBSET Tasks
             /\ \A m \in Loops : Elements(batch) \cap Given(m) = {}
             /\ \A m \in Loops : Given(m)' = IF m = l THEN Given(m) \cup Elements(batch)
                                             ELSE Given(m)
  <2>1. batch \in Seq(Tasks)
    BY BatchFacts DEF Batches
  <2>2. Elements(batch) \in SUBSET Tasks
    BY <2>1, ElementsIn
  <2>3. \A m \in Loops : Elements(batch) \cap Given(m) = {}
    BY <1>2 DEF Abstract!Fresh, Abstract!Elements, Given, Elements
  <2>4. Given(l)' = Given(l) \cup Elements(batch)
    <3>1. Mail[l] \in Seq(Tasks) /\ executed[l] \in Seq(Tasks)
      BY <1>0
    <3>2. CASE Abstract!Post(l, batch)
      <4>1. Mail'[l] = Mail[l] \o batch /\ executed'[l] = executed[l]
        BY <1>0, <3>2 DEF Abstract!Post
      <4>2. Elements(Mail'[l]) = Elements(Mail[l]) \cup Elements(batch)
        BY <2>1, <3>1, <4>1, ConcatElements
      <4> QED
        BY <4>1, <4>2 DEF Given, Elements
    <3>3. CASE Abstract!RunAtOnce(l, batch)
      <4>1. executed'[l] = executed[l] \o batch /\ Mail'[l] = Mail[l]
        BY <1>0, <3>3 DEF Abstract!RunAtOnce
      <4>2. Elements(executed'[l]) = Elements(executed[l]) \cup Elements(batch)
        BY <2>1, <3>1, <4>1, ConcatElements
      <4> QED
        BY <4>1, <4>2 DEF Given, Elements
    <3> QED
      BY <1>2, <3>2, <3>3
  <2>5. ASSUME NEW m \in Loops, m # l PROVE Given(m)' = Given(m)
    <3>1. Mail'[m] = Mail[m] /\ executed'[m] = executed[m]
      BY <1>0, <1>2, <2>5 DEF Abstract!Post, Abstract!RunAtOnce
    <3> QED
      BY <3>1 DEF Given, Elements
  <2> QED
    BY <2>2, <2>3, <2>4, <2>5
<1>3. CASE \E l \in Loops : Abstract!RunFirst(l)
  <2>1. PICK l \in Loops : Abstract!RunFirst(l)
    BY <1>3
  <2>2. {} \in SUBSET Tasks /\ \A m \in Loops : Given(m)' = Given(m)
    BY <1>1, <2>1
  <2> QED
    BY <2>2
<1>4. CASE \E l \in Loops : \E batch \in Batches :
             /\ Abstract!Fresh(batch)
             /\ Abstract!Post(l, batch) \/ Abstract!RunAtOnce(l, batch)
  BY <1>2, <1>4
<1> QED
  BY <1>3, <1>4 DEF Abstract!Next

LEMMA ApartStep == Inv /\ Apart /\ [Next]_vars => Apart'
<1> SUFFICES ASSUME Inv, Apart, [Next]_vars PROVE Apart'
  OBVIOUS
<1>1. TypeOK /\ TypeOK'
  BY NextInv DEF Inv
<1>2. CASE Abstract!Next
  <2>1. PICK l \in Loops, new \in SUBSET Tasks :
           /\ \A m \in Loops : new \cap Given(m) = {}
           /\ \A m \in Loops : Given(m)' = IF m = l THEN Given(m) \cup new ELSE Given(m)
    BY <1>1, <1>2, GivenGrows
  <2>2. ASSUME NEW m \in Loops, NEW k \in Loops, m # k
        PROVE  Given(m)' \cap Given(k)' = {}
    <3>1. /\ Given(m) \cap Given(k) = {}
          /\ new \cap Given(m) = {} /\ new \cap Given(k) = {}
      BY <2>1, <2>2 DEF Apart
    <3>2. \/ Given(m)' = Given(m)
          \/ Given(m)' = (Given(m) \cup new) /\ m = l
      <4>1. Given(m)' = IF m = l THEN Given(m) \cup new ELSE Given(m)
        BY <2>1
      <4> QED
        BY <4>1
    <3>3. \/ Given(k)' = Given(k)
          \/ Given(k)' = (Given(k) \cup new) /\ k = l
      <4>1. Given(k)' = IF k = l THEN Given(k) \cup new ELSE Given(k)
        BY <2>1
      <4> QED
        BY <4>1
    <3> QED
      BY <2>2, <3>1, <3>2, <3>3
  <2> QED
    BY <2>2 DEF Apart
<1>3. CASE UNCHANGED Abstract!vars
  BY <1>3 DEF Abstract!vars, Apart, Given, Elements
<1> QED
  BY <1>2, <1>3, NextMailbox

LEMMA InitApart == Init => Apart
<1> SUFFICES ASSUME Init PROVE Apart
  OBVIOUS
<1>1. /\ Mail = [l \in Loops |-> <<>>] /\ executed = [l \in Loops |-> <<>>]
  BY InitMailbox DEF Abstract!Init
<1>2. \A l \in Loops : Given(l) = {}
  BY <1>1, EmptySorted DEF Given
<1> QED
  BY <1>2 DEF Apart

(* A task runs at most once, on one loop, whoever hands it over and        *)
(* whether it is queued or run at once (EventLoop.cpp:97-145).             *)
THEOREM EachTaskOnce ==
  Spec => [](\A l, m \in Loops : \A i \in DOMAIN executed[l], j \in DOMAIN executed[m] :
               executed[l][i] = executed[m][j] => l = m /\ i = j)
<1> DEFINE Once == \A l, m \in Loops :
                     \A i \in DOMAIN executed[l], j \in DOMAIN executed[m] :
                       executed[l][i] = executed[m][j] => l = m /\ i = j
<1>1. Inv /\ Apart => Once
  <2> SUFFICES ASSUME Inv, Apart, NEW l \in Loops, NEW m \in Loops,
                      NEW i \in DOMAIN executed[l], NEW j \in DOMAIN executed[m],
                      executed[l][i] = executed[m][j]
               PROVE  l = m /\ i = j
    OBVIOUS
  <2>1. l = m
    <3>1. executed[l][i] \in Given(l) /\ executed[m][j] \in Given(m)
      BY DEF Given, Elements
    <3> QED
      BY <3>1 DEF Apart
  <2>2. executed[l] \in Seq(Tasks) /\ i \in Nat /\ j \in Nat
    BY <2>1 DEF Inv, TypeOK
  <2>3. /\ i < j => Before(executed[l][i], executed[l][j])
        /\ j < i => Before(executed[l][j], executed[l][i])
    BY <2>1 DEF Inv, CallOrder, Sorted
  <2>4. executed[l][i] \in Tasks /\ executed[l][j] = executed[l][i]
    BY <2>1, <2>2
  <2>5. executed[l][i].n \in Nat /\ executed[l][i].part \in Nat
    BY <2>4 DEF Tasks
  <2>6. ~(i < j) /\ ~(j < i)
    BY <2>3, <2>4, <2>5 DEF Before
  <2> QED
    BY <2>1, <2>2, <2>6
<1> QED
  BY <1>1, InitInv, NextInv, InitApart, ApartStep, PTL DEF Spec
=============================================================================
