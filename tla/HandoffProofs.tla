--------------------------- MODULE HandoffProofs ---------------------------
(***************************************************************************)
(* Who owns a connection, for any number of loops, users and connections,  *)
(* also while loops start.  The invariant says of each connection in which *)
(* phase of its life it is: every phase fixes where the connection is held *)
(* and registered and which tasks about it are queued.  The second part is *)
(* about sessions, until somebody logs in while loops are still starting.  *)
(***************************************************************************)
EXTENDS Sessions, SequenceTheorems, FiniteSetTheorems, TLAPS

(* Only loops that have started have work, and only one that is running    *)
(* tasks has taken some.                                                   *)
QueueInv == \A l \in Loops : /\ tasks[l] # <<>> => l <= started
                             /\ running[l] <= Len(tasks[l])
                             /\ pc[l] = "tasks" <=> running[l] > 0
                             /\ pc[l] # "events" => active[l] = {}

TypeInv == TypeOK /\ QueueInv

----------------------------------------------------------------------------
(* Types.                                                                  *)

LEMMA LoopNumbers ==
  ASSUME TypeOK
  PROVE  /\ started \in Nat /\ started > 0 /\ started <= NLoops /\ NLoops \in Nat
         /\ 1..started \subseteq Loops
         /\ \A u \in Users \cup {0} : LoopOf(u) \in 1..started
         /\ \A c \in Conns : ploop[c] \in Loops
         /\ NextIndex + 1 \in 1..started
<1>1. started \in Nat /\ started > 0 /\ started <= NLoops /\ NLoops \in Nat
  BY HandoffAssumption DEF TypeOK
<1>2. 1..started \subseteq Loops
  BY <1>1 DEF Loops
<1>3. ASSUME NEW u \in Users \cup {0} PROVE LoopOf(u) \in 1..started
  <2>1. u \in Nat
    BY HandoffAssumption
  <2>2. u % started \in 0..(started - 1)
    BY <1>1, <2>1
  <2> QED
    BY <1>1, <2>2 DEF LoopOf
<1>4. NextIndex + 1 \in 1..started
  <2>1. next \in 0..started
    BY DEF TypeOK
  <2> QED
    BY <1>1, <2>1 DEF NextIndex
<1>5. ASSUME NEW c \in Conns PROVE ploop[c] \in Loops
  <2>1. ploop[c] \in 1..started
    BY DEF TypeOK
  <2> QED
    BY <1>2, <2>1
<1> QED
  BY <1>1, <1>2, <1>3, <1>4, <1>5

(* The queues are sequences of tasks.                                      *)
LEMMA Queues ==
  ASSUME TypeInv, NEW l \in Loops
  PROVE  /\ tasks[l] \in Seq(Tasks) /\ Len(tasks[l]) \in Nat
         /\ DOMAIN tasks[l] = 1..Len(tasks[l])
         /\ DOMAIN tasks = Loops /\ DOMAIN running = Loops
         /\ running[l] \in Nat /\ running[l] <= Len(tasks[l])
<1>1. tasks \in [Loops -> Seq(Tasks)] /\ running \in [Loops -> Nat]
  BY DEF TypeInv, TypeOK
<1>2. tasks[l] \in Seq(Tasks) /\ running[l] \in Nat
  BY <1>1
<1> QED
  BY <1>1, <1>2 DEF TypeInv, QueueInv

(* A task that runs is the first of a queue that is not empty.             *)
LEMMA Running ==
  ASSUME TypeInv, NEW l \in Loops, NEW c, NEW op, Runs(l, op, c)
  PROVE  /\ running[l] > 0 /\ running[l] \in Nat /\ tasks[l] # <<>>
         /\ 1 \in DOMAIN tasks[l] /\ tasks[l][1] = Head(tasks[l])
         /\ tasks[l][1].conn = c /\ tasks[l][1].op = op
         /\ tasks[l][1] \in Tasks
         /\ running'[l] = running[l] - 1
         /\ \A k \in Loops : k # l => running'[k] = running[k]
         /\ Tail(tasks[l]) \in Seq(Tasks) /\ Len(Tail(tasks[l])) = Len(tasks[l]) - 1
         /\ \A j \in 1..(Len(tasks[l]) - 1) : Tail(tasks[l])[j] = tasks[l][j + 1]
<1>1. running[l] > 0 /\ pc[l] = "tasks"
  BY DEF Runs, TypeInv, QueueInv
<1>2. /\ tasks[l] \in Seq(Tasks) /\ Len(tasks[l]) \in Nat /\ DOMAIN tasks[l] = 1..Len(tasks[l])
      /\ running[l] \in Nat /\ running[l] <= Len(tasks[l]) /\ DOMAIN running = Loops
  BY Queues
<1>3. Len(tasks[l]) > 0 /\ 1 \in DOMAIN tasks[l]
  BY <1>1, <1>2
<1>4. tasks[l] # <<>>
  BY <1>3
<1>5. /\ tasks[l][1] = Head(tasks[l]) /\ tasks[l][1] \in Tasks
      /\ Tail(tasks[l]) \in Seq(Tasks) /\ Len(Tail(tasks[l])) = Len(tasks[l]) - 1
      /\ \A j \in 1..Len(Tail(tasks[l])) : Tail(tasks[l])[j] = tasks[l][j + 1]
  BY <1>2, <1>3, <1>4, HeadTailProperties
<1>6. /\ running'[l] = running[l] - 1
      /\ \A k \in Loops : k # l => running'[k] = running[k]
  BY <1>2 DEF Runs
<1> QED
  BY <1>1, <1>2, <1>3, <1>4, <1>5, <1>6 DEF Runs

(* The tasks of a handoff.                                                 *)
LEMMA HandoffIs ==
  ASSUME NEW c \in Conns, NEW u \in Users \cup {0}
  PROVE  /\ HandoffTasks(c, u) \in Seq(Tasks) /\ Len(HandoffTasks(c, u)) = 3
         /\ HandoffTasks(c, u)[1] = Task("addIOEM", c, 0)
         /\ HandoffTasks(c, u)[2] = Task("addTcpConn", c, 0)
         /\ HandoffTasks(c, u)[3] = Task("login", c, u)
<1>1. /\ Task("addIOEM", c, 0) \in Tasks /\ Task("addTcpConn", c, 0) \in Tasks
      /\ Task("login", c, u) \in Tasks
  BY DEF Task, Tasks
<1> QED
  BY <1>1 DEF HandoffTasks

LEMMA TaskIs ==
  ASSUME NEW c \in Conns
  PROVE  /\ Task("addIOEM", c, 0) \in Tasks /\ Task("established", c, 0) \in Tasks
         /\ Task("addIOEM", c, 0).conn = c /\ Task("addIOEM", c, 0).op = "addIOEM"
         /\ Task("established", c, 0).conn = c /\ Task("established", c, 0).op = "established"
  BY DEF Task, Tasks

(* LOGIN_IN on a loop: what it does to types and queues.                   *)
LEMMA LoginTyped ==
  ASSUME TypeOK, NEW l \in Loops, NEW c \in Conns, NEW u \in Users \cup {0},
         NEW queue \in [Loops -> Seq(Tasks)], HandleLoginIn(l, c, u, queue)
  PROVE  /\ registered' \in [Loops -> SUBSET Conns]
         /\ pTcpConns' \in [Loops -> SUBSET Conns]
         /\ id2conn' \in [Loops -> [Users -> Conns \cup {NoConn}]]
         /\ sid' \in [Conns -> Users \cup {0}]
         /\ awaiting' \in [Conns -> BOOLEAN]
         /\ tasks' \in [Loops -> Seq(Tasks)]
         /\ \A k \in Loops :
              \/ tasks'[k] = queue[k]
              \/ k <= started /\ Len(tasks'[k]) = Len(queue[k]) + 3
<1>0. LoopOf(u) \in 1..started /\ LoopOf(u) \in Loops
  BY LoopNumbers
<1>1. CASE LoopOf(u) # ploop[c]
  <2>1. MoveTo(l, c, u, queue)
    BY <1>1 DEF HandleLoginIn
  <2>2. PICK q \in Seq(Tasks) : q = HandoffTasks(c, u)
    BY HandoffIs
  <2>3. Len(q) = 3
    BY <2>2, HandoffIs
  <2>4. PICK m \in Loops : m = LoopOf(u)
    BY <1>0
  <2>5. queue[m] \o q \in Seq(Tasks) /\ Len(queue[m] \o q) = Len(queue[m]) + 3
    <3>1. PICK s \in Seq(Tasks) : s = queue[m]
      OBVIOUS
    <3>2. s \o q \in Seq(Tasks) /\ Len(s \o q) = Len(s) + Len(q)
      BY ConcatProperties
    <3> QED
      BY <2>3, <3>1, <3>2
  <2>6. tasks' = [queue EXCEPT ![m] = queue[m] \o q]
    BY <2>1, <2>2, <2>4 DEF MoveTo
  <2>7. tasks' \in [Loops -> Seq(Tasks)]
    BY <2>5, <2>6
  <2>8. \A k \in Loops : \/ tasks'[k] = queue[k]
                         \/ k <= started /\ Len(tasks'[k]) = Len(queue[k]) + 3
    BY <1>0, <2>4, <2>5, <2>6
  <2> QED
    BY <2>1, <2>7, <2>8 DEF MoveTo, TypeOK
<1>2. CASE LoopOf(u) = ploop[c]
  <2>1. LoginHere(l, c, u, queue)
    BY <1>2 DEF HandleLoginIn
  <2>2. sid' \in [Conns -> Users \cup {0}]
    BY <2>1 DEF LoginHere, TypeOK
  <2>3. id2conn' \in [Loops -> [Users -> Conns \cup {NoConn}]]
    <3>1. id2conn \in [Loops -> [Users -> Conns \cup {NoConn}]]
      BY DEF TypeOK
    <3>2. id2conn' = id2conn \/ id2conn' = [id2conn EXCEPT ![l][u] = c]
      BY <2>1 DEF LoginHere
    <3>3. PICK row \in [Users -> Conns \cup {NoConn}] : row = id2conn[l]
      BY <3>1
    <3>4. [row EXCEPT ![u] = c] \in [Users -> Conns \cup {NoConn}]
      OBVIOUS
    <3>5. id2conn' = id2conn \/ id2conn' = [id2conn EXCEPT ![l] = [row EXCEPT ![u] = c]]
      BY <3>2, <3>3
    <3> QED
      BY <3>1, <3>4, <3>5
  <2>4. awaiting' \in [Conns -> BOOLEAN]
    BY <2>1 DEF LoginHere, TypeOK
  <2>5. tasks' = queue /\ UNCHANGED <<registered, pTcpConns>>
    BY <2>1 DEF LoginHere
  <2> QED
    BY <2>2, <2>3, <2>4, <2>5 DEF TypeOK
<1> QED
  BY <1>1, <1>2

(* What a step may do to queue l: leave it or append to it, or take its    *)
(* first task.                                                             *)
LongerQueue(l) == /\ tasks'[l] \in Seq(Tasks) /\ Len(tasks'[l]) >= Len(tasks[l])
                  /\ tasks'[l] # <<>> => tasks[l] # <<>> \/ l <= started
                  /\ running'[l] = running[l] /\ pc'[l] = pc[l]
                  /\ pc[l] # "events" => active'[l] \subseteq active[l]

ShorterQueue(l) == /\ tasks'[l] \in Seq(Tasks) /\ Len(tasks'[l]) >= Len(tasks[l]) - 1
                   /\ tasks[l] # <<>> /\ running[l] > 0
                   /\ running'[l] = running[l] - 1
                   /\ pc'[l] = IF running[l] = 1 THEN "wait" ELSE "tasks"
                   /\ active'[l] = active[l]

LEMMA QueueStep ==
  ASSUME TypeInv, started' >= started, started' \in Nat,
         \A l \in Loops : LongerQueue(l) \/ ShorterQueue(l)
  PROVE  QueueInv'
<1>1. ASSUME NEW l \in Loops
      PROVE  /\ tasks'[l] # <<>> => l <= started'
             /\ running'[l] <= Len(tasks'[l])
             /\ pc'[l] = "tasks" <=> running'[l] > 0
             /\ pc'[l] # "events" => active'[l] = {}
  <2>1. /\ tasks[l] # <<>> => l <= started
        /\ running[l] <= Len(tasks[l]) /\ running[l] \in Nat
        /\ pc[l] = "tasks" <=> running[l] > 0
        /\ pc[l] # "events" => active[l] = {}
        /\ Len(tasks[l]) \in Nat /\ started \in Nat /\ l \in Nat
    BY Queues, LoopNumbers DEF TypeInv, QueueInv, Loops
  <2>2. CASE LongerQueue(l)
    <3>1. tasks'[l] \in Seq(Tasks)
      BY <2>2 DEF LongerQueue
    <3>2. Len(tasks'[l]) \in Nat
      BY <3>1
    <3> QED
      BY <2>1, <2>2, <3>2 DEF LongerQueue
  <2>3. CASE ShorterQueue(l)
    <3>1. tasks'[l] \in Seq(Tasks)
      BY <2>3 DEF ShorterQueue
    <3>2. Len(tasks'[l]) \in Nat
      BY <3>1
    <3> QED
      BY <2>1, <2>3, <3>2 DEF ShorterQueue
  <2> QED
    BY <2>2, <2>3
<1> QED
  BY <1>1 DEF QueueInv

(* The queues when a task is appended, and when the first one is taken.    *)
LEMMA Appended ==
  ASSUME TypeInv, NEW k \in Loops, NEW t \in Tasks,
         tasks' = [tasks EXCEPT ![k] = Append(@, t)]
  PROVE  /\ tasks' \in [Loops -> Seq(Tasks)]
         /\ Len(tasks'[k]) = Len(tasks[k]) + 1
         /\ \A l \in Loops : l # k => tasks'[l] = tasks[l]
<1>1. PICK q \in Seq(Tasks) : q = tasks[k]
  BY Queues
<1>2. Append(q, t) \in Seq(Tasks) /\ Len(Append(q, t)) = Len(q) + 1
  OBVIOUS
<1>3. tasks \in [Loops -> Seq(Tasks)]
  BY DEF TypeInv, TypeOK
<1>4. tasks' = [tasks EXCEPT ![k] = Append(q, t)]
  BY <1>1
<1> QED
  BY <1>1, <1>2, <1>3, <1>4

LEMMA Taken ==
  ASSUME TypeInv, NEW l \in Loops, NEW c, NEW op, Runs(l, op, c)
  PROVE  /\ Rest(l) \in [Loops -> Seq(Tasks)]
         /\ Rest(l)[l] = Tail(tasks[l]) /\ Len(Rest(l)[l]) = Len(tasks[l]) - 1
         /\ \A k \in Loops : k # l => Rest(l)[k] = tasks[k]
         /\ running' \in [Loops -> Nat]
         /\ pc' \in [Loops -> {"wait", "events", "tasks"}]
         /\ \A k \in Loops : k # l => running'[k] = running[k] /\ pc'[k] = pc[k]
         /\ pc'[l] = IF running[l] = 1 THEN "wait" ELSE "tasks"
<1>1. /\ running[l] > 0 /\ running[l] \in Nat
      /\ Tail(tasks[l]) \in Seq(Tasks) /\ Len(Tail(tasks[l])) = Len(tasks[l]) - 1
  BY Running
<1>2. /\ tasks \in [Loops -> Seq(Tasks)] /\ running \in [Loops -> Nat]
      /\ pc \in [Loops -> {"wait", "events", "tasks"}]
  BY DEF TypeInv, TypeOK
<1>3. PICK q \in Seq(Tasks) : q = Tail(tasks[l])
  BY <1>1
<1>4. Rest(l) = [tasks EXCEPT ![l] = q]
  BY <1>3 DEF Rest
<1>5. running' = [running EXCEPT ![l] = running[l] - 1] /\ running[l] - 1 \in Nat
  BY <1>1 DEF Runs
<1>6. running' \in [Loops -> Nat]
  BY <1>2, <1>5
<1>7. pc' \in [Loops -> {"wait", "events", "tasks"}]
  BY <1>2 DEF Runs
<1>8. \A k \in Loops : k # l => running'[k] = running[k] /\ pc'[k] = pc[k]
  BY <1>2, <1>5 DEF Runs
<1>9. pc'[l] = IF running[l] = 1 THEN "wait" ELSE "tasks"
  BY <1>2 DEF Runs
<1> QED
  BY <1>1, <1>2, <1>3, <1>4, <1>6, <1>7, <1>8, <1>9

(* A task that runs keeps the types if what it changes does.               *)
LEMMA RunTyped ==
  ASSUME TypeInv, NEW l \in Loops, NEW c, NEW op, Runs(l, op, c),
         UNCHANGED <<threads, active, fd, eof, logins, input>>,
         tasks' \in [Loops -> Seq(Tasks)],
         \A k \in Loops : \/ tasks'[k] = Rest(l)[k]
                          \/ k <= started /\ Len(tasks'[k]) = Len(Rest(l)[k]) + 3,
         registered' \in [Loops -> SUBSET Conns],
         pTcpConns' \in [Loops -> SUBSET Conns],
         id2conn' \in [Loops -> [Users -> Conns \cup {NoConn}]],
         ploop' \in [Conns -> 1..started],
         reading' \in [Conns -> BOOLEAN],
         sid' \in [Conns -> Users \cup {0}],
         awaiting' \in [Conns -> BOOLEAN]
  PROVE  TypeInv'
<1>1. ASSUME NEW k \in Loops PROVE LongerQueue(k) \/ ShorterQueue(k)
  <2>1. /\ tasks[k] \in Seq(Tasks) /\ Len(tasks[k]) \in Nat /\ tasks'[k] \in Seq(Tasks)
        /\ tasks[k] # <<>> => k <= started
    BY Queues DEF TypeInv, QueueInv
  <2>2. active'[k] = active[k]
    OBVIOUS
  <2>3. CASE k = l
    <3>0. Len(Rest(l)[k]) = Len(tasks[k]) - 1
      BY <2>3, Taken
    <3>1. Len(tasks'[k]) >= Len(tasks[k]) - 1
      <4>1. \/ tasks'[k] = Rest(l)[k]
            \/ Len(tasks'[k]) = Len(Rest(l)[k]) + 3
        OBVIOUS
      <4> QED
        BY <2>1, <3>0, <4>1
    <3>2. tasks[k] # <<>> /\ running[k] > 0 /\ running'[k] = running[k] - 1
      BY <2>3, Running
    <3>3. pc'[k] = IF running[k] = 1 THEN "wait" ELSE "tasks"
      BY <2>3, Taken
    <3> QED
      BY <2>1, <2>2, <3>1, <3>2, <3>3 DEF ShorterQueue
  <2>4. CASE k # l
    <3>1. Rest(l)[k] = tasks[k] /\ running'[k] = running[k] /\ pc'[k] = pc[k]
      BY <2>4, Taken
    <3>2. \/ tasks'[k] = tasks[k]
          \/ k <= started /\ Len(tasks'[k]) = Len(tasks[k]) + 3
      BY <3>1
    <3> QED
      BY <2>1, <2>2, <3>1, <3>2 DEF LongerQueue
  <2> QED
    BY <2>3, <2>4
<1>2. started' = started /\ started \in Nat
  BY LoopNumbers DEF threads, TypeInv
<1>3. QueueInv'
  BY <1>1, <1>2, QueueStep
<1>4. \A k \in Loops : running'[k] <= Len(tasks'[k])
  BY <1>3 DEF QueueInv
<1>5. running' \in [Loops -> Nat] /\ pc' \in [Loops -> {"wait", "events", "tasks"}]
  BY Taken
<1>6. TypeOK'
  BY <1>4, <1>5 DEF TypeInv, TypeOK, threads
<1> QED
  BY <1>3, <1>6 DEF TypeInv

(* The other steps leave running and pc alone and make no queue shorter.   *)
LEMMA PlainTyped ==
  ASSUME TypeInv, UNCHANGED <<pc, running>>,
         started' \in InitLoops..NLoops, started' >= started,
         next' \in 0..started', accepting' \in Conns \cup {NoConn},
         active' \in [Loops -> SUBSET Conns],
         \A k \in Loops : active'[k] \subseteq active[k],
         tasks' \in [Loops -> Seq(Tasks)],
         \A k \in Loops : \/ tasks'[k] = tasks[k]
                          \/ k <= started /\ Len(tasks'[k]) >= Len(tasks[k]),
         registered' \in [Loops -> SUBSET Conns],
         pTcpConns' \in [Loops -> SUBSET Conns],
         id2conn' \in [Loops -> [Users -> Conns \cup {NoConn}]],
         fd' \in [Conns -> {"none", "open", "closed"}],
         ploop' \in [Conns -> 1..started'],
         UNCHANGED reading,
         sid' \in [Conns -> Users \cup {0}], input' \in [Conns -> Users \cup {0}],
         awaiting' \in [Conns -> BOOLEAN], eof' \in [Conns -> BOOLEAN],
         logins' \in [Conns -> 0..MaxLogins]
  PROVE  TypeInv'
<1>1. ASSUME NEW k \in Loops PROVE LongerQueue(k)
  <2>1. /\ tasks[k] \in Seq(Tasks) /\ Len(tasks[k]) \in Nat /\ tasks'[k] \in Seq(Tasks)
        /\ tasks[k] # <<>> => k <= started
    BY Queues DEF TypeInv, QueueInv
  <2>2. Len(tasks'[k]) >= Len(tasks[k])
    BY <2>1
  <2>3. tasks'[k] # <<>> => tasks[k] # <<>> \/ k <= started
    BY <2>1
  <2>4. running'[k] = running[k] /\ pc'[k] = pc[k] /\ active'[k] \subseteq active[k]
    OBVIOUS
  <2> QED
    BY <2>1, <2>2, <2>3, <2>4 DEF LongerQueue
<1>2. started' \in Nat
  BY HandoffAssumption
<1>3. QueueInv'
  BY <1>1, <1>2, QueueStep
<1>4. \A k \in Loops : running'[k] <= Len(tasks'[k])
  BY <1>3 DEF QueueInv
<1>5. TypeOK'
  BY <1>4 DEF TypeInv, TypeOK
<1> QED
  BY <1>3, <1>5 DEF TypeInv

LEMMA TypeStep == TypeInv /\ [Next]_vars => TypeInv'
<1> SUFFICES ASSUME TypeInv, [Next]_vars PROVE TypeInv'
  OBVIOUS
<1>0. TypeOK
  BY DEF TypeInv
<1>1. /\ started \in Nat /\ started > 0 /\ started <= NLoops /\ NLoops \in Nat
      /\ 1..started \subseteq Loops
      /\ \A u \in Users \cup {0} : LoopOf(u) \in 1..started
      /\ \A c \in Conns : ploop[c] \in Loops
      /\ NextIndex + 1 \in 1..started
      /\ \A l \in Loops : l \in Nat /\ l > 0
      /\ tasks \in [Loops -> Seq(Tasks)]
      /\ \A l \in Loops : Len(tasks[l]) \in Nat
  <2>1. tasks \in [Loops -> Seq(Tasks)]
    BY <1>0 DEF TypeOK
  <2>2. \A l \in Loops : l \in Nat /\ l > 0
    BY DEF Loops
  <2> QED
    BY <1>0, <2>1, <2>2, LoopNumbers, Queues
<1>t. /\ started \in InitLoops..NLoops /\ started >= started
      /\ next \in 0..started /\ accepting \in Conns \cup {NoConn}
      /\ active \in [Loops -> SUBSET Conns]
      /\ registered \in [Loops -> SUBSET Conns]
      /\ pTcpConns \in [Loops -> SUBSET Conns]
      /\ id2conn \in [Loops -> [Users -> Conns \cup {NoConn}]]
      /\ fd \in [Conns -> {"none", "open", "closed"}]
      /\ ploop \in [Conns -> 1..started]
      /\ reading \in [Conns -> BOOLEAN]
      /\ sid \in [Conns -> Users \cup {0}] /\ input \in [Conns -> Users \cup {0}]
      /\ awaiting \in [Conns -> BOOLEAN] /\ eof \in [Conns -> BOOLEAN]
      /\ logins \in [Conns -> 0..MaxLogins]
      /\ tasks \in [Loops -> Seq(Tasks)]
  <2>1. started >= started
    BY <1>1
  <2> QED
    BY <1>0, <2>1 DEF TypeOK
<1>2. CASE StartLoop
  <2>1. ploop' \in [Conns -> 1..started']
    BY <1>0, <1>1, <1>2 DEF StartLoop, TypeOK
  <2>2. next' \in 0..started' /\ started' \in InitLoops..NLoops /\ started' >= started
    BY <1>0, <1>1, <1>2, HandoffAssumption DEF StartLoop, TypeOK
  <2> QED
    BY <1>0, <1>2, <2>1, <2>2, PlainTyped DEF StartLoop, TypeOK, client
<1>3. ASSUME NEW c \in Conns, Accept(c) PROVE TypeInv'
  <2>1. PICK k \in Loops : k = NextIndex + 1 /\ k \in 1..started
    BY <1>1
  <2>2. PICK t \in Tasks : t = Task("addIOEM", c, 0)
    BY TaskIs
  <2>3. tasks' = [tasks EXCEPT ![k] = Append(@, t)]
    BY <1>3, <2>1, <2>2 DEF Accept
  <2>4. /\ tasks' \in [Loops -> Seq(Tasks)]
        /\ Len(tasks'[k]) = Len(tasks[k]) + 1
        /\ \A l \in Loops : l # k => tasks'[l] = tasks[l]
    BY <2>3, Appended
  <2>5. \A l \in Loops : \/ tasks'[l] = tasks[l]
                         \/ l <= started /\ Len(tasks'[l]) >= Len(tasks[l])
    BY <1>1, <2>1, <2>4
  <2>6. next' \in 0..started' /\ accepting' \in Conns \cup {NoConn}
    BY <1>1, <1>3, <2>1 DEF Accept
  <2>7. ploop' \in [Conns -> 1..started'] /\ fd' \in [Conns -> {"none", "open", "closed"}]
    BY <1>0, <1>3, <2>1 DEF Accept, TypeOK
  <2> QED
    BY <1>t, <1>3, <2>4, <2>5, <2>6, <2>7, PlainTyped DEF Accept, client
<1>4. CASE Accepted
  <2>1. accepting \in Conns
    BY <1>0, <1>4 DEF Accepted, TypeOK
  <2>2. PICK k \in Loops : k = ploop[accepting] /\ k \in 1..started
    BY <1>0, <1>1, <2>1 DEF TypeOK
  <2>3. PICK t \in Tasks : t = Task("established", accepting, 0)
    BY <2>1, TaskIs
  <2>4. tasks' = [tasks EXCEPT ![k] = Append(@, t)]
    BY <1>4, <2>2, <2>3 DEF Accepted
  <2>5. /\ tasks' \in [Loops -> Seq(Tasks)]
        /\ Len(tasks'[k]) = Len(tasks[k]) + 1
        /\ \A l \in Loops : l # k => tasks'[l] = tasks[l]
    BY <2>4, Appended
  <2>6. \A l \in Loops : \/ tasks'[l] = tasks[l]
                         \/ l <= started /\ Len(tasks'[l]) >= Len(tasks[l])
    BY <1>1, <2>2, <2>5
  <2>7. /\ UNCHANGED <<started, next, pc, active, running, registered, pTcpConns,
                       id2conn, fd, ploop, reading, sid, client>>
        /\ accepting' \in Conns \cup {NoConn}
    BY <1>4 DEF Accepted
  <2> QED
    BY <1>t, <2>5, <2>6, <2>7, PlainTyped DEF client
<1>5. ASSUME NEW c \in Conns, NEW u \in Users, SendLogin(c, u) PROVE TypeInv'
  <2>1. logins' \in [Conns -> 0..MaxLogins]
    BY <1>0, <1>5, HandoffAssumption DEF SendLogin, TypeOK
  <2>2. input' \in [Conns -> Users \cup {0}] /\ awaiting' \in [Conns -> BOOLEAN]
    BY <1>0, <1>5 DEF SendLogin, TypeOK
  <2> QED
    BY <1>t, <1>5, <2>1, <2>2, PlainTyped DEF SendLogin, threads
<1>6. ASSUME NEW c \in Conns, Hangup(c) PROVE TypeInv'
  <2>1. input' \in [Conns -> Users \cup {0}] /\ eof' \in [Conns -> BOOLEAN]
    BY <1>0, <1>6 DEF Hangup, TypeOK
  <2> QED
    BY <1>0, <1>1, <1>6, <2>1, PlainTyped DEF Hangup, TypeOK, threads
<1>7. ASSUME NEW l \in Loops, Poll(l) PROVE TypeInv'
  <2>1. Ready(l) \subseteq Conns
    BY <1>0 DEF Ready, TypeOK
  <2>2. active' \in [Loops -> SUBSET Conns]
    BY <1>0, <1>7, <2>1 DEF Poll, TypeOK
  <2>3. pc' \in [Loops -> {"wait", "events", "tasks"}]
    BY <1>0, <1>7 DEF Poll, TypeOK
  <2>4. TypeOK'
    BY <1>0, <1>7, <2>2, <2>3 DEF Poll, TypeOK, threads, client
  <2>5. QueueInv'
    BY <1>0, <1>7 DEF Poll, TypeInv, TypeOK, QueueInv, threads
  <2> QED
    BY <2>4, <2>5 DEF TypeInv
<1>8. ASSUME NEW l \in Loops, Swap(l) PROVE TypeInv'
  <2>1. running' \in [Loops -> Nat]
    BY <1>0, <1>1, <1>8 DEF Swap, TypeOK
  <2>2. pc' \in [Loops -> {"wait", "events", "tasks"}]
    BY <1>0, <1>8 DEF Swap, TypeOK
  <2>3. running'[l] = Len(tasks[l]) /\ \A k \in Loops : k # l => running'[k] = running[k]
    BY <1>0, <1>8 DEF Swap, TypeOK
  <2>4. \A k \in Loops : running'[k] <= Len(tasks'[k])
    BY <1>1, <1>8, <2>3 DEF Swap, TypeInv, QueueInv
  <2>5. TypeOK'
    BY <1>0, <1>8, <2>1, <2>2, <2>4 DEF Swap, TypeOK, threads, client
  <2>6. ASSUME NEW k \in Loops
        PROVE  /\ tasks'[k] # <<>> => k <= started'
               /\ running'[k] <= Len(tasks'[k])
               /\ pc'[k] = "tasks" <=> running'[k] > 0
               /\ pc'[k] # "events" => active'[k] = {}
    <3>1. tasks' = tasks /\ active' = active /\ started' = started
      BY <1>8 DEF Swap, threads
    <3>2. CASE k # l
      <4>1. pc'[k] = pc[k]
        BY <1>0, <1>8, <3>2 DEF Swap, TypeOK
      <4> QED
        BY <2>3, <2>4, <3>1, <3>2, <4>1 DEF TypeInv, QueueInv
    <3>3. CASE k = l
      <4>1. pc'[l] = IF tasks[l] = <<>> THEN "wait" ELSE "tasks"
        BY <1>0, <1>8 DEF Swap, TypeOK
      <4>2. tasks[l] = <<>> <=> Len(tasks[l]) = 0
        BY <1>1
      <4>3. active[l] = {}
        BY <1>8 DEF Swap
      <4>4. pc'[l] = "tasks" <=> running'[l] > 0
        BY <1>1, <2>3, <4>1, <4>2
      <4>5. tasks[l] # <<>> => l <= started
        BY DEF TypeInv, QueueInv
      <4> QED
        BY <2>4, <3>1, <3>3, <4>3, <4>4, <4>5
    <3> QED
      BY <3>2, <3>3
  <2> QED
    BY <2>5, <2>6 DEF TypeInv, QueueInv
<1>9. ASSUME NEW l \in Loops, NEW c \in Conns, HandleFrame(l, c) PROVE TypeInv'
  <2>1. input[c] \in Users
    BY <1>0, <1>9 DEF HandleFrame, TypeOK
  <2>2. PICK u \in Users : u = input[c]
    BY <2>1
  <2>3. HandleLoginIn(l, c, u, tasks)
    BY <1>9, <2>2 DEF HandleFrame
  <2>4. /\ registered' \in [Loops -> SUBSET Conns]
        /\ pTcpConns' \in [Loops -> SUBSET Conns]
        /\ id2conn' \in [Loops -> [Users -> Conns \cup {NoConn}]]
        /\ sid' \in [Conns -> Users \cup {0}]
        /\ awaiting' \in [Conns -> BOOLEAN]
        /\ tasks' \in [Loops -> Seq(Tasks)]
        /\ \A k \in Loops :
             \/ tasks'[k] = tasks[k]
             \/ k <= started /\ Len(tasks'[k]) = Len(tasks[k]) + 3
    BY <1>0, <1>1, <2>3, LoginTyped
  <2>5. \A k \in Loops : \/ tasks'[k] = tasks[k]
                         \/ k <= started /\ Len(tasks'[k]) >= Len(tasks[k])
    BY <1>1, <2>4
  <2>6. active' \in [Loops -> SUBSET Conns] /\ \A k \in Loops : active'[k] \subseteq active[k]
    BY <1>0, <1>9 DEF HandleFrame, TypeOK
  <2>7. input' \in [Conns -> Users \cup {0}]
    BY <1>0, <1>9 DEF HandleFrame, TypeOK
  <2> QED
    BY <1>t, <1>9, <2>4, <2>5, <2>6, <2>7, PlainTyped DEF HandleFrame, threads
<1>10. ASSUME NEW l \in Loops, NEW c \in Conns, HandleClose(l, c) PROVE TypeInv'
  <2>1. active' \in [Loops -> SUBSET Conns] /\ \A k \in Loops : active'[k] \subseteq active[k]
    BY <1>0, <1>10 DEF HandleClose, TypeOK
  <2>2. registered' \in [Loops -> SUBSET Conns] /\ pTcpConns' \in [Loops -> SUBSET Conns]
    BY <1>0, <1>10 DEF HandleClose, TypeOK
  <2>3. fd' \in [Conns -> {"none", "open", "closed"}] /\ awaiting' \in [Conns -> BOOLEAN]
    BY <1>0, <1>10 DEF HandleClose, TypeOK
  <2> QED
    BY <1>t, <1>10, <2>1, <2>2, <2>3, PlainTyped DEF HandleClose, threads
<1>11. ASSUME NEW l \in Loops, NEW c \in Conns, RunAddIOEM(l, c) PROVE TypeInv'
  <2>1. Runs(l, "addIOEM", c) /\ tasks' = Rest(l)
    BY <1>11 DEF RunAddIOEM
  <2>2. Rest(l) \in [Loops -> Seq(Tasks)]
    BY <2>1, Taken
  <2>3. registered' \in [Loops -> SUBSET Conns]
    BY <1>0, <1>11 DEF RunAddIOEM, TypeOK
  <2> QED
    BY <1>0, <1>11, <2>1, <2>2, <2>3, RunTyped DEF RunAddIOEM, TypeOK, client
<1>12. ASSUME NEW l \in Loops, NEW c \in Conns, RunEstablished(l, c) PROVE TypeInv'
  <2>1. Runs(l, "established", c) /\ tasks' = Rest(l)
    BY <1>12 DEF RunEstablished
  <2>2. Rest(l) \in [Loops -> Seq(Tasks)]
    BY <2>1, Taken
  <2>3. pTcpConns' \in [Loops -> SUBSET Conns] /\ reading' \in [Conns -> BOOLEAN]
    BY <1>0, <1>12 DEF RunEstablished, TypeOK
  <2> QED
    BY <1>0, <1>12, <2>1, <2>2, <2>3, RunTyped DEF RunEstablished, TypeOK, client
<1>13. ASSUME NEW l \in Loops, NEW c \in Conns, RunAddTcpConn(l, c) PROVE TypeInv'
  <2>1. Runs(l, "addTcpConn", c) /\ tasks' = Rest(l)
    BY <1>13 DEF RunAddTcpConn
  <2>2. Rest(l) \in [Loops -> Seq(Tasks)]
    BY <2>1, Taken
  <2>3. l \in 1..started
    BY <1>1, <2>1, Running DEF TypeInv, QueueInv
  <2>4. pTcpConns' \in [Loops -> SUBSET Conns] /\ ploop' \in [Conns -> 1..started]
    BY <1>0, <1>13, <2>3 DEF RunAddTcpConn, TypeOK
  <2> QED
    BY <1>0, <1>13, <2>1, <2>2, <2>4, RunTyped DEF RunAddTcpConn, TypeOK, client
<1>14. ASSUME NEW l \in Loops, NEW c \in Conns, RunLogin(l, c) PROVE TypeInv'
  <2>1. Runs(l, "login", c)
    BY <1>14 DEF RunLogin
  <2>2. Rest(l) \in [Loops -> Seq(Tasks)]
    BY <2>1, Taken
  <2>3. PICK u \in Users \cup {0} : u = Head(tasks[l]).id
    BY <2>1, Running DEF Tasks
  <2>4. PICK queue \in [Loops -> Seq(Tasks)] : queue = Rest(l)
    BY <2>2
  <2>5. HandleLoginIn(l, c, u, queue)
    BY <1>14, <2>3, <2>4 DEF RunLogin
  <2>6. /\ registered' \in [Loops -> SUBSET Conns]
        /\ pTcpConns' \in [Loops -> SUBSET Conns]
        /\ id2conn' \in [Loops -> [Users -> Conns \cup {NoConn}]]
        /\ sid' \in [Conns -> Users \cup {0}]
        /\ awaiting' \in [Conns -> BOOLEAN]
        /\ tasks' \in [Loops -> Seq(Tasks)]
        /\ \A k \in Loops :
             \/ tasks'[k] = queue[k]
             \/ k <= started /\ Len(tasks'[k]) = Len(queue[k]) + 3
    BY <1>0, <2>5, LoginTyped
  <2> QED
    BY <1>t, <1>14, <2>1, <2>4, <2>6, RunTyped DEF RunLogin
<1>15. CASE UNCHANGED vars
  <2>1. TypeOK'
    BY <1>0, <1>15 DEF TypeOK, vars, threads, client
  <2>2. QueueInv'
    BY <1>15 DEF TypeInv, QueueInv, vars, threads
  <2> QED
    BY <2>1, <2>2 DEF TypeInv
<1> QED
  BY <1>2, <1>3, <1>4, <1>5, <1>6, <1>7, <1>8, <1>9, <1>10, <1>11, <1>12, <1>13,
     <1>14, <1>15 DEF Next, LoopStep

LEMMA TypeInit == Init => TypeInv
<1> SUFFICES ASSUME Init PROVE TypeInv
  OBVIOUS
<1>1. /\ started \in InitLoops..NLoops /\ next \in 0..started
      /\ ploop \in [Conns -> 1..started] /\ logins \in [Conns -> 0..MaxLogins]
  BY HandoffAssumption DEF Init
<1>2. TypeOK
  BY <1>1 DEF Init, TypeOK
<1>3. QueueInv
  BY DEF Init, QueueInv
<1> QED
  BY <1>2, <1>3 DEF TypeInv

(* The model keeps its types (TypeOK): also the numbers of loops it uses,  *)
(* while the table of loops grows.                                         *)
THEOREM TypeCorrect == Spec => []TypeOK
<1>1. TypeInv => TypeOK
  BY DEF TypeInv
<1> QED
  BY <1>1, TypeInit, TypeStep, PTL DEF Spec

----------------------------------------------------------------------------
(* Phases.                                                                 *)

Ops == {"addIOEM", "established", "addTcpConn", "login"}

Positions == Nat \ {0}

(* In the queues q, the task at position i of loop k is op on c.           *)
Has(q, c, k, i, op) == /\ i \in DOMAIN q[k]
                       /\ q[k][i].conn = c /\ q[k][i].op = op

(* The tasks about c in the queues q are those of T: loop, position, op.   *)
TasksAre(q, c, T) ==
  \A k \in Loops, i \in Positions, op \in Ops : Has(q, c, k, i, op) <=> <<k, i, op>> \in T

(* The loops that hold c, the loops whose epoll set has it.                *)
Held(c, H)    == \A l \in Loops : c \in pTcpConns[l] <=> l \in H
Watched(c, W) == \A l \in Loops : c \in registered[l] <=> l \in W

Place(c, H, W, T) == Held(c, H) /\ Watched(c, W) /\ TasksAre(tasks, c, T)

Fresh(c)  == fd[c] = "none" /\ accepting # c /\ ~reading[c] /\ Place(c, {}, {}, {})
Closed(c) == fd[c] = "closed" /\ accepting # c /\ Place(c, {}, {}, {})

(* newConnection is working on c ..                                        *)
Created(c, k, i) == accepting = c /\ Place(c, {}, {}, {<<k, i, "addIOEM">>})
Added(c, k)      == accepting = c /\ Place(c, {}, {k}, {})
(* .. and has returned.                                                    *)
Returned(c, k, i, j) ==
  /\ accepting # c /\ i < j
  /\ Place(c, {}, {}, {<<k, i, "addIOEM">>, <<k, j, "established">>})
Establishing(c, k, j) == accepting # c /\ Place(c, {}, {k}, {<<k, j, "established">>})

Opening(c) == \E k \in Loops : ploop[c] = k /\
                \/ Added(c, k)
                \/ \E i \in Positions : \/ Created(c, k, i) \/ Establishing(c, k, i)
                                        \/ \E j \in Positions : Returned(c, k, i, j)

(* On its loop.                                                            *)
Settled(c) == \E k \in Loops : ploop[c] = k /\ Place(c, {k}, {k}, {})

(* Moving to loop k: that loop has taken all of the three tasks or none,   *)
(* the first one has run, the second one has.                              *)
Moving(c, k, i) ==
  /\ Place(c, {}, {},
           {<<k, i, "addIOEM">>, <<k, i + 1, "addTcpConn">>, <<k, i + 2, "login">>})
  /\ running[k] < i \/ running[k] >= i + 2
Moved(c, k) == /\ Place(c, {}, {k}, {<<k, 1, "addTcpConn">>, <<k, 2, "login">>})
               /\ running[k] >= 2
Logging(c, k) == /\ ploop[c] = k
                 /\ Place(c, {k}, {k}, {<<k, 1, "login">>})
                 /\ running[k] >= 1

InHandoff(c) == \E k \in Loops : \/ Moved(c, k) \/ Logging(c, k)
                                 \/ \E i \in Positions : Moving(c, k, i)

Phase(c) == \/ Fresh(c) \/ Closed(c)
            \/ fd[c] = "open" /\ ~reading[c] /\ Opening(c)
            \/ fd[c] = "open" /\ reading[c] /\ accepting # c /\ (Settled(c) \/ InHandoff(c))

(* Only on its loop, and only there, a connection has events.              *)
EventsSettled(c) == \A l \in Loops : c \in active[l] =>
                      fd[c] = "open" /\ reading[c] /\ Settled(c) /\ ploop[c] = l

PhaseInv == \A c \in Conns : Phase(c) /\ EventsSettled(c)

IInv == TypeInv /\ PhaseInv

----------------------------------------------------------------------------
(* Where tasks are after an append, a handoff, a run.                      *)

LEMMA HasTyped ==
  ASSUME NEW q \in [Loops -> Seq(Tasks)], NEW k \in Loops, NEW i, NEW c, NEW op,
         Has(q, c, k, i, op)
  PROVE  i \in Positions /\ i <= Len(q[k]) /\ op \in Ops
<1>1. DOMAIN q[k] = 1..Len(q[k]) /\ Len(q[k]) \in Nat /\ q[k] \in Seq(Tasks)
  OBVIOUS
<1>2. i \in Positions /\ i <= Len(q[k])
  BY <1>1 DEF Has, Positions
<1>3. q[k][i] \in Tasks
  BY <1>1 DEF Has
<1> QED
  BY <1>2, <1>3 DEF Has, Tasks, Ops

LEMMA HasAppended ==
  ASSUME NEW q \in [Loops -> Seq(Tasks)], NEW m \in Loops, NEW t \in Tasks,
         NEW c, NEW k \in Loops, NEW i \in Positions, NEW op \in Ops
  PROVE  Has([q EXCEPT ![m] = Append(@, t)], c, k, i, op) <=>
           \/ Has(q, c, k, i, op)
           \/ k = m /\ i = Len(q[m]) + 1 /\ t.conn = c /\ t.op = op
<1>1. PICK s \in Seq(Tasks) : s = q[m]
  OBVIOUS
<1>2. PICK r \in [Loops -> Seq(Tasks)] : r = [q EXCEPT ![m] = Append(s, t)]
  <2>1. Append(s, t) \in Seq(Tasks)
    OBVIOUS
  <2> QED
    BY <2>1
<1>3. r = [q EXCEPT ![m] = Append(@, t)]
  BY <1>1, <1>2
<1>4. CASE k # m
  BY <1>2, <1>3, <1>4 DEF Has
<1>5. CASE k = m
  <2>1. r[k] = Append(s, t) /\ q[k] = s
    BY <1>1, <1>2, <1>5
  <2>2. /\ DOMAIN Append(s, t) = 1..(Len(s) + 1) /\ DOMAIN s = 1..Len(s)
        /\ Len(s) \in Nat /\ i \in Nat /\ i > 0
        /\ \A n \in 1..Len(s) : Append(s, t)[n] = s[n]
        /\ Append(s, t)[Len(s) + 1] = t
    BY DEF Positions
  <2>3. CASE i = Len(s) + 1
    BY <1>1, <1>3, <1>5, <2>1, <2>2, <2>3 DEF Has
  <2>4. CASE i # Len(s) + 1
    <3>1. i \in DOMAIN Append(s, t) <=> i \in DOMAIN s
      BY <2>2, <2>4
    <3>2. i \in DOMAIN s => Append(s, t)[i] = s[i]
      BY <2>2
    <3> QED
      BY <1>1, <1>3, <1>5, <2>1, <2>4, <3>1, <3>2 DEF Has
  <2> QED
    BY <2>3, <2>4
<1> QED
  BY <1>4, <1>5

LEMMA HasTail ==
  ASSUME NEW q \in [Loops -> Seq(Tasks)], NEW l \in Loops, q[l] # <<>>,
         NEW c, NEW k \in Loops, NEW i \in Positions, NEW op \in Ops
  PROVE  Has([q EXCEPT ![l] = Tail(@)], c, k, i, op) <=>
           Has(q, c, k, IF k = l THEN i + 1 ELSE i, op)
<1>1. PICK s \in Seq(Tasks) : s = q[l]
  OBVIOUS
<1>2. /\ Tail(s) \in Seq(Tasks) /\ Len(Tail(s)) = Len(s) - 1
      /\ \A j \in 1..Len(Tail(s)) : Tail(s)[j] = s[j + 1]
  BY <1>1, HeadTailProperties
<1>3. PICK r \in [Loops -> Seq(Tasks)] : r = [q EXCEPT ![l] = Tail(s)]
  BY <1>2
<1>4. r = [q EXCEPT ![l] = Tail(@)]
  BY <1>1, <1>3
<1>5. CASE k # l
  BY <1>3, <1>4, <1>5 DEF Has
<1>6. CASE k = l
  <2>1. r[k] = Tail(s) /\ q[k] = s
    BY <1>1, <1>3, <1>6
  <2>2. /\ DOMAIN Tail(s) = 1..(Len(s) - 1) /\ DOMAIN s = 1..Len(s)
        /\ Len(s) \in Nat /\ i \in Nat /\ i > 0
    BY <1>2 DEF Positions
  <2>3. i \in DOMAIN Tail(s) <=> i + 1 \in DOMAIN s
    BY <2>2
  <2>4. i \in DOMAIN Tail(s) => Tail(s)[i] = s[i + 1]
    BY <1>2, <2>2
  <2> QED
    BY <1>4, <1>6, <2>1, <2>3, <2>4 DEF Has
<1> QED
  BY <1>5, <1>6

----------------------------------------------------------------------------
(* What a step does to the connections it is not about: the tasks of s's   *)
(* loops move up by one, and those that were first were about others.      *)

Same(c) == /\ fd'[c] = fd[c] /\ ploop'[c] = ploop[c] /\ reading'[c] = reading[c]
           /\ accepting' = c <=> accepting = c
           /\ \A l \in Loops : /\ c \in pTcpConns'[l] <=> c \in pTcpConns[l]
                               /\ c \in registered'[l] <=> c \in registered[l]

Shifted(c, s) ==
  /\ \A k \in Loops, i \in Positions, op \in Ops :
       Has(tasks', c, k, i, op) <=> Has(tasks, c, k, i + s[k], op)
  /\ \A k \in Loops, op \in Ops : s[k] = 1 => ~Has(tasks, c, k, 1, op)

RunningKept(s) ==
  \A k \in Loops : \/ running'[k] = running[k] - s[k]
                   \/ s[k] = 0 /\ running[k] = 0 /\ running'[k] = Len(tasks[k])

LEMMA PlaceKept ==
  ASSUME NEW c \in Conns, NEW s \in [Loops -> {0, 1}], NEW H, NEW W, NEW T, NEW U,
         Same(c), Shifted(c, s), Place(c, H, W, T),
         \A k \in Loops, i \in Positions, op \in Ops :
           <<k, i + s[k], op>> \in T <=> <<k, i, op>> \in U
  PROVE  Place(c, H, W, U)'
<1>1. \A k \in Loops : s[k] \in {0, 1}
  OBVIOUS
<1>2. \A k \in Loops, i \in Positions : i + s[k] \in Positions
  BY <1>1 DEF Positions
<1>3. TasksAre(tasks, c, U)'
  BY <1>2 DEF Place, TasksAre, Shifted
<1>4. Held(c, H)' /\ Watched(c, W)'
  BY DEF Place, Held, Watched, Same
<1> QED
  BY <1>3, <1>4 DEF Place

(* A task about c keeps its place in the order, at a position that counts. *)
LEMMA PositionKept ==
  ASSUME NEW c \in Conns, NEW s \in [Loops -> {0, 1}], Shifted(c, s),
         NEW k \in Loops, NEW i \in Positions, NEW op \in Ops, Has(tasks, c, k, i, op)
  PROVE  /\ i - s[k] \in Positions /\ s[k] \in {0, 1}
         /\ \A n \in Positions : n + s[k] = i <=> n = i - s[k]
<1>2. s[k] = 1 => i # 1
  BY DEF Shifted
<1>3. s[k] \in {0, 1} /\ i \in Nat /\ i > 0
  BY DEF Positions
<1> QED
  BY <1>2, <1>3 DEF Positions

LEMMA SettledKept ==
  ASSUME NEW c \in Conns, NEW s \in [Loops -> {0, 1}], Same(c), Shifted(c, s), Settled(c)
  PROVE  Settled(c)'
<1>1. PICK k \in Loops : ploop[c] = k /\ Place(c, {k}, {k}, {})
  BY DEF Settled
<1>2. Place(c, {k}, {k}, {})'
  BY <1>1, PlaceKept
<1>3. ploop'[c] = k
  BY <1>1 DEF Same
<1> QED
  BY <1>2, <1>3 DEF Settled

LEMMA OpeningKept ==
  ASSUME NEW c \in Conns, NEW s \in [Loops -> {0, 1}], Same(c), Shifted(c, s), Opening(c)
  PROVE  Opening(c)'
<1>1. PICK k \in Loops :
        /\ ploop[c] = k
        /\ \/ Added(c, k)
           \/ \E i \in Positions : \/ Created(c, k, i) \/ Establishing(c, k, i)
                                   \/ \E j \in Positions : Returned(c, k, i, j)
  BY DEF Opening
<1>2. ploop'[c] = k /\ (accepting' = c <=> accepting = c)
  BY <1>1 DEF Same
<1>3. CASE Added(c, k)
  <2>1. Place(c, {}, {k}, {})'
    BY <1>3, PlaceKept DEF Added
  <2>2. Added(c, k)'
    BY <1>2, <1>3, <2>1 DEF Added
  <2> QED
    BY <1>2, <2>2 DEF Opening
<1>4. ASSUME NEW i \in Positions, Created(c, k, i) PROVE Opening(c)'
  <2>1. PICK n \in Positions : /\ n = i - s[k] /\ n + s[k] = i
                               /\ \A m \in Positions : m + s[k] = i <=> m = n
    <3>1. "addIOEM" \in Ops
      BY DEF Ops
    <3>2. Has(tasks, c, k, i, "addIOEM")
      BY <1>4, <3>1 DEF Created, Place, TasksAre
    <3> QED
      BY <3>1, <3>2, PositionKept
  <2>2. Place(c, {}, {}, {<<k, n, "addIOEM">>})'
    BY <1>4, <2>1, PlaceKept DEF Created
  <2>3. Created(c, k, n)'
    BY <1>2, <1>4, <2>2 DEF Created
  <2> QED
    BY <1>2, <2>3 DEF Opening
<1>5. ASSUME NEW i \in Positions, Establishing(c, k, i) PROVE Opening(c)'
  <2>1. PICK n \in Positions : /\ n = i - s[k] /\ n + s[k] = i
                               /\ \A m \in Positions : m + s[k] = i <=> m = n
    <3>1. "established" \in Ops
      BY DEF Ops
    <3>2. Has(tasks, c, k, i, "established")
      BY <1>5, <3>1 DEF Establishing, Place, TasksAre
    <3> QED
      BY <3>1, <3>2, PositionKept
  <2>2. Place(c, {}, {k}, {<<k, n, "established">>})'
    BY <1>5, <2>1, PlaceKept DEF Establishing
  <2>3. Establishing(c, k, n)'
    BY <1>2, <1>5, <2>2 DEF Establishing
  <2> QED
    BY <1>2, <2>3 DEF Opening
<1>6. ASSUME NEW i \in Positions, NEW j \in Positions, Returned(c, k, i, j)
      PROVE  Opening(c)'
  <2>1. PICK n \in Positions : /\ n = i - s[k] /\ n + s[k] = i
                               /\ \A m \in Positions : m + s[k] = i <=> m = n
    <3>1. "addIOEM" \in Ops
      BY DEF Ops
    <3>2. Has(tasks, c, k, i, "addIOEM")
      BY <1>6, <3>1 DEF Returned, Place, TasksAre
    <3> QED
      BY <3>1, <3>2, PositionKept
  <2>2. PICK o \in Positions : /\ o = j - s[k] /\ o + s[k] = j /\ s[k] \in {0, 1}
                               /\ \A m \in Positions : m + s[k] = j <=> m = o
    <3>1. "established" \in Ops
      BY DEF Ops
    <3>2. Has(tasks, c, k, j, "established")
      BY <1>6, <3>1 DEF Returned, Place, TasksAre
    <3> QED
      BY <3>1, <3>2, PositionKept
  <2>3. Place(c, {}, {}, {<<k, n, "addIOEM">>, <<k, o, "established">>})'
    BY <1>6, <2>1, <2>2, PlaceKept DEF Returned
  <2>4. n < o
    BY <1>6, <2>1, <2>2 DEF Returned, Positions
  <2>5. Returned(c, k, n, o)'
    BY <1>2, <1>6, <2>3, <2>4 DEF Returned
  <2> QED
    BY <1>2, <2>5 DEF Opening
<1> QED
  BY <1>1, <1>3, <1>4, <1>5, <1>6

LEMMA InHandoffKept ==
  ASSUME TypeInv, NEW c \in Conns, NEW s \in [Loops -> {0, 1}], Same(c), Shifted(c, s),
         RunningKept(s), InHandoff(c)
  PROVE  InHandoff(c)'
<1>1. PICK k \in Loops : \/ Moved(c, k) \/ Logging(c, k)
                         \/ \E i \in Positions : Moving(c, k, i)
  BY DEF InHandoff
<1>2. /\ s[k] \in {0, 1} /\ running[k] \in Nat /\ Len(tasks[k]) \in Nat
      /\ DOMAIN tasks[k] = 1..Len(tasks[k])
      /\ \/ running'[k] = running[k] - s[k]
         \/ s[k] = 0 /\ running[k] = 0 /\ running'[k] = Len(tasks[k])
  BY Queues DEF RunningKept
<1>3. CASE Moved(c, k)
  <2>1. Has(tasks, c, k, 1, "addTcpConn") /\ "addTcpConn" \in Ops
    BY <1>3 DEF Moved, Place, TasksAre, Positions, Ops
  <2>2. s[k] = 0
    BY <1>2, <2>1 DEF Shifted
  <2>3. Place(c, {}, {k}, {<<k, 1, "addTcpConn">>, <<k, 2, "login">>})'
    <3>1. \A l \in Loops, i \in Positions, op \in Ops :
            <<l, i + s[l], op>> \in {<<k, 1, "addTcpConn">>, <<k, 2, "login">>} <=>
            <<l, i, op>> \in {<<k, 1, "addTcpConn">>, <<k, 2, "login">>}
      BY <2>2 DEF Positions
    <3> QED
      BY <1>3, <3>1, PlaceKept DEF Moved
  <2>4. running'[k] >= 2
    BY <1>2, <1>3, <2>2 DEF Moved
  <2> QED
    BY <2>3, <2>4 DEF Moved, InHandoff
<1>4. CASE Logging(c, k)
  <2>1. Has(tasks, c, k, 1, "login") /\ "login" \in Ops
    BY <1>4 DEF Logging, Place, TasksAre, Positions, Ops
  <2>2. s[k] = 0
    BY <1>2, <2>1 DEF Shifted
  <2>3. Place(c, {k}, {k}, {<<k, 1, "login">>})'
    <3>1. \A l \in Loops, i \in Positions, op \in Ops :
            <<l, i + s[l], op>> \in {<<k, 1, "login">>} <=>
            <<l, i, op>> \in {<<k, 1, "login">>}
      BY <2>2 DEF Positions
    <3> QED
      BY <1>4, <3>1, PlaceKept DEF Logging
  <2>4. running'[k] >= 1 /\ ploop'[c] = k
    BY <1>2, <1>4, <2>2 DEF Logging, Same
  <2> QED
    BY <2>3, <2>4 DEF Logging, InHandoff
<1>5. ASSUME NEW i \in Positions, Moving(c, k, i) PROVE InHandoff(c)'
  <2>1. PICK n \in Positions : /\ n = i - s[k] /\ n + s[k] = i
                               /\ \A m \in Positions : m + s[k] = i <=> m = n
    <3>1. "addIOEM" \in Ops
      BY DEF Ops
    <3>2. Has(tasks, c, k, i, "addIOEM")
      BY <1>5, <3>1 DEF Moving, Place, TasksAre
    <3> QED
      BY <3>1, <3>2, PositionKept
  <2>2. Place(c, {}, {},
           {<<k, n, "addIOEM">>, <<k, n + 1, "addTcpConn">>, <<k, n + 2, "login">>})'
    <3>1. \A m \in Positions : /\ m + s[k] = i + 1 <=> m = n + 1
                               /\ m + s[k] = i + 2 <=> m = n + 2
      BY <1>2, <2>1 DEF Positions
    <3> QED
      BY <1>5, <2>1, <3>1, PlaceKept DEF Moving
  <2>3. Has(tasks, c, k, i + 2, "login")
    BY <1>5 DEF Moving, Place, TasksAre, Positions, Ops
  <2>4. i + 2 <= Len(tasks[k])
    BY <1>2, <2>3 DEF Has, Positions
  <2>5. running'[k] < n \/ running'[k] >= n + 2
    <3>1. running[k] < i \/ running[k] >= i + 2
      BY <1>5 DEF Moving
    <3>2. i \in Int /\ n \in Int /\ s[k] \in Int /\ n = i - s[k]
      BY <1>2, <2>1 DEF Positions
    <3>3. CASE running'[k] = running[k] - s[k]
      BY <1>2, <3>1, <3>2, <3>3
    <3>4. CASE s[k] = 0 /\ running'[k] = Len(tasks[k])
      BY <1>2, <2>4, <3>2, <3>4
    <3> QED
      BY <1>2, <3>3, <3>4
  <2> QED
    BY <2>2, <2>5 DEF Moving, InHandoff
<1> QED
  BY <1>1, <1>3, <1>4, <1>5

LEMMA PhaseKept ==
  ASSUME TypeInv, NEW c \in Conns, NEW s \in [Loops -> {0, 1}], Same(c), Shifted(c, s),
         RunningKept(s), Phase(c)
  PROVE  Phase(c)'
<1>1. CASE Fresh(c)
  <2>1. Place(c, {}, {}, {})'
    BY <1>1, PlaceKept DEF Fresh
  <2> QED
    BY <1>1, <2>1 DEF Fresh, Phase, Same
<1>2. CASE Closed(c)
  <2>1. Place(c, {}, {}, {})'
    BY <1>2, PlaceKept DEF Closed
  <2> QED
    BY <1>2, <2>1 DEF Closed, Phase, Same
<1>3. CASE fd[c] = "open" /\ ~reading[c] /\ Opening(c)
  BY <1>3, OpeningKept DEF Phase, Same
<1>4. CASE fd[c] = "open" /\ reading[c] /\ accepting # c /\ Settled(c)
  BY <1>4, SettledKept DEF Phase, Same
<1>5. CASE fd[c] = "open" /\ reading[c] /\ accepting # c /\ InHandoff(c)
  BY <1>5, InHandoffKept DEF Phase, Same
<1> QED
  BY <1>1, <1>2, <1>3, <1>4, <1>5 DEF Phase

(* New events are those of fds in the epoll set of a loop that waits.      *)
LEMMA EventsKept ==
  ASSUME TypeInv, NEW c \in Conns, NEW s \in [Loops -> {0, 1}], Same(c), Shifted(c, s),
         Phase(c), EventsSettled(c),
         \A l \in Loops : c \in active'[l] =>
           c \in active[l] \/ (c \in registered[l] /\ reading[c] /\ running[l] = 0)
  PROVE  EventsSettled(c)'
<1> SUFFICES ASSUME NEW l \in Loops, c \in active'[l]
             PROVE  fd'[c] = "open" /\ reading'[c] /\ Settled(c)' /\ ploop'[c] = l
  BY DEF EventsSettled
<1>1. fd[c] = "open" /\ reading[c] /\ Settled(c) /\ ploop[c] = l
  <2>1. CASE c \in active[l]
    BY <2>1 DEF EventsSettled
  <2>2. CASE c \in registered[l] /\ reading[c] /\ running[l] = 0
    <3>1. ~Fresh(c) /\ ~Closed(c)
      BY <2>2 DEF Fresh, Closed, Place, Watched
    <3>2. ~InHandoff(c)
      <4>1. SUFFICES ASSUME NEW k \in Loops,
                            \/ Moved(c, k) \/ Logging(c, k)
                            \/ \E i \in Positions : Moving(c, k, i)
                     PROVE  FALSE
        BY DEF InHandoff
      <4>2. CASE Moved(c, k)
        <5>1. l = k
          BY <2>2, <4>2 DEF Moved, Place, Watched
        <5> QED
          BY <2>2, <4>2, <5>1 DEF Moved
      <4>3. CASE Logging(c, k)
        <5>1. l = k
          BY <2>2, <4>3 DEF Logging, Place, Watched
        <5> QED
          BY <2>2, <4>3, <5>1 DEF Logging
      <4>4. CASE \E i \in Positions : Moving(c, k, i)
        BY <2>2, <4>4 DEF Moving, Place, Watched
      <4> QED
        BY <4>1, <4>2, <4>3, <4>4
    <3>3. fd[c] = "open" /\ Settled(c)
      BY <2>2, <3>1, <3>2 DEF Phase
    <3>4. ploop[c] = l
      BY <2>2, <3>3 DEF Settled, Place, Watched
    <3> QED
      BY <2>2, <3>3, <3>4
  <2> QED
    BY <2>1, <2>2
<1>2. Settled(c)'
  BY <1>1, SettledKept
<1> QED
  BY <1>1, <1>2 DEF Same

Still    == [k \in Loops |-> 0]
First(l) == [k \in Loops |-> IF k = l THEN 1 ELSE 0]

LEMMA StaysPut ==
  ASSUME IInv, NEW c \in Conns, Same(c),
         \A k \in Loops, i \in Positions, op \in Ops :
           Has(tasks', c, k, i, op) <=> Has(tasks, c, k, i, op),
         \A k \in Loops : \/ running'[k] = running[k]
                          \/ running[k] = 0 /\ running'[k] = Len(tasks[k]),
         \A l \in Loops : c \in active'[l] =>
           c \in active[l] \/ (c \in registered[l] /\ reading[c] /\ running[l] = 0)
  PROVE  Phase(c)' /\ EventsSettled(c)'
<1>1. Still \in [Loops -> {0, 1}] /\ \A k \in Loops : Still[k] = 0
  BY DEF Still
<1>2. Shifted(c, Still)
  <2>1. \A i \in Positions : i + 0 = i
    BY DEF Positions
  <2> QED
    BY <1>1, <2>1 DEF Shifted
<1>3. RunningKept(Still)
  <2>1. \A k \in Loops : running[k] - 0 = running[k]
    BY Queues DEF IInv
  <2> QED
    BY <1>1, <2>1 DEF RunningKept
<1>4. TypeInv /\ Phase(c) /\ EventsSettled(c)
  BY DEF IInv, PhaseInv
<1> QED
  BY <1>1, <1>2, <1>3, <1>4, PhaseKept, EventsKept

(* The first task, and where the others are once it is taken.              *)
LEMMA AfterRun ==
  ASSUME TypeInv, NEW l \in Loops, NEW d, NEW o, Runs(l, o, d)
  PROVE  /\ Has(tasks, d, l, 1, o)
         /\ \A c \in Conns, k \in Loops, i \in Positions, op \in Ops :
              Has(Rest(l), c, k, i, op) <=> Has(tasks, c, k, IF k = l THEN i + 1 ELSE i, op)
<1>1. /\ tasks[l] # <<>> /\ 1 \in DOMAIN tasks[l]
      /\ tasks[l][1].conn = d /\ tasks[l][1].op = o
  BY Running
<1>2. PICK q \in [Loops -> Seq(Tasks)] : q = tasks
  BY DEF TypeInv, TypeOK
<1>3. ASSUME NEW c \in Conns, NEW k \in Loops, NEW i \in Positions, NEW op \in Ops
      PROVE  Has(Rest(l), c, k, i, op) <=> Has(tasks, c, k, IF k = l THEN i + 1 ELSE i, op)
  <2>1. q[l] # <<>>
    BY <1>1, <1>2
  <2>2. Has([q EXCEPT ![l] = Tail(@)], c, k, i, op) <=>
          Has(q, c, k, IF k = l THEN i + 1 ELSE i, op)
    BY <2>1, HasTail
  <2> QED
    BY <1>2, <2>2 DEF Rest
<1>4. Has(tasks, d, l, 1, o)
  BY <1>1 DEF Has
<1> QED
  BY <1>3, <1>4

LEMMA MovesUp ==
  ASSUME IInv, NEW c \in Conns, Same(c),
         NEW l \in Loops, NEW d, NEW o, Runs(l, o, d), c # d,
         \A k \in Loops, i \in Positions, op \in Ops :
           Has(tasks', c, k, i, op) <=> Has(Rest(l), c, k, i, op),
         \A k \in Loops : active'[k] = active[k]
  PROVE  Phase(c)' /\ EventsSettled(c)'
<1>0. TypeInv
  BY DEF IInv
<1>1. First(l) \in [Loops -> {0, 1}]
      /\ \A k \in Loops : First(l)[k] = IF k = l THEN 1 ELSE 0
  BY DEF First
<1>2. Shifted(c, First(l))
  <2>1. \A i \in Positions : i + 0 = i
    BY DEF Positions
  <2>2. \A k \in Loops, i \in Positions, op \in Ops :
          Has(tasks', c, k, i, op) <=> Has(tasks, c, k, IF k = l THEN i + 1 ELSE i, op)
    BY <1>0, AfterRun
  <2>3. \A k \in Loops, i \in Positions, op \in Ops :
          Has(tasks', c, k, i, op) <=> Has(tasks, c, k, i + First(l)[k], op)
    BY <1>1, <2>1, <2>2
  <2>4. Has(tasks, d, l, 1, o)
    BY <1>0, AfterRun
  <2>5. \A op \in Ops : ~Has(tasks, c, l, 1, op)
    BY <2>4 DEF Has
  <2> QED
    BY <1>1, <2>3, <2>5 DEF Shifted
<1>3. RunningKept(First(l))
  <2>1. running'[l] = running[l] - 1 /\ \A k \in Loops : k # l => running'[k] = running[k]
    BY <1>0, Running
  <2>2. \A k \in Loops : running[k] - 0 = running[k]
    BY <1>0, Queues
  <2> QED
    BY <1>1, <2>1, <2>2 DEF RunningKept
<1>4. Phase(c) /\ EventsSettled(c)
  BY DEF IInv, PhaseInv
<1>5. Phase(c)'
  BY <1>0, <1>1, <1>2, <1>3, <1>4, PhaseKept
<1>6. \A k \in Loops : c \in active'[k] =>
        c \in active[k] \/ (c \in registered[k] /\ reading[c] /\ running[k] = 0)
  OBVIOUS
<1>7. EventsSettled(c)'
  BY <1>0, <1>1, <1>2, <1>4, <1>6, EventsKept
<1> QED
  BY <1>5, <1>7

----------------------------------------------------------------------------
(* The steps of newConnection.                                             *)

LEMMA AcceptPhases ==
  ASSUME IInv, NEW d \in Conns, Accept(d), NEW c \in Conns
  PROVE  Phase(c)' /\ EventsSettled(c)'
<1>0. TypeInv /\ TypeOK
  BY DEF IInv, TypeInv
<1>1. PICK m \in Loops : m = NextIndex + 1
  BY <1>0, LoopNumbers
<1>2. PICK t \in Tasks : t = Task("addIOEM", d, 0) /\ t.conn = d /\ t.op = "addIOEM"
  BY TaskIs
<1>3. PICK q \in [Loops -> Seq(Tasks)] : q = tasks
  BY <1>0 DEF TypeOK
<1>4. /\ tasks' = [q EXCEPT ![m] = Append(@, t)] /\ ploop' = [ploop EXCEPT ![d] = m]
      /\ accepting' = d /\ fd' = [fd EXCEPT ![d] = "open"]
      /\ UNCHANGED <<active, running, registered, pTcpConns, reading>>
  BY <1>1, <1>2, <1>3 DEF Accept
<1>5. \A k \in Loops, i \in Positions, op \in Ops :
        Has(tasks', c, k, i, op) <=>
          \/ Has(tasks, c, k, i, op)
          \/ k = m /\ i = Len(tasks[m]) + 1 /\ d = c /\ op = "addIOEM"
  <2>1. \A k \in Loops, i \in Positions, op \in Ops :
          Has([q EXCEPT ![m] = Append(@, t)], c, k, i, op) <=>
            \/ Has(q, c, k, i, op)
            \/ k = m /\ i = Len(q[m]) + 1 /\ t.conn = c /\ t.op = op
    BY HasAppended
  <2> QED
    BY <1>2, <1>3, <1>4, <2>1
<1>6. fd[d] = "none" /\ accepting = NoConn /\ NoConn \notin Conns
  BY HandoffAssumption DEF Accept
<1>7. fd \in [Conns -> {"none", "open", "closed"}] /\ ploop \in [Conns -> 1..started]
  BY <1>0 DEF TypeOK
<1>8. CASE c # d
  <2>1. Same(c)
    BY <1>4, <1>6, <1>7, <1>8 DEF Same
  <2>2. \A k \in Loops, i \in Positions, op \in Ops :
          Has(tasks', c, k, i, op) <=> Has(tasks, c, k, i, op)
    BY <1>5, <1>8
  <2>3. \A k \in Loops : running'[k] = running[k] /\ active'[k] = active[k]
    BY <1>4
  <2> QED
    BY <2>1, <2>2, <2>3, StaysPut
<1>9. CASE c = d
  <2>1. Phase(c)
    BY DEF IInv, PhaseInv
  <2>2. Fresh(c)
    BY <1>6, <1>9, <2>1 DEF Phase, Closed
  <2>3. PICK n \in Positions : n = Len(tasks[m]) + 1
    BY <1>0, Queues DEF Positions
  <2>4. Place(c, {}, {}, {<<m, n, "addIOEM">>})'
    <3>1. TasksAre(tasks, c, {<<m, n, "addIOEM">>})'
      BY <1>5, <1>9, <2>2, <2>3 DEF Fresh, Place, TasksAre
    <3>2. Held(c, {})' /\ Watched(c, {})'
      BY <1>4, <2>2 DEF Fresh, Place, Held, Watched
    <3> QED
      BY <3>1, <3>2 DEF Place
  <2>5. ploop'[c] = m /\ accepting' = c /\ fd'[c] = "open" /\ ~reading'[c]
    BY <1>4, <1>7, <1>9, <2>2 DEF Fresh
  <2>6. Phase(c)'
    BY <2>4, <2>5 DEF Created, Opening, Phase
  <2>7. \A l \in Loops : c \notin active'[l]
    BY <1>4, <2>2 DEF IInv, PhaseInv, EventsSettled, Fresh
  <2> QED
    BY <2>6, <2>7 DEF EventsSettled
<1> QED
  BY <1>8, <1>9

LEMMA AcceptedPhases ==
  ASSUME IInv, Accepted, NEW c \in Conns
  PROVE  Phase(c)' /\ EventsSettled(c)'
<1>0. TypeInv /\ TypeOK
  BY DEF IInv, TypeInv
<1>1. PICK d \in Conns : d = accepting
  BY <1>0 DEF Accepted, TypeOK
<1>2. PICK m \in Loops : m = ploop[d]
  BY <1>0, LoopNumbers
<1>3. PICK t \in Tasks : t = Task("established", d, 0) /\ t.conn = d /\ t.op = "established"
  BY TaskIs
<1>4. PICK q \in [Loops -> Seq(Tasks)] : q = tasks
  BY <1>0 DEF TypeOK
<1>5. /\ tasks' = [q EXCEPT ![m] = Append(@, t)] /\ accepting' = NoConn
      /\ UNCHANGED <<active, running, registered, pTcpConns, reading, fd, ploop>>
  BY <1>1, <1>2, <1>3, <1>4 DEF Accepted
<1>6. \A k \in Loops, i \in Positions, op \in Ops :
        Has(tasks', c, k, i, op) <=>
          \/ Has(tasks, c, k, i, op)
          \/ k = m /\ i = Len(tasks[m]) + 1 /\ d = c /\ op = "established"
  <2>1. \A k \in Loops, i \in Positions, op \in Ops :
          Has([q EXCEPT ![m] = Append(@, t)], c, k, i, op) <=>
            \/ Has(q, c, k, i, op)
            \/ k = m /\ i = Len(q[m]) + 1 /\ t.conn = c /\ t.op = op
    BY HasAppended
  <2> QED
    BY <1>3, <1>4, <1>5, <2>1
<1>7. NoConn \notin Conns
  BY HandoffAssumption
<1>8. CASE c # d
  <2>1. Same(c)
    BY <1>1, <1>5, <1>7, <1>8 DEF Same
  <2>2. \A k \in Loops, i \in Positions, op \in Ops :
          Has(tasks', c, k, i, op) <=> Has(tasks, c, k, i, op)
    BY <1>6, <1>8
  <2>3. \A k \in Loops : running'[k] = running[k] /\ active'[k] = active[k]
    BY <1>5
  <2> QED
    BY <2>1, <2>2, <2>3, StaysPut
<1>9. CASE c = d
  <2>1. Phase(c) /\ accepting = c /\ accepting' # c
    BY <1>1, <1>5, <1>7, <1>9 DEF IInv, PhaseInv
  <2>2. fd[c] = "open" /\ ~reading[c] /\ Opening(c)
    BY <2>1 DEF Phase, Fresh, Closed
  <2>3. Added(c, m) \/ \E i \in Positions : Created(c, m, i)
    BY <1>2, <1>9, <2>1, <2>2 DEF Opening, Establishing, Returned
  <2>4. PICK n \in Positions : n = Len(tasks[m]) + 1
    BY <1>0, Queues DEF Positions
  <2>5. ploop'[c] = m /\ fd'[c] = "open" /\ ~reading'[c]
    BY <1>2, <1>5, <1>9, <2>2
  <2>6. ASSUME Added(c, m) PROVE Phase(c)'
    <3>1. TasksAre(tasks, c, {<<m, n, "established">>})'
      BY <1>6, <1>9, <2>4, <2>6 DEF Added, Place, TasksAre
    <3>2. Held(c, {})' /\ Watched(c, {m})'
      BY <1>5, <2>6 DEF Added, Place, Held, Watched
    <3>3. Establishing(c, m, n)'
      BY <2>1, <3>1, <3>2 DEF Place, Establishing
    <3>4. Opening(c)'
      BY <2>5, <3>3 DEF Opening
    <3> QED
      BY <2>5, <3>4 DEF Phase
  <2>7. ASSUME NEW i \in Positions, Created(c, m, i) PROVE Phase(c)'
    <3>1. TasksAre(tasks, c, {<<m, i, "addIOEM">>, <<m, n, "established">>})'
      BY <1>6, <1>9, <2>4, <2>7 DEF Created, Place, TasksAre
    <3>2. Held(c, {})' /\ Watched(c, {})'
      BY <1>5, <2>7 DEF Created, Place, Held, Watched
    <3>3. i < n
      <4>1. Has(tasks, c, m, i, "addIOEM")
        BY <2>7 DEF Created, Place, TasksAre, Ops
      <4>2. i <= Len(q[m])
        BY <1>4, <4>1, HasTyped
      <4> QED
        BY <1>0, <1>4, <2>4, <4>2, Queues DEF Positions
    <3>4. Returned(c, m, i, n)'
      BY <2>1, <3>1, <3>2, <3>3 DEF Place, Returned
    <3> QED
      BY <2>5, <3>4 DEF Opening, Phase
  <2>8. \A l \in Loops : c \notin active'[l]
    BY <1>5, <2>2 DEF IInv, PhaseInv, EventsSettled
  <2> QED
    BY <2>3, <2>6, <2>7, <2>8 DEF EventsSettled
<1> QED
  BY <1>8, <1>9

----------------------------------------------------------------------------
(* The steps of a loop.                                                    *)

(* Those that touch neither connections nor queues.                        *)
LEMMA PlainPhases ==
  ASSUME IInv, NEW c \in Conns,
         UNCHANGED <<fd, ploop, reading, accepting, pTcpConns, registered, tasks>>,
         \A k \in Loops : \/ running'[k] = running[k]
                          \/ running[k] = 0 /\ running'[k] = Len(tasks[k]),
         \A l \in Loops : c \in active'[l] =>
           c \in active[l] \/ (c \in registered[l] /\ reading[c] /\ running[l] = 0)
  PROVE  Phase(c)' /\ EventsSettled(c)'
<1>1. Same(c)
  BY DEF Same
<1>2. \A k \in Loops, i \in Positions, op \in Ops :
        Has(tasks', c, k, i, op) <=> Has(tasks, c, k, i, op)
  BY DEF Has
<1> QED
  BY <1>1, <1>2, StaysPut

LEMMA PollPhases ==
  ASSUME IInv, NEW l \in Loops, Poll(l), NEW c \in Conns
  PROVE  Phase(c)' /\ EventsSettled(c)'
<1>1. active \in [Loops -> SUBSET Conns] /\ running \in [Loops -> Nat]
  BY DEF IInv, TypeInv, TypeOK
<1>2. running[l] = 0
  BY <1>1 DEF Poll, IInv, TypeInv, QueueInv
<1>3. active'[l] = Ready(l) /\ \A k \in Loops : k # l => active'[k] = active[k]
  BY <1>1 DEF Poll
<1>4. c \in Ready(l) => c \in registered[l] /\ reading[c]
  BY DEF Ready
<1>5. \A k \in Loops : c \in active'[k] =>
        c \in active[k] \/ (c \in registered[k] /\ reading[c] /\ running[k] = 0)
  BY <1>2, <1>3, <1>4
<1>6. /\ UNCHANGED <<fd, ploop, reading, accepting, pTcpConns, registered, tasks>>
      /\ \A k \in Loops : running'[k] = running[k]
  BY DEF Poll, threads
<1> QED
  BY <1>5, <1>6, PlainPhases

LEMMA SwapPhases ==
  ASSUME IInv, NEW l \in Loops, Swap(l), NEW c \in Conns
  PROVE  Phase(c)' /\ EventsSettled(c)'
<1>1. running \in [Loops -> Nat]
  BY DEF IInv, TypeInv, TypeOK
<1>2. running[l] = 0
  BY <1>1 DEF Swap, IInv, TypeInv, QueueInv
<1>3. running'[l] = Len(tasks[l]) /\ \A k \in Loops : k # l => running'[k] = running[k]
  BY <1>1 DEF Swap
<1>4. \A k \in Loops : \/ running'[k] = running[k]
                       \/ running[k] = 0 /\ running'[k] = Len(tasks[k])
  BY <1>2, <1>3
<1>5. UNCHANGED <<fd, ploop, reading, accepting, pTcpConns, registered, tasks, active>>
  BY DEF Swap, threads
<1> QED
  BY <1>4, <1>5, PlainPhases

(* Queues that were q and get the tasks of a handoff of d to loop m.       *)
LEMMA MovedTask ==
  ASSUME NEW q \in [Loops -> Seq(Tasks)], NEW m \in Loops, NEW l \in Loops,
         NEW d \in Conns, NEW u \in Users \cup {0}, m = LoopOf(u), MoveTo(l, d, u, q),
         NEW c \in Conns, NEW k \in Loops, NEW i \in Positions, NEW op \in Ops
  PROVE  Has(tasks', c, k, i, op) <=>
           \/ Has(q, c, k, i, op)
           \/ /\ k = m /\ d = c
              /\ \/ i = Len(q[m]) + 1 /\ op = "addIOEM"
                 \/ i = Len(q[m]) + 2 /\ op = "addTcpConn"
                 \/ i = Len(q[m]) + 3 /\ op = "login"
<1>1. PICK s \in Seq(Tasks) : s = q[m]
  OBVIOUS
<1>2. PICK h \in Seq(Tasks) : h = HandoffTasks(d, u)
  BY HandoffIs
<1>3. /\ Len(h) = 3
      /\ h[1].conn = d /\ h[1].op = "addIOEM"
      /\ h[2].conn = d /\ h[2].op = "addTcpConn"
      /\ h[3].conn = d /\ h[3].op = "login"
  <2>1. /\ Len(h) = 3 /\ h[1] = Task("addIOEM", d, 0)
        /\ h[2] = Task("addTcpConn", d, 0) /\ h[3] = Task("login", d, u)
    BY <1>2, HandoffIs
  <2> QED
    BY <2>1 DEF Task
<1>4. /\ s \o h \in Seq(Tasks) /\ Len(s \o h) = Len(s) + Len(h)
      /\ \A n \in 1..(Len(s) + Len(h)) :
           (s \o h)[n] = IF n <= Len(s) THEN s[n] ELSE h[n - Len(s)]
  BY ConcatProperties
<1>5. PICK r \in [Loops -> Seq(Tasks)] : r = [q EXCEPT ![m] = s \o h]
  BY <1>4
<1>6. r = tasks'
  BY <1>1, <1>2, <1>5 DEF MoveTo
<1>7. CASE k # m
  BY <1>5, <1>6, <1>7 DEF Has
<1>8. CASE k = m
  <2>1. r[k] = s \o h /\ q[k] = s
    BY <1>1, <1>5, <1>8
  <2>2. /\ DOMAIN (s \o h) = 1..(Len(s) + 3) /\ DOMAIN s = 1..Len(s)
        /\ Len(s) \in Nat /\ i \in Nat /\ i > 0
    BY <1>3, <1>4 DEF Positions
  <2>3. CASE i <= Len(s)
    <3>1. i \in DOMAIN (s \o h) /\ i \in DOMAIN s /\ (s \o h)[i] = s[i]
      BY <1>3, <1>4, <2>2, <2>3
    <3> QED
      BY <1>1, <1>6, <1>8, <2>1, <2>2, <2>3, <3>1 DEF Has
  <2>4. CASE i > Len(s) + 3
    <3>1. i \notin DOMAIN (s \o h) /\ i \notin DOMAIN s
      BY <2>2, <2>4
    <3> QED
      BY <1>1, <1>6, <1>8, <2>1, <2>2, <2>4, <3>1 DEF Has
  <2>5. CASE i \in (Len(s) + 1)..(Len(s) + 3)
    <3>1. i \in DOMAIN (s \o h) /\ i \notin DOMAIN s /\ (s \o h)[i] = h[i - Len(s)]
      BY <1>3, <1>4, <2>2, <2>5
    <3>2. Has(r, c, k, i, op) <=> h[i - Len(s)].conn = c /\ h[i - Len(s)].op = op
      BY <2>1, <3>1 DEF Has
    <3>3. ~Has(q, c, k, i, op)
      BY <2>1, <3>1 DEF Has
    <3>4. \/ i = Len(s) + 1 /\ i - Len(s) = 1
          \/ i = Len(s) + 2 /\ i - Len(s) = 2
          \/ i = Len(s) + 3 /\ i - Len(s) = 3
      BY <2>2, <2>5
    <3>5. Has(r, c, k, i, op) <=>
            /\ d = c
            /\ \/ i = Len(s) + 1 /\ op = "addIOEM"
               \/ i = Len(s) + 2 /\ op = "addTcpConn"
               \/ i = Len(s) + 3 /\ op = "login"
      <4>1. CASE i = Len(s) + 1 /\ i - Len(s) = 1
        BY <1>3, <2>2, <3>2, <4>1
      <4>2. CASE i = Len(s) + 2 /\ i - Len(s) = 2
        BY <1>3, <2>2, <3>2, <4>2
      <4>3. CASE i = Len(s) + 3 /\ i - Len(s) = 3
        BY <1>3, <2>2, <3>2, <4>3
      <4> QED
        BY <3>4, <4>1, <4>2, <4>3
    <3> QED
      BY <1>1, <1>6, <1>8, <3>3, <3>5
  <2> QED
    BY <2>2, <2>3, <2>4, <2>5
<1> QED
  BY <1>7, <1>8

LEMMA AfterMove ==
  ASSUME NEW q \in [Loops -> Seq(Tasks)], NEW m \in Loops, NEW l \in Loops,
         NEW d \in Conns, NEW u \in Users \cup {0}, m = LoopOf(u), MoveTo(l, d, u, q)
  PROVE  \A c \in Conns, k \in Loops, i \in Positions, op \in Ops :
           Has(tasks', c, k, i, op) <=>
             \/ Has(q, c, k, i, op)
             \/ /\ k = m /\ d = c
                /\ \/ i = Len(q[m]) + 1 /\ op = "addIOEM"
                   \/ i = Len(q[m]) + 2 /\ op = "addTcpConn"
                   \/ i = Len(q[m]) + 3 /\ op = "login"
BY MovedTask

(* A settled connection that leaves its loop.                              *)
LEMMA StartsMoving ==
  ASSUME TypeInv, NEW q \in [Loops -> Seq(Tasks)], NEW m \in Loops, NEW l \in Loops,
         NEW c \in Conns, NEW u \in Users \cup {0}, m = LoopOf(u), MoveTo(l, c, u, q),
         Held(c, {l}), Watched(c, {l}), TasksAre(q, c, {}),
         running'[m] <= Len(q[m]), running'[m] \in Nat
  PROVE  InHandoff(c)'
<1>1. PICK n \in Positions : n = Len(q[m]) + 1
  BY DEF Positions
<1>2. Len(q[m]) \in Nat
  OBVIOUS
<1>3. TasksAre(tasks, c, {<<m, n, "addIOEM">>, <<m, n + 1, "addTcpConn">>,
                          <<m, n + 2, "login">>})'
  <2>1. \A k \in Loops, i \in Positions, op \in Ops : ~Has(q, c, k, i, op)
    BY DEF TasksAre
  <2>2. \A k \in Loops, i \in Positions, op \in Ops :
          Has(tasks', c, k, i, op) <=>
            /\ k = m
            /\ \/ i = n /\ op = "addIOEM"
               \/ i = n + 1 /\ op = "addTcpConn"
               \/ i = n + 2 /\ op = "login"
    BY <1>1, <1>2, <2>1, AfterMove
  <2> QED
    BY <2>2 DEF TasksAre
<1>4. Held(c, {})' /\ Watched(c, {})'
  BY DEF MoveTo, Held, Watched, TypeInv, TypeOK
<1>5. running'[m] < n
  BY <1>1, <1>2
<1> QED
  BY <1>3, <1>4, <1>5 DEF Moving, Place, InHandoff

LEMMA HandleFramePhases ==
  ASSUME IInv, NEW l \in Loops, NEW d \in Conns, HandleFrame(l, d), NEW c \in Conns
  PROVE  Phase(c)' /\ EventsSettled(c)'
<1>0. TypeInv /\ TypeOK /\ PhaseInv
  BY DEF IInv, TypeInv
<1>1. PICK u \in Users \cup {0} : u = input[d]
  BY <1>0 DEF TypeOK
<1>2. PICK m \in Loops : m = LoopOf(u)
  BY <1>0, LoopNumbers
<1>3. PICK q \in [Loops -> Seq(Tasks)] : q = tasks
  BY <1>0 DEF TypeOK
<1>4. /\ UNCHANGED <<fd, ploop, reading, accepting, running>>
      /\ d \in active[l] /\ active' = [active EXCEPT ![l] = @ \ {d}]
      /\ HandleLoginIn(l, d, u, q)
  BY <1>1, <1>3 DEF HandleFrame, threads
<1>5. \A k \in Loops : active'[k] \subseteq active[k]
  BY <1>0, <1>4 DEF TypeOK
<1>6. CASE LoopOf(u) = ploop[d]
  <2>1. UNCHANGED <<pTcpConns, registered, tasks>>
    BY <1>3, <1>4, <1>6 DEF HandleLoginIn, LoginHere
  <2> QED
    BY <1>4, <1>5, <2>1, PlainPhases
<1>7. CASE LoopOf(u) # ploop[d]
  <2>1. MoveTo(l, d, u, q)
    BY <1>4, <1>7 DEF HandleLoginIn
  <2>2. \A k \in Loops, i \in Positions, op \in Ops :
          Has(tasks', c, k, i, op) <=>
            \/ Has(tasks, c, k, i, op)
            \/ /\ k = m /\ d = c
               /\ \/ i = Len(q[m]) + 1 /\ op = "addIOEM"
                  \/ i = Len(q[m]) + 2 /\ op = "addTcpConn"
                  \/ i = Len(q[m]) + 3 /\ op = "login"
    <3>1. \A b \in Conns, k \in Loops, i \in Positions, op \in Ops :
            Has(tasks', b, k, i, op) <=>
              \/ Has(q, b, k, i, op)
              \/ /\ k = m /\ d = b
                 /\ \/ i = Len(q[m]) + 1 /\ op = "addIOEM"
                    \/ i = Len(q[m]) + 2 /\ op = "addTcpConn"
                    \/ i = Len(q[m]) + 3 /\ op = "login"
      BY <1>2, <2>1, AfterMove
    <3> QED
      BY <1>3, <3>1
  <2>3. CASE c # d
    <3>1. Same(c)
      BY <1>0, <1>4, <2>1, <2>3 DEF MoveTo, Same, TypeOK
    <3>2. \A k \in Loops, i \in Positions, op \in Ops :
            Has(tasks', c, k, i, op) <=> Has(tasks, c, k, i, op)
      BY <2>2, <2>3
    <3>3. \A k \in Loops : running'[k] = running[k] /\ (c \in active'[k] => c \in active[k])
      BY <1>4, <1>5
    <3> QED
      BY <3>1, <3>2, <3>3, StaysPut
  <2>4. CASE c = d
    <3>1. fd[c] = "open" /\ reading[c] /\ Settled(c) /\ ploop[c] = l
      BY <1>0, <1>4, <2>4 DEF PhaseInv, EventsSettled
    <3>2. Held(c, {l}) /\ Watched(c, {l}) /\ TasksAre(tasks, c, {})
      BY <3>1 DEF Settled, Place
    <3>3. running'[m] <= Len(q[m]) /\ running'[m] \in Nat
      BY <1>0, <1>3, <1>4, Queues
    <3>4. InHandoff(c)'
      BY <1>0, <1>2, <1>3, <2>1, <2>4, <3>2, <3>3, StartsMoving
    <3>5. accepting # c
      BY <1>0, <3>1 DEF PhaseInv, Phase, Fresh, Closed
    <3>6. Phase(c)'
      BY <1>4, <3>1, <3>4, <3>5 DEF Phase
    <3>7. \A k \in Loops : c \notin active'[k]
      BY <1>0, <1>4, <2>4, <3>1 DEF PhaseInv, EventsSettled, TypeOK
    <3> QED
      BY <3>6, <3>7 DEF EventsSettled
  <2> QED
    BY <2>3, <2>4
<1> QED
  BY <1>6, <1>7

LEMMA HandleClosePhases ==
  ASSUME IInv, NEW l \in Loops, NEW d \in Conns, HandleClose(l, d), NEW c \in Conns
  PROVE  Phase(c)' /\ EventsSettled(c)'
<1>0. TypeInv /\ TypeOK /\ PhaseInv
  BY DEF IInv, TypeInv
<1>1. /\ UNCHANGED <<ploop, reading, accepting, running, tasks>>
      /\ d \in active[l] /\ active' = [active EXCEPT ![l] = @ \ {d}]
      /\ fd' = [fd EXCEPT ![d] = "closed"]
      /\ registered' = [k \in Loops |-> registered[k] \ {d}]
      /\ pTcpConns' = [pTcpConns EXCEPT ![ploop[d]] = @ \ {d}]
  BY DEF HandleClose, threads
<1>2. \A k \in Loops : active'[k] \subseteq active[k]
  BY <1>0, <1>1 DEF TypeOK
<1>3. CASE c # d
  <2>1. Same(c)
    BY <1>0, <1>1, <1>3 DEF Same, TypeOK
  <2>2. \A k \in Loops, i \in Positions, op \in Ops :
          Has(tasks', c, k, i, op) <=> Has(tasks, c, k, i, op)
    BY <1>1
  <2>3. \A k \in Loops : running'[k] = running[k] /\ (c \in active'[k] => c \in active[k])
    BY <1>1, <1>2
  <2> QED
    BY <2>1, <2>2, <2>3, StaysPut
<1>4. CASE c = d
  <2>1. fd[c] = "open" /\ reading[c] /\ Settled(c) /\ ploop[c] = l
    BY <1>0, <1>1, <1>4 DEF PhaseInv, EventsSettled
  <2>2. Held(c, {l}) /\ Watched(c, {l}) /\ TasksAre(tasks, c, {})
    BY <2>1 DEF Settled, Place
  <2>3. Held(c, {})' /\ Watched(c, {})'
    BY <1>0, <1>1, <1>4, <2>1, <2>2 DEF Held, Watched, TypeOK
  <2>4. TasksAre(tasks, c, {})'
    BY <1>1, <2>2 DEF TasksAre
  <2>5. accepting # c
    BY <1>0, <2>1 DEF PhaseInv, Phase, Fresh, Closed
  <2>6. fd'[c] = "closed"
    BY <1>0, <1>1, <1>4 DEF TypeOK
  <2>7. Phase(c)'
    BY <1>1, <2>3, <2>4, <2>5, <2>6 DEF Phase, Closed, Place
  <2>8. \A k \in Loops : c \notin active'[k]
    BY <1>0, <1>1, <1>4, <2>1 DEF PhaseInv, EventsSettled, TypeOK
  <2> QED
    BY <2>7, <2>8 DEF EventsSettled
<1> QED
  BY <1>3, <1>4

----------------------------------------------------------------------------
(* The tasks.                                                              *)

(* Whom the first task is about: nobody who is in a phase without it.      *)
LEMMA OpsOfOpening ==
  ASSUME NEW c \in Conns, NEW l \in Loops, Opening(c),
         NEW i \in Positions, NEW op \in Ops, Has(tasks, c, l, i, op)
  PROVE  op \in {"addIOEM", "established"}
<1>1. PICK k \in Loops :
        \/ Added(c, k)
        \/ \E n \in Positions : \/ Created(c, k, n) \/ Establishing(c, k, n)
                                \/ \E j \in Positions : Returned(c, k, n, j)
  BY DEF Opening
<1>2. ASSUME Added(c, k) PROVE FALSE
  BY <1>2 DEF Added, Place, TasksAre
<1>3. ASSUME NEW n \in Positions, Created(c, k, n) PROVE op = "addIOEM"
  BY <1>3 DEF Created, Place, TasksAre
<1>4. ASSUME NEW n \in Positions, Establishing(c, k, n) PROVE op = "established"
  BY <1>4 DEF Establishing, Place, TasksAre
<1>5. ASSUME NEW n \in Positions, NEW j \in Positions, Returned(c, k, n, j)
      PROVE  op \in {"addIOEM", "established"}
  BY <1>5 DEF Returned, Place, TasksAre
<1> QED
  BY <1>1, <1>2, <1>3, <1>4, <1>5

LEMMA OpsOfHandoff ==
  ASSUME NEW c \in Conns, NEW l \in Loops, InHandoff(c),
         NEW i \in Positions, NEW op \in Ops, Has(tasks, c, l, i, op)
  PROVE  op # "established"
<1>1. PICK k \in Loops : \/ Moved(c, k) \/ Logging(c, k)
                         \/ \E n \in Positions : Moving(c, k, n)
  BY DEF InHandoff
<1>2. ASSUME Moved(c, k) PROVE op # "established"
  BY <1>2 DEF Moved, Place, TasksAre
<1>3. ASSUME Logging(c, k) PROVE op # "established"
  BY <1>3 DEF Logging, Place, TasksAre
<1>4. ASSUME NEW n \in Positions, Moving(c, k, n) PROVE op # "established"
  BY <1>4 DEF Moving, Place, TasksAre
<1> QED
  BY <1>1, <1>2, <1>3, <1>4

LEMMA RunAddIOEMPhases ==
  ASSUME IInv, NEW l \in Loops, NEW d \in Conns, RunAddIOEM(l, d), NEW c \in Conns
  PROVE  Phase(c)' /\ EventsSettled(c)'
<1>0. TypeInv /\ TypeOK /\ PhaseInv
  BY DEF IInv, TypeInv
<1>1. /\ Runs(l, "addIOEM", d) /\ tasks' = Rest(l)
      /\ registered' = [registered EXCEPT ![l] = @ \cup {d}]
      /\ UNCHANGED <<fd, ploop, reading, accepting, active, pTcpConns>>
  BY DEF RunAddIOEM, threads
<1>2. CASE c # d
  <2>1. Same(c)
    BY <1>0, <1>1, <1>2 DEF Same, TypeOK
  <2> QED
    BY <1>1, <1>2, <2>1, MovesUp
<1>3. CASE c = d
  <2>1. Has(tasks, c, l, 1, "addIOEM") /\ "addIOEM" \in Ops /\ 1 \in Positions
    BY <1>0, <1>1, <1>3, AfterRun DEF Ops, Positions
  <2>2. \A k \in Loops, i \in Positions, op \in Ops :
          Has(tasks', c, k, i, op) <=> Has(tasks, c, k, IF k = l THEN i + 1 ELSE i, op)
    BY <1>0, <1>1, AfterRun
  <2>3. /\ running'[l] = running[l] - 1 /\ running[l] > 0 /\ running[l] \in Nat
        /\ \A i \in Positions : i + 1 \in Positions /\ i + 1 # 1
    BY <1>0, <1>1, Running DEF Positions
  <2>4. Phase(c)
    BY <1>0 DEF PhaseInv
  <2>5. fd'[c] = fd[c] /\ ploop'[c] = ploop[c] /\ reading'[c] = reading[c]
        /\ (accepting' = c <=> accepting = c)
    BY <1>1
  <2>6. Watched(c, {}) => Watched(c, {l})'
    BY <1>0, <1>1, <1>3 DEF Watched, TypeOK
  <2>7. \A H : Held(c, H) => Held(c, H)'
    BY <1>1 DEF Held
  <2>8. ~Fresh(c) /\ ~Closed(c) /\ ~Settled(c)
    BY <2>1 DEF Fresh, Closed, Settled, Place, TasksAre
  <2>9. ASSUME fd[c] = "open", ~reading[c], Opening(c) PROVE Phase(c)'
    <3>1. PICK k \in Loops :
            /\ ploop[c] = k
            /\ \/ Added(c, k)
               \/ \E i \in Positions : \/ Created(c, k, i) \/ Establishing(c, k, i)
                                       \/ \E j \in Positions : Returned(c, k, i, j)
      BY <2>9 DEF Opening
    <3>2. ~Added(c, k)
      BY <2>1 DEF Added, Place, TasksAre
    <3>3. ASSUME NEW i \in Positions, Establishing(c, k, i) PROVE FALSE
      BY <2>1, <3>3 DEF Establishing, Place, TasksAre
    <3>4. ASSUME NEW i \in Positions, Created(c, k, i) PROVE Opening(c)'
      <4>1. k = l /\ i = 1
        BY <2>1, <3>4 DEF Created, Place, TasksAre
      <4>2. TasksAre(tasks, c, {})'
        BY <2>2, <2>3, <3>4, <4>1 DEF Created, Place, TasksAre
      <4>3. Added(c, k)'
        BY <2>5, <2>6, <2>7, <3>4, <4>1, <4>2 DEF Created, Added, Place
      <4> QED
        BY <2>5, <3>1, <4>3 DEF Opening
    <3>5. ASSUME NEW i \in Positions, NEW j \in Positions, Returned(c, k, i, j)
          PROVE  Opening(c)'
      <4>1. k = l /\ i = 1
        BY <2>1, <3>5 DEF Returned, Place, TasksAre
      <4>2. PICK n \in Positions : n = j - 1
        BY <3>5, <4>1 DEF Returned, Positions
      <4>3. \A o \in Positions : o + 1 = j <=> o = n
        BY <4>2 DEF Positions
      <4>4. TasksAre(tasks, c, {<<k, n, "established">>})'
        BY <2>2, <2>3, <3>5, <4>1, <4>3 DEF Returned, Place, TasksAre
      <4>5. Establishing(c, k, n)'
        BY <2>5, <2>6, <2>7, <3>5, <4>1, <4>4 DEF Returned, Establishing, Place
      <4> QED
        BY <2>5, <3>1, <4>5 DEF Opening
    <3>6. Opening(c)'
      BY <3>1, <3>2, <3>3, <3>4, <3>5
    <3> QED
      BY <2>5, <2>9, <3>6 DEF Phase
  <2>10. ASSUME fd[c] = "open", reading[c], accepting # c, InHandoff(c)
         PROVE  Phase(c)'
    <3>1. PICK k \in Loops : \/ Moved(c, k) \/ Logging(c, k)
                             \/ \E i \in Positions : Moving(c, k, i)
      BY <2>10 DEF InHandoff
    <3>2. ~Moved(c, k) /\ ~Logging(c, k)
      BY <2>1 DEF Moved, Logging, Place, TasksAre
    <3>3. PICK i \in Positions : Moving(c, k, i)
      BY <3>1, <3>2
    <3>4. k = l /\ i = 1
      BY <2>1, <3>3 DEF Moving, Place, TasksAre
    <3>5. running'[k] >= 2
      BY <2>3, <3>3, <3>4 DEF Moving
    <3>6. TasksAre(tasks, c, {<<k, 1, "addTcpConn">>, <<k, 2, "login">>})'
      <4>1. \A o \in Positions : /\ o + 1 = i + 1 <=> o = 1
                                 /\ o + 1 = i + 2 <=> o = 2
        BY <3>4 DEF Positions
      <4> QED
        BY <2>2, <2>3, <3>3, <3>4, <4>1 DEF Moving, Place, TasksAre
    <3>7. Moved(c, k)'
      BY <2>6, <2>7, <3>3, <3>4, <3>5, <3>6 DEF Moving, Moved, Place
    <3>8. InHandoff(c)'
      BY <3>7 DEF InHandoff
    <3> QED
      BY <2>5, <2>10, <3>8 DEF Phase
  <2>11. Phase(c)'
    BY <2>4, <2>8, <2>9, <2>10 DEF Phase
  <2>12. \A k \in Loops : c \notin active'[k]
    BY <1>0, <1>1, <2>8 DEF PhaseInv, EventsSettled
  <2> QED
    BY <2>11, <2>12 DEF EventsSettled
<1> QED
  BY <1>2, <1>3

LEMMA RunEstablishedPhases ==
  ASSUME IInv, NEW l \in Loops, NEW d \in Conns, RunEstablished(l, d), NEW c \in Conns
  PROVE  Phase(c)' /\ EventsSettled(c)'
<1>0. TypeInv /\ TypeOK /\ PhaseInv
  BY DEF IInv, TypeInv
<1>1. /\ Runs(l, "established", d) /\ tasks' = Rest(l)
      /\ pTcpConns' = [pTcpConns EXCEPT ![ploop[d]] = @ \cup {d}]
      /\ reading' = [reading EXCEPT ![d] = TRUE]
      /\ UNCHANGED <<fd, ploop, accepting, active, registered>>
  BY DEF RunEstablished, threads
<1>2. CASE c # d
  <2>1. Same(c)
    BY <1>0, <1>1, <1>2 DEF Same, TypeOK
  <2> QED
    BY <1>1, <1>2, <2>1, MovesUp
<1>3. CASE c = d
  <2>1. Has(tasks, c, l, 1, "established") /\ "established" \in Ops /\ 1 \in Positions
    BY <1>0, <1>1, <1>3, AfterRun DEF Ops, Positions
  <2>2. \A k \in Loops, i \in Positions, op \in Ops :
          Has(tasks', c, k, i, op) <=> Has(tasks, c, k, IF k = l THEN i + 1 ELSE i, op)
    BY <1>0, <1>1, AfterRun
  <2>3. \A i \in Positions : i + 1 \in Positions /\ i + 1 # 1
    BY DEF Positions
  <2>4. Phase(c)
    BY <1>0 DEF PhaseInv
  <2>5. ~Fresh(c) /\ ~Closed(c) /\ ~Settled(c)
    BY <2>1 DEF Fresh, Closed, Settled, Place, TasksAre
  <2>6. ~InHandoff(c)
    BY <2>1, OpsOfHandoff
  <2>7. fd[c] = "open" /\ Opening(c)
    BY <2>4, <2>5, <2>6 DEF Phase
  <2>8. PICK k \in Loops :
          /\ ploop[c] = k
          /\ \/ Added(c, k)
             \/ \E i \in Positions : \/ Created(c, k, i) \/ Establishing(c, k, i)
                                     \/ \E j \in Positions : Returned(c, k, i, j)
    BY <2>7 DEF Opening
  <2>9. ~Added(c, k) /\ \A i \in Positions : ~Created(c, k, i)
    BY <2>1 DEF Added, Created, Place, TasksAre
  <2>10. ASSUME NEW i \in Positions, NEW j \in Positions, Returned(c, k, i, j)
         PROVE  FALSE
    <3>1. j = 1
      BY <2>1, <2>10 DEF Returned, Place, TasksAre
    <3> QED
      BY <2>10, <3>1 DEF Returned, Positions
  <2>11. PICK i \in Positions : Establishing(c, k, i)
    BY <2>8, <2>9, <2>10
  <2>12. k = l /\ i = 1
    BY <2>1, <2>11 DEF Establishing, Place, TasksAre
  <2>13. TasksAre(tasks, c, {})'
    BY <2>2, <2>3, <2>11, <2>12 DEF Establishing, Place, TasksAre
  <2>14. Watched(c, {k})'
    BY <1>1, <2>11 DEF Establishing, Place, Watched
  <2>15. Held(c, {k})'
    BY <1>0, <1>1, <1>3, <2>8, <2>11 DEF Establishing, Place, Held, TypeOK
  <2>16. Settled(c)'
    BY <1>1, <2>8, <2>13, <2>14, <2>15 DEF Settled, Place
  <2>17. fd'[c] = "open" /\ accepting' # c /\ reading'[c]
    BY <1>0, <1>1, <1>3, <2>7, <2>11 DEF Establishing, TypeOK
  <2>18. \A m \in Loops : c \notin active'[m]
    BY <1>0, <1>1, <2>5 DEF PhaseInv, EventsSettled
  <2> QED
    BY <2>16, <2>17, <2>18 DEF Phase, EventsSettled
<1> QED
  BY <1>2, <1>3

LEMMA RunAddTcpConnPhases ==
  ASSUME IInv, NEW l \in Loops, NEW d \in Conns, RunAddTcpConn(l, d), NEW c \in Conns
  PROVE  Phase(c)' /\ EventsSettled(c)'
<1>0. TypeInv /\ TypeOK /\ PhaseInv
  BY DEF IInv, TypeInv
<1>1. /\ Runs(l, "addTcpConn", d) /\ tasks' = Rest(l)
      /\ pTcpConns' = [pTcpConns EXCEPT ![l] = @ \cup {d}]
      /\ ploop' = [ploop EXCEPT ![d] = l]
      /\ UNCHANGED <<fd, reading, accepting, active, registered>>
  BY DEF RunAddTcpConn, threads
<1>2. CASE c # d
  <2>1. Same(c)
    BY <1>0, <1>1, <1>2 DEF Same, TypeOK
  <2> QED
    BY <1>1, <1>2, <2>1, MovesUp
<1>3. CASE c = d
  <2>1. Has(tasks, c, l, 1, "addTcpConn") /\ "addTcpConn" \in Ops /\ 1 \in Positions
    BY <1>0, <1>1, <1>3, AfterRun DEF Ops, Positions
  <2>2. \A k \in Loops, i \in Positions, op \in Ops :
          Has(tasks', c, k, i, op) <=> Has(tasks, c, k, IF k = l THEN i + 1 ELSE i, op)
    BY <1>0, <1>1, AfterRun
  <2>3. /\ running'[l] = running[l] - 1 /\ running[l] \in Nat
        /\ \A i \in Positions : i + 1 \in Positions /\ i + 1 # 1
    BY <1>0, <1>1, Running DEF Positions
  <2>4. Phase(c)
    BY <1>0 DEF PhaseInv
  <2>5. ~Fresh(c) /\ ~Closed(c) /\ ~Settled(c)
    BY <2>1 DEF Fresh, Closed, Settled, Place, TasksAre
  <2>6. ~Opening(c)
    BY <2>1, OpsOfOpening
  <2>7. fd[c] = "open" /\ reading[c] /\ accepting # c /\ InHandoff(c)
    BY <2>4, <2>5, <2>6 DEF Phase
  <2>8. PICK k \in Loops : \/ Moved(c, k) \/ Logging(c, k)
                           \/ \E i \in Positions : Moving(c, k, i)
    BY <2>7 DEF InHandoff
  <2>9. ~Logging(c, k)
    BY <2>1 DEF Logging, Place, TasksAre
  <2>10. ASSUME NEW i \in Positions, Moving(c, k, i) PROVE FALSE
    <3>1. i + 1 = 1
      BY <2>1, <2>10 DEF Moving, Place, TasksAre
    <3> QED
      BY <2>3, <3>1
  <2>11. Moved(c, k)
    BY <2>8, <2>9, <2>10
  <2>12. k = l
    BY <2>1, <2>11 DEF Moved, Place, TasksAre
  <2>13. TasksAre(tasks, c, {<<k, 1, "login">>})'
    <3>1. \A o \in Positions : o + 1 = 2 <=> o = 1
      BY DEF Positions
    <3> QED
      BY <2>2, <2>3, <2>11, <2>12, <3>1 DEF Moved, Place, TasksAre
  <2>14. Watched(c, {k})'
    BY <1>1, <2>11 DEF Moved, Place, Watched
  <2>15. Held(c, {k})'
    BY <1>0, <1>1, <1>3, <2>11, <2>12 DEF Moved, Place, Held, TypeOK
  <2>16. ploop'[c] = k /\ running'[k] >= 1
    BY <1>0, <1>1, <1>3, <2>3, <2>11, <2>12 DEF Moved, TypeOK
  <2>17. InHandoff(c)'
    BY <2>13, <2>14, <2>15, <2>16 DEF Logging, InHandoff, Place
  <2>18. \A m \in Loops : c \notin active'[m]
    BY <1>0, <1>1, <2>5 DEF PhaseInv, EventsSettled
  <2> QED
    BY <1>1, <2>7, <2>17, <2>18 DEF Phase, EventsSettled
<1> QED
  BY <1>2, <1>3

(* A login that runs was the last task about its connection, which is on   *)
(* the loop that runs it.                                                  *)
LEMMA LoginIsLast ==
  ASSUME IInv, NEW l \in Loops, NEW c \in Conns, Runs(l, "login", c)
  PROVE  /\ fd[c] = "open" /\ reading[c] /\ accepting # c /\ ploop[c] = l
         /\ Held(c, {l}) /\ Watched(c, {l}) /\ TasksAre(Rest(l), c, {})
         /\ Has(tasks, c, l, 1, "login") /\ ~Settled(c)
<1>0. TypeInv /\ PhaseInv
  BY DEF IInv
<1>1. Has(tasks, c, l, 1, "login") /\ "login" \in Ops /\ 1 \in Positions
  BY <1>0, AfterRun DEF Ops, Positions
<1>2. \A k \in Loops, i \in Positions, op \in Ops :
        Has(Rest(l), c, k, i, op) <=> Has(tasks, c, k, IF k = l THEN i + 1 ELSE i, op)
  BY <1>0, AfterRun
<1>3. \A i \in Positions : i + 1 \in Positions /\ i + 1 # 1 /\ i + 2 # 1
  BY DEF Positions
<1>4. Phase(c)
  BY <1>0 DEF PhaseInv
<1>5. ~Fresh(c) /\ ~Closed(c) /\ ~Settled(c)
  BY <1>1 DEF Fresh, Closed, Settled, Place, TasksAre
<1>6. ~Opening(c)
  BY <1>1, OpsOfOpening
<1>7. fd[c] = "open" /\ reading[c] /\ accepting # c /\ InHandoff(c)
  BY <1>4, <1>5, <1>6 DEF Phase
<1>8. PICK k \in Loops : \/ Moved(c, k) \/ Logging(c, k)
                         \/ \E i \in Positions : Moving(c, k, i)
  BY <1>7 DEF InHandoff
<1>9. ~Moved(c, k)
  <2>1. <<l, 1, "login">> \notin {<<k, 1, "addTcpConn">>, <<k, 2, "login">>}
    OBVIOUS
  <2> QED
    BY <1>1, <2>1 DEF Moved, Place, TasksAre
<1>10. ASSUME NEW i \in Positions, Moving(c, k, i) PROVE FALSE
  <2>1. i + 2 = 1
    BY <1>1, <1>10 DEF Moving, Place, TasksAre
  <2> QED
    BY <1>3, <2>1
<1>11. Logging(c, k)
  BY <1>8, <1>9, <1>10
<1>12. k = l
  BY <1>1, <1>11 DEF Logging, Place, TasksAre
<1>13. TasksAre(Rest(l), c, {})
  BY <1>2, <1>3, <1>11, <1>12 DEF Logging, Place, TasksAre
<1>14. ploop[c] = l /\ Held(c, {l}) /\ Watched(c, {l})
  BY <1>11, <1>12 DEF Logging, Place
<1> QED
  BY <1>1, <1>5, <1>7, <1>13, <1>14

LEMMA RunLoginPhases ==
  ASSUME IInv, NEW l \in Loops, NEW d \in Conns, RunLogin(l, d), NEW c \in Conns
  PROVE  Phase(c)' /\ EventsSettled(c)'
<1>0. TypeInv /\ TypeOK /\ PhaseInv
  BY DEF IInv, TypeInv
<1>1. Runs(l, "login", d)
  BY DEF RunLogin
<1>2. PICK u \in Users \cup {0} : u = Head(tasks[l]).id
  BY <1>0, <1>1, Running DEF Tasks
<1>3. PICK m \in Loops : m = LoopOf(u)
  BY <1>0, LoopNumbers
<1>4. PICK q \in [Loops -> Seq(Tasks)] : q = Rest(l)
  BY <1>0, <1>1, Taken
<1>5. /\ UNCHANGED <<fd, ploop, reading, accepting, active>>
      /\ HandleLoginIn(l, d, u, q)
  BY <1>2, <1>4 DEF RunLogin, threads
<1>6. \A k \in Loops : active'[k] = active[k]
  BY <1>5
<1>7. \/ /\ LoopOf(u) = ploop[d]
         /\ UNCHANGED <<pTcpConns, registered>> /\ tasks' = q
      \/ LoopOf(u) # ploop[d] /\ MoveTo(l, d, u, q)
  BY <1>5 DEF HandleLoginIn, LoginHere
<1>8. CASE c # d
  <2>1. \A k \in Loops, i \in Positions, op \in Ops :
          Has(tasks', c, k, i, op) <=> Has(q, c, k, i, op)
    <3>1. CASE tasks' = q
      BY <3>1
    <3>2. CASE MoveTo(l, d, u, q)
      <4>1. \A b \in Conns, k \in Loops, i \in Positions, op \in Ops :
              Has(tasks', b, k, i, op) <=>
                \/ Has(q, b, k, i, op)
                \/ /\ k = m /\ d = b
                   /\ \/ i = Len(q[m]) + 1 /\ op = "addIOEM"
                      \/ i = Len(q[m]) + 2 /\ op = "addTcpConn"
                      \/ i = Len(q[m]) + 3 /\ op = "login"
        BY <1>3, <3>2, AfterMove
      <4> QED
        BY <1>8, <4>1
    <3> QED
      BY <1>7, <3>1, <3>2
  <2>2. Same(c)
    <3>1. CASE UNCHANGED <<pTcpConns, registered>>
      BY <1>5, <3>1 DEF Same
    <3>2. CASE MoveTo(l, d, u, q)
      <4>1. \A k \in Loops : /\ c \in pTcpConns'[k] <=> c \in pTcpConns[k]
                             /\ c \in registered'[k] <=> c \in registered[k]
        BY <1>0, <1>8, <3>2 DEF MoveTo, TypeOK
      <4> QED
        BY <1>5, <4>1 DEF Same
    <3> QED
      BY <1>7, <3>1, <3>2
  <2> QED
    BY <1>1, <1>4, <1>6, <1>8, <2>1, <2>2, MovesUp
<1>9. CASE c = d
  <2>1. /\ fd[c] = "open" /\ reading[c] /\ accepting # c /\ ~Settled(c)
        /\ TasksAre(q, c, {})
        /\ ploop'[c] = l /\ Held(c, {l}) /\ Watched(c, {l})
    BY <1>1, <1>4, <1>5, <1>9, LoginIsLast
  <2>2. ASSUME UNCHANGED <<pTcpConns, registered>>, tasks' = q PROVE Settled(c)'
    <3>1. Place(c, {l}, {l}, {})'
      BY <2>1, <2>2 DEF Place, Held, Watched, TasksAre
    <3> QED
      BY <2>1, <3>1 DEF Settled
  <2>3. ASSUME MoveTo(l, d, u, q) PROVE InHandoff(c)'
    <3>1. running'[m] <= Len(q[m]) /\ running'[m] \in Nat
      <4>1. /\ running'[m] \in Nat
            /\ Len(q[l]) = Len(tasks[l]) - 1 /\ (m # l => q[m] = tasks[m])
        BY <1>0, <1>1, <1>4, Taken
      <4>2. /\ running[m] <= Len(tasks[m]) /\ running[m] \in Nat
            /\ Len(tasks[m]) \in Nat
        BY <1>0, Queues
      <4>3. /\ running'[l] = running[l] - 1
            /\ m # l => running'[m] = running[m]
        BY <1>0, <1>1, Running
      <4> QED
        BY <4>1, <4>2, <4>3
    <3>2. InHandoff(c)'
      BY <1>0, <1>3, <1>9, <2>1, <2>3, <3>1, StartsMoving
    <3> QED
      BY <3>2
  <2>4. Settled(c)' \/ InHandoff(c)'
    BY <1>7, <2>2, <2>3
  <2>5. \A n \in Loops : c \notin active'[n]
    BY <1>0, <1>6, <2>1 DEF PhaseInv, EventsSettled
  <2> QED
    BY <1>5, <2>1, <2>4, <2>5 DEF Phase, EventsSettled
<1> QED
  BY <1>8, <1>9

----------------------------------------------------------------------------
(* Every step keeps every connection in a phase.                           *)

LEMMA PhaseInit == Init => PhaseInv
<1> SUFFICES ASSUME Init, NEW c \in Conns PROVE Phase(c) /\ EventsSettled(c)
  BY DEF PhaseInv
<1>1. accepting # c
  BY HandoffAssumption DEF Init
<1>2. \A k \in Loops : tasks[k] = <<>> /\ registered[k] = {} /\ pTcpConns[k] = {}
                       /\ active[k] = {}
  BY DEF Init
<1>3. TasksAre(tasks, c, {})
  <2>1. \A k \in Loops : DOMAIN tasks[k] = {}
    BY <1>2
  <2> QED
    BY <2>1 DEF TasksAre, Has
<1>4. Place(c, {}, {}, {})
  BY <1>2, <1>3 DEF Place, Held, Watched
<1>5. fd[c] = "none" /\ ~reading[c]
  BY DEF Init
<1> QED
  BY <1>1, <1>2, <1>4, <1>5 DEF Phase, Fresh, EventsSettled

LEMMA PhaseStep == IInv /\ [Next]_vars => PhaseInv'
<1> SUFFICES ASSUME IInv, [Next]_vars, NEW c \in Conns
             PROVE  Phase(c)' /\ EventsSettled(c)'
  BY DEF PhaseInv
<1>1. ASSUME UNCHANGED <<fd, ploop, reading, accepting, pTcpConns, registered, tasks,
                         running, active>>
      PROVE  Phase(c)' /\ EventsSettled(c)'
  <2>1. \A k \in Loops : \/ running'[k] = running[k]
                         \/ running[k] = 0 /\ running'[k] = Len(tasks[k])
    BY <1>1
  <2>2. \A l \in Loops : c \in active'[l] =>
          c \in active[l] \/ (c \in registered[l] /\ reading[c] /\ running[l] = 0)
    BY <1>1
  <2> QED
    BY <1>1, <2>1, <2>2, PlainPhases
<1>2. CASE StartLoop
  BY <1>1, <1>2 DEF StartLoop
<1>3. ASSUME NEW d \in Conns, NEW u \in Users, SendLogin(d, u)
      PROVE  Phase(c)' /\ EventsSettled(c)'
  BY <1>1, <1>3 DEF SendLogin, threads
<1>4. ASSUME NEW d \in Conns, Hangup(d) PROVE Phase(c)' /\ EventsSettled(c)'
  BY <1>1, <1>4 DEF Hangup, threads
<1>5. CASE UNCHANGED vars
  BY <1>1, <1>5 DEF vars, threads
<1>6. CASE Accepted
  BY <1>6, AcceptedPhases
<1>7. ASSUME NEW d \in Conns, Accept(d) PROVE Phase(c)' /\ EventsSettled(c)'
  BY <1>7, AcceptPhases
<1>8. ASSUME NEW l \in Loops, LoopStep(l) PROVE Phase(c)' /\ EventsSettled(c)'
  <2>1. CASE Poll(l)
    BY <2>1, PollPhases
  <2>2. CASE Swap(l)
    BY <2>2, SwapPhases
  <2>3. ASSUME NEW d \in Conns, HandleFrame(l, d) PROVE Phase(c)' /\ EventsSettled(c)'
    BY <2>3, HandleFramePhases
  <2>4. ASSUME NEW d \in Conns, HandleClose(l, d) PROVE Phase(c)' /\ EventsSettled(c)'
    BY <2>4, HandleClosePhases
  <2>5. ASSUME NEW d \in Conns, RunAddIOEM(l, d) PROVE Phase(c)' /\ EventsSettled(c)'
    BY <2>5, RunAddIOEMPhases
  <2>6. ASSUME NEW d \in Conns, RunEstablished(l, d) PROVE Phase(c)' /\ EventsSettled(c)'
    BY <2>6, RunEstablishedPhases
  <2>7. ASSUME NEW d \in Conns, RunAddTcpConn(l, d) PROVE Phase(c)' /\ EventsSettled(c)'
    BY <2>7, RunAddTcpConnPhases
  <2>8. ASSUME NEW d \in Conns, RunLogin(l, d) PROVE Phase(c)' /\ EventsSettled(c)'
    BY <2>8, RunLoginPhases
  <2> QED
    BY <1>8, <2>1, <2>2, <2>3, <2>4, <2>5, <2>6, <2>7, <2>8 DEF LoopStep
<1> QED
  BY <1>2, <1>3, <1>4, <1>5, <1>6, <1>7, <1>8 DEF Next

(* In every reachable state every connection is in one of the phases.      *)
THEOREM AlwaysInPhase == Spec => []IInv
<1>1. Init => IInv
  BY TypeInit, PhaseInit DEF IInv
<1>2. IInv /\ [Next]_vars => IInv'
  BY TypeStep, PhaseStep DEF IInv
<1> QED
  BY <1>1, <1>2, PTL DEF Spec

----------------------------------------------------------------------------
(* What the phases say.                                                    *)

(* Who holds a connection that is in a place.                              *)
LEMMA NobodyHolds ==
  ASSUME TypeInv, NEW c \in Conns, NEW W, NEW T, Place(c, {}, W, T),
         \A k \in Loops, i \in Positions :
           <<k, i, "established">> \notin T /\ <<k, i, "addTcpConn">> \notin T
  PROVE  Owners(c) = {} /\ Holders(c) = {}
<1>1. Owners(c) = {}
  BY DEF Owners, Place, Held
<1>2. ASSUME NEW k \in Loops, NEW i \in HoldersIn(k, c) PROVE FALSE
  <2>1. PICK op \in Ops : Has(tasks, c, k, i, op) /\ op \in {"established", "addTcpConn"}
    BY DEF HoldersIn, Holds, Has, Ops
  <2>2. i \in Positions
    BY Queues DEF HoldersIn, Positions
  <2> QED
    BY <2>1, <2>2 DEF Place, TasksAre
<1>3. Holders(c) = {}
  BY <1>2 DEF Holders
<1> QED
  BY <1>1, <1>3

LEMMA OneLoopHolds ==
  ASSUME TypeInv, NEW c \in Conns, NEW n \in Loops, NEW W, NEW T, Place(c, {n}, W, T),
         \A k \in Loops, i \in Positions :
           <<k, i, "established">> \notin T /\ <<k, i, "addTcpConn">> \notin T
  PROVE  Owners(c) = {n} /\ Holders(c) = {}
<1>1. Owners(c) = {n}
  BY DEF Owners, Place, Held
<1>2. ASSUME NEW k \in Loops, NEW i \in HoldersIn(k, c) PROVE FALSE
  <2>1. PICK op \in Ops : Has(tasks, c, k, i, op) /\ op \in {"established", "addTcpConn"}
    BY DEF HoldersIn, Holds, Has, Ops
  <2>2. i \in Positions
    BY Queues DEF HoldersIn, Positions
  <2> QED
    BY <2>1, <2>2 DEF Place, TasksAre
<1>3. Holders(c) = {}
  BY <1>2 DEF Holders
<1> QED
  BY <1>1, <1>3

LEMMA OneTaskHolds ==
  ASSUME TypeInv, NEW c \in Conns, NEW n \in Loops, NEW j \in Positions, NEW o \in Ops,
         NEW W, NEW T, Place(c, {}, W, T),
         o \in {"established", "addTcpConn"},
         \A k \in Loops, i \in Positions, op \in {"established", "addTcpConn"} :
           <<k, i, op>> \in T <=> k = n /\ i = j /\ op = o
  PROVE  Owners(c) = {} /\ Holders(c) = {<<n, j>>}
<1>1. Owners(c) = {}
  BY DEF Owners, Place, Held
<1>2. ASSUME NEW k \in Loops, NEW i PROVE i \in HoldersIn(k, c) <=> k = n /\ i = j
  <2>1. i \in HoldersIn(k, c) => i \in Positions
    BY Queues DEF HoldersIn, Positions
  <2>2. i \in HoldersIn(k, c) <=>
          \E op \in Ops : Has(tasks, c, k, i, op) /\ op \in {"established", "addTcpConn"}
    BY DEF HoldersIn, Holds, Has, Ops
  <2>3. CASE i \in Positions
    <3>1. i \in HoldersIn(k, c) <=>
            \E op \in Ops : <<k, i, op>> \in T /\ op \in {"established", "addTcpConn"}
      BY <2>2, <2>3 DEF Place, TasksAre
    <3> QED
      BY <2>3, <3>1
  <2>4. CASE i \notin Positions
    BY <2>1, <2>4
  <2> QED
    BY <2>3, <2>4
<1>3. ASSUME NEW p PROVE p \in Holders(c) <=> p = <<n, j>>
  <2>1. p \in Holders(c) <=> \E k \in Loops : p \in {k} \X HoldersIn(k, c)
    BY DEF Holders
  <2>2. ASSUME NEW k \in Loops, p \in {k} \X HoldersIn(k, c) PROVE p = <<n, j>>
    <3>1. PICK i \in HoldersIn(k, c) : p = <<k, i>>
      BY <2>2
    <3> QED
      BY <1>2, <3>1
  <2>3. p = <<n, j>> => p \in {n} \X HoldersIn(n, c)
    BY <1>2
  <2> QED
    BY <2>1, <2>2, <2>3
<1>4. Holders(c) = {<<n, j>>}
  BY <1>3
<1> QED
  BY <1>1, <1>4

(* How many hold a connection in a phase of its life.                      *)
LEMMA HeldOnce ==
  ASSUME TypeInv, NEW c \in Conns, Phase(c), fd[c] = "open"
  PROVE  \/ accepting = c /\ Owners(c) = {} /\ Holders(c) = {}
         \/ accepting # c /\ Owners(c) = {} /\ \E p : Holders(c) = {p}
         \/ accepting # c /\ Holders(c) = {} /\ \E n : Owners(c) = {n}
<1> DEFINE Once == \/ accepting = c /\ Owners(c) = {} /\ Holders(c) = {}
                   \/ accepting # c /\ Owners(c) = {} /\ \E p : Holders(c) = {p}
                   \/ accepting # c /\ Holders(c) = {} /\ \E n : Owners(c) = {n}
<1>1. ASSUME Opening(c) PROVE Once
  <2>1. PICK k \in Loops :
          \/ Added(c, k)
          \/ \E i \in Positions : \/ Created(c, k, i) \/ Establishing(c, k, i)
                                  \/ \E j \in Positions : Returned(c, k, i, j)
    BY <1>1 DEF Opening
  <2>2. ASSUME Added(c, k) PROVE Once
    <3>1. accepting = c /\ Place(c, {}, {k}, {})
      BY <2>2 DEF Added
    <3>2. Owners(c) = {} /\ Holders(c) = {}
      BY <3>1, NobodyHolds
    <3> QED
      BY <3>1, <3>2
  <2>3. ASSUME NEW i \in Positions, Created(c, k, i) PROVE Once
    <3>1. accepting = c /\ Place(c, {}, {}, {<<k, i, "addIOEM">>})
      BY <2>3 DEF Created
    <3>2. Owners(c) = {} /\ Holders(c) = {}
      BY <3>1, NobodyHolds
    <3> QED
      BY <3>1, <3>2
  <2>4. ASSUME NEW i \in Positions, Establishing(c, k, i) PROVE Once
    <3>1. accepting # c /\ Place(c, {}, {k}, {<<k, i, "established">>})
      BY <2>4 DEF Establishing
    <3>2. Owners(c) = {} /\ Holders(c) = {<<k, i>>}
      <4>1. "established" \in Ops
        BY DEF Ops
      <4> QED
        BY <3>1, <4>1, OneTaskHolds
    <3> QED
      BY <3>1, <3>2
  <2>5. ASSUME NEW i \in Positions, NEW j \in Positions, Returned(c, k, i, j) PROVE Once
    <3>1. accepting # c /\ Place(c, {}, {}, {<<k, i, "addIOEM">>, <<k, j, "established">>})
      BY <2>5 DEF Returned
    <3>2. Owners(c) = {} /\ Holders(c) = {<<k, j>>}
      <4>1. "established" \in Ops
        BY DEF Ops
      <4> QED
        BY <3>1, <4>1, OneTaskHolds
    <3> QED
      BY <3>1, <3>2
  <2> QED
    BY <2>1, <2>2, <2>3, <2>4, <2>5
<1>2. ASSUME accepting # c, Settled(c) PROVE Once
  <2>1. PICK n \in Loops : Place(c, {n}, {n}, {})
    BY <1>2 DEF Settled
  <2>2. Owners(c) = {n} /\ Holders(c) = {}
    BY <2>1, OneLoopHolds
  <2> QED
    BY <1>2, <2>2
<1>3. ASSUME accepting # c, InHandoff(c) PROVE Once
  <2>1. PICK k \in Loops : \/ Moved(c, k) \/ Logging(c, k)
                           \/ \E i \in Positions : Moving(c, k, i)
    BY <1>3 DEF InHandoff
  <2>2. ASSUME Moved(c, k) PROVE Once
    <3>1. Place(c, {}, {k}, {<<k, 1, "addTcpConn">>, <<k, 2, "login">>})
      BY <2>2 DEF Moved
    <3>2. Owners(c) = {} /\ Holders(c) = {<<k, 1>>}
      <4>1. "addTcpConn" \in Ops /\ 1 \in Positions
        BY DEF Ops, Positions
      <4> QED
        BY <3>1, <4>1, OneTaskHolds
    <3> QED
      BY <1>3, <3>2
  <2>3. ASSUME Logging(c, k) PROVE Once
    <3>1. Place(c, {k}, {k}, {<<k, 1, "login">>})
      BY <2>3 DEF Logging
    <3>2. Owners(c) = {k} /\ Holders(c) = {}
      BY <3>1, OneLoopHolds
    <3> QED
      BY <1>3, <3>2
  <2>4. ASSUME NEW i \in Positions, Moving(c, k, i) PROVE Once
    <3>1. PICK j \in Positions : j = i + 1
      BY DEF Positions
    <3>2. Place(c, {}, {},
                {<<k, i, "addIOEM">>, <<k, j, "addTcpConn">>, <<k, i + 2, "login">>})
      BY <2>4, <3>1 DEF Moving
    <3>3. Owners(c) = {} /\ Holders(c) = {<<k, j>>}
      <4>1. "addTcpConn" \in Ops
        BY DEF Ops
      <4> QED
        BY <3>2, <4>1, OneTaskHolds
    <3> QED
      BY <1>3, <3>3
  <2> QED
    BY <2>1, <2>2, <2>3, <2>4
<1> QED
  BY <1>1, <1>2, <1>3 DEF Phase, Fresh, Closed

(* An open connection is held exactly once (OneOwner), by newConnection,   *)
(* by a task or by a loop, through accepting, handing over and closing.    *)
THEOREM HeldExactlyOnce == Spec => []OneOwner
<1>1. IInv => OneOwner
  <2> SUFFICES ASSUME IInv, NEW c \in Conns, fd[c] = "open"
               PROVE  Cardinality(Owners(c)) + Cardinality(Holders(c))
                        + (IF accepting = c THEN 1 ELSE 0) = 1
    BY DEF OneOwner
  <2>1. \/ accepting = c /\ Owners(c) = {} /\ Holders(c) = {}
        \/ accepting # c /\ Owners(c) = {} /\ \E p : Holders(c) = {p}
        \/ accepting # c /\ Holders(c) = {} /\ \E n : Owners(c) = {n}
    BY HeldOnce DEF IInv, PhaseInv
  <2>2. Cardinality({}) = 0 /\ \A x : Cardinality({x}) = 1
    BY FS_EmptySet, FS_Singleton
  <2>3. CASE accepting = c /\ Owners(c) = {} /\ Holders(c) = {}
    BY <2>2, <2>3
  <2>4. CASE accepting # c /\ Owners(c) = {} /\ \E p : Holders(c) = {p}
    <3>1. Cardinality(Owners(c)) = 0 /\ Cardinality(Holders(c)) = 1
      BY <2>2, <2>4
    <3> QED
      BY <2>4, <3>1
  <2>5. CASE accepting # c /\ Holders(c) = {} /\ \E n : Owners(c) = {n}
    <3>1. Cardinality(Owners(c)) = 1 /\ Cardinality(Holders(c)) = 0
      BY <2>2, <2>5
    <3> QED
      BY <2>5, <3>1
  <2> QED
    BY <2>1, <2>3, <2>4, <2>5
<1> QED
  BY <1>1, AlwaysInPhase, PTL

(* An event is handled on the loop that owns the connection                *)
(* (EventsAtOwner), also while the connection moves.                       *)
THEOREM HandledByOwner == Spec => []EventsAtOwner
<1>1. IInv => EventsAtOwner
  <2> SUFFICES ASSUME IInv, NEW l \in Loops, NEW c \in active[l]
               PROVE  c \in pTcpConns[l] /\ ploop[c] = l /\ fd[c] = "open"
    BY DEF EventsAtOwner
  <2>1. c \in Conns
    BY DEF IInv, TypeInv, TypeOK
  <2>2. fd[c] = "open" /\ Settled(c) /\ ploop[c] = l
    BY <2>1 DEF IInv, PhaseInv, EventsSettled
  <2>3. c \in pTcpConns[l]
    BY <2>2 DEF Settled, Place, Held
  <2> QED
    BY <2>2, <2>3
<1> QED
  BY <1>1, AlwaysInPhase, PTL

(* Closing leaves nothing of a connection behind (ClosedIsGone): no owner, *)
(* no registration, no event and no task that would use it.                *)
THEOREM ClosingLeavesNothing == Spec => []ClosedIsGone
<1>1. IInv => ClosedIsGone
  <2> SUFFICES ASSUME IInv, NEW c \in Conns, fd[c] = "closed"
               PROVE  /\ ~Alive(c)
                      /\ \A l \in Loops : /\ c \notin registered[l] \cup active[l]
                                          /\ \A i \in DOMAIN tasks[l] : tasks[l][i].conn # c
    BY DEF ClosedIsGone
  <2>1. accepting # c /\ Place(c, {}, {}, {})
    BY DEF IInv, PhaseInv, Phase, Fresh, Closed
  <2>2. ~Alive(c)
    <3>1. Owners(c) = {} /\ Holders(c) = {}
      BY <2>1, NobodyHolds DEF IInv
    <3> QED
      BY <2>1, <3>1 DEF Alive
  <2>3. ASSUME NEW l \in Loops PROVE c \notin registered[l] \cup active[l]
    <3>1. c \notin registered[l]
      BY <2>1 DEF Place, Watched
    <3>2. c \notin active[l]
      BY DEF IInv, PhaseInv, EventsSettled
    <3> QED
      BY <3>1, <3>2
  <2>4. ASSUME NEW l \in Loops, NEW i \in DOMAIN tasks[l] PROVE tasks[l][i].conn # c
    <3>1. tasks[l] \in Seq(Tasks) /\ i \in Positions
      BY Queues DEF IInv, Positions
    <3>2. tasks[l][i] \in Tasks
      BY <3>1
    <3>3. tasks[l][i].op \in Ops
      BY <3>2 DEF Tasks, Ops
    <3> QED
      BY <2>1, <3>1, <3>3 DEF Place, TasksAre, Has
  <2> QED
    BY <2>2, <2>3, <2>4
<1> QED
  BY <1>1, AlwaysInPhase, PTL

----------------------------------------------------------------------------
(* Sessions, as long as nobody logs in before all loops have started.      *)

(* While loops start nobody has logged in.                                 *)
NobodyYet == started < NLoops => \A c \in Conns : sid[c] = 0

(* An open connection that has a user is listed on the loop of that user,  *)
(* wherever it is itself; one that is not read from yet has none.          *)
ListedOf(c) ==
  /\ fd[c] = "open" /\ sid[c] # 0 => id2conn[LoopOf(sid[c])][sid[c]] = c
  /\ ~reading[c] => sid[c] = 0

ListedInv == NobodyYet /\ \A c \in Conns : ListedOf(c)

(* LOGIN_IN is on its way to another loop.                                 *)
LoginTask(c) == \E k \in Loops, i \in Positions : Has(tasks, c, k, i, "login")

(* A connection works on one LOGIN_IN, and has no user until it succeeds;  *)
(* who is listed under a user is on its loop and has its id, and an open   *)
(* connection that has a user is on his loop and listed.                   *)
SessionOf(c) ==
  /\ input[c] # 0 \/ LoginTask(c) => awaiting[c] /\ sid[c] = 0
  /\ LoginTask(c) => input[c] = 0
  /\ ~reading[c] => sid[c] = 0
  /\ \A l \in Loops, u \in Users : id2conn[l][u] = c => l = LoopOf(u) /\ sid[c] = u
  /\ fd[c] = "open" /\ sid[c] # 0 =>
       ploop[c] = LoopOf(sid[c]) /\ id2conn[ploop[c]][sid[c]] = c

LEMMA SessionInit == Init => ListedInv /\ \A c \in Conns : SessionOf(c)
<1> SUFFICES ASSUME Init, NEW c \in Conns PROVE SessionOf(c) /\ sid[c] = 0
  BY DEF ListedInv, ListedOf, NobodyYet
<1>1. ~LoginTask(c)
  <2>1. \A k \in Loops : DOMAIN tasks[k] = {}
    BY DEF Init
  <2> QED
    BY <2>1 DEF LoginTask, Has
<1>2. \A l \in Loops, u \in Users : id2conn[l][u] # c
  BY HandoffAssumption DEF Init
<1>3. input[c] = 0 /\ sid[c] = 0
  BY DEF Init
<1> QED
  BY <1>1, <1>2, <1>3 DEF SessionOf

(* The loop of a user changes only when a loop starts.                     *)
LEMMA LoopOfKept ==
  ASSUME [Next]_vars, ~StartLoop
  PROVE  started' = started /\ \A u : LoopOf(u)' = LoopOf(u)
<1>1. started' = started
  BY DEF Next, vars, threads, Accepted, LoopStep, Poll, Swap, HandleFrame, HandleClose,
     RunAddIOEM, RunEstablished, RunAddTcpConn, RunLogin, Accept, Hangup, SendLogin
<1> QED
  BY <1>1 DEF LoopOf

(* The first login comes after the last loop has started.                  *)
LEMMA NobodyYetStep ==
  ASSUME TypeOK, NobodyYet, [Next]_vars, [~EarlyLogin]_vars
  PROVE  NobodyYet'
<1>1. CASE StartLoop
  <2>1. started < NLoops /\ UNCHANGED sid
    BY <1>1 DEF StartLoop
  <2> QED
    BY <2>1 DEF NobodyYet
<1>2. CASE ~StartLoop
  <2>1. started' = started
    BY <1>2, LoopOfKept
  <2>2. started < NLoops => UNCHANGED sid
    BY DEF EarlyLogin, vars
  <2> QED
    BY <2>1, <2>2 DEF NobodyYet
<1> QED
  BY <1>1, <1>2

(* Who is open is alive, and the other way round.                          *)
LEMMA OpenIsAlive ==
  ASSUME IInv, NEW c \in Conns
  PROVE  Alive(c) <=> fd[c] = "open"
<1>1. ASSUME fd[c] = "open" PROVE Alive(c)
  BY <1>1, HeldOnce DEF IInv, PhaseInv, Alive
<1>2. ASSUME fd[c] # "open" PROVE ~Alive(c)
  <2>1. accepting # c /\ Place(c, {}, {}, {})
    BY <1>2 DEF IInv, PhaseInv, Phase, Fresh, Closed
  <2>2. Owners(c) = {} /\ Holders(c) = {}
    BY <2>1, NobodyHolds DEF IInv
  <2> QED
    BY <2>1, <2>2 DEF Alive
<1> QED
  BY <1>1, <1>2

(* A connection with a user is not between two loops.                      *)
LEMMA LoggedInIsSettled ==
  ASSUME IInv, NEW c \in Conns, SessionOf(c), fd[c] = "open", sid[c] # 0
  PROVE  Settled(c)
<1>1. reading[c] /\ ~LoginTask(c)
  BY DEF SessionOf
<1>2. Settled(c) \/ InHandoff(c)
  BY <1>1 DEF IInv, PhaseInv, Phase, Fresh, Closed
<1>3. ASSUME InHandoff(c) PROVE FALSE
  <2>1. PICK k \in Loops : \/ Moved(c, k) \/ Logging(c, k)
                           \/ \E i \in Positions : Moving(c, k, i)
    BY <1>3 DEF InHandoff
  <2>2. "login" \in Ops /\ 1 \in Positions /\ 2 \in Positions
        /\ \A i \in Positions : i + 2 \in Positions
    BY DEF Ops, Positions
  <2>3. ~Moved(c, k)
    BY <1>1, <2>2 DEF Moved, Place, TasksAre, LoginTask
  <2>4. ~Logging(c, k)
    BY <1>1, <2>2 DEF Logging, Place, TasksAre, LoginTask
  <2>5. \A i \in Positions : ~Moving(c, k, i)
    BY <1>1, <2>2 DEF Moving, Place, TasksAre, LoginTask
  <2> QED
    BY <2>1, <2>3, <2>4, <2>5
<1> QED
  BY <1>2, <1>3

(* A step that is not about the session of c.                              *)
LEMMA SessionKept ==
  ASSUME NEW c \in Conns, SessionOf(c), \A u : LoopOf(u)' = LoopOf(u),
         awaiting'[c] = awaiting[c], sid'[c] = sid[c],
         input'[c] = input[c] \/ input'[c] = 0,
         LoginTask(c)' => LoginTask(c), reading[c] => reading'[c],
         \A l \in Loops, u \in Users : id2conn'[l][u] = c => id2conn[l][u] = c,
         fd'[c] = "open" /\ sid[c] # 0 =>
           /\ fd[c] = "open" /\ ploop'[c] = ploop[c]
           /\ id2conn[ploop[c]][sid[c]] = c => id2conn'[ploop[c]][sid[c]] = c
  PROVE  SessionOf(c)'
<1>1. /\ input'[c] # 0 \/ LoginTask(c)' => awaiting'[c] /\ sid'[c] = 0
      /\ LoginTask(c)' => input'[c] = 0
      /\ ~reading'[c] => sid'[c] = 0
  BY DEF SessionOf
<1>2. \A l \in Loops, u \in Users : id2conn'[l][u] = c => l = LoopOf(u)' /\ sid'[c] = u
  BY DEF SessionOf
<1>3. fd'[c] = "open" /\ sid'[c] # 0 =>
        ploop'[c] = LoopOf(sid[c])' /\ id2conn'[ploop'[c]][sid'[c]] = c
  BY DEF SessionOf
<1> QED
  BY <1>1, <1>2, <1>3 DEF SessionOf

(* Moving: a connection that waits for its answer and has no user.         *)
LEMMA MoveSessions ==
  ASSUME IInv, \A u : LoopOf(u)' = LoopOf(u),
         NEW q \in [Loops -> Seq(Tasks)], NEW l \in Loops,
         NEW d \in Conns, NEW u \in Users \cup {0}, MoveTo(l, d, u, q),
         \A b \in Conns, k \in Loops, i \in Positions :
           Has(q, b, k, i, "login") => LoginTask(b),
         UNCHANGED <<fd, ploop, reading>>,
         NEW c \in Conns, SessionOf(c), c # d => input'[c] = input[c],
         c = d => awaiting[c] /\ sid[c] = 0 /\ input'[c] = 0
  PROVE  SessionOf(c)'
<1>0. TypeOK /\ "login" \in Ops
  BY DEF IInv, TypeInv, Ops
<1>1. PICK m \in Loops : m = LoopOf(u)
  BY <1>0, LoopNumbers
<1>2. \A b \in Conns, k \in Loops, i \in Positions, op \in Ops :
        Has(tasks', b, k, i, op) <=>
          \/ Has(q, b, k, i, op)
          \/ /\ k = m /\ d = b
             /\ \/ i = Len(q[m]) + 1 /\ op = "addIOEM"
                \/ i = Len(q[m]) + 2 /\ op = "addTcpConn"
                \/ i = Len(q[m]) + 3 /\ op = "login"
  <2>1. /\ q \in [Loops -> Seq(Tasks)] /\ m \in Loops /\ l \in Loops
        /\ d \in Conns /\ u \in Users \cup {0} /\ m = LoopOf(u) /\ MoveTo(l, d, u, q)
    BY <1>1
  <2> QED
    BY ONLY <2>1, AfterMove
<1>3. UNCHANGED <<id2conn, sid, awaiting>>
  BY DEF MoveTo
<1>4. CASE c # d
  <2>1. LoginTask(c)' => LoginTask(c)
    BY <1>0, <1>2, <1>4 DEF LoginTask
  <2> QED
    BY <1>3, <1>4, <2>1, SessionKept
<1>5. CASE c = d
  <2>1. /\ awaiting'[c] /\ sid'[c] = 0 /\ input'[c] = 0 /\ sid[c] = 0
    BY <1>3, <1>5
  <2>2. \A k \in Loops, v \in Users : id2conn'[k][v] = c => k = LoopOf(v)' /\ sid'[c] = v
    BY <1>3 DEF SessionOf
  <2> QED
    BY <2>1, <2>2 DEF SessionOf
<1> QED
  BY <1>4, <1>5

(* Logging in: the user gets an answer, and the connection if nobody is    *)
(* connected under his id.                                                 *)
LEMMA LoginSessions ==
  ASSUME IInv, \A v : LoopOf(v)' = LoopOf(v),
         NEW q \in [Loops -> Seq(Tasks)], NEW l \in Loops,
         NEW d \in Conns, NEW u \in Users \cup {0}, LoginHere(l, d, u, q),
         ploop[d] = l, LoopOf(u) = l, reading[d],
         \A b \in Conns, k \in Loops, i \in Positions :
           Has(q, b, k, i, "login") => b # d /\ LoginTask(b),
         UNCHANGED <<fd, ploop, reading>>,
         NEW c \in Conns, SessionOf(c), c # d => input'[c] = input[c],
         c = d => sid[c] = 0 /\ input'[c] = 0
  PROVE  SessionOf(c)'
<1>0. TypeOK /\ "login" \in Ops
  BY DEF IInv, TypeInv, Ops
<1>1. tasks' = q /\ awaiting' = [awaiting EXCEPT ![d] = FALSE]
  BY DEF LoginHere
<1>2. LoginTask(c)' => c # d /\ LoginTask(c)
  BY <1>0, <1>1 DEF LoginTask
<1>3. \/ UNCHANGED <<sid, id2conn>>
      \/ /\ Expired(l, u) /\ sid' = [sid EXCEPT ![d] = u]
         /\ \A k \in Loops, v \in Users :
              id2conn'[k][v] = IF k = l /\ v = u THEN d ELSE id2conn[k][v]
  BY <1>0 DEF LoginHere, TypeOK
<1>4. 0 \notin Users
  BY HandoffAssumption
<1>5. CASE c # d
  <2>1. awaiting'[c] = awaiting[c] /\ sid'[c] = sid[c]
    BY <1>0, <1>1, <1>3, <1>5 DEF TypeOK
  <2>2. \A k \in Loops, v \in Users : id2conn'[k][v] = c => id2conn[k][v] = c
    BY <1>3, <1>5
  <2>3. ASSUME fd[c] = "open", sid[c] # 0, id2conn[ploop[c]][sid[c]] = c
        PROVE  id2conn'[ploop[c]][sid[c]] = c
    <3>1. Alive(c) /\ c # NoConn
      BY <2>3, OpenIsAlive, HandoffAssumption
    <3>2. Expired(l, u) => ~(ploop[c] = l /\ sid[c] = u)
      BY <2>3, <3>1 DEF Expired
    <3>3. ploop[c] \in Loops /\ sid[c] \in Users
      BY <1>0, <2>3, LoopNumbers DEF TypeOK
    <3> QED
      BY <1>3, <2>3, <3>2, <3>3
  <2> QED
    BY <1>0, <1>2, <1>5, <2>1, <2>2, <2>3, SessionKept
<1>6. CASE c = d
  <2>1. ~LoginTask(c)' /\ input'[c] = 0 /\ reading'[c] /\ ploop'[c] = l
    BY <1>2, <1>6
  <2>2. \A k \in Loops, v \in Users : id2conn[k][v] # c
    BY <1>0, <1>4, <1>6 DEF SessionOf
  <2>3. CASE UNCHANGED <<sid, id2conn>>
    BY <1>6, <2>1, <2>2, <2>3 DEF SessionOf
  <2>4. CASE /\ Expired(l, u) /\ sid' = [sid EXCEPT ![d] = u]
             /\ \A k \in Loops, v \in Users :
                  id2conn'[k][v] = IF k = l /\ v = u THEN d ELSE id2conn[k][v]
    <3>1. sid'[c] = u
      BY <1>0, <1>6, <2>4 DEF TypeOK
    <3>2. \A k \in Loops, v \in Users :
            id2conn'[k][v] = c => k = LoopOf(v)' /\ sid'[c] = v
      BY <1>6, <2>2, <2>4, <3>1
    <3>3. u # 0 => id2conn'[l][u] = c
      BY <1>6, <2>4
    <3>4. sid'[c] # 0 => ploop'[c] = LoopOf(u)' /\ id2conn'[ploop'[c]][sid'[c]] = c
      BY <2>1, <3>1, <3>3
    <3> QED
      BY <2>1, <3>1, <3>2, <3>4 DEF SessionOf
  <2> QED
    BY <1>3, <2>3, <2>4
<1> QED
  BY <1>5, <1>6

(* LOGIN_IN, read from the socket or handed over.                          *)
LEMMA LoginInSessions ==
  ASSUME IInv, \A v : LoopOf(v)' = LoopOf(v),
         NEW q \in [Loops -> Seq(Tasks)], NEW l \in Loops,
         NEW d \in Conns, NEW u \in Users \cup {0}, HandleLoginIn(l, d, u, q),
         ploop[d] = l, reading[d],
         \A b \in Conns, k \in Loops, i \in Positions :
           Has(q, b, k, i, "login") => b # d /\ LoginTask(b),
         UNCHANGED <<fd, ploop, reading>>,
         NEW c \in Conns, SessionOf(c), c # d => input'[c] = input[c],
         c = d => awaiting[c] /\ sid[c] = 0 /\ input'[c] = 0
  PROVE  SessionOf(c)'
<1>2. CASE LoopOf(u) # ploop[d]
  <2>1. MoveTo(l, d, u, q)
    BY <1>2 DEF HandleLoginIn
  <2> QED
    BY <2>1, MoveSessions
<1>3. CASE LoopOf(u) = ploop[d]
  <2>1. LoginHere(l, d, u, q)
    BY <1>3 DEF HandleLoginIn
  <2> QED
    BY <1>3, <2>1, LoginSessions
<1> QED
  BY <1>2, <1>3

(* Appending other tasks and taking tasks make no login.                   *)
LEMMA AppendsNoLogin ==
  ASSUME TypeOK, NEW m \in Loops, NEW t \in Tasks, t.op # "login",
         tasks' = [tasks EXCEPT ![m] = Append(@, t)], NEW c \in Conns, LoginTask(c)'
  PROVE  LoginTask(c)
<1>1. PICK q \in [Loops -> Seq(Tasks)] : q = tasks
  BY DEF TypeOK
<1>2. PICK k \in Loops, i \in Positions : Has(tasks', c, k, i, "login")
  BY DEF LoginTask
<1>3. Has([q EXCEPT ![m] = Append(@, t)], c, k, i, "login")
  BY <1>1, <1>2
<1>4. Has(q, c, k, i, "login")
  <2>1. "login" \in Ops
    BY DEF Ops
  <2>2. \A n \in Loops, j \in Positions, op \in Ops :
          Has([q EXCEPT ![m] = Append(@, t)], c, n, j, op) <=>
            \/ Has(q, c, n, j, op)
            \/ n = m /\ j = Len(q[m]) + 1 /\ t.conn = c /\ t.op = op
    BY HasAppended
  <2> QED
    BY <1>3, <2>1, <2>2
<1> QED
  BY <1>1, <1>4 DEF LoginTask

LEMMA TakesNoLogin ==
  ASSUME TypeInv, NEW l \in Loops, NEW d, NEW o, Runs(l, o, d),
         NEW c \in Conns, NEW k \in Loops, NEW i \in Positions, Has(Rest(l), c, k, i, "login")
  PROVE  LoginTask(c)
<1>1. "login" \in Ops /\ i + 1 \in Positions
  BY DEF Ops, Positions
<1>2. Has(tasks, c, k, IF k = l THEN i + 1 ELSE i, "login")
  BY <1>1, AfterRun
<1> QED
  BY <1>1, <1>2 DEF LoginTask

(* The steps, but for a second LOGIN_IN on c itself: what the clients of   *)
(* other connections send does not matter.                                 *)
LEMMA SessionStep ==
  ASSUME IInv, NobodyYet, [Next]_vars, NEW c \in Conns, SessionOf(c),
         [~SecondLogin(c)]_vars
  PROVE  SessionOf(c)'
<1>0. TypeInv /\ TypeOK
  BY DEF IInv, TypeInv
<1>3. CASE StartLoop
  <2>1. /\ UNCHANGED <<awaiting, sid, id2conn, reading, fd, ploop, tasks, input>>
        /\ sid[c] = 0
    BY <1>3 DEF StartLoop, client, NobodyYet
  <2>2. LoginTask(c)' <=> LoginTask(c)
    BY <2>1 DEF LoginTask
  <2>3. \A l \in Loops, u \in Users : id2conn[l][u] # c
    BY <1>0, <2>1, HandoffAssumption DEF SessionOf
  <2> QED
    BY <1>0, <2>1, <2>2, <2>3 DEF SessionOf
<1> SUFFICES ASSUME ~StartLoop PROVE SessionOf(c)'
  BY <1>3
<1>1. started' = started /\ \A u : LoopOf(u)' = LoopOf(u)
  BY LoopOfKept
<1>2. ASSUME UNCHANGED <<awaiting, sid, id2conn, reading, fd, ploop, tasks>>,
             input'[c] = input[c] \/ input'[c] = 0
      PROVE  SessionOf(c)'
  <2>1. LoginTask(c)' => LoginTask(c)
    BY <1>2 DEF LoginTask
  <2> QED
    BY <1>0, <1>1, <1>2, <2>1, SessionKept
<1>4. CASE UNCHANGED vars
  BY <1>2, <1>4 DEF vars, client
<1>5. CASE Accepted
  <2>1. PICK d \in Conns : d = accepting
    BY <1>0, <1>5 DEF Accepted, TypeOK
  <2>2. PICK m \in Loops : m = ploop[d]
    BY <1>0, LoopNumbers
  <2>3. PICK t \in Tasks : t = Task("established", d, 0) /\ t.op = "established"
    BY TaskIs
  <2>4. tasks' = [tasks EXCEPT ![m] = Append(@, t)]
    BY <1>5, <2>1, <2>2, <2>3 DEF Accepted
  <2>5. LoginTask(c)' => LoginTask(c)
    BY <1>0, <2>3, <2>4, AppendsNoLogin
  <2> QED
    BY <1>0, <1>1, <1>5, <2>5, SessionKept DEF Accepted, client
<1>6. ASSUME NEW d \in Conns, Accept(d) PROVE SessionOf(c)'
  <2>1. PICK m \in Loops : m = NextIndex + 1
    BY <1>0, LoopNumbers
  <2>2. PICK t \in Tasks : t = Task("addIOEM", d, 0) /\ t.op = "addIOEM"
    BY TaskIs
  <2>3. tasks' = [tasks EXCEPT ![m] = Append(@, t)]
    BY <1>6, <2>1, <2>2 DEF Accept
  <2>4. LoginTask(c)' => LoginTask(c)
    BY <1>0, <2>2, <2>3, AppendsNoLogin
  <2>5. sid[c] # 0 => c # d
    <3>1. ~reading[d]
      BY <1>6 DEF Accept, IInv, PhaseInv, Phase, Closed, Fresh
    <3> QED
      BY <3>1 DEF SessionOf
  <2>6. c # d => fd'[c] = fd[c] /\ ploop'[c] = ploop[c]
    BY <1>0, <1>6 DEF Accept, TypeOK
  <2>7. UNCHANGED <<awaiting, sid, id2conn, reading, input>>
    BY <1>6 DEF Accept, client
  <2> QED
    BY <1>0, <1>1, <2>4, <2>5, <2>6, <2>7, SessionKept
<1>7. ASSUME NEW d \in Conns, NEW u \in Users, SendLogin(d, u) PROVE SessionOf(c)'
  <2>1. UNCHANGED <<sid, id2conn, reading, fd, ploop, tasks>>
    BY <1>7 DEF SendLogin
  <2>2. LoginTask(c)' <=> LoginTask(c)
    BY <2>1 DEF LoginTask
  <2>3. CASE c # d
    <3>1. awaiting'[c] = awaiting[c] /\ input'[c] = input[c]
      BY <1>0, <1>7, <2>3 DEF SendLogin, TypeOK
    <3> QED
      BY <1>0, <1>1, <2>1, <2>2, <3>1, SessionKept
  <2>4. CASE c = d
    <3>1. awaiting'[c] /\ ~awaiting[c] /\ sid[c] = 0
      <4>1. awaiting'[c] /\ ~awaiting[c]
        BY <1>0, <1>7, <2>4 DEF SendLogin, TypeOK
      <4>2. ~UNCHANGED vars
        BY <4>1 DEF vars, client
      <4>3. logins'[c] # logins[c]
        BY <1>0, <1>7, <2>4 DEF SendLogin, TypeOK
      <4> QED
        BY <4>1, <4>2, <4>3 DEF SecondLogin
    <3>2. ~LoginTask(c)'
      BY <1>0, <2>2, <3>1 DEF SessionOf
    <3>3. \A k \in Loops, v \in Users : id2conn'[k][v] = c => k = LoopOf(v)' /\ sid'[c] = v
      BY <1>0, <1>1, <2>1 DEF SessionOf
    <3> QED
      BY <2>1, <3>1, <3>2, <3>3 DEF SessionOf
  <2> QED
    BY <2>3, <2>4
<1>8. ASSUME NEW d \in Conns, Hangup(d) PROVE SessionOf(c)'
  <2>1. input'[c] = input[c] \/ input'[c] = 0
    BY <1>0, <1>8 DEF Hangup, TypeOK
  <2> QED
    BY <1>2, <1>8, <2>1 DEF Hangup
<1>9. ASSUME NEW l \in Loops, Poll(l) \/ Swap(l) PROVE SessionOf(c)'
  BY <1>2, <1>9 DEF Poll, Swap, client
<1>10. ASSUME NEW l \in Loops, NEW d \in Conns, HandleFrame(l, d) PROVE SessionOf(c)'
  <2>1. reading[d] /\ Settled(d) /\ ploop[d] = l
    BY <1>10 DEF HandleFrame, IInv, PhaseInv, EventsSettled
  <2>2. PICK u \in Users \cup {0} : u = input[d]
    BY <1>0 DEF TypeOK
  <2>3. PICK q \in [Loops -> Seq(Tasks)] : q = tasks
    BY <1>0 DEF TypeOK
  <2>4. HandleLoginIn(l, d, u, q) /\ UNCHANGED <<fd, ploop, reading>>
    BY <1>10, <2>2, <2>3 DEF HandleFrame
  <2>5. c = d => awaiting[c] /\ sid[c] = 0
    BY <1>10 DEF HandleFrame, SessionOf
  <2>6. input'[d] = 0 /\ (c # d => input'[c] = input[c])
    BY <1>0, <1>10 DEF HandleFrame, TypeOK
  <2>7. \A b \in Conns, k \in Loops, i \in Positions :
          Has(q, b, k, i, "login") => b # d /\ LoginTask(b)
    BY <2>1, <2>3 DEF Settled, Place, TasksAre, LoginTask, Ops
  <2> QED
    BY <1>1, <2>1, <2>4, <2>5, <2>6, <2>7, LoginInSessions
<1>11. ASSUME NEW l \in Loops, NEW d \in Conns, HandleClose(l, d) PROVE SessionOf(c)'
  <2>1. Settled(d)
    BY <1>11 DEF HandleClose, IInv, PhaseInv, EventsSettled
  <2>2. UNCHANGED <<sid, id2conn, reading, ploop, tasks, input>>
    BY <1>11 DEF HandleClose
  <2>3. LoginTask(c)' <=> LoginTask(c)
    BY <2>2 DEF LoginTask
  <2>4. CASE c # d
    <3>1. awaiting'[c] = awaiting[c] /\ fd'[c] = fd[c]
      BY <1>0, <1>11, <2>4 DEF HandleClose, TypeOK
    <3> QED
      BY <1>0, <1>1, <2>2, <2>3, <3>1, SessionKept
  <2>5. CASE c = d
    <3>1. fd'[c] = "closed" /\ input'[c] = 0
      BY <1>0, <1>11, <2>5 DEF HandleClose, TypeOK
    <3>2. ~LoginTask(c)'
      BY <2>1, <2>3, <2>5 DEF Settled, Place, TasksAre, LoginTask, Ops
    <3>3. \A k \in Loops, v \in Users : id2conn'[k][v] = c => k = LoopOf(v)' /\ sid'[c] = v
      BY <1>0, <1>1, <2>2 DEF SessionOf
    <3>4. ~reading'[c] => sid'[c] = 0
      BY <1>0, <2>2 DEF SessionOf
    <3> QED
      BY <3>1, <3>2, <3>3, <3>4 DEF SessionOf
  <2> QED
    BY <2>4, <2>5
<1>12. ASSUME NEW l \in Loops, NEW d \in Conns, RunAddIOEM(l, d) PROVE SessionOf(c)'
  <2>1. Runs(l, "addIOEM", d) /\ tasks' = Rest(l)
        /\ UNCHANGED <<awaiting, sid, id2conn, reading, fd, ploop, input>>
    BY <1>12 DEF RunAddIOEM, client
  <2>2. LoginTask(c)' => LoginTask(c)
    BY <1>0, <2>1, TakesNoLogin DEF LoginTask
  <2> QED
    BY <1>0, <1>1, <2>1, <2>2, SessionKept
<1>13. ASSUME NEW l \in Loops, NEW d \in Conns, RunEstablished(l, d) PROVE SessionOf(c)'
  <2>1. Runs(l, "established", d) /\ tasks' = Rest(l)
        /\ UNCHANGED <<awaiting, sid, id2conn, fd, ploop, input>>
    BY <1>13 DEF RunEstablished, client
  <2>2. LoginTask(c)' => LoginTask(c)
    BY <1>0, <2>1, TakesNoLogin DEF LoginTask
  <2>3. reading[c] => reading'[c]
    BY <1>0, <1>13 DEF RunEstablished, TypeOK
  <2> QED
    BY <1>0, <1>1, <2>1, <2>2, <2>3, SessionKept
<1>14. ASSUME NEW l \in Loops, NEW d \in Conns, RunAddTcpConn(l, d) PROVE SessionOf(c)'
  <2>1. Runs(l, "addTcpConn", d) /\ tasks' = Rest(l)
        /\ UNCHANGED <<awaiting, sid, id2conn, reading, fd, input>>
    BY <1>14 DEF RunAddTcpConn, client
  <2>2. LoginTask(c)' => LoginTask(c)
    BY <1>0, <2>1, TakesNoLogin DEF LoginTask
  <2>3. fd[c] = "open" /\ sid[c] # 0 => c # d
    <3>1. Has(tasks, d, l, 1, "addTcpConn") /\ "addTcpConn" \in Ops /\ 1 \in Positions
      BY <1>0, <2>1, AfterRun DEF Ops, Positions
    <3>2. ~Settled(d)
      BY <3>1 DEF Settled, Place, TasksAre
    <3> QED
      BY <1>0, <3>2, LoggedInIsSettled
  <2>4. c # d => ploop'[c] = ploop[c]
    BY <1>0, <1>14 DEF RunAddTcpConn, TypeOK
  <2> QED
    BY <1>0, <1>1, <2>1, <2>2, <2>3, <2>4, SessionKept
<1>15. ASSUME NEW l \in Loops, NEW d \in Conns, RunLogin(l, d) PROVE SessionOf(c)'
  <2>1. Runs(l, "login", d)
    BY <1>15 DEF RunLogin
  <2>2. /\ reading[d] /\ ploop[d] = l /\ TasksAre(Rest(l), d, {})
        /\ Has(tasks, d, l, 1, "login")
    BY <2>1, LoginIsLast
  <2>3. LoginTask(d)
    BY <2>2 DEF LoginTask, Positions
  <2>4. PICK u \in Users \cup {0} : u = Head(tasks[l]).id
    BY <1>0, <2>1, Running DEF Tasks
  <2>5. PICK q \in [Loops -> Seq(Tasks)] : q = Rest(l)
    BY <1>0, <2>1, Taken
  <2>6. HandleLoginIn(l, d, u, q) /\ UNCHANGED <<fd, ploop, reading, input>>
    BY <1>15, <2>4, <2>5 DEF RunLogin
  <2>7. c = d => awaiting[c] /\ sid[c] = 0 /\ input'[c] = 0
    BY <2>3, <2>6 DEF SessionOf
  <2>8. \A b \in Conns, k \in Loops, i \in Positions :
          Has(q, b, k, i, "login") => b # d /\ LoginTask(b)
    <3>1. \A k \in Loops, i \in Positions : ~Has(q, d, k, i, "login")
      BY <2>2, <2>5 DEF TasksAre, Ops
    <3>2. \A b \in Conns, k \in Loops, i \in Positions :
            Has(q, b, k, i, "login") => LoginTask(b)
      BY <1>0, <2>1, <2>5, TakesNoLogin
    <3> QED
      BY <3>1, <3>2
  <2> QED
    BY <1>1, <2>2, <2>6, <2>7, <2>8, LoginInSessions
<1> QED
  BY <1>4, <1>5, <1>6, <1>7, <1>8, <1>9, <1>10, <1>11, <1>12, <1>13, <1>14, <1>15
  DEF Next, LoopStep

(* Logging in keeps everybody listed: an entry is overwritten only when    *)
(* the connection in it is gone.                                           *)
LEMMA LoginListed ==
  ASSUME IInv, \A c \in Conns : ListedOf(c), \A v : LoopOf(v)' = LoopOf(v),
         NEW q, NEW l \in Loops, NEW d \in Conns, NEW u \in Users \cup {0},
         LoginHere(l, d, u, q), LoopOf(u) = l, reading[d],
         UNCHANGED <<fd, reading>>,
         NEW c \in Conns
  PROVE  ListedOf(c)'
<1>0. TypeOK /\ ListedOf(c)
  BY DEF IInv, TypeInv
<1>1. \/ UNCHANGED <<sid, id2conn>>
      \/ /\ Expired(l, u) /\ sid' = [sid EXCEPT ![d] = u]
         /\ \A k \in Loops, v \in Users :
              id2conn'[k][v] = IF k = l /\ v = u THEN d ELSE id2conn[k][v]
  BY <1>0 DEF LoginHere, TypeOK
<1>2. CASE UNCHANGED <<sid, id2conn>>
  BY <1>0, <1>2 DEF ListedOf
<1>3. CASE /\ Expired(l, u) /\ sid' = [sid EXCEPT ![d] = u]
           /\ \A k \in Loops, v \in Users :
                id2conn'[k][v] = IF k = l /\ v = u THEN d ELSE id2conn[k][v]
  <2>1. CASE c = d
    <3>1. sid'[c] = u /\ (u # 0 => id2conn'[l][u] = c)
      BY <1>0, <1>3, <2>1 DEF TypeOK
    <3> QED
      BY <2>1, <3>1 DEF ListedOf
  <2>2. CASE c # d
    <3>1. sid'[c] = sid[c]
      BY <1>0, <1>3, <2>2 DEF TypeOK
    <3>2. ASSUME fd[c] = "open", sid[c] # 0
          PROVE  id2conn'[LoopOf(sid[c])][sid[c]] = c
      <4>1. Alive(c) /\ c # NoConn /\ id2conn[LoopOf(sid[c])][sid[c]] = c
        BY <1>0, <3>2, OpenIsAlive, HandoffAssumption DEF ListedOf
      <4>2. ~(LoopOf(sid[c]) = l /\ sid[c] = u)
        BY <1>3, <4>1 DEF Expired
      <4>3. sid[c] \in Users /\ LoopOf(sid[c]) \in Loops
        BY <1>0, <3>2, LoopNumbers DEF TypeOK
      <4> QED
        BY <1>3, <4>1, <4>2, <4>3
    <3> QED
      BY <1>0, <3>1, <3>2 DEF ListedOf
  <2> QED
    BY <2>1, <2>2
<1> QED
  BY <1>1, <1>2, <1>3

(* .. moving to another loop changes neither.                              *)
LEMMA LoginInListed ==
  ASSUME IInv, \A c \in Conns : ListedOf(c), \A v : LoopOf(v)' = LoopOf(v),
         NEW q, NEW l \in Loops, NEW d \in Conns, NEW u \in Users \cup {0},
         HandleLoginIn(l, d, u, q), ploop[d] = l, reading[d],
         UNCHANGED <<fd, reading>>,
         NEW c \in Conns
  PROVE  ListedOf(c)'
<1>1. CASE LoopOf(u) # ploop[d]
  BY <1>1 DEF HandleLoginIn, MoveTo, ListedOf
<1>2. CASE LoopOf(u) = ploop[d]
  <2>1. LoginHere(l, d, u, q)
    BY <1>2 DEF HandleLoginIn
  <2> QED
    BY <1>2, <2>1, LoginListed
<1> QED
  BY <1>1, <1>2

(* The steps, with as many logins on a connection as its client likes.     *)
LEMMA ListedStep ==
  IInv /\ ListedInv /\ [Next]_vars /\ [~EarlyLogin]_vars => ListedInv'
<1> SUFFICES ASSUME IInv, ListedInv, [Next]_vars, [~EarlyLogin]_vars
             PROVE  ListedInv'
  OBVIOUS
<1>0. TypeInv /\ TypeOK /\ NobodyYet /\ \A c \in Conns : ListedOf(c)
  BY DEF IInv, TypeInv, ListedInv
<1>1. NobodyYet'
  BY <1>0, NobodyYetStep
<1> SUFFICES ASSUME NEW c \in Conns PROVE ListedOf(c)'
  BY <1>1 DEF ListedInv
<1>2. CASE StartLoop
  BY <1>0, <1>2 DEF StartLoop, NobodyYet, ListedOf
<1> SUFFICES ASSUME ~StartLoop PROVE ListedOf(c)'
  BY <1>2
<1>3. \A u : LoopOf(u)' = LoopOf(u)
  BY LoopOfKept
<1>4. ASSUME UNCHANGED <<sid, id2conn>>, reading[c] => reading'[c],
             fd'[c] = "open" => fd[c] = "open" \/ sid[c] = 0
      PROVE  ListedOf(c)'
  BY <1>0, <1>3, <1>4 DEF ListedOf
<1>5. CASE Accepted \/ UNCHANGED vars
  BY <1>4, <1>5 DEF Accepted, vars
<1>6. ASSUME NEW d \in Conns, Accept(d) PROVE ListedOf(c)'
  <2>1. sid[d] = 0
    <3>1. ~reading[d]
      BY <1>6 DEF Accept, IInv, PhaseInv, Phase, Closed, Fresh
    <3> QED
      BY <1>0, <3>1 DEF ListedOf
  <2>2. c # d => fd'[c] = fd[c]
    BY <1>0, <1>6 DEF Accept, TypeOK
  <2> QED
    BY <1>4, <1>6, <2>1, <2>2 DEF Accept
<1>7. ASSUME NEW d \in Conns, Hangup(d) \/ \E u \in Users : SendLogin(d, u)
      PROVE  ListedOf(c)'
  BY <1>4, <1>7 DEF Hangup, SendLogin
<1>8. ASSUME NEW l \in Loops, Poll(l) \/ Swap(l) PROVE ListedOf(c)'
  BY <1>4, <1>8 DEF Poll, Swap
<1>9. ASSUME NEW l \in Loops, NEW d \in Conns, HandleFrame(l, d) PROVE ListedOf(c)'
  <2>1. reading[d] /\ ploop[d] = l
    BY <1>9 DEF HandleFrame, IInv, PhaseInv, EventsSettled
  <2>2. PICK u \in Users \cup {0} : u = input[d]
    BY <1>0 DEF TypeOK
  <2>3. HandleLoginIn(l, d, u, tasks) /\ UNCHANGED <<fd, reading>>
    BY <1>9, <2>2 DEF HandleFrame
  <2> QED
    BY <1>0, <1>3, <2>1, <2>3, LoginInListed
<1>10. ASSUME NEW l \in Loops, NEW d \in Conns, HandleClose(l, d) PROVE ListedOf(c)'
  <2>1. fd'[c] = "open" => fd[c] = "open"
    BY <1>0, <1>10 DEF HandleClose, TypeOK
  <2> QED
    BY <1>4, <1>10, <2>1 DEF HandleClose
<1>11. ASSUME NEW l \in Loops, NEW d \in Conns,
              RunAddIOEM(l, d) \/ RunEstablished(l, d) \/ RunAddTcpConn(l, d)
       PROVE  ListedOf(c)'
  <2>1. UNCHANGED <<sid, id2conn, fd>>
    BY <1>11 DEF RunAddIOEM, RunEstablished, RunAddTcpConn
  <2>2. reading[c] => reading'[c]
    BY <1>0, <1>11 DEF RunAddIOEM, RunEstablished, RunAddTcpConn, TypeOK
  <2> QED
    BY <1>4, <2>1, <2>2
<1>12. ASSUME NEW l \in Loops, NEW d \in Conns, RunLogin(l, d) PROVE ListedOf(c)'
  <2>1. Runs(l, "login", d)
    BY <1>12 DEF RunLogin
  <2>2. reading[d] /\ ploop[d] = l
    BY <2>1, LoginIsLast
  <2>3. PICK u \in Users \cup {0} : u = Head(tasks[l]).id
    BY <1>0, <2>1, Running DEF Tasks
  <2>4. HandleLoginIn(l, d, u, Rest(l)) /\ UNCHANGED <<fd, reading>>
    BY <1>12, <2>3 DEF RunLogin
  <2> QED
    BY <1>0, <1>3, <2>2, <2>4, LoginInListed
<1> QED
  BY <1>5, <1>6, <1>7, <1>8, <1>9, <1>10, <1>11, <1>12 DEF Next, LoopStep

(* The invariant of a behaviour with its history.                          *)
SessionInv == /\ IInv
              /\ ~early => /\ ListedInv
                          /\ \A c \in Conns \ again : SessionOf(c)

LEMMA SessionNext == SessionInv /\ [NotedNext]_all => SessionInv'
<1> SUFFICES ASSUME SessionInv, [NotedNext]_all PROVE SessionInv'
  OBVIOUS
<1>1. (Next /\ Noted) \/ UNCHANGED <<vars, early, again>>
  BY DEF NotedNext, Next, LoopStep, all
<1>2. [Next]_vars
  BY <1>1
<1>3. IInv'
  BY <1>2, TypeStep, PhaseStep DEF SessionInv, IInv
<1> SUFFICES ASSUME ~early'
             PROVE  ListedInv' /\ \A c \in Conns \ again' : SessionOf(c)'
  BY <1>3 DEF SessionInv
<1>4. ~early /\ [~EarlyLogin]_vars
  <2>1. CASE Noted
    <3>1. early' = (early \/ EarlyLogin)
      BY <2>1 DEF Noted
    <3>2. ~(early \/ EarlyLogin)
      BY <3>1, Zenon
    <3> QED
      BY <3>2
  <2>2. CASE UNCHANGED <<vars, early, again>>
    BY <2>2
  <2> QED
    BY <1>1, <2>1, <2>2
<1>5. ListedInv'
  BY <1>2, <1>4, ListedStep DEF SessionInv
<1>6. ASSUME NEW c \in Conns \ again' PROVE SessionOf(c)'
  <2>1. c \in Conns \ again /\ [~SecondLogin(c)]_vars
    BY <1>1, <1>6 DEF Noted
  <2> QED
    BY <1>2, <1>4, <2>1, SessionStep DEF SessionInv, ListedInv
<1> QED
  BY <1>5, <1>6

LEMMA SessionsAlways == NotedSpec => []SessionInv
<1>1. NotedInit => SessionInv
  BY TypeInit, PhaseInit, SessionInit DEF NotedInit, SessionInv, IInv
<1> QED
  BY <1>1, SessionNext, PTL DEF NotedSpec

(* Who is listed for an id is the only one that has it.                    *)
LEMMA ListedIsOnly == IInv /\ ListedInv => SingleSession
<1> SUFFICES ASSUME IInv, ListedInv, NEW c \in Conns, NEW d \in Conns,
                    Alive(c), Alive(d), sid[c] = sid[d], sid[c] # 0
             PROVE  c = d
  BY DEF SingleSession
<1>1. fd[c] = "open" /\ fd[d] = "open" /\ ListedOf(c) /\ ListedOf(d)
  BY OpenIsAlive DEF ListedInv
<1> QED
  BY <1>1 DEF ListedOf

(* A connection with a user is owned by the loop that lists it.            *)
LEMMA OwnedAtHome ==
  ASSUME IInv, NEW c \in Conns, SessionOf(c), fd[c] = "open", sid[c] # 0
  PROVE  /\ LoopOf(sid[c]) = ploop[c] /\ c \in pTcpConns[ploop[c]]
         /\ id2conn[LoopOf(sid[c])][sid[c]] = c
<1>1. ploop[c] = LoopOf(sid[c]) /\ id2conn[ploop[c]][sid[c]] = c
  BY DEF SessionOf
<1>2. c \in pTcpConns[ploop[c]]
  BY LoggedInIsSettled DEF Settled, Place, Held
<1> QED
  BY <1>1, <1>2

(* If nobody logs in before all loops have started, a user is never logged *)
(* in on two connections, even when clients log in again as somebody else  *)
(* and are moved about between loops.                                      *)
THEOREM OneSessionPerUser == NotedSpec => []OneSession
<1>1. SessionInv => OneSession
  BY ListedIsOnly DEF SessionInv, OneSession
<1> QED
  BY <1>1, SessionsAlways, PTL

(* .. the connection of a user stays listed under him, moving or not.      *)
THEOREM AlwaysListed == NotedSpec => []UserIsListed
<1>1. SessionInv => UserIsListed
  BY DEF SessionInv, ListedInv, ListedOf, UserIsListed
<1> QED
  BY <1>1, SessionsAlways, PTL

(* .. and a connection whose own client has logged in once is owned by the *)
(* loop that lists it, whatever the other clients do.                      *)
THEOREM ReachedAtOwner == NotedSpec => []FoundAtOwner
<1>1. SessionInv => FoundAtOwner
  <2> SUFFICES ASSUME IInv, NEW c \in Conns, SessionOf(c)
               PROVE  /\ fd[c] = "open" /\ sid[c] # 0 =>
                           LoopOf(sid[c]) = ploop[c] /\ c \in pTcpConns[ploop[c]]
                      /\ \A l \in Loops, u \in Users :
                           id2conn[l][u] = c => l = LoopOf(u) /\ sid[c] = u
    BY DEF SessionInv, FoundAtOwner
  <2>1. \A l \in Loops, u \in Users :
          id2conn[l][u] = c => l = LoopOf(u) /\ sid[c] = u
    BY DEF SessionOf
  <2> QED
    BY <2>1, OwnedAtHome
<1> QED
  BY <1>1, SessionsAlways, PTL

(* Forwarders always find a logged in user on his loop (TcpServer.cpp:36)  *)
(* when the server listens only after all its loops have started and its   *)
(* clients log in once.                                                    *)
THEOREM SessionsInOrder ==
  ASSUME InitLoops = NLoops, ~Relogin
  PROVE  Spec => [](SingleSession /\ FoundAtHome)
<1> DEFINE J == IInv /\ ListedInv /\ \A c \in Conns : SessionOf(c)
<1>1. Init => J
  BY TypeInit, PhaseInit, SessionInit DEF IInv
<1>2. J /\ [Next]_vars => J'
  <2> SUFFICES ASSUME J, [Next]_vars PROVE J'
    OBVIOUS
  <2>1. [~EarlyLogin]_vars /\ \A c \in Conns : [~SecondLogin(c)]_vars
    <3>1. started = NLoops
      BY HandoffAssumption DEF IInv, TypeInv, TypeOK
    <3>2. ASSUME NEW c \in Conns, SecondLogin(c) PROVE UNCHANGED vars
      BY <3>2, HandoffAssumption
         DEF SecondLogin, Next, vars, threads, client, StartLoop, Accepted, LoopStep,
             Poll, Swap, HandleFrame, HandleClose, RunAddIOEM, RunEstablished,
             RunAddTcpConn, RunLogin, Accept, Hangup, SendLogin, IInv, TypeInv, TypeOK
    <3> QED
      BY <3>1, <3>2, HandoffAssumption DEF EarlyLogin
  <2>2. IInv'
    BY TypeStep, PhaseStep DEF IInv
  <2>3. ListedInv'
    BY <2>1, ListedStep
  <2>4. \A c \in Conns : SessionOf(c)'
    BY <2>1, SessionStep DEF ListedInv
  <2> QED
    BY <2>2, <2>3, <2>4
<1>3. J => SingleSession /\ FoundAtHome
  BY ListedIsOnly, OwnedAtHome DEF FoundAtHome
<1> QED
  BY <1>1, <1>2, <1>3, PTL DEF Spec
=============================================================================
