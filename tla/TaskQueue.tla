------------------------------ MODULE TaskQueue ------------------------------
(***************************************************************************)
(* The event loops and the task queues between their threads: EventLoop    *)
(* (loop, runInLoop, queueInLoop, wakeup, do_pending_task, readEventFd)    *)
(* and the part of Epoller::wait they rely on.  A thread holds mtx_tasks   *)
(* from its push to its write to the event fd; readEventFd does not take   *)
(* the mutex, so it may run between the two.                               *)
(***************************************************************************)
EXTENDS IdSeqs

CONSTANTS Loops,      \* event loops, each with the thread that runs loop()
          Sizes,      \* how many tasks one call hands over (LOGIN_IN: three)
          MaxPosts,   \* bound: calls made by one thread
          NoThread    \* the holder of a mutex that is free

ASSUME TaskQueueAssumption == /\ Sizes \subseteq Nat \ {0}
                              /\ MaxPosts \in Nat
                              /\ NoThread \notin Loops

(* Task number part of the n-th call made by thread from.                  *)
Tasks == [from : Loops, n : Nat, part : Nat, size : Sizes]

VARIABLES
  pc,        \* pc[l]: where the thread of l is in loop()
  reported,  \* reported[l]: epoll_wait has reported the event fd
  readable,  \* readable[l]: the counter of l's event fd is not zero
  tasks,     \* tasks[l]: EventLoop::tasks
  tmptasks,  \* tmptasks[l]: what do_pending_task has taken and not yet run
  mtx,       \* mtx[l]: the thread that holds l's mtx_tasks
  posts,     \* posts[t]: calls thread t has made
  executed   \* executed[l]: tasks l has run, in order (history)

vars == <<pc, reported, readable, tasks, tmptasks, mtx, posts, executed>>

(* do_pending_task's tmptasks is a local: between two rounds nothing is    *)
(* left of what it took.                                                   *)
NothingTaken == \A l \in Loops : pc[l] # "run" => tmptasks[l] = <<>>

TypeOK == /\ pc \in [Loops -> {"wait", "events", "pending", "run"}]
          /\ reported \in [Loops -> BOOLEAN]
          /\ readable \in [Loops -> BOOLEAN]
          /\ tasks \in [Loops -> Seq(Tasks)]
          /\ tmptasks \in [Loops -> Seq(Tasks)]
          /\ mtx \in [Loops -> Loops \cup {NoThread}]
          /\ posts \in [Loops -> 0..MaxPosts]
          /\ executed \in [Loops -> Seq(Tasks)]
          /\ NothingTaken

Init == /\ pc = [l \in Loops |-> "wait"]
        /\ reported = [l \in Loops |-> FALSE]
        /\ readable = [l \in Loops |-> FALSE]
        /\ tasks = [l \in Loops |-> <<>>]
        /\ tmptasks = [l \in Loops |-> <<>>]
        /\ mtx = [l \in Loops |-> NoThread]
        /\ posts = [l \in Loops |-> 0]
        /\ executed = [l \in Loops |-> <<>>]

----------------------------------------------------------------------------
(* Handing tasks over.  A thread does so from an event handler or a task.  *)

Posting(t) == \E l \in Loops : mtx[l] = t

Busy(t) == pc[t] \in {"events", "run"} /\ ~Posting(t)

BatchOf(t, n, size) ==
  [i \in 1..size |-> [from |-> t, n |-> n, part |-> i, size |-> size]]

Batches == {BatchOf(t, n, size) : t \in Loops, n \in 1..MaxPosts, size \in Sizes}

Batch(t, size) == BatchOf(t, posts[t] + 1, size)

Calls(t) == /\ Busy(t)
            /\ posts[t] < MaxPosts
            /\ posts' = [posts EXCEPT ![t] = @ + 1]

(* runInLoop called by the loop's own thread: the tasks run here and now.  *)
RunInline(l, size) ==
  /\ Calls(l)
  /\ executed' = [executed EXCEPT ![l] = @ \o Batch(l, size)]
  /\ UNCHANGED <<pc, reported, readable, tasks, tmptasks, mtx>>

(* Mutant: the tasks of a call are put in front of those that wait.        *)
QueueInFront(t, l, size) ==
  /\ t # l
  /\ Calls(t)
  /\ mtx[l] = NoThread
  /\ mtx' = [mtx EXCEPT ![l] = t]
  /\ tasks' = [tasks EXCEPT ![l] = Batch(t, size) \o @]
  /\ UNCHANGED <<pc, reported, readable, tmptasks, executed>>

(* queueInLoop: lock mtx_tasks and append ..                               *)
QueueInLoop(t, l, size) ==
  /\ t # l
  /\ Calls(t)
  /\ mtx[l] = NoThread
  /\ mtx' = [mtx EXCEPT ![l] = t]
  /\ tasks' = [tasks EXCEPT ![l] = @ \o Batch(t, size)]
  /\ UNCHANGED <<pc, reported, readable, tmptasks, executed>>

(* Mutant: the event fd is not written.                                    *)
WakeupForgets(t, l) ==
  /\ mtx[l] = t
  /\ mtx' = [mtx EXCEPT ![l] = NoThread]
  /\ UNCHANGED <<pc, reported, readable, tasks, tmptasks, posts, executed>>

(* .. write to the event fd and unlock.                                    *)
Wakeup(t, l) ==
  /\ mtx[l] = t
  /\ readable' = [readable EXCEPT ![l] = TRUE]
  /\ mtx' = [mtx EXCEPT ![l] = NoThread]
  /\ UNCHANGED <<pc, reported, tasks, tmptasks, posts, executed>>

----------------------------------------------------------------------------
(* loop().                                                                 *)

(* epoll_wait returns with the event fd among the active ones.             *)
WaitWoken(l) ==
  /\ pc[l] = "wait"
  /\ readable[l]
  /\ pc' = [pc EXCEPT ![l] = "events"]
  /\ reported' = [reported EXCEPT ![l] = TRUE]
  /\ UNCHANGED <<readable, tasks, tmptasks, mtx, posts, executed>>

(* .. without it: after waittimeout, with other events, or with as many as *)
(* evvec holds.                                                            *)
WaitOther(l) ==
  /\ pc[l] = "wait"
  /\ pc' = [pc EXCEPT ![l] = "events"]
  /\ UNCHANGED <<reported, readable, tasks, tmptasks, mtx, posts, executed>>

(* handleEvent of the event fd: the counter is read and reset.             *)
ReadEventFd(l) ==
  /\ pc[l] = "events" /\ ~Posting(l)
  /\ reported[l]
  /\ reported' = [reported EXCEPT ![l] = FALSE]
  /\ readable' = [readable EXCEPT ![l] = FALSE]
  /\ UNCHANGED <<pc, tasks, tmptasks, mtx, posts, executed>>

(* All active events have been handled.                                    *)
EventsDone(l) ==
  /\ pc[l] = "events" /\ ~Posting(l)
  /\ ~reported[l]
  /\ pc' = [pc EXCEPT ![l] = "pending"]
  /\ UNCHANGED <<reported, readable, tasks, tmptasks, mtx, posts, executed>>

(* Mutant: one task is taken at a time.                                    *)
TakeOne(l) ==
  /\ pc[l] = "pending"
  /\ mtx[l] = NoThread
  /\ \/ tasks[l] = <<>> /\ UNCHANGED <<tasks, tmptasks>>
     \/ /\ tasks[l] # <<>>
        /\ tmptasks' = [tmptasks EXCEPT ![l] = <<Head(tasks[l])>>]
        /\ tasks' = [tasks EXCEPT ![l] = Tail(@)]
  /\ pc' = [pc EXCEPT ![l] = "run"]
  /\ UNCHANGED <<reported, readable, mtx, posts, executed>>

(* do_pending_task swaps the queue with an empty one, under the mutex ..   *)
Swap(l) ==
  /\ pc[l] = "pending"
  /\ mtx[l] = NoThread
  /\ tmptasks' = [tmptasks EXCEPT ![l] = tasks[l]]
  /\ tasks' = [tasks EXCEPT ![l] = <<>>]
  /\ pc' = [pc EXCEPT ![l] = "run"]
  /\ UNCHANGED <<reported, readable, mtx, posts, executed>>

(* .. and runs what it took, outside it.                                   *)
RunTask(l) ==
  /\ pc[l] = "run" /\ ~Posting(l)
  /\ tmptasks[l] # <<>>
  /\ executed' = [executed EXCEPT ![l] = Append(@, Head(tmptasks[l]))]
  /\ tmptasks' = [tmptasks EXCEPT ![l] = Tail(@)]
  /\ UNCHANGED <<pc, reported, readable, tasks, mtx, posts>>

(* Mutant: the counter is reset at the end of the round.                   *)
RunDoneResets(l) ==
  /\ pc[l] = "run" /\ ~Posting(l)
  /\ tmptasks[l] = <<>>
  /\ pc' = [pc EXCEPT ![l] = "wait"]
  /\ readable' = [readable EXCEPT ![l] = FALSE]
  /\ UNCHANGED <<reported, tasks, tmptasks, mtx, posts, executed>>

(* Mutant: the last of the tasks that were taken is not run.               *)
RunDoneOneShort(l) ==
  /\ pc[l] = "run" /\ ~Posting(l)
  /\ Len(tmptasks[l]) <= 1
  /\ pc' = [pc EXCEPT ![l] = "wait"]
  /\ UNCHANGED <<reported, readable, tasks, tmptasks, mtx, posts, executed>>

(* Mutant: the queue is cleared when what was copied from it has run.      *)
RunDoneClears(l) ==
  /\ pc[l] = "run" /\ ~Posting(l)
  /\ tmptasks[l] = <<>>
  /\ pc' = [pc EXCEPT ![l] = "wait"]
  /\ tasks' = [tasks EXCEPT ![l] = <<>>]
  /\ UNCHANGED <<reported, readable, tmptasks, mtx, posts, executed>>

RunDone(l) ==
  /\ pc[l] = "run" /\ ~Posting(l)
  /\ tmptasks[l] = <<>>
  /\ pc' = [pc EXCEPT ![l] = "wait"]
  /\ UNCHANGED <<reported, readable, tasks, tmptasks, mtx, posts, executed>>

----------------------------------------------------------------------------

LoopStep(l) == \/ WaitWoken(l) \/ WaitOther(l) \/ ReadEventFd(l)
               \/ EventsDone(l) \/ Swap(l) \/ RunTask(l) \/ RunDone(l)

Next == \E l \in Loops :
          \/ LoopStep(l)
          \/ \E size \in Sizes : RunInline(l, size)
          \/ \E t \in Loops : \/ Wakeup(t, l)
                              \/ \E size \in Sizes : QueueInLoop(t, l, size)

Spec == Init /\ [][Next]_vars

(* The threads run.  Nothing is asked of WaitOther: whether a task runs    *)
(* must not depend on epoll_wait's timeout.                                *)
Fairness == \A l \in Loops : /\ WF_vars(WaitWoken(l))
                             /\ WF_vars(ReadEventFd(l))
                             /\ WF_vars(EventsDone(l))
                             /\ WF_vars(Swap(l))
                             /\ WF_vars(RunTask(l))
                             /\ WF_vars(RunDone(l))
                             /\ \A t \in Loops : WF_vars(Wakeup(t, l))

FairSpec == Spec /\ Fairness

----------------------------------------------------------------------------
(* Properties.                                                             *)

(* A thread that waits in epoll_wait while its queue is not empty has been *)
(* woken, or is being woken by the thread that still holds the mutex.      *)
NoLostWakeup ==
  \A l \in Loops :
    pc[l] = "wait" /\ tasks[l] # <<>> => readable[l] \/ mtx[l] # NoThread

(* What one thread hands to a loop runs in the order of its calls.         *)
ProducerOrder ==
  \A l \in Loops : \A i, j \in DOMAIN executed[l] :
    LET a == executed[l][i]
        b == executed[l][j]
    IN  a.from = b.from /\ i < j =>
          a.n < b.n \/ (a.n = b.n /\ a.part < b.part)

(* The tasks of one call are not separated by a wait, an event or a task   *)
(* of another queued call; only what they call inline runs between them.   *)
(* LOGIN_IN relies on it: the fd is in the new loop's epoll set before the *)
(* connection is in its pTcpConns (TcpSession.cpp:159-167).                *)
BatchTogether ==
  \A l \in Loops : \A i \in DOMAIN executed[l] :
    LET a == executed[l][i]
        done == {executed[l][j].part : j \in {k \in DOMAIN executed[l] :
                   executed[l][k].from = a.from /\ executed[l][k].n = a.n}}
    IN  done # 1..a.size =>
          /\ pc[l] = "run"
          /\ \A p \in 1..a.size \ done :
               LET k == p - Cardinality(done)
               IN  /\ k \in DOMAIN tmptasks[l]
                   /\ tmptasks[l][k] = [a EXCEPT !.part = p]

(* The mail of a loop: what it has taken, then what is queued.             *)
Mail == [l \in Loops |-> tmptasks[l] \o tasks[l]]

Abstract == INSTANCE Mailbox WITH box <- Mail

(* Every task handed over runs once and in order, and none that was not.   *)
IsMailbox == Abstract!Safety

(* Tasks that wait in a queue are taken, without the help of a timeout.    *)
QueuedRuns ==
  \A l \in Loops : /\ (tasks[l] # <<>>) ~> (tasks[l] = <<>>)
                   /\ (tmptasks[l] # <<>>) ~> (tmptasks[l] = <<>>)
=============================================================================
