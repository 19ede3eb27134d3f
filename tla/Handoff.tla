------------------------------ MODULE Handoff ------------------------------
(***************************************************************************)
(* Which event loop a connection belongs to, from accept to close: the     *)
(* loops take connections in turn, LOGIN_IN moves a connection to the loop *)
(* of its user (TcpSession::handleLoginIn), and closing frees it.          *)
(*                                                                         *)
(* Each loop waits, handles what epoll reported, then runs the tasks it    *)
(* finds in its queue (EventLoop::loop); TaskQueue shows that the queues   *)
(* may be taken for that.  Loops = ploops in the order of their threads'   *)
(* start.  LOGIN_IN is the only frame that concerns ownership; a client    *)
(* sends it and waits for the answer.                                      *)
(***************************************************************************)
EXTENDS IdSeqs

CONSTANTS
  NLoops,      \* threads that newEventLoopThread starts
  InitLoops,   \* how many of them are in ploops when the server listens
  Users,       \* user ids
  Conns,       \* bound: the connections ever accepted
  NoConn,      \* no connection
  Relogin,     \* a logged in client may send LOGIN_IN again
  MaxLogins    \* bound: LOGIN_INs sent on one connection

ASSUME HandoffAssumption == /\ NLoops \in Nat /\ InitLoops \in 1..NLoops
                            /\ Users \subseteq Nat \ {0}
                            /\ NoConn \notin Conns
                            /\ Relogin \in BOOLEAN
                            /\ MaxLogins \in Nat

Loops == 1..NLoops

Tasks == [op : {"addIOEM", "established", "addTcpConn", "login"},
          conn : Conns, id : Users \cup {0}]

VARIABLES
  started,     \* ploops.size()
  next,        \* EventLoopThreadManager::next
  accepting,   \* the connection newConnection is working on
  pc,          \* pc[l]: where loop() is
  active,      \* active[l]: reported by epoll_wait and not yet handled
  tasks,       \* tasks[l]: the queue; its first running[l] have been taken
  running,
  registered,  \* registered[l]: the connections whose fd is in l's epoll set
  pTcpConns,   \* pTcpConns[l]: those l holds a shared_ptr to
  id2conn,     \* id2conn[l][u]: weak_ptr to the connection of user u
  fd,          \* fd[c]: not accepted / open / closed
  ploop,       \* ploop[c]: TcpConnection::ploop, also its session's and IOEM's
  reading,     \* reading[c]: EPOLLIN is among its events
  sid,         \* sid[c]: TcpSession::id, 0 before LOGIN_IN succeeds
  input,       \* input[c]: user of the LOGIN_IN frame that has arrived, or 0
  awaiting,    \* awaiting[c]: its client waits for LOGIN_IN_ANS
  eof,         \* eof[c]: its client has closed
  logins       \* logins[c]: LOGIN_INs sent

threads == <<started, next, accepting>>
client  == <<input, awaiting, eof, logins>>
vars == <<threads, pc, active, tasks, running, registered, pTcpConns, id2conn,
          fd, ploop, reading, sid, client>>

TypeOK == /\ started \in InitLoops..NLoops
          /\ next \in 0..started
          /\ accepting \in Conns \cup {NoConn}
          /\ pc \in [Loops -> {"wait", "events", "tasks"}]
          /\ active \in [Loops -> SUBSET Conns]
          /\ tasks \in [Loops -> Seq(Tasks)]
          /\ running \in [Loops -> Nat]
          /\ registered \in [Loops -> SUBSET Conns]
          /\ pTcpConns \in [Loops -> SUBSET Conns]
          /\ id2conn \in [Loops -> [Users -> Conns \cup {NoConn}]]
          /\ fd \in [Conns -> {"none", "open", "closed"}]
          /\ ploop \in [Conns -> 1..started]
          /\ reading \in [Conns -> BOOLEAN]
          /\ sid \in [Conns -> Users \cup {0}]
          /\ input \in [Conns -> Users \cup {0}]
          /\ awaiting \in [Conns -> BOOLEAN]
          /\ eof \in [Conns -> BOOLEAN]
          /\ logins \in [Conns -> 0..MaxLogins]
          /\ \A l \in Loops : running[l] <= Len(tasks[l])

Init == /\ started = InitLoops
        /\ next = 0
        /\ accepting = NoConn
        /\ pc = [l \in Loops |-> "wait"]
        /\ active = [l \in Loops |-> {}]
        /\ tasks = [l \in Loops |-> <<>>]
        /\ running = [l \in Loops |-> 0]
        /\ registered = [l \in Loops |-> {}]
        /\ pTcpConns = [l \in Loops |-> {}]
        /\ id2conn = [l \in Loops |-> [u \in Users |-> NoConn]]
        /\ fd = [c \in Conns |-> "none"]
        /\ ploop = [c \in Conns |-> 1]
        /\ reading = [c \in Conns |-> FALSE]
        /\ sid = [c \in Conns |-> 0]
        /\ input = [c \in Conns |-> 0]
        /\ awaiting = [c \in Conns |-> FALSE]
        /\ eof = [c \in Conns |-> FALSE]
        /\ logins = [c \in Conns |-> 0]

----------------------------------------------------------------------------
(* EventLoopThreadManager.                                                 *)

(* threadFun: one more thread has built its EventLoop and put it in ploops. *)
StartLoop == /\ started < NLoops
             /\ started' = started + 1
             /\ UNCHANGED <<next, accepting, pc, active, tasks, running, registered,
                            pTcpConns, id2conn, fd, ploop, reading, sid, client>>

(* getEventLoopById.                                                       *)
LoopOf(u) == (u % started) + 1

(* Mutant: next is not brought back to the first loop.                     *)
NextIndexNoWrap == next

(* getNextEventLoop: the index of the loop it returns, counted from 0.     *)
NextIndex == IF next = started THEN 0 ELSE next

----------------------------------------------------------------------------
(* Lifetime of a TcpConnection.                                            *)

(* The tasks that hold a shared_ptr; the others hold plain pointers.       *)
Holds(t, c) == t.conn = c /\ t.op \in {"established", "addTcpConn"}

Owners(c) == {l \in Loops : c \in pTcpConns[l]}

HoldersIn(l, c) == {i \in DOMAIN tasks[l] : Holds(tasks[l][i], c)}

Holders(c) == UNION {{l} \X HoldersIn(l, c) : l \in Loops}

Alive(c) == Owners(c) # {} \/ Holders(c) # {} \/ accepting = c

Task(op, c, u) == [op |-> op, conn |-> c, id |-> u]

(* newConnection, on the main loop: the constructor of TcpConnection has   *)
(* the fd added to the epoll set of the next loop ..                       *)
Accept(c) ==
  /\ fd[c] = "none" /\ accepting = NoConn
  /\ fd' = [fd EXCEPT ![c] = "open"]
  /\ LET l == NextIndex + 1
     IN  /\ next' = l
         /\ ploop' = [ploop EXCEPT ![c] = l]
         /\ tasks' = [tasks EXCEPT ![l] = Append(@, Task("addIOEM", c, 0))]
  /\ accepting' = c
  /\ UNCHANGED <<started, pc, active, running, registered, pTcpConns, id2conn,
                 reading, sid, client>>

(* .. then connectionEstablished is queued.                                *)
Accepted ==
  /\ accepting # NoConn
  /\ tasks' = [tasks EXCEPT ![ploop[accepting]] =
                 Append(@, Task("established", accepting, 0))]
  /\ accepting' = NoConn
  /\ UNCHANGED <<started, next, pc, active, running, registered, pTcpConns,
                 id2conn, fd, ploop, reading, sid, client>>

----------------------------------------------------------------------------
(* The client.                                                             *)

SendLogin(c, u) ==
  /\ fd[c] = "open" /\ ~awaiting[c] /\ ~eof[c]
  /\ Relogin \/ sid[c] = 0
  /\ logins[c] < MaxLogins
  /\ logins' = [logins EXCEPT ![c] = @ + 1]
  /\ input' = [input EXCEPT ![c] = u]
  /\ awaiting' = [awaiting EXCEPT ![c] = TRUE]
  /\ UNCHANGED <<threads, pc, active, tasks, running, registered, pTcpConns,
                 id2conn, fd, ploop, reading, sid, eof>>

(* It closes or resets the connection; a reset discards what has arrived.  *)
Hangup(c) ==
  /\ fd[c] = "open" /\ ~eof[c]
  /\ eof' = [eof EXCEPT ![c] = TRUE]
  /\ \/ UNCHANGED input
     \/ input' = [input EXCEPT ![c] = 0]
  /\ UNCHANGED <<threads, pc, active, tasks, running, registered, pTcpConns,
                 id2conn, fd, ploop, reading, sid, awaiting, logins>>

----------------------------------------------------------------------------
(* LOGIN_IN.                                                               *)

(* The tasks that take the connection over, handed over in one call.       *)
HandoffTasks(c, u) ==
  <<Task("addIOEM", c, 0), Task("addTcpConn", c, 0), Task("login", c, u)>>

(* Mutant: pullTcpConn does not erase.                                     *)
MoveToCopies(l, c, u, queue) ==
  /\ registered' = [registered EXCEPT ![l] = @ \ {c}]
  /\ tasks' = [queue EXCEPT ![LoopOf(u)] = @ \o HandoffTasks(c, u)]
  /\ UNCHANGED <<pTcpConns, id2conn, sid, awaiting>>

(* Mutant: the fd stays in the epoll set of the old loop.                  *)
MoveToKeepsFd(l, c, u, queue) ==
  /\ pTcpConns' = [pTcpConns EXCEPT ![l] = @ \ {c}]
  /\ tasks' = [queue EXCEPT ![LoopOf(u)] = @ \o HandoffTasks(c, u)]
  /\ UNCHANGED <<registered, id2conn, sid, awaiting>>

(* Mutant: the connection is listed under its user before it is moved.     *)
MoveToLists(l, c, u, queue) ==
  /\ registered' = [registered EXCEPT ![l] = @ \ {c}]
  /\ pTcpConns' = [pTcpConns EXCEPT ![l] = @ \ {c}]
  /\ tasks' = [queue EXCEPT ![LoopOf(u)] = @ \o HandoffTasks(c, u)]
  /\ id2conn' = [id2conn EXCEPT ![l][u] = c]
  /\ UNCHANGED <<sid, awaiting>>

(* The connection leaves loop l for the loop of its user; queue is what    *)
(* the task queues are before that.                                        *)
MoveTo(l, c, u, queue) ==
  /\ registered' = [registered EXCEPT ![l] = @ \ {c}]
  /\ pTcpConns' = [pTcpConns EXCEPT ![l] = @ \ {c}]
  /\ tasks' = [queue EXCEPT ![LoopOf(u)] = @ \o HandoffTasks(c, u)]
  /\ UNCHANGED <<id2conn, sid, awaiting>>

(* Nobody is logged in as u as far as loop l knows.                        *)
Expired(l, u) == id2conn[l][u] = NoConn \/ ~Alive(id2conn[l][u])

(* Mutant: that the user is logged in already is not looked at.            *)
LoginHereUnchecked(l, c, u, queue) ==
  /\ \/ /\ sid' = [sid EXCEPT ![c] = u]
        /\ id2conn' = [id2conn EXCEPT ![l][u] = c]
     \/ UNCHANGED <<sid, id2conn>>
  /\ awaiting' = [awaiting EXCEPT ![c] = FALSE]
  /\ tasks' = queue
  /\ UNCHANGED <<registered, pTcpConns>>

(* The user and the password are checked and the client is answered.       *)
LoginHere(l, c, u, queue) ==
  /\ \/ /\ Expired(l, u)
        /\ sid' = [sid EXCEPT ![c] = u]
        /\ id2conn' = [id2conn EXCEPT ![l][u] = c]
     \/ UNCHANGED <<sid, id2conn>>         \* no such user, or LOGINED
  /\ awaiting' = [awaiting EXCEPT ![c] = FALSE]
  /\ tasks' = queue
  /\ UNCHANGED <<registered, pTcpConns>>

(* Mutant: the login is served by whatever loop the connection is on.      *)
HandleLoginInAnywhere(l, c, u, queue) == LoginHere(l, c, u, queue)

HandleLoginIn(l, c, u, queue) ==
  IF LoopOf(u) # ploop[c] THEN MoveTo(l, c, u, queue) ELSE LoginHere(l, c, u, queue)

----------------------------------------------------------------------------
(* loop().                                                                 *)

Ready(l) == {c \in registered[l] : reading[c] /\ (input[c] # 0 \/ eof[c])}

(* epoll_wait returns: with what is ready (fewer than evvec holds), or     *)
(* because the event fd was written.                                       *)
Poll(l) ==
  /\ l <= started
  /\ pc[l] = "wait"
  /\ Ready(l) # {} \/ tasks[l] # <<>>
  /\ active' = [active EXCEPT ![l] = Ready(l)]
  /\ pc' = [pc EXCEPT ![l] = "events"]
  /\ UNCHANGED <<threads, tasks, running, registered, pTcpConns, id2conn, fd,
                 ploop, reading, sid, client>>

(* handleRead finds a LOGIN_IN ..                                          *)
HandleFrame(l, c) ==
  /\ c \in active[l] /\ input[c] # 0
  /\ active' = [active EXCEPT ![l] = @ \ {c}]
  /\ input' = [input EXCEPT ![c] = 0]
  /\ HandleLoginIn(l, c, input[c], tasks)
  /\ UNCHANGED <<threads, pc, running, fd, ploop, reading, eof, logins>>

(* Mutant: closeCallBack does nothing.                                     *)
HandleCloseKeeps(l, c) ==
  /\ c \in active[l] /\ input[c] = 0
  /\ active' = [active EXCEPT ![l] = @ \ {c}]
  /\ fd' = [fd EXCEPT ![c] = "closed"]
  /\ registered' = [k \in Loops |-> registered[k] \ {c}]
  /\ awaiting' = [awaiting EXCEPT ![c] = FALSE]
  /\ UNCHANGED <<threads, pc, tasks, running, pTcpConns, id2conn, ploop,
                 reading, sid, input, eof, logins>>

(* .. or the end of the stream: handleClose.                               *)
HandleClose(l, c) ==
  /\ c \in active[l] /\ input[c] = 0
  /\ active' = [active EXCEPT ![l] = @ \ {c}]
  /\ fd' = [fd EXCEPT ![c] = "closed"]
  /\ registered' = [k \in Loops |-> registered[k] \ {c}]
  /\ pTcpConns' = [pTcpConns EXCEPT ![ploop[c]] = @ \ {c}]
  /\ awaiting' = [awaiting EXCEPT ![c] = FALSE]
  /\ UNCHANGED <<threads, pc, tasks, running, id2conn, ploop, reading, sid,
                 input, eof, logins>>

(* do_pending_task takes the queue.                                        *)
Swap(l) ==
  /\ pc[l] = "events" /\ active[l] = {}
  /\ running' = [running EXCEPT ![l] = Len(tasks[l])]
  /\ pc' = [pc EXCEPT ![l] = IF tasks[l] = <<>> THEN "wait" ELSE "tasks"]
  /\ UNCHANGED <<threads, active, tasks, registered, pTcpConns, id2conn, fd,
                 ploop, reading, sid, client>>

(* The first of the tasks taken is op on c; after the last one loop() goes *)
(* back to epoll_wait.                                                     *)
Runs(l, op, c) ==
  /\ pc[l] = "tasks"
  /\ Head(tasks[l]).op = op /\ Head(tasks[l]).conn = c
  /\ running' = [running EXCEPT ![l] = @ - 1]
  /\ pc' = [pc EXCEPT ![l] = IF running[l] = 1 THEN "wait" ELSE "tasks"]

Rest(l) == [tasks EXCEPT ![l] = Tail(@)]

RunAddIOEM(l, c) ==
  /\ Runs(l, "addIOEM", c)
  /\ registered' = [registered EXCEPT ![l] = @ \cup {c}]
  /\ tasks' = Rest(l)
  /\ UNCHANGED <<threads, active, pTcpConns, id2conn, fd, ploop, reading, sid,
                 client>>

(* connectionEstablished.                                                  *)
RunEstablished(l, c) ==
  /\ Runs(l, "established", c)
  /\ pTcpConns' = [pTcpConns EXCEPT ![ploop[c]] = @ \cup {c}]
  /\ reading' = [reading EXCEPT ![c] = TRUE]
  /\ tasks' = Rest(l)
  /\ UNCHANGED <<threads, active, registered, id2conn, fd, ploop, sid, client>>

(* Mutant: addTcpConn does not call setLoop.                               *)
RunAddTcpConnNoSetLoop(l, c) ==
  /\ Runs(l, "addTcpConn", c)
  /\ pTcpConns' = [pTcpConns EXCEPT ![l] = @ \cup {c}]
  /\ tasks' = Rest(l)
  /\ UNCHANGED <<threads, active, registered, id2conn, fd, ploop, reading, sid,
                 client>>

(* addTcpConn with its setLoop.                                            *)
RunAddTcpConn(l, c) ==
  /\ Runs(l, "addTcpConn", c)
  /\ ploop' = [ploop EXCEPT ![c] = l]
  /\ pTcpConns' = [pTcpConns EXCEPT ![l] = @ \cup {c}]
  /\ tasks' = Rest(l)
  /\ UNCHANGED <<threads, active, registered, id2conn, fd, reading, sid, client>>

(* handleLoginIn again, now on the loop of the user.                       *)
RunLogin(l, c) ==
  /\ Runs(l, "login", c)
  /\ HandleLoginIn(l, c, Head(tasks[l]).id, Rest(l))
  /\ UNCHANGED <<threads, active, fd, ploop, reading, input, eof, logins>>

----------------------------------------------------------------------------

LoopStep(l) == \/ Poll(l) \/ Swap(l)
               \/ \E c \in Conns : \/ HandleFrame(l, c) \/ HandleClose(l, c)
                                   \/ RunAddIOEM(l, c) \/ RunEstablished(l, c)
                                   \/ RunAddTcpConn(l, c) \/ RunLogin(l, c)

Next == \/ StartLoop
        \/ Accepted
        \/ \E l \in Loops : LoopStep(l)
        \/ \E c \in Conns : \/ Accept(c) \/ Hangup(c)
                            \/ \E u \in Users : SendLogin(c, u)

Spec == Init /\ [][Next]_vars

(* The threads run; clients owe nothing.                                   *)
Fairness == WF_vars(Accepted) /\ \A l \in Loops : WF_vars(LoopStep(l))

FairSpec == Spec /\ Fairness

----------------------------------------------------------------------------
(* Properties.                                                             *)

(* An open connection is held exactly once: by newConnection, by a queued  *)
(* task or by one loop.  Held twice it would survive its close, not held   *)
(* at all it would be destroyed with its fd registered.                    *)
OneOwner ==
  \A c \in Conns : fd[c] = "open" =>
    Cardinality(Owners(c)) + Cardinality(Holders(c))
      + (IF accepting = c THEN 1 ELSE 0) = 1

(* An event is handled on the loop that owns the connection: neither       *)
(* during a handoff nor after it does another loop call its handlers.      *)
(* MsgCache::size ends the process when that happens (MsgCache.cpp:27-35). *)
EventsAtOwner ==
  \A l \in Loops : \A c \in active[l] :
    c \in pTcpConns[l] /\ ploop[c] = l /\ fd[c] = "open"

(* Nothing is left of a closed connection: no owner (its user could never  *)
(* log in again), no registration and no task with a pointer to it.        *)
ClosedIsGone ==
  \A c \in Conns : fd[c] = "closed" =>
    /\ ~Alive(c)
    /\ \A l \in Loops : /\ c \notin registered[l] \cup active[l]
                        /\ \A i \in DOMAIN tasks[l] : tasks[l][i].conn # c

(* No user is logged in on two connections.                                *)
SingleSession ==
  \A c, d \in Conns : Alive(c) /\ Alive(d) /\ c # d /\ sid[c] = sid[d] => sid[c] = 0

(* Who forwards a message to a user that is logged in finds its connection *)
(* on the loop where he looks, and that loop owns it (TcpServer.cpp:36).   *)
FoundAtHome ==
  \A c \in Conns : fd[c] = "open" /\ sid[c] # 0 =>
    c \in pTcpConns[LoopOf(sid[c])] /\ id2conn[LoopOf(sid[c])][sid[c]] = c

(* A loop that finds a connection under a user owns it: when ownership is  *)
(* transferred (TcpSession.cpp:159) the loop that is left lets go of it.   *)
OwnedWhereListed ==
  \A l \in Loops, u \in Users : ~Expired(l, u) => id2conn[l][u] \in pTcpConns[l]

(* LOGIN_IN is answered, whatever loop it ends on, unless the client goes. *)
LoginAnswered == \A c \in Conns : awaiting[c] ~> ~awaiting[c]
=============================================================================
