# A verification of lightim in TLA+

lightim is a small instant messaging server: a main loop accepts connections
and hands them to event loops, one per thread; users log in, exchange messages
and friend requests, and messages for a user who is away are kept in MySQL and
Redis. This directory has TLA+ models of its core, the configurations TLC
checks them with, and proofs that TLAPS checks.

    tlc -config Delivery_agree.cfg MCDelivery.tla      # a run of PROJECT.json
    tlapm DeliveryProofs.tla                           # a proof module

## 1. Inventory

Paths are relative to `src/`.

| Component | State | Operations | Talks to |
|---|---|---|---|
| `TcpServer` | the acceptor | `newConnection`, `addFriend`, `agreeFriend`, `chat` | the loop of the recipient (task), `DataManager`, `MsgCache`, the recipient's connection, the sender's connection (confirmation) |
| `TcpSession` | `id`, `lastRecvMsgId`, `login` | one handler per frame: SIGN_UP, LOGIN_IN, GET_FRIENDS, CONFIRM, ADD_SB, AGREE_SB, TO_SB, HEART_BEAT; `loadCache`, `leave` | its connection and loop, other loops (tasks) |
| `DataManager`, `DB` | MySQL: `user` (with `lastRecvMsgId`), `friends`, `msg`, `send_msg` | `addSendMsg`, `getMsgsById`, `getLastMsgId`, `updateLastRecvMsgId`, account queries | one MySQL connection per loop |
| `MsgCache`, `REDIS` | one Redis list per user who is away | `push`, `size`, `peekMsgid`, `content` | one Redis connection per loop |
| `EventLoop` | `tasks` with `mtx_tasks`, the event fd, `pTcpConns`, `id2conn` | `loop`, `runInLoop`, `queueInLoop`, `do_pending_task`, `addTcpConn`, `pullTcpConn`, `closeConnection` | other threads (queue, event fd), epoll |
| `TcpConnection`, `IOEventManager`, `Epoller` | `ploop`, `id`, buffers; events; the epoll set | established, read, write, close, `setLoop`; enable/disable, add/delete | the loop, the session |
| `EventLoopThreadManager`, `ThreadManager`, `Acceptor` | `ploops`, `next` | start a loop, `getNextEventLoop`, `getEventLoopById` | every thread reads `ploops` |
| `Buffer`, `Msg` | bytes, `readIndex`, `writeIndex` | append, read in, write out, recycle, numbers | connection and session |
| `LogManager` | `logs` and `tmplog` with a mutex | `logInQueue`, `loop` on a thread of its own | every thread; a FATAL entry ends the process |

How a message travels: the sender's session parses TO_SB, ADD_SB or AGREE_SB on
the sender's loop and hands a task to `ploops[toid % n]`, the loop of the
recipient. There the handler inserts a row into `send_msg`, sends the message
on the recipient's connection or, when there is none, pushes it on the
recipient's Redis list, and then confirms to the sender. LOGIN_IN moves a
connection to the loop of its user, so that a user's session, its forwarders
and its list are handled by one thread. GET_FRIENDS loads what was missed:
the rows above the saved watermark `lastRecvMsgId` and below the head of the
list, then the list, which is deleted. CONFIRM moves the watermark in memory;
closing the connection saves it.

What is hard in it:

* *Delivery.* A message has up to four places (row, list, connection, client)
  and two boundaries (watermark, head of the list) that must fit together at
  every moment, when the process may die between any two statements, and when
  a statement may be rejected without anybody looking at the result. Correct
  means: what is confirmed to its sender reaches its recipient; nobody gets
  another user's message; a session gets each message once and in order; the
  saved watermark never passes what was not received.
* *Task queues.* Wake-ups go through an event fd that is reset without the
  mutex; calls of a loop's own thread run at once, others are queued. Correct
  means: no wake-up is lost; what one thread hands over runs once, in order,
  and the tasks of one call together.
* *Handoff.* While LOGIN_IN moves a connection it is in neither loop's set, and
  its fd joins the new epoll set before its new loop owns it. Correct means:
  one owner, events only at the owner, nothing left after a close, one session
  per user, and forwarders find the session.
* *Send path.* A confirmation is appended to the sender's buffer by the
  recipient's thread, without a lock, while the sender's own thread may append
  too, write the buffer out or turn EPOLLOUT off. Correct means: a change of
  events reaches the epoll set; bytes in the buffer are asked to be written; the
  client gets the frames whole, in the order of `send()`, each once and in the end
  all of them.
* *Frames.* A frame arrives in pieces or with others, no handler skips to the
  end of its frame, and a LOGIN_IN that moves takes the buffer with it, with only
  the header read. Correct means: every handler starts where its frame starts,
  takes what has arrived, and every frame is handled. Below it the byte buffer
  grows, moves and shrinks. Correct means: bytes come out as they went in.
* *Log.* Entries pass through a queue that the log thread swaps, and writing a
  FATAL one ends the process. Correct means: entries are written once and in
  order, nothing after the FATAL one, and it does end the process.

PROJECT.json lists every component with its status, and under `hazards` each
place where one of these bites, with the property that would notice.

## 2. Modules

    IdSeqs ----- Delivery ------- Mishaps ---- MCDelivery, DeliveryProofs
        |            \- Abstract == INSTANCE Inbox          (abstract)
        |------- TaskQueue ------ TaskQueueProofs
        |            \- Abstract == INSTANCE Mailbox        (abstract)
        |------- Handoff -------- Sessions --- HandoffProofs
        |------- LogQueue ------- LogQueueProofs
        |            \- Abstract == INSTANCE Journal        (abstract)
        |------- SendPath ------- SendPathProofs
        |            \- Abstract == INSTANCE FrameStream    (abstract)
        \------- IdSeqTheorems   (lemmas on sequences, for the proofs of
                                  Delivery, TaskQueue and SendPath)

    Buffer ----- MCBuffer, BufferProofs
        \- Abstract == INSTANCE ByteQueue                  (abstract)
    Framing ---- FramingProofs

### Delivery

| Variable | Code |
|---|---|
| `nextId`, `rows`, `stored` | auto_increment of `send_msg`, its rows per recipient, `user.lastRecvMsgId` |
| `cache` | the Redis list of a user |
| `session` | no live connection in `id2conn` / logged in / `TcpConnection::id` set by GET_FRIENDS |
| `lastRecv` | `TcpSession::lastRecvMsgId` |
| `wire`, `acks` | sent and not received; CONFIRMs not yet handled |
| `received`, `confirmed`, `faults` | history, and the number of faults so far |

`Chat`, `AddFriend` and `AgreeFriend` are the three handlers of TcpServer. They
differ in one test: `agreeFriend` sends to a connection that has loaded its
backlog (`getid() > 0`), the others to any that is registered. Each is one step,
because all of a user's handlers run on one thread (that this is so is what
Handoff checks); `CrashInForward` and `CrashUnnumbered` are the step cut short by
the end of the process. `Login`, `GetFriends`, `HandleConfirm`, `Close` are the
handlers of TcpSession and `handleClose`. A message is its id, and 0 is the id of
a message whose insert failed or whose id could not be read: the sender of such a
message is confirmed as any other (`Confirm`), whatever was returned.

What may go wrong is guarded by `Goes`, which counts the steps in which something
does: "close" (a connection ends), "crash" (the process dies), "sql" and "redis" (a
statement or command is rejected), "again" (a second GET_FRIENDS, on which the code
calls `exit(1)`). A handler in which something is rejected counts once, and MySQL
and Redis may both reject in it (`Rejections`). When `lindex` fails the code uses an
uninitialised bound, so `LoadCacheFails` takes any (`Bounds`).

**Mishaps** adds one history variable, `struck`: the recipients whom one of the two
steps has met that can cost a message, `Early` (`chat` or `addFriend` to a session
that has not loaded its backlog) and `Rejected` (something rejected outside
`leave()`). It takes no step away; its properties are about everybody else. The
passing runs are of its `NotedSpec`; in `agree` nobody is ever struck.

Not in this module: requests of users who are not logged in, a second LOGIN_IN
on one connection (Handoff has it), the contents of messages, `addMsg`'s log
table beyond "no confirmation when it fails".

**Inbox** is the promise: a message is accepted under a new id, perhaps
confirmed, received only by the user it was accepted for, and, once confirmed,
received in the end. `KeepsPromise` and `EventuallyReceived` are its two halves
under the mapping `accepted <- rows`. Where MySQL may reject statements (`MayFail`)
the promise is weaker, because the code is: a sender is then also told "confirmed"
for a message that was not stored or whose id is unknown (`Botch`), and such a
message may arrive without an id (`NoMsg`).

### TaskQueue

`pc`, `reported`, `readable` are the loop's thread and the event fd; `tasks`,
`tmptasks`, `mtx` are the queue, what `do_pending_task` has taken, and the
mutex. `QueueInLoop` and `Wakeup` are the two halves of `queueInLoop` (the mutex
is held from one to the other), `ReadEventFd` may come between them; `RunInline`
is `runInLoop` on the loop's own thread; `WaitOther` is `epoll_wait` returning
for another reason, its timeout included. A call hands over one task or several
(LOGIN_IN: three). **Mailbox** is the promise: a loop has a box, a call appends
to it, and the loop runs what is first.

### Handoff

Each loop waits (`Poll`), handles the events reported (`HandleFrame`,
`HandleClose`), takes its queue (`Swap`) and runs it (`RunAddIOEM`,
`RunEstablished`, `RunAddTcpConn`, `RunLogin`). `Accept` and `Accepted` are
`newConnection` with the loop's thread running between the two tasks it queues.
`HandleLoginIn` is written once and used from a frame and from a task, as in the
code: it moves the connection or serves the login. `Alive` is what the
`shared_ptr`s say (set of a loop, argument of a queued task, local variable of
`newConnection`); `id2conn` has `weak_ptr`s, so an entry counts while its
connection is alive. `started` is the size of `ploops`, which grows while the
server already listens; `LoopOf` depends on it.

**Sessions** adds two history variables: `early`, that somebody has logged in before
all loops were in `ploops`, and `again`, the connections that have sent LOGIN_IN
although they had a user. Nothing is excluded; its properties say what holds until
the first and on connections that have not done the second.

Abstractions: the queues are FIFO and their batches stay together, which is
what TaskQueue shows; the copy of the `shared_ptr` in the local `tasks_` of
`handleLoginIn` is not counted; one event per fd and poll; fewer connections
are ready than `evvec` holds; `IOEMset` is the epoll set; growth of `ploops` is
atomic; a client sends LOGIN_IN, nothing else, and waits for the answer.

### Buffer

`str`, `readIndex`, `writeIndex` as in the class. `In` and `Readin` append
(`Fill` is their common loop that doubles the vector and the copy), `Get` stands
for the numbers, `out` and `writeout`, `GetString` takes a string and then
recycles when less than a fifth of the vector is in use. **ByteQueue** is the
promise: a queue of bytes. It speaks of one thread; two threads that use a send
buffer are in SendPath.

### Framing

Since the buffer is a queue, the receive side is three positions in the stream:
what the client has sent (`stream`, its frames end to end), what has `arrived`
in `pRecvBuf`, and where the handlers are (`pos`). `HandleRead` takes in any
number of bytes; `HandleFrame` handles the frame at the head of the buffer if all
of it is there (`Whole`), `Return` is `handleMsg` finding none. `LoginHere`
returns from `handleMsg` after LOGIN_IN, as the code does; `LoginMoves` takes the
header and leaves the rest to the task `RunLogin` on another loop. `Takes` says
what each handler takes, read off the handlers, and `Payloads` what clients send,
read off the comments in Msg.h: that the two agree is what `Aligned` says.
`ConfirmId` says whether clients put the msgid into the CONFIRM of a message,
which the code needs and Msg.h does not mention; `CONFIRM_MSG` is that frame.
Contents, types without a handler, and a length field that disagrees with the
frame are left out.

### SendPath

One connection, the thread of its loop (`Owner`) and the threads of other loops
(`Foreign`), each somewhere in `send()`: `LoadIndex`, `StoreIndex` and `Put` are
one turn of the loop in `Buffer::in`, `LoadOn` and `StoreOn` are `events |=
EPOLLOUT`, `Update` is `update()`, which the owner does at once and another
thread by a task (`queued`, then `taken`, then `RunUpdate`). The owner's loop is
`Poll`, `HandleRead` or `HandleWrite`, `Swap`, `TasksDone`; `Writeout`, `Check`,
`LoadOff`, `StoreOff` are `handleWrite` down to `disableWriting`. Every load and
store of shared data is a step of its own. `SendMsgWithCheck` looks once whether
the connection has expired; if it ends afterwards the thread uses freed memory
(`UsesDead`), which the model takes to be of no more consequence for a client
that is gone.

`overlapped` remembers that two threads met where one must be alone: two in the
buffer, or one in `send()` while the other is between looking at the empty buffer
and having cleared EPOLLOUT. `interest` against `events` is right regardless of
it; the other promises hold until it happens.

**FrameStream** is the promise: what the client has received is the beginning of
the frames given to `send()`, whole, in that order, none twice and none left out,
until `broken`. A frame takes its place in the order when its thread enters
`Buffer::in`; two threads in there at once have met.

Abstractions: memory is sequentially consistent; the vector is large enough (it
may in fact be moved by one thread under the other, which is one more way of
meeting); `pRecvBuf` is in Framing; the connection stays on its loop.

### LogQueue

`Call`, `Lock`, `Push` are `logInQueue` on any thread, with the member `tmplog` that
all calls share; `LockLogs`, `Swap`, `Write`, `WriteDone` are the log thread's
`loop`. `LOG(FATAL)` aborts inside easylogging++, so what `loop` has behind it (the
sleep and `exit`) is never reached and not modelled. **Journal** is the promise.

## 3. Runs

| Run | Shows | Properties |
|---|---|---|
| `agree` | AGREE_SB traffic, closes, crashes, second GET_FRIENDS: everything a messenger should do | `TypeOK NoLoss WatermarkCovers InOrder SavedNotResent StoredMonotone KeepsPromise EventuallyReceived` |
| `faulty` | all requests, all faults: what is left of it, and for whom all of it | `StoredIsReceived OthersLoseNothing OthersInOrder KeepsPromise` |
| `chat_loss` | *violated*: a chat sent directly moves the watermark over the backlog | `WatermarkCovers` |
| `taskqueue` | the queues, their wake-ups and their order | `TypeOK NoLostWakeup ProducerOrder BatchTogether IsMailbox QueuedRuns` |
| `sessions` | logins, failures, second logins and hang-ups, also while a loop is still starting | `TypeOK OneOwner EventsAtOwner ClosedIsGone OneSession UserIsListed FoundAtOwner LoginAnswered` |
| `handoff_early` | *violated*: a login before all loops have started | `FoundAtHome` |
| `relogin` | *violated*: a second LOGIN_IN leaves its first entry on the old loop | `OwnedWhereListed` |
| `buffer` | every sequence of appends, takes and recycling | `TypeOK IsByteQueue` |
| `framing` | pipelined frames in any pieces, LOGIN_INs that move | `TypeOK Aligned TakesWhatArrived AllHandled` |
| `sendpath` | two threads sending on one connection that is written out | `TypeOK InterestFollows NoStrandedBytes IsFrameStream EveryFrameWritten` |
| `send_confirm` | *violated*: a confirmation is lost when the threads meet | `ConfirmReturned` |
| `logqueue` | threads that log, the swap, and FATAL entries | `TypeOK IsJournal FatalEnds` |

The runs that end in a violation each rest on a sentence of the repository that
the code does not keep; `findings` in PROJECT.json quotes it and tells the
trace. Together `chat_loss` and `agree` say where the line is: with the test
that `agreeFriend` makes, the design of watermark and list is sound under
crashes; without it, as in `chat` and `addFriend`, it is not.

Each property of a passing run has a mutant of the code in PROJECT.json
(`mutants`) that violates it within the run's own bounds.

### Bounds, and why they are enough

* Delivery: two users (nothing relates more than two: ids are shared, the rest
  is per user), three ids in `agree` (one saved, one in the list, one direct:
  watermark, head and tail differ), two faults (a close to be away, then another
  to lose what was under way). `faulty` has two ids and any two steps in which
  something goes wrong, each with every combination of what may be rejected in it.
  `IdMod` stands for 2^32, the width of the ids in messages; 100 keeps ids
  below it, as the proofs assume.
* TaskQueue: two loops that are each other's producer and consumer, two calls
  each, two tasks per call. A third thread would only wait for the same mutex.
* Sessions: two loops (a connection is at home or it is not), one of which may be
  late, two users (one per loop), two connections (to compete for a user), two
  LOGIN_INs on each (fail and retry, or log in again). The behaviours in which the
  second loop has started before anybody logs in are among them.
* Buffer: a vector of one byte that grows to 16, so that it doubles several times
  and a fifth of it is more than `MINSIZE`; the bytes of a piece all differ.
* Framing: three frames (one handled, one LOGIN_IN, one behind it) of every
  type, strings of 1 byte instead of 32: a frame is still longer than its
  header, so that it can be cut anywhere.
* SendPath: one other thread (another pair of threads meets in the same places),
  two frames (one from each side, or one behind the other) of two bytes, so that
  a frame can be cut. Safety was also checked with three frames. `send_confirm`
  needs frames of one byte only.
* LogQueue: two threads with two entries each; an entry is in the file, one is
  taken, one queued and one being pushed.

The bounds on ids, faults, LOGIN_INs, bytes, frames and entries let all models
but TaskQueue come to an end, as a closed connection and an aborted process do,
so deadlock is not checked there. It is checked in TaskQueue, where the loops go
on polling.

### Fairness

* TaskQueue: the threads run, so each step of a loop and the second half of a
  call are weakly fair. `WaitOther` is not: `QueuedRuns` must not rest on
  `epoll_wait`'s timeout. Mutexes are held for two steps, and each thread's
  own steps are never disabled by others but for that.
* Delivery: loops poll for ever, so frames that arrived are handled and bytes
  that were sent are received; a client that is away logs in again and sends
  GET_FRIENDS. The last is an assumption on clients, without which nothing could
  be promised. Faults are not fair and bounded in number.
* Handoff: loops run and `newConnection` returns. Clients owe nothing.
* Framing: loops run and bytes that were sent arrive; clients need not send.
* SendPath: threads run. `epoll_wait` reports a writable fd and `send()` takes
  bytes again and again, but not always when asked, so `Poll({"OUT"})` and
  `Writes` are strongly fair. `ClientPauses` is an assumption on clients:
  `handleEvent` serves one of reading and writing and prefers reading, so that a
  client that never stops sending is never served (the comment in
  IOEventManager.cpp:84-85 says so).
* LogQueue: threads run. The log thread finds the mutex free only now and then,
  so taking it is strongly fair: what one expects of `std::mutex`.

## 4. Proofs

Proved for every value of the constants; each theorem assumes only the ASSUME
of its module (`DeliveryAssumption`, `TaskQueueAssumption`, `BufferAssumption`,
`FramingAssumption`, `HandoffAssumption`, `SendPathAssumption`,
`LogQueueAssumption`) and what it states.

| Module | Theorem | Says |
|---|---|---|
| `DeliveryProofs` | `TypeCorrect` | types |
| | `SavedWasReceived` | `StoredIsReceived`, under all faults |
| | `PromiseKept` | Delivery implements Inbox's safety, under all faults |
| | `OnlyStoredIsConfirmed` | what is confirmed has a row, unless MySQL may reject statements |
| | `NeverLost` | `NoLoss`, all requests and faults, without a mishap |
| | `WatermarkNeverPasses` | `WatermarkCovers`, likewise |
| | `OrderedSession` | `InOrder`, likewise |
| | `NeverResent` | `SavedNotResent`, likewise |
| | `WatermarkGrows` | `StoredMonotone`, likewise |
| | `OthersNeverLose`, `OthersAlwaysInOrder` | `OthersLoseNothing`, `OthersInOrder`: all requests and faults, for recipients who have met no mishap |
| | `AgreedNeverLost`, `AgreedWatermarkCovers`, `AgreedInOrder`, `AgreedNotResent`, `AgreedMonotone` | the five for AGREE_SB traffic, where no mishap exists |
| `TaskQueueProofs` | `TypeCorrect` | types |
| | `NeverSleepsOverWork` | `NoLostWakeup`, any number of loops |
| | `RunsInCallOrder` | `ProducerOrder` |
| | `CallsRunTogether` | `BatchTogether`, calls of any size |
| | `IsAMailbox` | TaskQueue implements Mailbox |
| | `EachTaskOnce` | a task runs at most once, and on one loop |
| `LogQueueProofs` | `TypeCorrect` | types |
| | `LogIsJournal` | LogQueue implements Journal |
| `BufferProofs` | `TypeCorrect` | types: the bytes in use are inside the vector |
| | `BufferIsByteQueue` | Buffer implements ByteQueue, any `MINSIZE`, any pieces |
| `FramingProofs` | `AlignedUntilBare` | `TypeOK`, `Aligned` and `TakesWhatArrived` until a CONFIRM of a message without msgid is handled |
| | `TypeCorrect`, `AlwaysAligned`, `NeverTakesMore` | the three for ever, if `ConfirmId` |
| `HandoffProofs` | `TypeCorrect` | types |
| | `AlwaysInPhase` | every connection is in a phase of its life |
| | `HeldExactlyOnce` | `OneOwner`, any number of loops, also while they start |
| | `HandledByOwner` | `EventsAtOwner`, likewise |
| | `ClosingLeavesNothing` | `ClosedIsGone`, likewise |
| | `OneSessionPerUser` | `OneSession`: until a login comes early, one session per user |
| | `AlwaysListed` | `UserIsListed`: until then users are listed on their loops |
| | `ReachedAtOwner` | `FoundAtOwner`: .. and owned there, if they have not logged in again |
| | `SessionsInOrder` | `SingleSession` and `FoundAtHome`, if loops have started and clients log in once |
| `SendPathProofs` | `TypeCorrect` | types: indices inside the vector, even where threads overlap |
| | `InterestAlwaysFollows` | `InterestFollows`, under all races |
| | `NeverStranded` | `NoStrandedBytes` |
| | `FramesStayWhole` | SendPath implements FrameStream |
| | `NobodyMeets` | no overlap where no other loop confirms |

*Delivery, all faults.* `Inv` adds to the types that rows are below `nextId`,
that everything in a list or on a connection has a row of that user or, where MySQL
may reject statements, no id, and that ids being confirmed were received.
`StoredIsReceived` is part of it: what `leave()` saves came out of a CONFIRM. Without
rejected SQL it also says that what was confirmed has a row.

*Delivery, without a mishap.* These theorems allow every request and every fault
and exclude two steps of a behaviour (`NoMishap`): `chat` or `addFriend` sending
to a session between LOGIN_IN and GET_FRIENDS (`Early`), and a statement that is
rejected elsewhere than in `leave()` (`Rejected`); ids must fit in 32 bits
(`NarrowIds`). So whenever a confirmed message is lost, one of the two has
happened to its recipient. Neither can be left out: the run `chat_loss` has the
first only, and with three faults out of `{"close", "sql"}` or `{"close", "redis"}`
in `Delivery_agree.cfg` TLC finds `NoLoss` violated by the second alone.

`NoLoss` is not inductive: that loading finds everything depends on how list and
watermark lie to each other. `SafeFor(u)` says it per user: everything has an id
and a row (`Numbered`); the list is increasing and above the saved watermark; *from
its head on* it has every confirmed message (`ListIsSuffix`), so the select may stop
there; up to the watermark everything confirmed was received (`Covered`), so the
select may start there; during a session saved watermark, watermark, confirmations
and messages under way are in this order (`PipeOrdered`) and contain all that is
owed (`OnTheWay`). A crash inside a handler can leave a row that no list has; it was
not confirmed, and the invariant asks nothing of it.

No step but a mishap of u itself breaks `SafeFor(u)`. Hence it holds for everybody
whom none has met, in every behaviour (`OthersSafe`), which gives `OthersNeverLose`
and `OthersAlwaysInOrder`: the theorems for `NotedSpec`, which excludes nothing. The
`Agreed...` theorems are the case of the run `agree`: requests are AGREE_SB, faults
are close, crash and second GET_FRIENDS; then no step is a mishap (`AgreedIsSafe`).

*TaskQueue.* `NoLostWakeup` speaks of a waiting loop; its strengthening
`QueueWoken` speaks of every point from the swap to the next round's events,
where nobody resets the event fd. `CallOrder` orders what has run, what was taken
and what is queued; `FromOthers` (a thread never queues for its own loop) is why
an inline call may overtake the queue without disturbing an order.
`BatchTogether` needs to know where a call is cut: `CallInv` says that calls are
queued whole, that of what was taken only the front is missing (`Rest`), that the
first of it continues its call where what has run stops (`HeadIsNext`), and that a
call that has begun has run up to its last task or to the one before that first
(`CallsRun`). Numbers of calls are used once, so no other task counts.
The refinement maps a loop's box to `tmptasks \o tasks`; then a swap is a stutter.
`EachTaskOnce` is proved one level up: what a loop has run or holds in its box
(`Given`) grows only by calls, whose tasks are new, so no two loops share any
(`Apart`), and on one loop `CallOrder` is strict.

*Buffer.* The type invariant is inductive and enough: the indices are in order
and inside the vector, so what growing, moving or cutting touches is not in use.
The refinement maps the queue to the bytes between the indices (`Held`); that
window is compared byte by byte (`SameWindow`).

*Framing.* A CONFIRM without msgid has nothing for its handler to take but the
bytes of the next frame. `HealthyInv` holds whatever clients send: frames lie end to
end (`Adjacent`, `Ordered`) and all but those (`Bare`) are as long as header and what
their handler takes (`Measured`); and until one of those is handled (`Healthy`), only
the first frame not handled can start at `pos`, and a LOGIN_IN that moves has arrived
as a whole (`MovedIsWhole`), while nothing is read. With `ConfirmId` no client sends
one, which gives the three unconditional theorems.

*Handoff.* The invariant `PhaseInv` says of each connection which phase of its life
it is in: not accepted, being accepted (four phases: the two tasks of
`newConnection` queued, run, or one of each), on its loop (`Settled`), moving
(`Moving`, `Moved`, `Logging`: none, one or two of the three tasks have run), or
closed. A phase fixes which loops hold the connection, which epoll sets have it
and exactly which tasks about it are in which queue (`Place`). The step that
matters most is between `Moved` and `Logging`: the fd is in the new epoll set
while nobody owns the connection, and no event can be seen because the loop has
taken all three tasks (`running`) and does not poll between them. For the steps
of other connections a general lemma (`PhaseKept`) shifts positions in queues by
what was taken, so that one proof covers all of them.

*Handoff, sessions.* What spoils sessions is remembered and not assumed away:
`early` and `again` are histories of Sessions, and its theorems are about
`NotedSpec`, which has every behaviour of Handoff. As long as `early` is false an open
connection that has a user is listed on that user's loop, wherever it is itself
(`ListedInv`), hence two connections cannot have the same one, however often clients
log in again. A connection outside `again` besides works on one LOGIN_IN, has no user
until it is done, and then is where it is listed (`SessionOf`), whatever the others
do. Both histories are needed: `handoff_early` violates `FoundAtHome` by the first
alone, `relogin` `OwnedWhereListed` by the second alone. `SessionsInOrder` is the case
in which the constants exclude both.

*LogQueue.* What was logged is what was written, what was taken and what waits,
one behind the other (`Pipeline`); a thread that holds the mutex has something to
push, and the log thread swaps only when it has written all it took. A swap is
then a stutter of Journal, and a write takes the next entry.

*SendPath.* `InterestFollows` needs no more than that tasks taken are all run
before the next swap (`NothingTaken`). The others speak of the time before two
threads met. `CopyInside` bounds a copy under way, also where threads overlap;
`FramesOnce` says that a frame is made, kept by one thread and sent once; `Noticed`
and `DisablingEmpty` are `NoStrandedBytes` at every point between looking at the
buffer and clearing EPOLLOUT. `StreamInv` describes received bytes, buffer and the
frame being copied as one sequence: every byte is in place among the frames given to
`send()` (`InFrames`), it ends with the last of them or where the thread that copies
it has got to (`EndsAt`, `CopyInPlace`), and what was read is what was written; this
gives the refinement. `NobodyMeets` says to whom "before two threads met" applies
for ever: to a client whose confirmations all come from its own loop
(`NoConfirms`), because then no other thread enters `send()`.

Only model-checked: the liveness properties (`EventuallyReceived`,
`QueuedRuns`, `LoginAnswered`, `AllHandled`, `EveryFrameWritten`, `FatalEnds`),
which are beyond the prover.

## 5. What the checks say about lightim

* The design of watermark and list is right when it is kept to: as long as nothing
  is sent to him between LOGIN_IN and GET_FRIENDS and no statement is rejected but
  in `leave()`, no message confirmed to be sent to a recipient is lost, none is sent
  twice in a session, and none that the saved watermark covers is sent again,
  whatever crashes or closes and whatever happens to others. AGREE_SB alone never
  leaves this case. This takes a connection to deliver what `send()` was given. By
  SendPath it does until two threads meet in its send buffer: a recipient who also
  sends messages may have his buffer damaged by the loop that confirms them, and
  then lose what was in it. `NobodyMeets` says who cannot.
* `chat` and `addFriend` do not keep to it. Between LOGIN_IN and GET_FRIENDS they
  send directly, which loses the backlog if the session ends after a CONFIRM
  (`chat_loss`). A crash between the insert and the push leaves a row that was
  not confirmed and, behind entries that are already in the list, nobody loads.
* With rejected statements only this is left to the recipient concerned: his
  watermark names a message he received, or none, he gets no message of others, and
  confirmations are not taken back. A sender may then be confirmed for a message
  that was never stored: the handlers call `confirmCallback()` whatever
  `addSendMsg` returned.
* The queues between threads lose no wake-up, also though `readEventFd` takes no
  lock, run no task twice, and LOGIN_IN's three tasks are not separated.
* Moving a connection is safe at any moment, also against closes and other
  logins; but the loop of a user is only settled once all threads have started
  (`handoff_early`). If nobody logs in before that, no user has two sessions and
  forwarders find him. A second LOGIN_IN as somebody else leaves its entry on the
  first loop, where forwarders of the first user go on finding a connection that
  is another thread's by then (`relogin`).
* The byte buffer is a queue, and frames are cut where they were joined, in
  whatever pieces they arrive and whichever loop finishes a LOGIN_IN. Behind a
  LOGIN_IN frames wait for the next bytes. A CONFIRM must carry the msgid, which
  Msg.h does not mention.
* A connection gets whole frames, in order and all of them, as long as its loop and the
  loop that confirms do not meet in the buffer or around EPOLLOUT. Nothing keeps
  them apart: a confirmation can then be overwritten or cut (`send_confirm`).
  What never goes wrong is that the epoll set follows `events`.
* The log keeps its order. A FATAL entry ends the process at once, in the middle
  of `loop`: entries that were queued behind it are not written, and the pause
  that `loop` means to leave is not made.

## 6. Plan

Done: Delivery with Inbox, TaskQueue with Mailbox, Handoff, Buffer with
ByteQueue, Framing, SendPath with FrameStream, LogQueue with Journal, and the
proofs listed above. What could follow:

1. Handoff on the queues of TaskQueue instead of FIFO queues.
2. SendPath with the vector that grows (`resize` under another thread's copy) and
   with the move of a connection, so that owner and foreign threads change roles.
3. The loop table: `ploops` growing by `emplace_back` under readers without the
   mutex.

## 7. Not modelled

* SIGN_UP, HEART_BEAT, passwords and the account queries: reads and single
  inserts that no property here depends on. `agreeFriend` never stores a
  friendship: `DataManager::addFriend` has no caller.
* Code nobody calls: `MsgCache::pop`, `REDIS::exeCommand`, `Msg::pushMsg`,
  `Msg::pushMsgInLoop`, `disableReading`, `disableall`, the error callback.
* What frames contain, and their lengths where they depend on data: with 1821
  friends the 16 bit length of GET_FRIENDS_ANS wraps.
* Sockets: options, addresses, keepalive; reconnecting to MySQL and Redis.
* Undefined behaviour beyond what SendPath's interleavings show: memory that is
  not sequentially consistent, vectors moved during a copy, freed connections
  and managers, `ploops` moved under its readers. `hazards` lists each place.
* easylogging++ and md5, which are vendored and most of the lines under `src/`
  (about 8000 of 11000), and the manual test drivers. Of the server's own 3000
  lines the modules translate about a third; much of the rest is declarations,
  formatting, logging and socket calls.
