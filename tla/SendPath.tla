------------------------------ MODULE SendPath ------------------------------
(***************************************************************************)
(* How bytes leave the server on one connection: TcpConnection::send and   *)
(* sendMsgWithCheck, handleWrite, the events of its IOEventManager, and    *)
(* the tasks that carry a change of events to the owner's epoll set.       *)
(*                                                                         *)
(* The owner is the thread of the connection's loop.  Foreign threads are  *)
(* other loops: one that has served a TO_SB, ADD_SB or AGREE_SB of this    *)
(* client confirms by calling sendMsgWithCheck.  There is no lock, so a    *)
(* copy into the buffer and a change of events are loads and stores        *)
(* between which other threads may take steps.  Memory is sequentially     *)
(* consistent, and the vector is large enough.                             *)
(***************************************************************************)
EXTENDS IdSeqs

CONSTANTS
  Foreign,    \* the threads of other loops
  Owner,      \* the thread of the connection's loop
  FrameLen,   \* bytes in a frame
  MaxFrames   \* bound: frames ever made for this client

ASSUME SendPathAssumption == /\ Owner \notin Foreign
                             /\ FrameLen \in Nat \ {0}
                             /\ MaxFrames \in Nat

Threads == Foreign \cup {Owner}
Frames  == 1..MaxFrames
Bytes   == [frame : Frames, part : 1..FrameLen]
Zero    == [frame |-> 0, part |-> 0]     \* a byte nobody has written yet

VARIABLES
  phase,       \* where the owner is in loop()
  pc,          \* pc[t]: where thread t is in the send path, or "idle"
  open,        \* the connection lives
  readable,    \* bytes of the client, or their end, wait in the socket
  recvEvents,  \* what epoll_wait has reported and is not handled yet
  events,      \* IOEventManager::events; EPOLLPRI goes with IN
  interest,    \* what the owner's epoll set has for the fd
  queued,      \* updateIOEM tasks in the owner's queue ..
  taken,       \* .. and those do_pending_task has taken out of it
  str,         \* pSendBuf's vector as far as it has been used
  readIndex,
  writeIndex,
  received,    \* the bytes the client gets, in order (history)
  frame,       \* frame[t]: what thread t sends, or sent last
  copied,      \* copied[t]: how much of it is in the buffer
  index,       \* index[t]: writeIndex as t has loaded it
  mask,        \* mask[t]: events as t has loaded them
  confirms,    \* confirms[t]: frames that tasks on thread t will send
  made,        \* frames made
  handed,      \* frames given to send(), in order (history)
  overlapped   \* two threads met where one must be alone (history)

buffer == <<str, readIndex, writeIndex, received>>
epoll  == <<events, interest, queued, taken>>
copy   == <<frame, copied, index, mask>>
frames == <<confirms, made, handed>>
vars == <<phase, pc, open, readable, recvEvents, epoll, buffer, copy, frames,
          overlapped>>

TypeOK == /\ phase \in {"wait", "events", "swap", "run"}
          /\ pc \in [Threads -> {"idle", "load index", "store index", "put",
                                 "load on", "store on", "write", "check",
                                 "load off", "store off", "update"}]
          /\ open \in BOOLEAN
          /\ readable \in BOOLEAN
          /\ recvEvents \in SUBSET {"IN", "OUT"}
          /\ events \in SUBSET {"IN", "OUT"}
          /\ interest \in SUBSET {"IN", "OUT"}
          /\ queued \in Nat /\ taken \in Nat
          /\ str \in Seq(Bytes \cup {Zero})
          /\ readIndex \in 0..Len(str)
          /\ writeIndex \in 0..Len(str)
          /\ received \in Seq(Bytes \cup {Zero})
          /\ frame \in [Threads -> Frames \cup {0}]
          /\ copied \in [Threads -> 0..FrameLen]
          /\ index \in [Threads -> Nat]
          /\ mask \in [Threads -> SUBSET {"IN", "OUT"}]
          /\ confirms \in [Foreign -> SUBSET Frames]
          /\ made \in 0..MaxFrames
          /\ handed \in Seq(Frames)
          /\ overlapped \in BOOLEAN

Init == /\ phase = "wait"
        /\ pc = [t \in Threads |-> "idle"]
        /\ open = TRUE
        /\ readable = FALSE
        /\ recvEvents = {}
        /\ events = {"IN"}
        /\ interest = {"IN"}
        /\ queued = 0 /\ taken = 0
        /\ str = <<>>
        /\ readIndex = 0 /\ writeIndex = 0
        /\ received = <<>>
        /\ frame = [t \in Threads |-> 0]
        /\ copied = [t \in Threads |-> 0]
        /\ index = [t \in Threads |-> 0]
        /\ mask = [t \in Threads |-> {}]
        /\ confirms = [t \in Foreign |-> {}]
        /\ made = 0
        /\ handed = <<>>
        /\ overlapped = FALSE

----------------------------------------------------------------------------
(* send(), on any thread.                                                  *)

(* Thread t goes from one point of the send path to another.               *)
Goes(t, from, to) == /\ open
                     /\ pc[t] = from
                     /\ pc' = [pc EXCEPT ![t] = to]

Send(t, f) == /\ Goes(t, "idle", "load index")
              /\ frame' = [frame EXCEPT ![t] = f]
              /\ copied' = [copied EXCEPT ![t] = 0]
              /\ handed' = Append(handed, f)
              /\ UNCHANGED <<phase, open, readable, recvEvents, epoll, buffer,
                             index, mask>>

(* Buffer::in copies byte by byte: str[writeIndex++] = *(buf++).           *)
LoadIndex(t) ==
  /\ Goes(t, "load index", "store index")
  /\ index' = [index EXCEPT ![t] = writeIndex]
  /\ UNCHANGED <<phase, open, readable, recvEvents, epoll, buffer, frame, copied,
                 mask, frames>>

StoreIndex(t) ==
  /\ Goes(t, "store index", "put")
  /\ writeIndex' = index[t] + 1
  /\ str' = IF index[t] + 1 > Len(str) THEN Append(str, Zero) ELSE str
  /\ UNCHANGED <<phase, open, readable, recvEvents, epoll, readIndex, received,
                 copy, frames>>

(* Mutant: the loop copies one byte too many.                              *)
PutOneMore(t) ==
  /\ Goes(t, "put", IF copied[t] = FrameLen THEN "load on" ELSE "load index")
  /\ str' = [str EXCEPT ![index[t] + 1] =
                [frame |-> frame[t], part |-> copied[t] + 1]]
  /\ copied' = [copied EXCEPT ![t] = @ + 1]
  /\ UNCHANGED <<phase, open, readable, recvEvents, epoll, readIndex, writeIndex,
                 received, frame, index, mask, frames>>

Put(t) ==
  /\ Goes(t, "put", IF copied[t] + 1 = FrameLen THEN "load on" ELSE "load index")
  /\ str' = [str EXCEPT ![index[t] + 1] =
                [frame |-> frame[t], part |-> copied[t] + 1]]
  /\ copied' = [copied EXCEPT ![t] = @ + 1]
  /\ UNCHANGED <<phase, open, readable, recvEvents, epoll, readIndex, writeIndex,
                 received, frame, index, mask, frames>>

(* enableWriting: events |= EPOLLOUT ..                                    *)
LoadOn(t) ==
  /\ Goes(t, "load on", "store on")
  /\ mask' = [mask EXCEPT ![t] = events]
  /\ UNCHANGED <<phase, open, readable, recvEvents, epoll, buffer, frame, copied,
                 index, frames>>

StoreOn(t) ==
  /\ Goes(t, "store on", "update")
  /\ events' = mask[t] \cup {"OUT"}
  /\ UNCHANGED <<phase, open, readable, recvEvents, interest, queued, taken,
                 buffer, copy, frames>>

(* Mutant: what another thread changes does not reach the epoll set.       *)
UpdateOwnOnly(t) ==
  /\ Goes(t, "update", "idle")
  /\ \/ t = Owner /\ interest' = events
     \/ t # Owner /\ UNCHANGED interest
  /\ UNCHANGED <<phase, open, readable, recvEvents, events, queued, taken, buffer,
                 copy, frames>>

(* .. and update(): the owner changes its epoll set at once, others queue  *)
(* a task that will.                                                       *)
Update(t) ==
  /\ Goes(t, "update", "idle")
  /\ \/ /\ t = Owner
        /\ interest' = events
        /\ UNCHANGED queued
     \/ /\ t # Owner
        /\ queued' = queued + 1
        /\ UNCHANGED interest
  /\ UNCHANGED <<phase, open, readable, recvEvents, events, taken, buffer, copy,
                 frames>>

----------------------------------------------------------------------------
(* Foreign threads.                                                        *)

(* sendMsgWithCheck: the connection has not expired, and is used from here *)
(* on without any further look.                                            *)
SendMsgWithCheck(t, f) ==
  /\ f \in confirms[t]
  /\ Send(t, f)
  /\ confirms' = [confirms EXCEPT ![t] = @ \ {f}]
  /\ UNCHANGED made

(* It has expired.                                                         *)
Expired(t, f) ==
  /\ ~open /\ pc[t] = "idle" /\ f \in confirms[t]
  /\ confirms' = [confirms EXCEPT ![t] = @ \ {f}]
  /\ UNCHANGED <<phase, pc, open, readable, recvEvents, epoll, buffer, copy, made,
                 handed>>

(* It was destroyed under the thread's hands: undefined, and of no more    *)
(* consequence for a client that is gone.                                  *)
UsesDead(t) ==
  /\ ~open /\ pc[t] # "idle"
  /\ pc' = [pc EXCEPT ![t] = "idle"]
  /\ UNCHANGED <<phase, open, readable, recvEvents, epoll, buffer, copy, frames>>

----------------------------------------------------------------------------
(* The client, and the owner's loop().                                     *)

ClientSends ==
  /\ open /\ ~readable
  /\ readable' = TRUE
  /\ UNCHANGED <<phase, pc, open, recvEvents, epoll, buffer, copy, frames>>

(* epoll_wait returns, for this fd, for another, or after waittimeout.     *)
Poll(reported) ==
  /\ open /\ phase = "wait"
  /\ reported \subseteq interest
  /\ "IN" \in reported <=> readable /\ "IN" \in interest
  /\ recvEvents' = reported
  /\ phase' = "events"
  /\ UNCHANGED <<pc, open, readable, epoll, buffer, copy, frames>>

Handling(phases) == open /\ phase \in phases /\ pc[Owner] = "idle"

(* A handler, of this connection or another, or a task sends a frame.      *)
OwnerSends ==
  /\ Handling({"events", "run"})
  /\ made < MaxFrames
  /\ made' = made + 1
  /\ Send(Owner, made + 1)
  /\ UNCHANGED confirms

(* handleRead takes what there is; the frames in it may have another loop  *)
(* confirm.  handleEvent puts it before handleWrite.                       *)
HandleRead ==
  /\ Handling({"events"}) /\ "IN" \in recvEvents
  /\ recvEvents' = {}
  /\ readable' = FALSE
  /\ \/ UNCHANGED <<made, confirms>>
     \/ /\ made < MaxFrames
        /\ made' = made + 1
        /\ \E t \in Foreign :
             confirms' = [confirms EXCEPT ![t] = @ \cup {made + 1}]
  /\ UNCHANGED <<phase, pc, open, epoll, buffer, copy, handed>>

(* .. or the client has closed: handleClose destroys the connection.       *)
ReadCloses ==
  /\ Handling({"events"}) /\ "IN" \in recvEvents
  /\ open' = FALSE
  /\ UNCHANGED <<phase, pc, readable, recvEvents, epoll, buffer, copy, frames>>

HandleWrite ==
  /\ Handling({"events"}) /\ recvEvents = {"OUT"}
  /\ recvEvents' = {}
  /\ Goes(Owner, "idle", "write")
  /\ UNCHANGED <<phase, open, readable, epoll, buffer, copy, frames>>

length == writeIndex - readIndex

(* Mutant: all is taken for written, whatever send() has taken.            *)
WriteoutAll(n) ==
  /\ Goes(Owner, "write", "check")
  /\ n \in 0..length /\ (n = 0 => length = 0)
  /\ received' = received \o SubSeq(str, readIndex + 1, readIndex + n)
  /\ readIndex' = writeIndex
  /\ UNCHANGED <<phase, open, readable, recvEvents, epoll, str, writeIndex, copy,
                 frames>>

(* writeout: send() takes n bytes ..                                       *)
Writeout(n) ==
  /\ Goes(Owner, "write", "check")
  /\ n \in 0..length /\ (n = 0 => length = 0)
  /\ received' = received \o SubSeq(str, readIndex + 1, readIndex + n)
  /\ readIndex' = readIndex + n
  /\ UNCHANGED <<phase, open, readable, recvEvents, epoll, str, writeIndex, copy,
                 frames>>

(* .. or none: EAGAIN, EINTR, or a length that a race has made negative ..  *)
WriteoutFails ==
  /\ Goes(Owner, "write", "idle")
  /\ UNCHANGED <<phase, open, readable, recvEvents, epoll, buffer, copy, frames>>

(* .. or the client is gone: handleClose.                                  *)
WriteCloses ==
  /\ Goes(Owner, "write", "idle")
  /\ open' = FALSE
  /\ UNCHANGED <<phase, readable, recvEvents, epoll, buffer, copy, frames>>

(* Mutant: writing is disabled after every writeout.                       *)
CheckNothing ==
  /\ Goes(Owner, "check", "load off")
  /\ UNCHANGED <<phase, open, readable, recvEvents, epoll, buffer, copy, frames>>

(* The buffer is empty, or handleWrite is done.                            *)
Check ==
  /\ Goes(Owner, "check", IF readIndex = writeIndex THEN "load off" ELSE "idle")
  /\ UNCHANGED <<phase, open, readable, recvEvents, epoll, buffer, copy, frames>>

(* disableWriting: events &= ~EPOLLOUT, then update().                     *)
LoadOff ==
  /\ Goes(Owner, "load off", "store off")
  /\ mask' = [mask EXCEPT ![Owner] = events]
  /\ UNCHANGED <<phase, open, readable, recvEvents, epoll, buffer, frame, copied,
                 index, frames>>

StoreOff ==
  /\ Goes(Owner, "store off", "update")
  /\ events' = mask[Owner] \ {"OUT"}
  /\ UNCHANGED <<phase, open, readable, recvEvents, interest, queued, taken,
                 buffer, copy, frames>>

EventsDone ==
  /\ Handling({"events"}) /\ recvEvents = {}
  /\ phase' = "swap"
  /\ UNCHANGED <<pc, open, readable, recvEvents, epoll, buffer, copy, frames>>

(* do_pending_task.                                                        *)
Swap ==
  /\ Handling({"swap"})
  /\ taken' = queued
  /\ queued' = 0
  /\ phase' = "run"
  /\ UNCHANGED <<pc, open, readable, recvEvents, events, interest, buffer, copy,
                 frames>>

(* Mutant: updateIOEM does not find the manager in IOEMset.                *)
RunUpdateUnknown ==
  /\ Handling({"run"}) /\ taken > 0
  /\ taken' = taken - 1
  /\ UNCHANGED <<phase, pc, open, readable, recvEvents, events, interest, queued,
                 buffer, copy, frames>>

RunUpdate ==
  /\ Handling({"run"}) /\ taken > 0
  /\ taken' = taken - 1
  /\ interest' = events
  /\ UNCHANGED <<phase, pc, open, readable, recvEvents, events, queued, buffer,
                 copy, frames>>

TasksDone ==
  /\ Handling({"run"}) /\ taken = 0
  /\ phase' = "wait"
  /\ UNCHANGED <<pc, open, readable, recvEvents, epoll, buffer, copy, frames>>

----------------------------------------------------------------------------

SendStep(t) == \/ LoadIndex(t) \/ StoreIndex(t) \/ Put(t)
               \/ LoadOn(t) \/ StoreOn(t) \/ Update(t)

ForeignStep(t) == \/ UsesDead(t)
                  \/ \E f \in Frames : SendMsgWithCheck(t, f) \/ Expired(t, f)

Writes == \E n \in 0..length : Writeout(n)

OwnerStep == \/ HandleRead \/ HandleWrite \/ Check \/ LoadOff \/ StoreOff
             \/ EventsDone \/ Swap \/ RunUpdate \/ TasksDone

Step == \/ \E t \in Threads : SendStep(t)
        \/ \E t \in Foreign : ForeignStep(t)
        \/ ClientSends \/ \E reported \in SUBSET {"IN", "OUT"} : Poll(reported)
        \/ OwnerStep \/ OwnerSends \/ Writes
        \/ ReadCloses \/ WriteCloses \/ WriteoutFails

(* Where threads must not meet: two in the buffer, or a send in the time   *)
(* between handleWrite's look at the buffer and its change of events.      *)
Appending(t) == pc[t] \in {"load index", "store index", "put"}
InBuffer(t)  == Appending(t) \/ pc[t] = "write"
Sending(t)   == Appending(t) \/ pc[t] \in {"load on", "store on"}
Disabling    == pc[Owner] \in {"load off", "store off"}

Overlap == \/ \E t, u \in Threads : t # u /\ InBuffer(t) /\ InBuffer(u)
           \/ Disabling /\ \E t \in Foreign : Sending(t)

Next == Step /\ overlapped' = (overlapped \/ Overlap')

Spec == Init /\ [][Next]_vars

(* The threads run, and the client takes bytes: now and then epoll_wait    *)
(* finds the fd writable and send() takes some.                            *)
Fairness == /\ \A t \in Threads : WF_vars(Next /\ SendStep(t))
            /\ \A t \in Foreign : WF_vars(Next /\ ForeignStep(t))
            /\ WF_vars(Next /\ OwnerStep)
            /\ WF_vars(Next /\ \E reported \in SUBSET {"IN", "OUT"} : Poll(reported))
            /\ SF_vars(Next /\ Poll({"OUT"}))
            /\ SF_vars(Next /\ Writes)

(* It does not send without a pause: handleEvent puts reading first, which *)
(* "may lead to reading all the time" (IOEventManager.cpp:84-85).          *)
ClientPauses == []<>(~open \/ (phase = "wait" /\ ~readable))

FairSpec == Spec /\ Fairness /\ ClientPauses

----------------------------------------------------------------------------
(* Properties.                                                             *)

(* A change of events is never forgotten: while the epoll set has not what *)
(* the manager asks for, a thread is about to update it or has a task for  *)
(* it in the queue, whatever the races on events (EventLoop.cpp:48-56).    *)
InterestFollows ==
  open /\ interest # events =>
    queued + taken > 0 \/ \E t \in Threads : pc[t] = "update"

(* Bytes never wait in the buffer without anybody asking epoll to write    *)
(* them, unless two threads have met (TcpConnection.cpp:47-51,83-99).      *)
NoStrandedBytes ==
  open /\ ~overlapped /\ readIndex # writeIndex =>
    "OUT" \in events \/ \E t \in Threads : Sending(t)

Abstract == INSTANCE FrameStream WITH broken <- overlapped

(* The client gets what is given to send(), frame by frame and in that     *)
(* order, none twice and none left out, unless two threads have met.       *)
IsFrameStream == Abstract!Spec

Delivered(f) == \E i \in DOMAIN received :
                  received[i] = [frame |-> f, part |-> FrameLen]

(* What is given to send() gets to a client that takes it and pauses now   *)
(* and then, unless two threads meet.                                      *)
EveryFrameWritten ==
  \A f \in Frames : f \in Elements(handed) ~> (Delivered(f) \/ overlapped \/ ~open)

(* "Return confirm" (TcpServer.cpp:60, 89, 119): the confirmation that a   *)
(* loop is to send gets to the client.                                     *)
ConfirmReturned ==
  \A f \in Frames :
    (\E t \in Foreign : f \in confirms[t]) ~> (Delivered(f) \/ ~open)
=============================================================================
