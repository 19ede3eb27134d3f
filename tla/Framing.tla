------------------------------ MODULE Framing ------------------------------
(***************************************************************************)
(* How one connection's byte stream is cut into frames (TcpConnection::    *)
(* handleRead, TcpSession::handleMsg): bytes arrive in pieces of any size, *)
(* handleMsg handles frames while whole ones are in the receive buffer,    *)
(* each handler takes the fields of its frame, and LOGIN_IN may be         *)
(* finished by another loop.  The buffer is a queue of bytes, as Buffer    *)
(* shows, so positions in the stream are all that matters here.            *)
(***************************************************************************)
EXTENDS Integers, Sequences

CONSTANTS
  StrLen,      \* 32: the length of nicknames and passwords
  MaxContent,  \* bound: the length of a chat
  MaxFrames,   \* bound: the frames a client sends
  ConfirmId    \* clients put the msgid into the CONFIRM of a message

ASSUME FramingAssumption == /\ StrLen \in Nat
                            /\ MaxContent \in Nat /\ MaxFrames \in Nat
                            /\ ConfirmId \in BOOLEAN

(* CONFIRM_MSG is the CONFIRM of a FROM_SB, ADD_FROM_SB or AGREE_FROM_SB.  *)
Types == {"CONFIRM", "CONFIRM_MSG", "SIGN_UP", "LOGIN_IN", "ADD_SB", "AGREE_SB",
          "TO_SB", "GET_FRIENDS", "HEART_BEAT", "SHOW_SB", "DELETE_SB"}

headerLen == 3      \* length and type

(* What clients send behind the header.                                    *)
Payloads(type) ==
  CASE type = "CONFIRM"              -> {1}
    [] type = "CONFIRM_MSG"          -> IF ConfirmId THEN {1 + 8} ELSE {1}
    [] type = "SIGN_UP"              -> {2 * StrLen}
    [] type = "LOGIN_IN"             -> {4 + StrLen}
    [] type \in {"ADD_SB", "AGREE_SB"} -> {4}
    [] type = "TO_SB"                -> {4 + n : n \in 0..MaxContent}
    [] OTHER                         -> {0}

Frames == [type : Types, start : Nat, len : Nat]

VARIABLES
  stream,   \* the frames sent, each with its first byte's position
  arrived,  \* bytes read into pRecvBuf so far
  pos,      \* bytes taken out of it so far
  pc,       \* in epoll_wait / in handleMsg / LOGIN_IN is another loop's task
  handled   \* the frames handled, in order (history)

vars == <<stream, arrived, pos, pc, handled>>

EndOf(frames) ==
  IF frames = <<>> THEN 0
  ELSE frames[Len(frames)].start + frames[Len(frames)].len

(* Neither index passes the bytes there are.                               *)
TypeOK == /\ stream \in Seq(Frames)
          /\ arrived \in 0..EndOf(stream)
          /\ pos \in 0..EndOf(stream)
          /\ pc \in {"poll", "parse", "moved"}
          /\ handled \in Seq(Frames)

Init == /\ stream = <<>>
        /\ arrived = 0
        /\ pos = 0
        /\ pc = "poll"
        /\ handled = <<>>

----------------------------------------------------------------------------

(* The client sends a frame, without waiting for answers.                  *)
SendFrame(type) ==
  /\ Len(stream) < MaxFrames
  /\ \E n \in Payloads(type) :
       stream' = Append(stream, [type |-> type, start |-> EndOf(stream),
                                 len |-> headerLen + n])
  /\ UNCHANGED <<arrived, pos, pc, handled>>

(* Mutant: the connection is read while it is on its way to another loop.  *)
HandleReadAnytime(n) ==
  /\ pc \in {"poll", "moved"}
  /\ n \in 1..(EndOf(stream) - arrived)
  /\ arrived' = arrived + n
  /\ pc' = "parse"
  /\ UNCHANGED <<stream, pos, handled>>

(* handleRead: n bytes have arrived since the last time.                   *)
HandleRead(n) ==
  /\ pc = "poll"
  /\ n \in 1..(EndOf(stream) - arrived)
  /\ arrived' = arrived + n
  /\ pc' = "parse"
  /\ UNCHANGED <<stream, pos, handled>>

----------------------------------------------------------------------------
(* handleMsg.                                                              *)

length == arrived - pos

(* The frame whose header is next in the buffer.                           *)
AtHead(f) == f \in {stream[i] : i \in DOMAIN stream} /\ f.start = pos

(* Mutant: a frame is taken to be there with its header.                   *)
WholeOnceBegun(f) == length >= headerLen

(* A whole frame is in the buffer.                                         *)
Whole(f) == length >= headerLen /\ length >= f.len

(* Mutant: TO_SB's content is measured without the header.                 *)
TakesContentAndHeader(f) ==
  CASE f.type = "CONFIRM"                -> 1
    [] f.type = "CONFIRM_MSG"            -> 1 + 8
    [] f.type = "SIGN_UP"                -> StrLen + StrLen
    [] f.type = "LOGIN_IN"               -> 4 + StrLen
    [] f.type \in {"ADD_SB", "AGREE_SB"} -> 4
    [] f.type = "TO_SB"                  -> 4 + (f.len - 4)
    [] OTHER                             -> 0

(* What the handler of a frame takes behind the header.                    *)
Takes(f) ==
  CASE f.type = "CONFIRM"                -> 1
    [] f.type = "CONFIRM_MSG"            -> 1 + 8
    [] f.type = "SIGN_UP"                -> StrLen + StrLen
    [] f.type = "LOGIN_IN"               -> 4 + StrLen
    [] f.type \in {"ADD_SB", "AGREE_SB"} -> 4
    [] f.type = "TO_SB"                  -> 4 + (f.len - headerLen - 4)
    [] OTHER                             -> 0

(* Nothing whole is left: handleMsg returns.                               *)
Return ==
  /\ pc = "parse"
  /\ \A i \in DOMAIN stream : AtHead(stream[i]) => ~Whole(stream[i])
  /\ pc' = "poll"
  /\ UNCHANGED <<stream, arrived, pos, handled>>

(* Mutant: handleMsg returns after every frame.                            *)
HandleFrameAndReturn(f) ==
  /\ pc = "parse"
  /\ AtHead(f) /\ Whole(f)
  /\ f.type # "LOGIN_IN"
  /\ pos' = pos + headerLen + Takes(f)
  /\ handled' = Append(handled, f)
  /\ pc' = "poll"
  /\ UNCHANGED <<stream, arrived>>

HandleFrame(f) ==
  /\ pc = "parse"
  /\ AtHead(f) /\ Whole(f)
  /\ f.type # "LOGIN_IN"
  /\ pos' = pos + headerLen + Takes(f)
  /\ handled' = Append(handled, f)
  /\ UNCHANGED <<stream, arrived, pc>>

(* LOGIN_IN of a user of this loop: handled, then handleMsg returns.       *)
LoginHere(f) ==
  /\ pc = "parse"
  /\ AtHead(f) /\ Whole(f)
  /\ f.type = "LOGIN_IN"
  /\ pos' = pos + headerLen + Takes(f)
  /\ handled' = Append(handled, f)
  /\ pc' = "poll"
  /\ UNCHANGED <<stream, arrived>>

(* .. of another loop: the id is only peeked at, the fd leaves the epoll   *)
(* set until the new loop runs the tasks.                                  *)
LoginMoves(f) ==
  /\ pc = "parse"
  /\ AtHead(f) /\ Whole(f)
  /\ f.type = "LOGIN_IN"
  /\ pos' = pos + headerLen
  /\ pc' = "moved"
  /\ UNCHANGED <<stream, arrived, handled>>

(* The task on the new loop; the fd is in its epoll set by now.            *)
RunLogin(f) ==
  /\ pc = "moved"
  /\ f \in {stream[i] : i \in DOMAIN stream} /\ f.start + headerLen = pos
  /\ pos' = pos + Takes(f)
  /\ handled' = Append(handled, f)
  /\ pc' = "poll"
  /\ UNCHANGED <<stream, arrived>>

Parse == \/ Return
         \/ \E i \in DOMAIN stream :
              LET f == stream[i]
              IN  HandleFrame(f) \/ LoginHere(f) \/ LoginMoves(f) \/ RunLogin(f)

Read == \E n \in 1..(EndOf(stream) - arrived) : HandleRead(n)

Next == Parse \/ Read \/ \E type \in Types : SendFrame(type)

Spec == Init /\ [][Next]_vars

(* The loops run, and bytes that were sent arrive.                         *)
FairSpec == Spec /\ WF_vars(Parse) /\ WF_vars(Read)

----------------------------------------------------------------------------
(* Properties.                                                             *)

(* Handlers run in the order of frames and each starts where its frame     *)
(* starts: no handler has taken less or more than its frame, and nobody    *)
(* has taken the rest of a LOGIN_IN that waits for another loop for the    *)
(* header of a frame (TcpSession.cpp:21-92,159-167).                       *)
Aligned ==
  /\ Len(handled) <= Len(stream)
  /\ handled = SubSeq(stream, 1, Len(handled))
  /\ pos = EndOf(handled) + IF pc = "moved" THEN headerLen ELSE 0

(* No handler takes bytes that have not arrived.                           *)
TakesWhatArrived == pos <= arrived

(* Behind a LOGIN_IN a client that sends nothing more may wait: handleMsg  *)
(* has returned and only new bytes bring it back.                          *)
Stalled == /\ handled # <<>> /\ handled[Len(handled)].type = "LOGIN_IN"
           /\ pc = "poll" /\ arrived = EndOf(stream)

(* Except there, every frame that was sent is handled in the end.          *)
AllHandled == <>[](handled = stream \/ Stalled)
=============================================================================
