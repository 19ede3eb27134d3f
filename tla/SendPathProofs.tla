--------------------------- MODULE SendPathProofs ---------------------------
(***************************************************************************)
(* The send path for any number of threads, frames and bytes in a frame: a *)
(* change of events is never forgotten, and as long as no two threads have *)
(* met no byte is stranded and the client gets whole frames in order.      *)
(***************************************************************************)
EXTENDS SendPath, IdSeqTheorems, SequenceTheorems, TLAPS

(* What a copy has under way is inside the vector and not yet complete.    *)
CopyInside ==
  \A t \in Threads : /\ index[t] <= Len(str)
                     /\ pc[t] = "put" => index[t] < Len(str)
                     /\ Appending(t) => copied[t] < FrameLen /\ frame[t] \in Frames

(* The queue's tasks are all run before it is swapped again.               *)
NothingTaken == phase # "run" => taken = 0

TypeInv == TypeOK /\ CopyInside /\ NothingTaken

(* No frame is made, kept or given to send() twice.                        *)
FramesOnce ==
  /\ Elements(handed) \subseteq 1..made
  /\ \A t \in Foreign : /\ confirms[t] \subseteq 1..made
                        /\ confirms[t] \cap Elements(handed) = {}
  /\ \A t, u \in Foreign : t # u => confirms[t] \cap confirms[u] = {}

----------------------------------------------------------------------------
(* Types.                                                                  *)

(* All that a step can be, with nothing nested.                            *)
LEMMA StepIs ==
  ASSUME Step
  PROVE  \/ \E t \in Threads : \/ LoadIndex(t) \/ StoreIndex(t) \/ Put(t)
                               \/ LoadOn(t) \/ StoreOn(t) \/ Update(t)
         \/ \E t \in Foreign, f \in Frames : SendMsgWithCheck(t, f) \/ Expired(t, f)
         \/ \E t \in Foreign : UsesDead(t)
         \/ ClientSends
         \/ \E reported \in SUBSET {"IN", "OUT"} : Poll(reported)
         \/ OwnerSends \/ HandleRead \/ ReadCloses \/ HandleWrite
         \/ \E n \in 0..length : Writeout(n)
         \/ WriteoutFails \/ WriteCloses \/ Check \/ LoadOff \/ StoreOff
         \/ EventsDone \/ Swap \/ RunUpdate \/ TasksDone
  BY DEF Step, SendStep, ForeignStep, OwnerStep, Writes

(* The owner is one of the threads, and frames and bytes are numbered.     *)
LEMMA Setting == /\ Owner \in Threads /\ Foreign \subseteq Threads
                 /\ FrameLen \in Nat /\ FrameLen > 0 /\ MaxFrames \in Nat
                 /\ Owner \notin Foreign
                 /\ Frames = 1..MaxFrames
  BY SendPathAssumption DEF Threads, Frames

(* Indices are natural numbers.                                            *)
LEMMA Indices ==
  ASSUME TypeOK
  PROVE  /\ Len(str) \in Nat /\ writeIndex \in Nat /\ readIndex \in Nat
         /\ DOMAIN str = 1..Len(str)
         /\ readIndex <= Len(str) /\ writeIndex <= Len(str)
         /\ \A t \in Threads : index[t] \in Nat /\ copied[t] \in 0..FrameLen
         /\ DOMAIN pc = Threads /\ DOMAIN index = Threads
         /\ DOMAIN copied = Threads /\ DOMAIN frame = Threads
<1>1. str \in Seq(Bytes \cup {Zero})
  BY DEF TypeOK
<1>2. Len(str) \in Nat /\ DOMAIN str = 1..Len(str)
  BY <1>1
<1>3. writeIndex \in 0..Len(str) /\ readIndex \in 0..Len(str)
  BY DEF TypeOK
<1>4. index \in [Threads -> Nat] /\ copied \in [Threads -> 0..FrameLen]
  BY DEF TypeOK
<1>5. \A t \in Threads : index[t] \in Nat
  BY <1>4
<1>6. \A t \in Threads : copied[t] \in 0..FrameLen
  BY <1>4
<1>7. /\ DOMAIN pc = Threads /\ DOMAIN index = Threads
      /\ DOMAIN copied = Threads /\ DOMAIN frame = Threads
  BY DEF TypeOK
<1> QED
  BY <1>2, <1>3, <1>5, <1>6, <1>7

(* The initial state has its types and nothing under way.                  *)
LEMMA TypeInit == Init => TypeInv
<1> SUFFICES ASSUME Init PROVE TypeInv
  OBVIOUS
<1> USE Setting
<1>1. TypeOK
  <2>1. str = <<>> /\ received = <<>>
    BY DEF Init
  <2>2. str \in Seq(Bytes \cup {Zero}) /\ received \in Seq(Bytes \cup {Zero})
        /\ Len(str) = 0
    BY <2>1
  <2>3. readIndex \in 0..Len(str) /\ writeIndex \in 0..Len(str)
    BY <2>2 DEF Init
  <2>4. made \in 0..MaxFrames
    BY DEF Init
  <2>5. copied \in [Threads -> 0..FrameLen] /\ index \in [Threads -> Nat]
    BY DEF Init
  <2>6. handed \in Seq(Frames)
    BY DEF Init
  <2> QED
    BY <2>2, <2>3, <2>4, <2>5, <2>6 DEF Init, TypeOK
<1>2. CopyInside /\ NothingTaken
  BY DEF Init, CopyInside, NothingTaken, Appending
<1> QED
  BY <1>1, <1>2 DEF TypeInv

(* Every step keeps the types.                                             *)
LEMMA TypeStep == TypeInv /\ Next => TypeOK'
<1> SUFFICES ASSUME TypeInv, Next PROVE TypeOK'
  OBVIOUS
<1> USE Setting, Indices DEF Goes, epoll, buffer, copy, frames
<1>0. Step /\ overlapped' \in BOOLEAN /\ TypeOK /\ CopyInside
  BY DEF Next, TypeInv, TypeOK
<1>1. ASSUME NEW t \in Threads, LoadIndex(t) PROVE TypeOK'
  BY <1>0, <1>1 DEF LoadIndex, TypeOK
<1>2. ASSUME NEW t \in Threads, StoreIndex(t) PROVE TypeOK'
  <2>1. /\ str' \in Seq(Bytes \cup {Zero}) /\ Len(str') \in Nat
        /\ Len(str) <= Len(str') /\ index[t] + 1 <= Len(str')
    <3>1. str \in Seq(Bytes \cup {Zero})
      BY <1>0 DEF TypeOK
    <3>2. index[t] \in Nat /\ index[t] <= Len(str)
      BY <1>0 DEF CopyInside
    <3>3. CASE index[t] + 1 > Len(str)
      <4>1. str' = Append(str, Zero)
        BY <1>2, <3>3 DEF StoreIndex
      <4>2. Zero \in Bytes \cup {Zero}
        OBVIOUS
      <4>3. str' \in Seq(Bytes \cup {Zero}) /\ Len(str') = Len(str) + 1
        BY <3>1, <4>1, <4>2
      <4> QED
        BY <1>0, <3>2, <4>3
    <3>4. CASE ~(index[t] + 1 > Len(str))
      <4>1. str' = str
        BY <1>2, <3>4 DEF StoreIndex
      <4>2. Len(str) \in Nat
        BY <1>0
      <4> QED
        BY <3>1, <3>2, <3>4, <4>1, <4>2
    <3> QED
      BY <3>3, <3>4
  <2>2. readIndex' \in 0..Len(str') /\ writeIndex' \in 0..Len(str')
    <3>1. readIndex' = readIndex /\ writeIndex' = index[t] + 1 /\ index[t] \in Nat
      BY <1>0, <1>2 DEF StoreIndex
    <3> QED
      BY <1>0, <2>1, <3>1
  <2> QED
    BY <1>0, <1>2, <2>1, <2>2 DEF StoreIndex, TypeOK
<1>3. ASSUME NEW t \in Threads, Put(t) PROVE TypeOK'
  <2>1. copied[t] \in 0..FrameLen /\ copied[t] < FrameLen /\ frame[t] \in Frames
    BY <1>0, <1>3 DEF Put, CopyInside, Appending
  <2>2. [frame |-> frame[t], part |-> copied[t] + 1] \in Bytes
    BY <2>1 DEF Bytes
  <2>3. str' \in Seq(Bytes \cup {Zero}) /\ Len(str') = Len(str)
    <3>1. str \in Seq(Bytes \cup {Zero})
      BY <1>0 DEF TypeOK
    <3>2. str' = [str EXCEPT ![index[t] + 1] = [frame |-> frame[t],
                                                part |-> copied[t] + 1]]
      BY <1>3 DEF Put
    <3>3. index[t] + 1 \in 1..Len(str)
      <4>1. index[t] \in Nat /\ index[t] < Len(str) /\ Len(str) \in Nat
        BY <1>0, <1>3 DEF Put, CopyInside
      <4> QED
        BY <4>1
    <3> QED
      BY <2>2, <3>1, <3>2, <3>3, ExceptSeq
  <2>4. copied' \in [Threads -> 0..FrameLen]
    <3>1. copied \in [Threads -> 0..FrameLen]
      BY <1>0 DEF TypeOK
    <3>2. copied[t] + 1 \in 0..FrameLen
      BY <2>1
    <3> QED
      BY <1>3, <3>1, <3>2 DEF Put
  <2> QED
    BY <1>0, <1>3, <2>3, <2>4 DEF Put, TypeOK
<1>4. ASSUME NEW t \in Threads, LoadOn(t) PROVE TypeOK'
  BY <1>0, <1>4 DEF LoadOn, TypeOK
<1>5. ASSUME NEW t \in Threads, StoreOn(t) PROVE TypeOK'
  BY <1>0, <1>5 DEF StoreOn, TypeOK
<1>6. ASSUME NEW t \in Threads, Update(t) PROVE TypeOK'
  <2>1. queued' \in Nat
    <3>1. queued \in Nat
      BY <1>0 DEF TypeOK
    <3>2. queued' = queued \/ queued' = queued + 1
      BY <1>6 DEF Update
    <3> QED
      BY <3>1, <3>2
  <2> QED
    BY <1>0, <1>6, <2>1 DEF Update, TypeOK
<1>7. ASSUME NEW t \in Foreign, NEW f \in Frames, SendMsgWithCheck(t, f)
      PROVE  TypeOK'
  <2>1. t \in Threads /\ 0 \in 0..FrameLen
    OBVIOUS
  <2>2. copied' \in [Threads -> 0..FrameLen]
    BY <1>0, <1>7, <2>1 DEF SendMsgWithCheck, Send, TypeOK
  <2>3. handed' \in Seq(Frames)
    BY <1>0, <1>7, AppendElements DEF SendMsgWithCheck, Send, TypeOK
  <2> QED
    BY <1>0, <1>7, <2>1, <2>2, <2>3 DEF SendMsgWithCheck, Send, TypeOK
<1>8. ASSUME NEW t \in Foreign, NEW f \in Frames, Expired(t, f) PROVE TypeOK'
  BY <1>0, <1>8 DEF Expired, TypeOK
<1>9. ASSUME NEW t \in Foreign, UsesDead(t) PROVE TypeOK'
  BY <1>0, <1>9 DEF UsesDead, TypeOK
<1>10. CASE ClientSends
  BY <1>0, <1>10 DEF ClientSends, TypeOK
<1>11. ASSUME NEW reported \in SUBSET {"IN", "OUT"}, Poll(reported) PROVE TypeOK'
  BY <1>0, <1>11 DEF Poll, TypeOK
<1>12. CASE OwnerSends
  <2>1. made + 1 \in Frames /\ made' \in 0..MaxFrames
    <3>1. made \in 0..MaxFrames /\ made < MaxFrames /\ made' = made + 1
      BY <1>0, <1>12 DEF OwnerSends, TypeOK
    <3> QED
      BY <3>1
  <2>2. copied' \in [Threads -> 0..FrameLen]
    <3>1. 0 \in 0..FrameLen
      OBVIOUS
    <3> QED
      BY <1>0, <1>12, <3>1 DEF OwnerSends, Send, TypeOK
  <2>3. handed' \in Seq(Frames)
    BY <1>0, <1>12, <2>1, AppendElements DEF OwnerSends, Send, TypeOK
  <2> QED
    BY <1>0, <1>12, <2>1, <2>2, <2>3 DEF OwnerSends, Send, TypeOK
<1>13. CASE HandleRead
  <2>1. confirms' \in [Foreign -> SUBSET Frames] /\ made' \in 0..MaxFrames
    <3>1. CASE UNCHANGED <<made, confirms>>
      BY <1>0, <3>1 DEF TypeOK
    <3>2. CASE ~UNCHANGED <<made, confirms>>
      <4>1. PICK t \in Foreign :
              /\ made < MaxFrames /\ made' = made + 1
              /\ confirms' = [confirms EXCEPT ![t] = @ \cup {made + 1}]
        BY <1>13, <3>2 DEF HandleRead
      <4>2. made \in 0..MaxFrames /\ confirms \in [Foreign -> SUBSET Frames]
        BY <1>0 DEF TypeOK
      <4>3. made + 1 \in Frames
        BY <4>1, <4>2
      <4> QED
        BY <4>1, <4>2, <4>3
    <3> QED
      BY <3>1, <3>2
  <2> QED
    BY <1>0, <1>13, <2>1 DEF HandleRead, TypeOK
<1>14. CASE ReadCloses
  BY <1>0, <1>14 DEF ReadCloses, TypeOK
<1>15. CASE HandleWrite
  BY <1>0, <1>15 DEF HandleWrite, TypeOK
<1>16. ASSUME NEW n \in 0..length, Writeout(n) PROVE TypeOK'
  <2>1. readIndex + n \in 0..Len(str)
    BY <1>0 DEF length
  <2>2. SubSeq(str, readIndex + 1, readIndex + n) \in Seq(Bytes \cup {Zero})
    <3>1. str \in Seq(Bytes \cup {Zero})
      BY <1>0 DEF TypeOK
    <3> QED
      BY <1>0, <2>1, <3>1 DEF length
  <2>3. received' \in Seq(Bytes \cup {Zero})
    <3>1. received \in Seq(Bytes \cup {Zero})
      BY <1>0 DEF TypeOK
    <3> QED
      BY <1>16, <2>2, <3>1 DEF Writeout
  <2> QED
    BY <1>0, <1>16, <2>1, <2>3 DEF Writeout, TypeOK
<1>17. CASE WriteoutFails
  BY <1>0, <1>17 DEF WriteoutFails, TypeOK
<1>18. CASE WriteCloses
  BY <1>0, <1>18 DEF WriteCloses, TypeOK
<1>19. CASE Check
  BY <1>0, <1>19 DEF Check, TypeOK
<1>20. CASE LoadOff
  BY <1>0, <1>20 DEF LoadOff, TypeOK
<1>21. CASE StoreOff
  BY <1>0, <1>21 DEF StoreOff, TypeOK
<1>22. CASE EventsDone
  BY <1>0, <1>22 DEF EventsDone, TypeOK
<1>23. CASE Swap
  BY <1>0, <1>23 DEF Swap, TypeOK
<1>24. CASE RunUpdate
  <2>1. taken' \in Nat
    <3>1. taken \in Nat
      BY <1>0 DEF TypeOK
    <3>2. taken > 0 /\ taken' = taken - 1
      BY <1>24 DEF RunUpdate
    <3> QED
      BY <3>1, <3>2
  <2> QED
    BY <1>0, <1>24, <2>1 DEF RunUpdate, TypeOK
<1>25. CASE TasksDone
  BY <1>0, <1>25 DEF TasksDone, TypeOK
<1> QED
  BY <1>0, <1>1, <1>2, <1>3, <1>4, <1>5, <1>6, <1>7, <1>8, <1>9, <1>10, <1>11,
     <1>12, <1>13, <1>14, <1>15, <1>16, <1>17, <1>18, <1>19, <1>20, <1>21,
     <1>22, <1>23, <1>24, <1>25, StepIs

----------------------------------------------------------------------------
(* Frames, and the kinds of steps there are.                               *)

(* A step that leaves the buffer and the copies into it alone.             *)
Quiet == /\ UNCHANGED <<str, readIndex, writeIndex, received, frame, copied,
                        index, handed>>
         /\ \A t \in Threads : Appending(t)' => pc'[t] = pc[t]
         /\ open' => open /\ \A t \in Threads : Appending(t) => pc'[t] = pc[t]

(* No step hands out a frame for the second time.                          *)
LEMMA FramesStep == TypeInv /\ FramesOnce /\ Step => FramesOnce'
<1> SUFFICES ASSUME TypeInv, FramesOnce, Step PROVE FramesOnce'
  OBVIOUS
<1>0. /\ made \in Nat /\ confirms \in [Foreign -> SUBSET Frames] /\ Owner \notin Foreign
      /\ handed \in Seq(Frames)
  <2>1. /\ made \in 0..MaxFrames /\ confirms \in [Foreign -> SUBSET Frames]
        /\ handed \in Seq(Frames)
    BY DEF TypeInv, TypeOK
  <2> QED
    BY <2>1, Setting
<1>1. CASE UNCHANGED <<confirms, made, handed>>
  BY <1>1 DEF FramesOnce
<1>2. ASSUME NEW t \in Foreign, NEW f \in Frames, SendMsgWithCheck(t, f)
      PROVE  FramesOnce'
  <2>1. /\ f \in confirms[t] /\ made' = made /\ handed' = Append(handed, f)
        /\ confirms' = [confirms EXCEPT ![t] = @ \ {f}]
    BY <1>2 DEF SendMsgWithCheck, Send
  <2>2. Elements(handed') = Elements(handed) \cup {f}
    BY <1>0, <2>1, AppendElements
  <2> QED
    BY <1>0, <2>1, <2>2 DEF FramesOnce
<1>3. ASSUME NEW t \in Foreign, NEW f \in Frames, Expired(t, f) PROVE FramesOnce'
  <2>1. /\ made' = made /\ handed' = handed
        /\ confirms' = [confirms EXCEPT ![t] = @ \ {f}]
    BY <1>3 DEF Expired
  <2> QED
    BY <1>0, <2>1 DEF FramesOnce
<1>4. CASE OwnerSends
  <2>1. /\ made' = made + 1 /\ handed' = Append(handed, made + 1)
        /\ confirms' = confirms
    BY <1>4 DEF OwnerSends, Send
  <2>2. 1..made \subseteq 1..made' /\ made + 1 \in 1..made' /\ made + 1 \notin 1..made
    BY <1>0, <2>1
  <2>3. made + 1 \in Frames
    <3>1. made \in 0..MaxFrames /\ made < MaxFrames
      BY <1>4 DEF OwnerSends, TypeInv, TypeOK
    <3> QED
      BY <3>1, Setting
  <2>4. Elements(handed') = Elements(handed) \cup {made + 1}
    BY <1>0, <2>1, <2>3, AppendElements
  <2> QED
    BY <2>1, <2>2, <2>4 DEF FramesOnce
<1>5. CASE HandleRead /\ ~UNCHANGED <<made, confirms>>
  <2>1. PICK t \in Foreign : /\ made' = made + 1 /\ handed' = handed
                             /\ confirms' = [confirms EXCEPT ![t] = @ \cup {made + 1}]
    BY <1>5 DEF HandleRead
  <2>2. 1..made \subseteq 1..made' /\ made + 1 \in 1..made' /\ made + 1 \notin 1..made
    BY <1>0, <2>1
  <2> QED
    BY <1>0, <2>1, <2>2 DEF FramesOnce
<1>6. CASE HandleRead /\ UNCHANGED <<made, confirms>>
  BY <1>6 DEF HandleRead, FramesOnce
<1> QED
  BY StepIs, <1>1, <1>2, <1>3, <1>4, <1>5, <1>6
     DEF LoadIndex, StoreIndex, Put, LoadOn, StoreOn, Update, UsesDead, ClientSends,
         Poll, ReadCloses, HandleWrite, Writeout, WriteoutFails, WriteCloses, Check,
         LoadOff, StoreOff, EventsDone, Swap, RunUpdate, TasksDone, frames

(* A step starts a frame, copies a byte, writes, or leaves the buffer.     *)
LEMMA StepKinds ==
  ASSUME TypeInv, FramesOnce, Step
  PROVE  \/ \E t \in Threads, f \in Frames : Send(t, f) /\ f \notin Elements(handed)
         \/ \E t \in Threads : LoadIndex(t) \/ StoreIndex(t) \/ Put(t)
         \/ \E n \in 0..length : Writeout(n)
         \/ Quiet
<1> DEFINE Kinds == \/ \E t \in Threads, f \in Frames : Send(t, f) /\ f \notin Elements(handed)
                    \/ \E t \in Threads : LoadIndex(t) \/ StoreIndex(t) \/ Put(t)
                    \/ \E n \in 0..length : Writeout(n)
                    \/ Quiet
<1> SUFFICES Kinds
  OBVIOUS
<1>0. Owner \in Threads /\ Foreign \subseteq Threads /\ DOMAIN pc = Threads
  BY Setting, Indices DEF TypeInv
<1>1. ASSUME NEW t \in Foreign, NEW f \in Frames, SendMsgWithCheck(t, f)
      PROVE  Kinds
  BY <1>0, <1>1 DEF SendMsgWithCheck, FramesOnce
<1>2. CASE OwnerSends
  <2>1. made \in 0..MaxFrames /\ made < MaxFrames
    BY <1>2 DEF OwnerSends, TypeInv, TypeOK
  <2>2. made + 1 \in Frames /\ made + 1 \notin Elements(handed)
    BY <2>1, Setting DEF FramesOnce
  <2> QED
    BY <1>0, <1>2, <2>2 DEF OwnerSends
<1>3. ASSUME NEW t \in Threads, LoadOn(t) \/ StoreOn(t) \/ Update(t) PROVE Quiet
  BY <1>0, <1>3 DEF LoadOn, StoreOn, Update, Goes, Quiet, Appending, buffer, copy, frames
<1>4. ASSUME NEW t \in Foreign, NEW f \in Frames, Expired(t, f) PROVE Quiet
  BY <1>4 DEF Expired, Quiet, buffer, copy
<1>5. ASSUME NEW t \in Foreign, UsesDead(t) PROVE Quiet
  BY <1>0, <1>5 DEF UsesDead, Quiet, Appending, buffer, copy, frames
<1>6. CASE ClientSends \/ HandleRead \/ ReadCloses \/ EventsDone \/ Swap
           \/ RunUpdate \/ TasksDone \/ \E reported \in SUBSET {"IN", "OUT"} : Poll(reported)
  BY <1>6 DEF ClientSends, HandleRead, ReadCloses, EventsDone, Swap, RunUpdate,
       TasksDone, Poll, Handling, Quiet, buffer, copy, frames
<1>7. CASE HandleWrite \/ WriteoutFails \/ WriteCloses \/ Check \/ LoadOff \/ StoreOff
  BY <1>0, <1>7 DEF HandleWrite, WriteoutFails, WriteCloses, Check, LoadOff, StoreOff,
       Goes, Quiet, Appending, buffer, copy, frames
<1> QED
  BY StepIs, <1>1, <1>2, <1>3, <1>4, <1>5, <1>6, <1>7

(* Copies stay inside the vector.                                          *)
LEMMA CopyStep == TypeInv /\ FramesOnce /\ Step => CopyInside'
<1> SUFFICES ASSUME TypeInv, FramesOnce, Step PROVE CopyInside'
  OBVIOUS
<1> USE Setting, Indices DEF TypeInv
<1>1. ASSUME NEW t \in Threads, NEW f \in Frames, Send(t, f) PROVE CopyInside'
  BY <1>1 DEF Send, Goes, CopyInside, Appending, buffer
<1>2. ASSUME NEW t \in Threads, LoadIndex(t) PROVE CopyInside'
  BY <1>2 DEF LoadIndex, Goes, CopyInside, Appending, buffer
<1>3. ASSUME NEW t \in Threads, StoreIndex(t) PROVE CopyInside'
  <2>1. Len(str') \in Nat /\ Len(str) <= Len(str') /\ index[t] < Len(str')
    <3>1. CASE index[t] + 1 > Len(str)
      <4>1. str' = Append(str, Zero) /\ str \in Seq(Bytes \cup {Zero})
        BY <1>3, <3>1 DEF StoreIndex, TypeOK
      <4>2. Len(str') = Len(str) + 1
        BY <4>1
      <4> QED
        BY <4>2 DEF CopyInside
    <3>2. CASE ~(index[t] + 1 > Len(str))
      <4>1. str' = str
        BY <1>3, <3>2 DEF StoreIndex
      <4>2. Len(str) \in Nat /\ index[t] \in Nat
        OBVIOUS
      <4> QED
        BY <3>2, <4>1, <4>2
    <3> QED
      BY <3>1, <3>2
  <2>2. /\ pc[t] = "store index" /\ pc' = [pc EXCEPT ![t] = "put"]
        /\ UNCHANGED <<index, copied, frame>>
    BY <1>3 DEF StoreIndex, Goes, copy
  <2>3. ASSUME NEW u \in Threads
        PROVE  Appending(u)' => copied'[u] < FrameLen /\ frame'[u] \in Frames
    BY <2>2 DEF Appending, CopyInside
  <2>4. ASSUME NEW u \in Threads
        PROVE  index'[u] <= Len(str') /\ (pc'[u] = "put" => index'[u] < Len(str'))
    <3>1. /\ index[u] \in Nat /\ Len(str) \in Nat /\ index[u] <= Len(str)
          /\ pc[u] = "put" => index[u] < Len(str)
      BY DEF CopyInside
    <3>2. index'[u] = index[u]
      BY <2>2
    <3>3. pc'[u] = "put" => pc[u] = "put" \/ u = t
      BY <2>2
    <3> QED
      BY <2>1, <3>1, <3>2, <3>3
  <2> QED
    BY <2>3, <2>4 DEF CopyInside
<1>4. ASSUME NEW t \in Threads, Put(t) PROVE CopyInside'
  <2>1. str' = [str EXCEPT ![index[t] + 1] = [frame |-> frame[t], part |-> copied[t] + 1]]
    BY <1>4 DEF Put
  <2>2. Len(str') = Len(str)
    <3>1. str \in Seq(Bytes \cup {Zero})
      BY DEF TypeOK
    <3> QED
      BY <2>1, <3>1
  <2>3. /\ pc[t] = "put" /\ UNCHANGED <<index, frame>>
        /\ \/ copied[t] + 1 = FrameLen /\ pc' = [pc EXCEPT ![t] = "load on"]
           \/ copied[t] + 1 # FrameLen /\ pc' = [pc EXCEPT ![t] = "load index"]
        /\ copied' = [copied EXCEPT ![t] = copied[t] + 1]
    BY <1>4 DEF Put, Goes
  <2>4. copied[t] \in Nat /\ copied[t] < FrameLen /\ frame[t] \in Frames
    <3>1. copied[t] \in 0..FrameLen /\ FrameLen \in Nat
      OBVIOUS
    <3>2. copied[t] < FrameLen /\ frame[t] \in Frames
      BY <2>3 DEF CopyInside, Appending
    <3> QED
      BY <3>1, <3>2
  <2>5. copied[t] + 1 # FrameLen => copied[t] + 1 < FrameLen
    BY <2>4
  <2> QED
    BY <2>2, <2>3, <2>4, <2>5 DEF CopyInside, Appending
<1>5. ASSUME NEW n \in 0..length, Writeout(n) PROVE CopyInside'
  BY <1>5 DEF Writeout, Goes, CopyInside, Appending, copy
<1>6. CASE Quiet
  BY <1>6 DEF Quiet, CopyInside, Appending
<1> QED
  BY StepKinds, <1>1, <1>2, <1>3, <1>4, <1>5, <1>6

(* do_pending_task leaves nothing of what it took.                         *)
LEMMA TakenStep == TypeInv /\ Step => NothingTaken'
  BY StepIs DEF TypeInv, TypeOK, NothingTaken, Handling, LoadIndex, StoreIndex, Put,
     LoadOn, StoreOn, Update, SendMsgWithCheck, OwnerSends, Send, Expired, UsesDead,
     ClientSends, Poll, HandleRead, ReadCloses, HandleWrite, Writeout, WriteoutFails,
     WriteCloses, Check, LoadOff, StoreOff, EventsDone, Swap, RunUpdate, TasksDone,
     epoll, frames

(* Types, and frames that are handed out once.                             *)
BaseInv == TypeInv /\ FramesOnce

LEMMA BaseStep == BaseInv /\ [Next]_vars => BaseInv'
<1>1. CASE Next
  BY <1>1, TypeStep, FramesStep, CopyStep, TakenStep DEF BaseInv, TypeInv, Next
<1>2. CASE UNCHANGED vars
  BY <1>2 DEF vars, epoll, buffer, copy, frames, BaseInv, TypeInv, TypeOK, CopyInside,
       NothingTaken, FramesOnce, Appending
<1> QED
  BY <1>1, <1>2

LEMMA BaseInit == Init => BaseInv
  BY TypeInit, EmptyQueue DEF Init, BaseInv, FramesOnce

LEMMA BaseAlways == Spec => []BaseInv
  BY BaseInit, BaseStep, PTL DEF Spec

(* Every variable keeps its type (TcpConnection.cpp, IOEventManager.cpp):  *)
(* no index leaves the vector and no copy is longer than its frame.        *)
THEOREM TypeCorrect == Spec => []TypeOK
  BY BaseAlways, PTL DEF BaseInv, TypeInv

----------------------------------------------------------------------------
(* A change of events reaches the epoll set.                               *)

LEMMA InterestStep ==
  BaseInv /\ InterestFollows /\ [Next]_vars => InterestFollows'
<1> SUFFICES ASSUME BaseInv, InterestFollows, [Next]_vars PROVE InterestFollows'
  OBVIOUS
<1>0. /\ queued \in Nat /\ taken \in Nat /\ DOMAIN pc = Threads
      /\ Owner \in Threads /\ Foreign \subseteq Threads /\ NothingTaken
  BY Setting, Indices DEF BaseInv, TypeInv, TypeOK
<1>1. CASE UNCHANGED vars
  BY <1>1 DEF vars, epoll, InterestFollows
<1>2. ASSUME NEW t \in Threads, LoadIndex(t) \/ StoreIndex(t) \/ Put(t) \/ LoadOn(t)
      PROVE  InterestFollows'
  BY <1>0, <1>2 DEF LoadIndex, StoreIndex, Put, LoadOn, Goes, epoll, InterestFollows
<1>3. ASSUME NEW t \in Threads, StoreOn(t) PROVE InterestFollows'
  BY <1>0, <1>3 DEF StoreOn, Goes, InterestFollows
<1>4. ASSUME NEW t \in Threads, Update(t) PROVE InterestFollows'
  BY <1>0, <1>4 DEF Update, Goes, InterestFollows
<1>5. ASSUME NEW t \in Threads, NEW f \in Frames, Send(t, f) PROVE InterestFollows'
  BY <1>0, <1>5 DEF Send, Goes, epoll, InterestFollows
<1>6. CASE StoreOff
  BY <1>0, <1>6 DEF StoreOff, Goes, InterestFollows
<1>7. CASE HandleWrite \/ Check \/ LoadOff
           \/ WriteoutFails \/ \E n \in 0..length : Writeout(n)
  BY <1>0, <1>7 DEF HandleWrite, Check, LoadOff, WriteoutFails, Writeout, Goes, epoll,
       InterestFollows
<1>8. CASE ReadCloses \/ WriteCloses
  BY <1>8 DEF ReadCloses, WriteCloses, InterestFollows
<1>9. ASSUME NEW t \in Foreign, UsesDead(t) \/ \E f \in Frames : Expired(t, f)
      PROVE  InterestFollows'
  BY <1>9 DEF UsesDead, Expired, InterestFollows
<1>10. CASE ClientSends \/ HandleRead \/ EventsDone \/ TasksDone
            \/ \E reported \in SUBSET {"IN", "OUT"} : Poll(reported)
  BY <1>10 DEF ClientSends, HandleRead, EventsDone, TasksDone, Poll, epoll, frames,
       InterestFollows
<1>11. CASE Swap
  BY <1>0, <1>11 DEF Swap, Handling, NothingTaken, InterestFollows
<1>12. CASE RunUpdate
  BY <1>12 DEF RunUpdate, InterestFollows
<1>13. OwnerSends => Send(Owner, made + 1) /\ made + 1 \in Frames
  <2>1. made \in 0..MaxFrames
    BY DEF BaseInv, TypeInv, TypeOK
  <2> QED
    BY <2>1, Setting DEF OwnerSends
<1> QED
  BY StepIs, <1>0, <1>1, <1>2, <1>3, <1>4, <1>5, <1>6, <1>7, <1>8, <1>9, <1>10, <1>11,
     <1>12, <1>13 DEF Next, SendMsgWithCheck

(* While the epoll set is not as the manager wants it, somebody is on the  *)
(* way to change it, for any number of threads (EventLoop.cpp:48-56).      *)
THEOREM InterestAlwaysFollows == Spec => []InterestFollows
<1>1. Init => InterestFollows
  BY DEF Init, InterestFollows
<1> QED
  BY <1>1, InterestStep, BaseAlways, PTL DEF Spec

----------------------------------------------------------------------------
(* No byte is stranded.                                                    *)

(* overlapped has seen every meeting.                                      *)
Noticed == overlapped \/ ~Overlap

(* handleWrite takes EPOLLOUT away only from an empty buffer.              *)
DisablingEmpty == open /\ ~overlapped /\ Disabling => readIndex = writeIndex

StrandInv == Noticed /\ DisablingEmpty /\ NoStrandedBytes

LEMMA StrandStep == BaseInv /\ StrandInv /\ [Next]_vars => StrandInv'
<1> SUFFICES ASSUME BaseInv, StrandInv, [Next]_vars PROVE StrandInv'
  OBVIOUS
<1>0. /\ DOMAIN pc = Threads /\ Owner \in Threads /\ Foreign \subseteq Threads
      /\ Owner \notin Foreign /\ Threads = Foreign \cup {Owner}
      /\ readIndex \in Int /\ writeIndex \in Int
  BY Setting, Indices DEF BaseInv, TypeInv, Threads
<1>1. Noticed'
  BY DEF Next, Noticed, StrandInv, vars, Overlap, InBuffer, Appending, Sending, Disabling
<1>2. CASE UNCHANGED vars
  BY <1>1, <1>2 DEF vars, epoll, buffer, StrandInv, DisablingEmpty, NoStrandedBytes,
       Disabling, Sending, Appending
<1>3. CASE overlapped'
  BY <1>1, <1>3 DEF StrandInv, DisablingEmpty, NoStrandedBytes
<1>4. CASE ~open'
  BY <1>1, <1>4 DEF StrandInv, DisablingEmpty, NoStrandedBytes
<1>5. ASSUME Step, ~overlapped, ~Overlap, ~overlapped', ~Overlap', open'
      PROVE  DisablingEmpty' /\ NoStrandedBytes'
  <2>1. ASSUME NEW t \in Threads, LoadIndex(t) \/ Put(t) \/ LoadOn(t)
        PROVE  DisablingEmpty' /\ NoStrandedBytes'
    BY <1>0, <1>5, <2>1 DEF LoadIndex, Put, LoadOn, Goes, epoll, buffer, StrandInv,
         DisablingEmpty, NoStrandedBytes, Disabling, Sending, Appending
  <2>2. ASSUME NEW t \in Threads, StoreIndex(t) PROVE DisablingEmpty' /\ NoStrandedBytes'
    <3>1. pc'[t] = "put" /\ (Disabling' => t # Owner)
      BY <1>0, <2>2 DEF StoreIndex, Goes, Disabling
    <3>2. ~Disabling'
      BY <1>0, <1>5, <3>1 DEF Overlap, Sending, Appending
    <3> QED
      BY <3>1, <3>2 DEF DisablingEmpty, NoStrandedBytes, Sending, Appending
  <2>3. ASSUME NEW t \in Threads, StoreOn(t) PROVE DisablingEmpty' /\ NoStrandedBytes'
    BY <1>0, <1>5, <2>3 DEF StoreOn, Goes, buffer, StrandInv,
         DisablingEmpty, NoStrandedBytes, Disabling
  <2>4. ASSUME NEW t \in Threads, Update(t) PROVE DisablingEmpty' /\ NoStrandedBytes'
    BY <1>0, <1>5, <2>4 DEF Update, Goes, buffer, StrandInv,
         DisablingEmpty, NoStrandedBytes, Disabling, Sending, Appending
  <2>5. ASSUME NEW t \in Threads, NEW f \in Frames, Send(t, f)
        PROVE  DisablingEmpty' /\ NoStrandedBytes'
    BY <1>0, <1>5, <2>5 DEF Send, Goes, epoll, buffer, StrandInv,
         DisablingEmpty, NoStrandedBytes, Disabling, Sending, Appending
  <2>6. CASE StoreOff
    BY <1>0, <1>5, <2>6 DEF StoreOff, Goes, buffer, StrandInv,
         DisablingEmpty, NoStrandedBytes, Disabling
  <2>7. CASE HandleWrite \/ Check \/ LoadOff \/ WriteoutFails
    BY <1>0, <1>5, <2>7 DEF HandleWrite, Check, LoadOff, WriteoutFails, Goes, epoll,
         buffer, StrandInv, DisablingEmpty, NoStrandedBytes, Disabling, Sending, Appending
  <2>8. ASSUME NEW n \in 0..length, Writeout(n)
        PROVE  DisablingEmpty' /\ NoStrandedBytes'
    <3>1. /\ pc[Owner] = "write" /\ pc' = [pc EXCEPT ![Owner] = "check"] /\ open
          /\ readIndex' = readIndex + n /\ UNCHANGED <<writeIndex, events>>
      BY <2>8 DEF Writeout, Goes, epoll
    <3>2. readIndex' # writeIndex' => readIndex # writeIndex
      <4>1. n \in 0..(writeIndex - readIndex)
        BY <2>8 DEF length
      <4> QED
        BY <1>0, <3>1, <4>1
    <3>3. ASSUME NEW t \in Threads, Sending(t) PROVE Sending(t)'
      BY <1>0, <3>1, <3>3 DEF Sending, Appending
    <3>4. ~Disabling'
      BY <1>0, <3>1 DEF Disabling
    <3> QED
      BY <1>5, <3>1, <3>2, <3>3, <3>4 DEF StrandInv, DisablingEmpty, NoStrandedBytes
  <2>9. CASE ReadCloses \/ WriteCloses
    BY <1>5, <2>9 DEF ReadCloses, WriteCloses
  <2>10. ASSUME NEW t \in Foreign, UsesDead(t) \/ \E f \in Frames : Expired(t, f)
         PROVE  DisablingEmpty' /\ NoStrandedBytes'
    BY <1>5, <2>10 DEF UsesDead, Expired
  <2>11. CASE ClientSends \/ HandleRead \/ EventsDone \/ TasksDone \/ Swap \/ RunUpdate
             \/ \E reported \in SUBSET {"IN", "OUT"} : Poll(reported)
    BY <1>5, <2>11 DEF ClientSends, HandleRead, EventsDone, TasksDone, Swap, RunUpdate,
         Poll, Handling, epoll, buffer, StrandInv,
         DisablingEmpty, NoStrandedBytes, Disabling, Sending, Appending
  <2>12. OwnerSends => Send(Owner, made + 1) /\ made + 1 \in Frames
    <3>1. made \in 0..MaxFrames
      BY DEF BaseInv, TypeInv, TypeOK
    <3> QED
      BY <3>1, Setting DEF OwnerSends
  <2> QED
    BY StepIs, <1>0, <1>5, <2>1, <2>2, <2>3, <2>4, <2>5, <2>6, <2>7, <2>8, <2>9, <2>10,
       <2>11, <2>12 DEF SendMsgWithCheck
<1>6. CASE Next /\ ~overlapped' /\ open'
  <2>1. Step /\ ~overlapped /\ ~Overlap /\ ~Overlap'
    BY <1>1, <1>6 DEF Next, Noticed, StrandInv
  <2> QED
    BY <1>1, <1>5, <1>6, <2>1 DEF StrandInv
<1> QED
  BY <1>2, <1>3, <1>4, <1>6

LEMMA StrandInit == Init => StrandInv
<1> SUFFICES ASSUME Init PROVE StrandInv
  OBVIOUS
<1>1. \A t \in Threads : pc[t] = "idle"
  BY DEF Init
<1> QED
  BY <1>1, Setting DEF Init, StrandInv, Noticed, DisablingEmpty, NoStrandedBytes, Overlap,
     InBuffer, Appending, Sending, Disabling

(* Bytes in the buffer have EPOLLOUT, or somebody about to ask for it,     *)
(* unless two threads have met (TcpConnection.cpp:47-51, 83-99).           *)
THEOREM NeverStranded == Spec => []NoStrandedBytes
  BY StrandInit, StrandStep, BaseAlways, PTL DEF Spec, StrandInv

----------------------------------------------------------------------------
(* Whole frames, in order.                                                 *)

(* How many bytes of the vector are written: the index is ahead of a byte  *)
(* that is still to be put.                                                *)
Filled == IF \E t \in Threads : pc[t] = "put" THEN writeIndex - 1 ELSE writeIndex

(* The first n bytes are in place among the frames given to send().        *)
InFrames(n) == /\ n \in 0..Len(str) /\ readIndex <= n
               /\ \A i \in 1..n : str[i] \in Bytes /\ Abstract!InPlace(str, handed, i)

(* They end with the k-th of these frames.                                 *)
EndsAt(n, k) == IF k = 0 THEN n = 0
                ELSE n > 0 /\ str[n] = [frame |-> handed[k], part |-> FrameLen]

(* They end where t has got to with its frame.                             *)
EndsWith(t, n) ==
  \/ copied[t] = 0 /\ EndsAt(n, Len(handed) - 1)
  \/ copied[t] > 0 /\ n > 0 /\ str[n] = [frame |-> frame[t], part |-> copied[t]]

(* What has been read is what was written.                                 *)
ReadInOrder == /\ received \in Seq(Bytes) /\ Len(received) = readIndex
               /\ \A i \in 1..readIndex : received[i] = str[i]

(* A copy under way is of the frame given to send() last.                  *)
CopyInPlace(t) == /\ handed # <<>> /\ frame[t] = handed[Len(handed)]
                  /\ EndsWith(t, Filled)
                  /\ pc[t] \in {"store index", "put"} => index[t] = Filled

StreamInv == open /\ ~overlapped =>
               /\ InFrames(Filled)
               /\ \A t \in Threads : Appending(t) => CopyInPlace(t)
               /\ (\A t \in Threads : ~Appending(t)) => EndsAt(Filled, Len(handed))
               /\ ReadInOrder

(* Frames are only ever handed out behind those handed out before.         *)
Prefix(g, h) == /\ Len(g) \in Nat /\ Len(h) \in Nat /\ Len(g) <= Len(h)
                /\ \A k \in 1..Len(g) : h[k] = g[k]
                /\ g # <<>> => h # <<>> /\ 1 \in 1..Len(g)

(* What send() does to the list of frames.                                 *)
LEMMA Handing ==
  ASSUME NEW h \in Seq(Frames), NEW f \in Frames
  PROVE  /\ Len(Append(h, f)) = Len(h) + 1 /\ Append(h, f)[Len(h) + 1] = f
         /\ \A k \in 1..Len(h) : Append(h, f)[k] = h[k]
         /\ Append(h, f) # <<>>
<1>1. /\ Len(Append(h, f)) = Len(h) + 1 /\ Append(h, f)[Len(h) + 1] = f
      /\ \A k \in 1..Len(h) : Append(h, f)[k] = h[k]
  OBVIOUS
<1>2. Len(Append(h, f)) # 0
  BY <1>1
<1>3. Append(h, f) # <<>>
  BY <1>2, EmptySeq
<1> QED
  BY <1>1, <1>3

(* A byte stays in place when others are written behind it and more frames *)
(* are handed out.                                                         *)
LEMMA InPlaceKept ==
  ASSUME NEW s, NEW u, NEW g, NEW h, Prefix(g, h), NEW i \in Nat \ {0},
         \A j \in 1..i : u[j] = s[j],
         Abstract!InPlace(s, g, i)
  PROVE  Abstract!InPlace(u, h, i)
<1>1. u[i] = s[i] /\ (i > 1 => u[i - 1] = s[i - 1])
  OBVIOUS
<1>2. CASE i = 1 /\ g # <<>> /\ s[1] = [frame |-> g[1], part |-> 1]
  BY <1>1, <1>2 DEF Prefix, Abstract!InPlace
<1>3. ASSUME i > 1, NEW k \in 1..(Len(g) - 1),
             s[i - 1] = [frame |-> g[k], part |-> FrameLen],
             s[i] = [frame |-> g[k + 1], part |-> 1]
      PROVE  Abstract!InPlace(u, h, i)
  <2>1. k \in 1..(Len(h) - 1) /\ h[k] = g[k] /\ h[k + 1] = g[k + 1]
    BY DEF Prefix
  <2> QED
    BY <1>1, <1>3, <2>1 DEF Abstract!InPlace
<1>4. CASE /\ i > 1 /\ s[i - 1].part < FrameLen
           /\ s[i] = [frame |-> s[i - 1].frame, part |-> s[i - 1].part + 1]
  BY <1>1, <1>4 DEF Abstract!InPlace
<1> QED
  BY <1>2, <1>3, <1>4 DEF Abstract!InPlace

(* What holds of the bytes written holds when nothing about them changes.  *)
LEMMA SameBytes ==
  ASSUME NEW n \in Nat, InFrames(n), Len(str) \in Nat, Len(str') \in Nat,
         Len(str') >= Len(str), Prefix(handed, handed'), readIndex' = readIndex,
         \A i \in 1..n : str'[i] = str[i]
  PROVE  InFrames(n)'
<1>1. n \in 0..Len(str') /\ readIndex' <= n
  BY DEF InFrames
<1>2. ASSUME NEW i \in 1..n
      PROVE  str'[i] \in Bytes /\ Abstract!InPlace(str', handed', i)
  <2>1. i \in Nat \ {0} /\ \A j \in 1..i : str'[j] = str[j]
    OBVIOUS
  <2>2. Abstract!InPlace(str, handed, i) /\ str[i] \in Bytes
    BY DEF InFrames
  <2> QED
    BY <2>1, <2>2, InPlaceKept
<1> QED
  BY <1>1, <1>2 DEF InFrames

LEMMA SameFilled ==
  ASSUME Filled \in Nat, Filled' = Filled, InFrames(Filled),
         Len(str) \in Nat, Len(str') \in Nat, Len(str') >= Len(str),
         Prefix(handed, handed'), readIndex' = readIndex,
         \A i \in 1..Filled : str'[i] = str[i]
  PROVE  InFrames(Filled)'
<1>1. PICK n \in Nat : n = Filled
  OBVIOUS
<1>2. InFrames(n)' <=> InFrames(Filled)'
  BY <1>1 DEF InFrames
<1> QED
  BY <1>1, <1>2, SameBytes

LEMMA StreamStep ==
  ASSUME BaseInv, Noticed, StreamInv, Step, open', ~overlapped', ~overlapped, ~Overlap'
  PROVE  StreamInv'
<1>0. /\ DOMAIN pc = Threads /\ DOMAIN copied = Threads /\ DOMAIN frame = Threads
      /\ DOMAIN index = Threads
      /\ Owner \in Threads /\ FrameLen \in Nat /\ FrameLen > 0
      /\ Len(str) \in Nat /\ readIndex \in Nat /\ writeIndex \in Nat
      /\ writeIndex <= Len(str) /\ str \in Seq(Bytes \cup {Zero})
      /\ TypeInv /\ FramesOnce /\ ~Overlap
      /\ handed \in Seq(Frames) /\ Len(handed) \in Nat
      /\ handed # <<>> => Len(handed) > 0
  <2>1. str \in Seq(Bytes \cup {Zero}) /\ handed \in Seq(Frames)
    BY DEF BaseInv, TypeInv, TypeOK
  <2>2. Len(handed) \in Nat /\ (handed # <<>> => Len(handed) > 0)
    BY <2>1
  <2> QED
    BY <2>1, <2>2, Setting, Indices DEF BaseInv, TypeInv, Noticed
<1>8. Prefix(handed, handed)
  BY <1>0 DEF Prefix
<1>1. ASSUME NEW t \in Threads, NEW f \in Frames, Send(t, f), f \notin Elements(handed)
      PROVE  StreamInv'
  <2>1. /\ open /\ pc[t] = "idle" /\ pc' = [pc EXCEPT ![t] = "load index"]
        /\ frame' = [frame EXCEPT ![t] = f] /\ copied' = [copied EXCEPT ![t] = 0]
        /\ handed' = Append(handed, f)
        /\ UNCHANGED <<str, readIndex, writeIndex, received>>
    BY <1>1 DEF Send, Goes, buffer
  <2>2. ASSUME NEW u \in Threads PROVE ~Appending(u)
    <3>1. u # t => ~Appending(u)'
      BY <1>0, <2>1 DEF Overlap, InBuffer, Appending
    <3> QED
      BY <1>0, <2>1, <3>1 DEF Appending
  <2>3. Filled' = Filled /\ \A u \in Threads : pc[u] # "put" /\ pc'[u] # "put"
    BY <1>0, <2>1, <2>2 DEF Filled, Appending
  <2>4. /\ InFrames(Filled) /\ EndsAt(Filled, Len(handed)) /\ ReadInOrder
        /\ Filled \in Nat
    <3>1. InFrames(Filled) /\ EndsAt(Filled, Len(handed)) /\ ReadInOrder
      BY <2>1, <2>2 DEF StreamInv
    <3>2. Filled \in 0..Len(str)
      BY <3>1 DEF InFrames
    <3> QED
      BY <1>0, <3>1, <3>2
  <2>5. /\ Len(handed') = Len(handed) + 1 /\ handed'[Len(handed) + 1] = f
        /\ \A k \in 1..Len(handed) : handed'[k] = handed[k]
        /\ handed' # <<>>
    BY <1>0, <2>1, Handing
  <2>6. InFrames(Filled)'
    <3>1. str' = str /\ readIndex' = readIndex
      BY <2>1
    <3>2. Prefix(handed, handed')
      BY <1>0, <2>5 DEF Prefix
    <3>3. Len(str') \in Nat /\ Len(str') >= Len(str)
      BY <1>0, <3>1
    <3>4. \A i \in 1..Filled : str'[i] = str[i]
      BY <3>1
    <3> QED
      BY <1>0, <2>3, <2>4, <3>1, <3>2, <3>3, <3>4, SameFilled
  <2>7. ASSUME NEW u \in Threads, Appending(u)' PROVE CopyInPlace(u)'
    <3>1. u = t
      BY <1>0, <2>1, <2>2, <2>7 DEF Appending
    <3>2. frame'[t] = f /\ copied'[t] = 0 /\ pc'[t] = "load index"
      BY <1>0, <2>1
    <3>3. PICK k \in Nat : k = Len(handed)
      BY <1>0
    <3>4. Len(handed') - 1 = k /\ (k # 0 => handed'[k] = handed[k])
      BY <1>0, <2>5, <3>3
    <3>5. EndsAt(Filled, k)'
      <4>1. Filled' = Filled /\ str' = str /\ EndsAt(Filled, k)
        BY <2>1, <2>3, <2>4, <3>3
      <4> QED
        BY <3>4, <4>1 DEF EndsAt
    <3>6. EndsWith(t, Filled)'
      BY <3>2, <3>4, <3>5 DEF EndsWith, EndsAt
    <3> QED
      BY <2>5, <3>1, <3>2, <3>6 DEF CopyInPlace
  <2>8. ReadInOrder'
    BY <2>1, <2>4 DEF ReadInOrder
  <2>9. Appending(t)'
    BY <1>0, <2>1 DEF Appending
  <2> QED
    BY <2>6, <2>7, <2>8, <2>9 DEF StreamInv
<1>2. ASSUME NEW t \in Threads, LoadIndex(t) PROVE StreamInv'
  <2>1. /\ open /\ pc[t] = "load index" /\ pc' = [pc EXCEPT ![t] = "store index"]
        /\ index' = [index EXCEPT ![t] = writeIndex]
        /\ UNCHANGED <<str, readIndex, writeIndex, received, frame, copied, handed>>
    BY <1>2 DEF LoadIndex, Goes, buffer, frames
  <2>2. ASSUME NEW u \in Threads, u # t PROVE ~Appending(u) /\ ~Appending(u)'
    BY <1>0, <2>1, <2>2 DEF Overlap, InBuffer, Appending
  <2>3. Filled' = writeIndex /\ Filled = writeIndex
    BY <1>0, <2>1, <2>2 DEF Filled, Appending
  <2>4. InFrames(Filled) /\ CopyInPlace(t) /\ ReadInOrder
    BY <2>1 DEF StreamInv, Appending
  <2>5. InFrames(Filled)'
    BY <2>1, <2>3, <2>4 DEF InFrames
  <2>6. CopyInPlace(t)'
    BY <1>0, <2>1, <2>3, <2>4 DEF CopyInPlace, EndsWith, EndsAt
  <2>7. Appending(t)'
    BY <1>0, <2>1 DEF Appending
  <2> QED
    BY <2>1, <2>2, <2>4, <2>5, <2>6, <2>7 DEF StreamInv, ReadInOrder
<1>3. ASSUME NEW t \in Threads, StoreIndex(t) PROVE StreamInv'
  <2>1. /\ open /\ pc[t] = "store index" /\ pc' = [pc EXCEPT ![t] = "put"]
        /\ writeIndex' = index[t] + 1
        /\ str' = IF index[t] + 1 > Len(str) THEN Append(str, Zero) ELSE str
        /\ UNCHANGED <<readIndex, received, frame, copied, index, handed>>
    BY <1>3 DEF StoreIndex, Goes, copy, frames
  <2>2. ASSUME NEW u \in Threads, u # t PROVE ~Appending(u) /\ ~Appending(u)'
    BY <1>0, <2>1, <2>2 DEF Overlap, InBuffer, Appending
  <2>3. InFrames(Filled) /\ CopyInPlace(t) /\ ReadInOrder /\ index[t] = Filled
    BY <2>1 DEF StreamInv, Appending, CopyInPlace
  <2>4. Filled = writeIndex
    BY <1>0, <2>1, <2>2 DEF Filled, Appending
  <2>5. Filled' = Filled
    <3>1. pc'[t] = "put" /\ Filled' = writeIndex' - 1
      BY <1>0, <2>1 DEF Filled
    <3> QED
      <4>1. writeIndex \in Nat /\ index[t] = writeIndex /\ writeIndex' = index[t] + 1
        BY <1>0, <2>1, <2>3, <2>4
      <4>2. writeIndex' - 1 = writeIndex
        BY <4>1
      <4> QED
        BY <2>4, <3>1, <4>2
  <2>6. /\ Len(str') \in Nat /\ Len(str') >= Len(str)
        /\ \A i \in 1..Len(str) : str'[i] = str[i]
    <3>1. CASE index[t] + 1 > Len(str)
      <4>1. str' = Append(str, Zero)
        BY <2>1, <3>1
      <4> QED
        BY <1>0, <4>1
    <3>2. CASE ~(index[t] + 1 > Len(str))
      <4>1. str' = str
        BY <2>1, <3>2
      <4> QED
        BY <1>0, <4>1
    <3> QED
      BY <3>1, <3>2
  <2>7. /\ \A i \in 1..Filled : str'[i] = str[i]
        /\ \A i \in 1..readIndex : str'[i] = str[i]
        /\ Filled > 0 => str'[Filled] = str[Filled]
    BY <1>0, <2>3, <2>4, <2>6 DEF InFrames
  <2>8. InFrames(Filled)'
    BY <1>0, <1>8, <2>1, <2>3, <2>4, <2>5, <2>6, <2>7, SameFilled
  <2>9. CopyInPlace(t)'
    <3>1. EndsWith(t, Filled)'
      BY <1>0, <2>1, <2>3, <2>5, <2>7 DEF CopyInPlace, EndsWith, EndsAt
    <3> QED
      BY <2>1, <2>3, <2>5, <3>1 DEF CopyInPlace
  <2>10. ReadInOrder'
    BY <2>1, <2>3, <2>7 DEF ReadInOrder
  <2>11. Appending(t)'
    BY <1>0, <2>1 DEF Appending
  <2> QED
    BY <2>2, <2>8, <2>9, <2>10, <2>11 DEF StreamInv
<1>4. ASSUME NEW t \in Threads, Put(t) PROVE StreamInv'
  <2> DEFINE byte == [frame |-> frame[t], part |-> copied[t] + 1]
  <2>1. /\ open /\ pc[t] = "put"
        /\ str' = [str EXCEPT ![index[t] + 1] = byte]
        /\ copied' = [copied EXCEPT ![t] = copied[t] + 1]
        /\ UNCHANGED <<readIndex, writeIndex, received, frame, index, handed>>
    BY <1>4 DEF Put, Goes, frames
  <2>2. \/ copied[t] + 1 = FrameLen /\ pc' = [pc EXCEPT ![t] = "load on"]
        \/ copied[t] + 1 # FrameLen /\ pc' = [pc EXCEPT ![t] = "load index"]
    BY <1>4 DEF Put, Goes
  <2>3. ASSUME NEW u \in Threads, u # t PROVE ~Appending(u)
    BY <1>0, <2>1, <2>3 DEF Overlap, InBuffer, Appending
  <2>4. ASSUME NEW u \in Threads, u # t PROVE ~Appending(u)'
    BY <1>0, <2>2, <2>3, <2>4 DEF Appending
  <2>5. InFrames(Filled) /\ CopyInPlace(t) /\ ReadInOrder /\ index[t] = Filled
    BY <2>1 DEF StreamInv, Appending, CopyInPlace
  <2>6. PICK n \in Nat : /\ n = Filled /\ n = index[t] /\ writeIndex = n + 1
                         /\ n + 1 \in 1..Len(str)
    <3>1. Filled = writeIndex - 1
      BY <2>1 DEF Filled
    <3>2. Filled \in 0..Len(str)
      BY <2>5 DEF InFrames
    <3> QED
      BY <1>0, <2>5, <3>1, <3>2
  <2>7. Filled' = n + 1
    <3>1. \A u \in Threads : pc'[u] # "put"
      BY <1>0, <2>2, <2>4 DEF Appending
    <3> QED
      BY <2>1, <2>6, <3>1 DEF Filled
  <2>8. /\ copied[t] \in Nat /\ copied[t] < FrameLen /\ frame[t] \in Frames
        /\ handed # <<>> /\ Len(handed) > 0 /\ frame[t] = handed[Len(handed)]
    <3>1. copied[t] \in 0..FrameLen
      BY <1>0, Indices DEF TypeInv
    <3> QED
      <4>1. copied[t] < FrameLen /\ frame[t] \in Frames
        BY <1>0, <2>1 DEF TypeInv, CopyInside, Appending
      <4>2. handed # <<>> /\ frame[t] = handed[Len(handed)]
        BY <2>5 DEF CopyInPlace
      <4>3. copied[t] \in Nat
        BY <1>0, <3>1
      <4> QED
        BY <1>0, <4>1, <4>2, <4>3
  <2>9. /\ Len(str') = Len(str) /\ str'[n + 1] = byte
        /\ \A i \in 1..n : str'[i] = str[i]
    BY <1>0, <2>1, <2>6
  <2>10. InFrames(n)'
    <3>1. InFrames(n)
      BY <2>5, <2>6
    <3> QED
      BY <1>0, <1>8, <2>1, <2>6, <2>9, <3>1, SameBytes
  <2>11. byte \in Bytes
    BY <1>0, <2>8 DEF Bytes
  <2>12. Abstract!InPlace(str', handed', n + 1)
    <3>1. CASE copied[t] = 0
      <4>1. EndsAt(n, Len(handed) - 1)
        BY <2>5, <2>6, <3>1 DEF CopyInPlace, EndsWith
      <4>2. byte = [frame |-> handed[Len(handed)], part |-> 1]
        BY <2>8, <3>1
      <4>3. CASE Len(handed) = 1
        <5>1. n = 0
          BY <4>1, <4>3 DEF EndsAt
        <5> QED
          BY <2>1, <2>8, <2>9, <4>2, <4>3, <5>1 DEF Abstract!InPlace
      <4>4. CASE Len(handed) # 1
        <5>0. Len(handed) \in Nat /\ Len(handed) > 0
          BY <1>0, <2>8
        <5>1. PICK k : k = Len(handed) - 1
          OBVIOUS
        <5>2. k \in 1..(Len(handed) - 1) /\ k # 0 /\ k + 1 = Len(handed)
          BY <4>4, <5>0, <5>1
        <5>3. n > 0 /\ str[n] = [frame |-> handed[k], part |-> FrameLen]
          BY <4>1, <5>1, <5>2 DEF EndsAt
        <5>4. n \in 1..n /\ n + 1 > 1 /\ (n + 1) - 1 = n
          BY <2>6, <5>3
        <5>5. str'[(n + 1) - 1] = [frame |-> handed[k], part |-> FrameLen]
          BY <2>9, <5>3, <5>4
        <5> QED
          BY <2>1, <2>9, <4>2, <5>2, <5>4, <5>5 DEF Abstract!InPlace
      <4> QED
        BY <4>3, <4>4
    <3>2. CASE copied[t] # 0
      <4>1. n > 0 /\ str[n] = [frame |-> frame[t], part |-> copied[t]]
        BY <2>5, <2>6, <3>2 DEF CopyInPlace, EndsWith
      <4>2. n \in 1..n /\ n + 1 > 1 /\ (n + 1) - 1 = n
        BY <2>6, <4>1
      <4>3. str'[(n + 1) - 1] = [frame |-> frame[t], part |-> copied[t]]
        BY <2>9, <4>1, <4>2
      <4> QED
        BY <2>8, <2>9, <4>2, <4>3 DEF Abstract!InPlace
    <3> QED
      BY <3>1, <3>2
  <2>13. InFrames(n + 1)'
    <3>1. n + 1 \in 0..Len(str') /\ readIndex' <= n + 1
      <4>1. readIndex' \in Nat /\ readIndex' <= n
        BY <1>0, <2>1, <2>10 DEF InFrames
      <4>2. n + 1 \in 0..Len(str')
        BY <1>0, <2>6, <2>9
      <4> QED
        BY <2>6, <4>1, <4>2
    <3>2. ASSUME NEW i \in 1..(n + 1)
          PROVE  str'[i] \in Bytes /\ Abstract!InPlace(str', handed', i)
      <4>1. CASE i = n + 1
        BY <2>1, <2>8, <2>9, <2>11, <2>12, <4>1
      <4>2. CASE i # n + 1
        <5>1. i \in 1..n
          BY <4>2
        <5> QED
          BY <2>10, <5>1 DEF InFrames
      <4> QED
        BY <4>1, <4>2
    <3> QED
      BY <3>1, <3>2 DEF InFrames
  <2>14. InFrames(Filled)'
    BY <2>7, <2>13 DEF InFrames
  <2>15. ReadInOrder'
    <3>1. readIndex <= n
      BY <2>5, <2>6 DEF InFrames
    <3>2. \A i \in 1..readIndex : str'[i] = str[i]
      BY <1>0, <2>6, <2>9, <3>1
    <3> QED
      BY <2>1, <2>5, <3>2 DEF ReadInOrder
  <2>16. CASE copied[t] + 1 = FrameLen
    <3>1. \A u \in Threads : ~Appending(u)'
      BY <1>0, <2>2, <2>4, <2>16 DEF Appending
    <3>2. EndsAt(Filled, Len(handed))'
      <4>1. n + 1 > 0 /\ Len(handed) # 0
        BY <1>0, <2>6, <2>8
      <4> QED
        BY <2>1, <2>7, <2>8, <2>9, <2>16, <4>1 DEF EndsAt
    <3> QED
      BY <2>14, <2>15, <3>1, <3>2 DEF StreamInv
  <2>17. CASE copied[t] + 1 # FrameLen
    <3>1. pc'[t] = "load index" /\ Appending(t)'
      BY <1>0, <2>2, <2>17 DEF Appending
    <3>2. copied'[t] = copied[t] + 1 /\ copied'[t] > 0
      BY <1>0, <2>1, <2>8
    <3>3. EndsWith(t, Filled)'
      BY <2>1, <2>6, <2>7, <2>9, <3>2 DEF EndsWith
    <3>4. CopyInPlace(t)'
      BY <2>1, <2>8, <3>1, <3>3 DEF CopyInPlace
    <3> QED
      BY <2>4, <2>14, <2>15, <3>1, <3>4 DEF StreamInv
  <2> QED
    BY <2>16, <2>17
<1>5. ASSUME NEW n \in 0..length, Writeout(n) PROVE StreamInv'
  <2>1. /\ open /\ pc[Owner] = "write" /\ pc' = [pc EXCEPT ![Owner] = "check"]
        /\ received' = received \o SubSeq(str, readIndex + 1, readIndex + n)
        /\ readIndex' = readIndex + n
        /\ UNCHANGED <<str, writeIndex, frame, copied, index, handed>>
    BY <1>5 DEF Writeout, Goes, copy, frames
  <2>2. ASSUME NEW u \in Threads PROVE ~Appending(u) /\ ~Appending(u)'
    BY <1>0, <2>1 DEF Overlap, InBuffer, Appending
  <2>3. Filled = writeIndex /\ Filled' = writeIndex
    BY <1>0, <2>1, <2>2 DEF Filled, Appending
  <2>4. InFrames(Filled) /\ EndsAt(Filled, Len(handed)) /\ ReadInOrder
    BY <2>1, <2>2 DEF StreamInv
  <2>5. n \in Nat /\ readIndex + n \in Nat /\ readIndex + n <= writeIndex
    <3>1. n \in 0..(writeIndex - readIndex) /\ readIndex <= writeIndex
      BY <2>3, <2>4 DEF length, InFrames
    <3> QED
      BY <1>0, <3>1
  <2>6. InFrames(Filled)'
    BY <2>1, <2>3, <2>4, <2>5 DEF InFrames
  <2>7. ReadInOrder'
    <3>1. \A i \in 1..writeIndex : str[i] \in Bytes
      BY <2>3, <2>4 DEF InFrames
    <3>2. \A i \in (readIndex + 1)..(readIndex + n) : str[i] \in Bytes
      BY <1>0, <2>5, <3>1
    <3> DEFINE piece == SubSeq(str, readIndex + 1, readIndex + n)
    <3>3. /\ piece \in Seq(Bytes) /\ Len(piece) = n
          /\ \A i \in 1..n : piece[i] = str[readIndex + i]
      <4>1. readIndex + 1 \in Int /\ readIndex + n \in Int
        BY <1>0, <2>5
      <4>2. /\ piece \in Seq(Bytes)
            /\ Len(piece) = IF readIndex + 1 <= readIndex + n
                            THEN (readIndex + n) - (readIndex + 1) + 1 ELSE 0
            /\ \A i \in 1..((readIndex + n) - (readIndex + 1) + 1) :
                 piece[i] = str[(readIndex + 1) + i - 1]
        BY <3>2, <4>1, SubSeqProperties
      <4>3. (readIndex + n) - (readIndex + 1) + 1 = n
        BY <1>0, <2>5
      <4>4. \A i \in 1..n : (readIndex + 1) + i - 1 = readIndex + i
        BY <1>0, <2>5
      <4> QED
        BY <1>0, <2>5, <4>2, <4>3, <4>4
    <3> HIDE DEF piece
    <3>4. /\ received \in Seq(Bytes) /\ Len(received) = readIndex
          /\ \A i \in 1..readIndex : received[i] = str[i]
      BY <2>4 DEF ReadInOrder
    <3>5. received' = received \o piece
      BY <2>1 DEF piece
    <3>6. /\ received' \in Seq(Bytes) /\ Len(received') = readIndex + n
          /\ \A i \in 1..(readIndex + n) :
               received'[i] = IF i <= readIndex THEN received[i] ELSE piece[i - readIndex]
      <4>1. /\ received \o piece \in Seq(Bytes)
            /\ Len(received \o piece) = Len(received) + Len(piece)
            /\ \A i \in 1..(Len(received) + Len(piece)) :
                 (received \o piece)[i] = IF i <= Len(received) THEN received[i]
                                          ELSE piece[i - Len(received)]
        BY <3>3, <3>4, ConcatProperties
      <4> QED
        BY <3>3, <3>4, <3>5, <4>1
    <3>7. ASSUME NEW i \in 1..(readIndex + n) PROVE received'[i] = str[i]
      <4>1. CASE i <= readIndex
        BY <1>0, <2>5, <3>4, <3>6, <4>1
      <4>2. CASE ~(i <= readIndex)
        <5>1. i - readIndex \in 1..n /\ readIndex + (i - readIndex) = i
          BY <1>0, <2>5, <4>2
        <5> QED
          BY <3>3, <3>6, <4>2, <5>1
      <4> QED
        BY <4>1, <4>2
    <3> QED
      BY <2>1, <3>6, <3>7 DEF ReadInOrder
  <2>8. EndsAt(Filled, Len(handed))'
    BY <2>1, <2>3, <2>4 DEF EndsAt
  <2> QED
    BY <2>2, <2>6, <2>7, <2>8 DEF StreamInv
<1>6. CASE Quiet
  <2>1. /\ open
        /\ UNCHANGED <<str, readIndex, writeIndex, received, frame, copied, index, handed>>
        /\ \A t \in Threads : Appending(t) \/ Appending(t)' => pc'[t] = pc[t]
    BY <1>6 DEF Quiet
  <2>2. Filled' = Filled
    BY <2>1 DEF Filled, Appending
  <2>3. /\ InFrames(Filled)' = InFrames(Filled)
        /\ EndsAt(Filled, Len(handed))' = EndsAt(Filled, Len(handed))
    BY <2>1, <2>2 DEF InFrames, EndsAt
  <2>4. ASSUME NEW t \in Threads
        PROVE  /\ Appending(t)' <=> Appending(t)
               /\ CopyInPlace(t) /\ Appending(t) => CopyInPlace(t)'
    <3>1. Appending(t)' <=> Appending(t)
      BY <2>1 DEF Appending
    <3>2. EndsWith(t, Filled)' = EndsWith(t, Filled)
      BY <2>1, <2>2 DEF EndsWith, EndsAt
    <3>3. Appending(t) => pc'[t] = pc[t]
      BY <2>1
    <3> QED
      BY <2>1, <2>2, <3>1, <3>2, <3>3 DEF CopyInPlace
  <2>5. ReadInOrder' = ReadInOrder
    BY <2>1 DEF ReadInOrder
  <2> QED
    BY <2>1, <2>3, <2>4, <2>5 DEF StreamInv
<1> QED
  BY StepKinds, <1>0, <1>1, <1>2, <1>3, <1>4, <1>5, <1>6

FullInv == BaseInv /\ StrandInv /\ StreamInv

LEMMA FullStep == FullInv /\ [Next]_vars => FullInv'
<1> SUFFICES ASSUME FullInv, [Next]_vars PROVE FullInv'
  OBVIOUS
<1>1. BaseInv' /\ StrandInv'
  BY BaseStep, StrandStep DEF FullInv
<1>2. StreamInv'
  <2>1. CASE UNCHANGED vars
    <3>1. Filled' = Filled /\ open' = open /\ overlapped' = overlapped
      BY <2>1 DEF vars, buffer, Filled
    <3>2. /\ InFrames(Filled)' = InFrames(Filled)
          /\ EndsAt(Filled, Len(handed))' = EndsAt(Filled, Len(handed))
          /\ ReadInOrder' = ReadInOrder
      BY <2>1, <3>1 DEF vars, buffer, frames, InFrames, EndsAt, ReadInOrder
    <3>3. ASSUME NEW t \in Threads
          PROVE  /\ Appending(t)' <=> Appending(t)
                 /\ CopyInPlace(t)' <=> CopyInPlace(t)
      <4>1. UNCHANGED <<pc, str, frame, copied, index, handed>>
        BY <2>1 DEF vars, buffer, copy, frames
      <4>2. EndsWith(t, Filled)' <=> EndsWith(t, Filled)
        BY <3>1, <4>1 DEF EndsWith, EndsAt
      <4> QED
        BY <3>1, <4>1, <4>2 DEF Appending, CopyInPlace
    <3> QED
      BY <3>1, <3>2, <3>3 DEF FullInv, StreamInv
  <2>2. CASE Next /\ open' /\ ~overlapped'
    <3>1. Step /\ ~overlapped /\ ~Overlap'
      BY <1>1, <2>2 DEF Next, StrandInv, Noticed
    <3> QED
      BY <2>2, <3>1, StreamStep DEF FullInv, StrandInv
  <2>3. CASE ~open' \/ overlapped'
    BY <2>3 DEF StreamInv
  <2> QED
    BY <2>1, <2>2, <2>3
<1> QED
  BY <1>1, <1>2 DEF FullInv

LEMMA FullInit == Init => FullInv
<1> SUFFICES ASSUME Init PROVE FullInv
  OBVIOUS
<1>1. BaseInv /\ StrandInv
  BY BaseInit, StrandInit
<1>2. /\ str = <<>> /\ received = <<>> /\ readIndex = 0 /\ writeIndex = 0
      /\ handed = <<>>
      /\ \A t \in Threads : pc[t] = "idle"
  BY DEF Init
<1>3. /\ Filled = 0 /\ Len(str) = 0 /\ Len(received) = 0 /\ received \in Seq(Bytes)
      /\ Len(handed) = 0
  BY <1>2 DEF Filled
<1>4. InFrames(Filled) /\ EndsAt(Filled, Len(handed)) /\ ReadInOrder
  BY <1>2, <1>3 DEF InFrames, EndsAt, ReadInOrder
<1>5. \A t \in Threads : ~Appending(t)
  BY <1>2 DEF Appending
<1> QED
  BY <1>1, <1>4, <1>5 DEF FullInv, StreamInv

(* Every step hands out a frame, has the client receive bytes of frames in *)
(* place, or is none of its business.                                      *)
LEMMA StreamRefines ==
  FullInv /\ FullInv' /\ [Next]_vars =>
    [Abstract!Next]_<<handed, received, overlapped>>
<1> SUFFICES ASSUME FullInv, FullInv', [Next]_vars
             PROVE  [Abstract!Next]_<<handed, received, overlapped>>
  OBVIOUS
<1>1. CASE UNCHANGED vars
  BY <1>1 DEF vars, buffer, frames
<1>2. CASE overlapped'
  BY <1>2 DEF Abstract!Next
<1>3. CASE Next /\ ~overlapped'
  <2>1. Step /\ ~overlapped /\ overlapped' = overlapped
    <3>1. overlapped \in BOOLEAN /\ overlapped' \in BOOLEAN
      BY DEF FullInv, BaseInv, TypeInv, TypeOK
    <3> QED
      BY <1>3, <3>1 DEF Next
  <2>2. ASSUME NEW t \in Threads, NEW f \in Frames, Send(t, f), f \notin Elements(handed)
        PROVE  Abstract!Next
    BY <1>3, <2>1, <2>2
       DEF Send, buffer, Abstract!Next, Abstract!Hand, Abstract!Elements, Elements
  <2>3. ASSUME NEW t \in Threads, LoadIndex(t) \/ StoreIndex(t) \/ Put(t)
        PROVE  UNCHANGED <<handed, received>>
    BY <2>3 DEF LoadIndex, StoreIndex, Put, buffer, frames
  <2>4. ASSUME NEW n \in 0..length, Writeout(n) PROVE Abstract!Receive
    <3>1. /\ open /\ open' = open /\ handed' = handed /\ str' = str
          /\ received' = received \o SubSeq(str, readIndex + 1, readIndex + n)
          /\ readIndex' = readIndex + n
      BY <2>4 DEF Writeout, Goes, frames
    <3>2. ReadInOrder /\ ReadInOrder' /\ InFrames(Filled)'
      BY <1>3, <2>1, <3>1 DEF FullInv, StreamInv
    <3>3. readIndex \in Nat /\ readIndex' \in Nat /\ Len(str) \in Nat
          /\ readIndex <= readIndex'
      <4>1. readIndex \in Nat /\ Len(str) \in Nat /\ writeIndex \in Nat
        BY Indices DEF FullInv, BaseInv, TypeInv
      <4>2. n \in 0..(writeIndex - readIndex)
        BY <2>4 DEF length
      <4> QED
        BY <3>1, <4>1, <4>2
    <3>4. received' \in Seq(Bytes)
      BY <3>2 DEF ReadInOrder
    <3>5. Abstract!Extends(received, received')
      <4>1. Len(received) = readIndex /\ \A i \in 1..readIndex : received[i] = str[i]
        BY <3>2 DEF ReadInOrder
      <4>2. Len(received') = readIndex' /\ \A i \in 1..readIndex' : received'[i] = str[i]
        BY <3>1, <3>2 DEF ReadInOrder
      <4> QED
        BY <3>3, <4>1, <4>2 DEF Abstract!Extends
    <3>6. Abstract!WholeFrames(received', handed)
      <4>1. Len(received') = readIndex' /\ \A i \in 1..readIndex' : received'[i] = str[i]
        BY <3>1, <3>2 DEF ReadInOrder
      <4>2. PICK m : m = Filled'
        OBVIOUS
      <4>3. /\ m \in 0..Len(str) /\ readIndex' <= m
            /\ \A i \in 1..m : Abstract!InPlace(str, handed, i)
        BY <3>1, <3>2, <4>2 DEF InFrames
      <4>4. ASSUME NEW i \in 1..Len(received')
            PROVE  Abstract!InPlace(received', handed, i)
        <5>1. i \in 1..m /\ i \in Nat \ {0}
          BY <3>3, <4>1, <4>3
        <5>2. \A j \in 1..i : received'[j] = str[j]
          BY <3>3, <4>1, <5>1
        <5>3. Prefix(handed, handed)
          <6>1. handed \in Seq(Frames)
            BY DEF FullInv, BaseInv, TypeInv, TypeOK
          <6> QED
            BY <6>1 DEF Prefix
        <5> QED
          BY <4>3, <5>1, <5>2, <5>3, InPlaceKept
      <4> QED
        BY <4>4 DEF Abstract!WholeFrames
    <3>7. Abstract!Bytes = Bytes
      BY DEF Abstract!Bytes, Bytes
    <3> QED
      BY <3>1, <3>4, <3>5, <3>6, <3>7 DEF Abstract!Receive
  <2>5. CASE Quiet
    BY <2>1, <2>5 DEF Quiet
  <2>6. TypeInv /\ FramesOnce
    BY DEF FullInv, BaseInv
  <2> QED
    BY StepKinds, <1>3, <2>1, <2>2, <2>3, <2>4, <2>5, <2>6 DEF Abstract!Next
<1> QED
  BY <1>1, <1>2, <1>3

(* The buffer, its unlocked copies and handleWrite implement a stream of   *)
(* whole frames, in the order of the calls of send(), until two threads    *)
(* meet: for any number of threads, frames and bytes in a frame            *)
(* (Buffer.cpp:27-37, TcpConnection.cpp:47-99).                            *)
THEOREM FramesStayWhole == Spec => IsFrameStream
<1>1. Init => Abstract!Init
  BY DEF Init, Abstract!Init
<1>2. Spec => []FullInv
  BY FullInit, FullStep, PTL DEF Spec
<1> QED
  BY <1>1, <1>2, StreamRefines, PTL DEF Spec, IsFrameStream, Abstract!Spec

----------------------------------------------------------------------------
(* Who never meets.                                                        *)

(* No other loop has anything to confirm to this client: it sends nothing, *)
(* or only to users of its own loop.                                       *)
NoConfirms == \A t \in Foreign : confirms[t] = {}

OwnerAlone == ~overlapped /\ \A t \in Foreign : pc[t] = "idle"

LEMMA AloneStep ==
  BaseInv /\ OwnerAlone /\ NoConfirms /\ [Next]_vars => OwnerAlone'
<1> SUFFICES ASSUME BaseInv, OwnerAlone, NoConfirms, [Next]_vars PROVE OwnerAlone'
  OBVIOUS
<1>0. /\ DOMAIN pc = Threads /\ Owner \in Threads /\ Owner \notin Foreign
      /\ Threads = Foreign \cup {Owner}
      /\ \A t \in Foreign : pc[t] = "idle" /\ t \in Threads /\ t # Owner
  BY Setting, Indices DEF BaseInv, TypeInv, OwnerAlone, Threads
<1>1. ASSUME \A t \in Foreign : pc'[t] = "idle", Next PROVE OwnerAlone'
  <2>1. ASSUME NEW t \in Threads, InBuffer(t)' PROVE t = Owner
    BY <1>0, <1>1, <2>1 DEF InBuffer, Appending
  <2>2. ASSUME NEW t \in Foreign PROVE ~Sending(t)'
    BY <1>1 DEF Sending, Appending
  <2>3. ~Overlap'
    BY <2>1, <2>2 DEF Overlap
  <2> QED
    BY <1>1, <2>3 DEF OwnerAlone, Next
<1>2. CASE UNCHANGED vars
  BY <1>2 DEF vars, OwnerAlone
<1>3. ASSUME Step PROVE \A t \in Foreign : pc'[t] = "idle"
  <2>1. ASSUME NEW t \in Threads, \/ LoadIndex(t) \/ StoreIndex(t) \/ Put(t)
                                  \/ LoadOn(t) \/ StoreOn(t) \/ Update(t)
        PROVE  \A u \in Foreign : pc'[u] = "idle"
    <3>1. pc[t] # "idle" /\ \E to : pc' = [pc EXCEPT ![t] = to]
      BY <2>1 DEF LoadIndex, StoreIndex, Put, LoadOn, StoreOn, Update, Goes
    <3>2. t = Owner
      BY <1>0, <3>1
    <3> QED
      BY <1>0, <3>1, <3>2
  <2>2. ASSUME NEW t \in Foreign, NEW f \in Frames PROVE ~SendMsgWithCheck(t, f)
    BY DEF SendMsgWithCheck, NoConfirms
  <2>3. ASSUME NEW t \in Foreign, NEW f \in Frames, Expired(t, f)
        PROVE  \A u \in Foreign : pc'[u] = "idle"
    BY <1>0, <2>3 DEF Expired
  <2>4. ASSUME NEW t \in Foreign PROVE ~UsesDead(t)
    BY <1>0 DEF UsesDead
  <2>5. CASE OwnerSends
    BY <1>0, <2>5 DEF OwnerSends, Send, Goes
  <2>6. CASE HandleWrite \/ WriteoutFails \/ WriteCloses \/ Check \/ LoadOff \/ StoreOff
             \/ \E n \in 0..length : Writeout(n)
    BY <1>0, <2>6 DEF HandleWrite, WriteoutFails, WriteCloses, Check, LoadOff, StoreOff,
         Writeout, Goes
  <2>7. CASE ClientSends \/ HandleRead \/ ReadCloses \/ EventsDone \/ Swap \/ RunUpdate
             \/ TasksDone \/ \E reported \in SUBSET {"IN", "OUT"} : Poll(reported)
    BY <1>0, <2>7 DEF ClientSends, HandleRead, ReadCloses, EventsDone, Swap, RunUpdate,
         TasksDone, Poll
  <2> QED
    BY StepIs, <1>3, <2>1, <2>2, <2>3, <2>4, <2>5, <2>6, <2>7
<1> QED
  BY <1>1, <1>2, <1>3 DEF Next

(* Two threads meet on a connection only if another loop confirms to its   *)
(* client: for every other client the promises above are unconditional     *)
(* (TcpConnection.cpp:56-61, TcpServer.cpp:60, 89, 119).                   *)
THEOREM NobodyMeets == Spec /\ []NoConfirms => []~overlapped
<1>1. Init => OwnerAlone
  BY Setting DEF Init, OwnerAlone
<1>2. OwnerAlone => ~overlapped
  BY DEF OwnerAlone
<1> QED
  BY <1>1, <1>2, AloneStep, BaseAlways, PTL DEF Spec
=============================================================================
