---------------------------- MODULE FramingProofs ----------------------------
(***************************************************************************)
(* Frames are cut where the client joined them, for strings and contents   *)
(* of any length, any number of frames and any pieces, until a CONFIRM of  *)
(* a message without the msgid is handled.  The invariant: frames lie end  *)
(* to end, the others each as long as what their handler takes, so only    *)
(* the first frame that is not handled can start where the handlers have   *)
(* stopped; and a LOGIN_IN on its way to another loop has arrived whole.   *)
(***************************************************************************)
EXTENDS Framing, SequenceTheorems, TLAPS

(* A CONFIRM of a message that does not carry the msgid.                   *)
Bare(f) == f.type = "CONFIRM_MSG" /\ f.len = headerLen + 1

(* Frame f is as long as the header and what its handler takes.            *)
Fits(f) == f.len = headerLen + Takes(f)

(* Every other frame is.                                                   *)
Measured == \A i \in 1..Len(stream) :
              /\ Takes(stream[i]) \in Nat
              /\ stream[i].len >= headerLen
              /\ Bare(stream[i]) \/ Fits(stream[i])

(* Frames follow each other without a gap ..                               *)
Adjacent == \A i \in 1..Len(stream) :
              stream[i].start = IF i = 1 THEN 0
                                ELSE stream[i - 1].start + stream[i - 1].len

(* .. and in order.                                                        *)
Ordered == \A i, j \in 1..Len(stream) :
             i < j => stream[i].start + stream[i].len <= stream[j].start

(* The LOGIN_IN that another loop is to finish is all there.               *)
MovedIsWhole ==
  pc = "moved" => /\ Len(handled) < Len(stream)
                  /\ LET f == stream[Len(handled) + 1]
                     IN  f.start + f.len <= arrived

StreamOK == stream \in Seq(Frames) /\ Measured /\ Adjacent /\ Ordered

IInv == StreamOK /\ TypeOK /\ Aligned /\ TakesWhatArrived /\ MovedIsWhole

(* None has been handled so far.                                           *)
Healthy == \A i \in 1..Len(handled) : ~Bare(handled[i])

HealthyInv == StreamOK /\ handled \in Seq(Frames) /\ (Healthy => IInv)

----------------------------------------------------------------------------
(* Where the handlers have got to.                                         *)

(* The numbers in the frames of a sequence.                                *)
LEMMA FrameFields ==
  ASSUME NEW s \in Seq(Frames), NEW k \in 1..Len(s)
  PROVE  s[k] \in Frames /\ s[k].start \in Nat /\ s[k].len \in Nat
<1>1. s[k] \in Frames
  OBVIOUS
<1> QED
  BY <1>1 DEF Frames

(* Where the frame behind the first n ones starts.                         *)
EndAt(n) == IF n = 0 THEN 0 ELSE stream[n].start + stream[n].len

(* The first n frames are a sequence of frames that ends at EndAt(n).      *)
LEMMA Prefix ==
  ASSUME stream \in Seq(Frames), NEW n \in 0..Len(stream)
  PROVE  /\ SubSeq(stream, 1, n) \in Seq(Frames)
         /\ Len(SubSeq(stream, 1, n)) = n
         /\ \A i \in 1..n : SubSeq(stream, 1, n)[i] = stream[i]
         /\ EndOf(SubSeq(stream, 1, n)) = EndAt(n)
         /\ EndAt(n) \in Nat
<1> DEFINE s == SubSeq(stream, 1, n)
<1>1. /\ s \in Seq(Frames) /\ Len(s) = n
      /\ \A i \in 1..n : s[i] = stream[i]
  <2>1. \A i \in 1..n : stream[i] \in Frames
    OBVIOUS
  <2>2. /\ s \in Seq(Frames)
        /\ Len(s) = IF 1 <= n THEN n - 1 + 1 ELSE 0
        /\ \A i \in 1..(n - 1 + 1) : s[i] = stream[1 + i - 1]
    BY <2>1, SubSeqProperties
  <2> QED
    BY <2>2
<1>2. EndOf(s) = EndAt(n)
  <2>1. CASE n = 0
    <3>1. s = <<>>
      BY <1>1, <2>1, EmptySeq
    <3> QED
      BY <2>1, <3>1 DEF EndOf, EndAt
  <2>2. CASE n # 0
    <3>1. n \in 1..n /\ s # <<>>
      BY <1>1, <2>2, EmptySeq
    <3>2. s[Len(s)] = stream[n]
      BY <1>1, <3>1
    <3> QED
      BY <2>2, <3>1, <3>2 DEF EndOf, EndAt
  <2> QED
    BY <2>1, <2>2
<1>3. EndAt(n) \in Nat
  <2>1. n # 0 => stream[n].start \in Nat /\ stream[n].len \in Nat
    BY FrameFields
  <2> QED
    BY <2>1 DEF EndAt
<1> QED
  BY <1>1, <1>2, <1>3

(* The stream ends where its last frame does.                              *)
LEMMA StreamEnds ==
  ASSUME stream \in Seq(Frames)
  PROVE  EndOf(stream) = EndAt(Len(stream)) /\ EndOf(stream) \in Nat
<1>1. SubSeq(stream, 1, Len(stream)) = stream /\ Len(stream) \in 0..Len(stream)
  BY SubSeqFull
<1> QED
  BY <1>1, Prefix

(* .. and so does what has been handled.                                   *)
LEMMA EndIsNat ==
  ASSUME IInv
  PROVE  EndOf(handled) \in Nat
<1>1. /\ stream \in Seq(Frames) /\ Len(handled) \in 0..Len(stream)
      /\ handled = SubSeq(stream, 1, Len(handled))
  BY DEF IInv, TypeOK, Aligned
<1> QED
  BY <1>1, Prefix

(* A frame that starts where the handled ones end is the next one.         *)
LEMMA NextFrame ==
  ASSUME IInv, NEW k \in 1..Len(stream), stream[k].start = EndOf(handled)
  PROVE  k = Len(handled) + 1
<1> DEFINE n == Len(handled)
<1>1. /\ stream \in Seq(Frames) /\ n \in 0..Len(stream)
      /\ EndOf(handled) = EndAt(n)
  <2>1. n \in 0..Len(stream) /\ stream \in Seq(Frames)
    BY DEF IInv, TypeOK, Aligned
  <2> QED
    BY <2>1, Prefix DEF IInv, Aligned
<1>2. \A i \in 1..Len(stream) : /\ stream[i].start \in Nat /\ stream[i].len \in Nat
                                /\ stream[i].len >= 3
  BY <1>1, FrameFields DEF IInv, StreamOK, Measured, headerLen
<1>3. ~(k <= n)
  <2> SUFFICES ASSUME k <= n PROVE FALSE
    OBVIOUS
  <2>1. n \in 1..Len(stream) /\ n # 0
    BY <1>1
  <2>2. stream[k].start = stream[n].start + stream[n].len
    BY <1>1, <2>1 DEF EndAt
  <2>3. CASE k = n
    BY <1>2, <2>1, <2>2, <2>3
  <2>4. CASE k < n
    <3>1. stream[k].start + stream[k].len <= stream[n].start
      BY <2>1, <2>4 DEF IInv, StreamOK, Ordered
    <3> QED
      BY <1>2, <2>1, <2>2, <3>1
  <2> QED
    BY <1>1, <2>3, <2>4
<1>4. ~(k > n + 1)
  <2> SUFFICES ASSUME k > n + 1 PROVE FALSE
    OBVIOUS
  <2>1. n + 1 \in 1..Len(stream)
    BY <1>1
  <2>2. stream[n + 1].start = EndAt(n)
    BY <1>1, <2>1 DEF IInv, StreamOK, Adjacent, EndAt
  <2>3. stream[n + 1].start + stream[n + 1].len <= stream[k].start
    BY <2>1 DEF IInv, StreamOK, Ordered
  <2> QED
    BY <1>1, <1>2, <2>1, <2>2, <2>3
<1> QED
  BY <1>1, <1>3, <1>4

(* Handling the next frame leaves the handlers at its end.                 *)
LEMMA HandledGrows ==
  ASSUME IInv, NEW k \in 1..Len(stream), k = Len(handled) + 1,
         handled' = Append(handled, stream[k]), stream' = stream
  PROVE  /\ handled' \in Seq(Frames) /\ Len(handled') = k
         /\ handled' = SubSeq(stream', 1, k)
         /\ EndOf(handled') = stream[k].start + stream[k].len
         /\ EndOf(handled') <= EndOf(stream)
<1>1. /\ stream \in Seq(Frames) /\ handled \in Seq(Frames)
      /\ Len(handled) \in 0..Len(stream)
      /\ handled = SubSeq(stream, 1, Len(handled))
  BY DEF IInv, TypeOK, Aligned
<1>2. /\ SubSeq(stream, 1, k) \in Seq(Frames) /\ Len(SubSeq(stream, 1, k)) = k
      /\ \A i \in 1..k : SubSeq(stream, 1, k)[i] = stream[i]
      /\ EndOf(SubSeq(stream, 1, k)) = EndAt(k)
  BY <1>1, Prefix
<1>3. /\ handled' \in Seq(Frames) /\ Len(handled') = k
      /\ \A i \in 1..k : handled'[i] = IF i = k THEN stream[k] ELSE handled[i]
  BY <1>1
<1>4. \A i \in 1..Len(handled) : handled[i] = stream[i]
  BY <1>1, Prefix
<1>5. \A i \in 1..k : handled'[i] = SubSeq(stream, 1, k)[i]
  BY <1>1, <1>2, <1>3, <1>4
<1>6. handled' = SubSeq(stream, 1, k)
  BY <1>2, <1>3, <1>5, SeqEqual
<1>7. EndOf(handled') = stream[k].start + stream[k].len
  BY <1>2, <1>6 DEF EndAt
<1>8. stream[k].start + stream[k].len <= EndOf(stream)
  <2>1. EndOf(stream) = stream[Len(stream)].start + stream[Len(stream)].len
    BY <1>1, StreamEnds DEF EndAt
  <2>2. /\ stream[Len(stream)].start \in Nat /\ stream[Len(stream)].len \in Nat
        /\ stream[k].start \in Nat /\ stream[k].len \in Nat
    BY <1>1, FrameFields
  <2>3. CASE k = Len(stream)
    BY <2>1, <2>2, <2>3
  <2>4. CASE k < Len(stream)
    <3>1. stream[k].start + stream[k].len <= stream[Len(stream)].start
      BY <1>1, <2>4 DEF IInv, StreamOK, Ordered
    <3> QED
      BY <2>1, <2>2, <3>1
  <2> QED
    BY <1>1, <2>3, <2>4
<1> QED
  BY <1>3, <1>6, <1>7, <1>8

----------------------------------------------------------------------------
(* The steps.                                                              *)

(* What clients send is what the handlers take, but for a bare CONFIRM.    *)
LEMMA PayloadIsTaken ==
  ASSUME NEW type \in Types, NEW n \in Payloads(type), NEW start \in Nat
  PROVE  LET f == [type |-> type, start |-> start, len |-> headerLen + n]
         IN  /\ f \in Frames /\ n \in Nat /\ Takes(f) \in Nat
             /\ Bare(f) \/ Fits(f)
             /\ ConfirmId => ~Bare(f)
<1> DEFINE f == [type |-> type, start |-> start, len |-> headerLen + n]
<1>1. n \in Nat
  BY FramingAssumption DEF Payloads, Types
<1>2. f \in Frames
  BY <1>1 DEF Frames, headerLen
<1>3. CASE type = "TO_SB"
  <2>1. n >= 4
    BY <1>3, FramingAssumption DEF Payloads
  <2>2. Takes(f) = n /\ ~Bare(f)
    BY <1>1, <1>3, <2>1 DEF Takes, Bare, headerLen
  <2> QED
    BY <1>1, <1>2, <2>2 DEF Fits
<1>4. CASE type = "CONFIRM_MSG"
  <2>1. Takes(f) = 9 /\ n = IF ConfirmId THEN 9 ELSE 1
    BY <1>4 DEF Takes, Payloads
  <2>2. CASE ConfirmId
    BY <1>1, <1>2, <2>1, <2>2 DEF Fits, Bare, headerLen
  <2>3. CASE ~ConfirmId
    BY <1>1, <1>2, <1>4, <2>1, <2>3 DEF Bare
  <2> QED
    BY <2>2, <2>3
<1>5. CASE type \notin {"TO_SB", "CONFIRM_MSG"}
  <2>1. Takes(f) = n
    BY <1>1, <1>5, FramingAssumption DEF Takes, Payloads, Types
  <2> QED
    BY <1>1, <1>2, <1>5, <2>1 DEF Fits, Bare
<1> QED
  BY <1>3, <1>4, <1>5

(* SendFrame: the new frame starts where the last one ends.                *)
LEMMA StreamGrows ==
  ASSUME StreamOK, NEW type \in Types, SendFrame(type)
  PROVE  /\ StreamOK' /\ EndOf(stream) \in Nat /\ EndOf(stream') \in Nat
         /\ EndOf(stream) <= EndOf(stream')
         /\ Len(stream) \in Nat /\ Len(stream') = Len(stream) + 1
         /\ \A i \in 1..Len(stream) : stream'[i] = stream[i]
         /\ ConfirmId => ~Bare(stream'[Len(stream) + 1])
<1>1. PICK n \in Payloads(type) :
        stream' = Append(stream, [type |-> type, start |-> EndOf(stream),
                                  len |-> headerLen + n])
  BY DEF SendFrame
<1> DEFINE f == [type |-> type, start |-> EndOf(stream), len |-> headerLen + n]
           N == Len(stream)
<1>3. /\ stream \in Seq(Frames) /\ N \in Nat
      /\ EndOf(stream) \in Nat /\ EndOf(stream) = EndAt(N)
  BY StreamEnds DEF StreamOK
<1>4. /\ f \in Frames /\ n \in Nat /\ Takes(f) \in Nat
      /\ Bare(f) \/ Fits(f)
      /\ ConfirmId => ~Bare(f)
  BY <1>3, PayloadIsTaken
<1>5. f.start = EndOf(stream) /\ f.len = headerLen + n
  OBVIOUS
<1> HIDE DEF f
<1>6. /\ stream' \in Seq(Frames) /\ Len(stream') = N + 1
      /\ \A i \in 1..N : stream'[i] = stream[i]
      /\ stream'[N + 1] = f
  BY <1>1, <1>3, <1>4 DEF f
<1>7. EndOf(stream') = EndOf(stream) + headerLen + n
  <2>1. stream' # <<>>
    BY <1>3, <1>6, EmptySeq
  <2>2. EndOf(stream') = stream'[N + 1].start + stream'[N + 1].len
    BY <1>6, <2>1 DEF EndOf
  <2>3. EndOf(stream') = EndOf(stream) + (headerLen + n)
    BY <1>5, <1>6, <2>2
  <2> QED
    BY <1>3, <1>4, <2>3 DEF headerLen
<1>8. Measured'
  <2> SUFFICES ASSUME NEW i \in 1..(N + 1)
               PROVE  /\ Takes(stream'[i]) \in Nat /\ stream'[i].len >= headerLen
                      /\ Bare(stream'[i]) \/ Fits(stream'[i])
    BY <1>6 DEF Measured, Takes, Bare, Fits
  <2>1. CASE i \in 1..N
    BY <1>6, <2>1 DEF StreamOK, Measured
  <2>2. CASE i = N + 1
    <3>1. f.len >= headerLen
      BY <1>4, <1>5 DEF headerLen
    <3> QED
      BY <1>4, <1>6, <2>2, <3>1
  <2> QED
    BY <1>3, <2>1, <2>2
<1>10. Adjacent'
  <2> SUFFICES ASSUME NEW i \in 1..(N + 1)
               PROVE  stream'[i].start = IF i = 1 THEN 0
                        ELSE stream'[i - 1].start + stream'[i - 1].len
    BY <1>6 DEF Adjacent
  <2>1. CASE i \in 1..N
    BY <1>3, <1>6, <2>1 DEF StreamOK, Adjacent
  <2>2. CASE i = N + 1
    <3>1. N # 0 => stream'[N] = stream[N]
      BY <1>3, <1>6
    <3> QED
      BY <1>3, <1>5, <1>6, <2>2, <3>1 DEF EndAt
  <2> QED
    BY <1>3, <2>1, <2>2
<1>11. Ordered'
  <2> SUFFICES ASSUME NEW i \in 1..(N + 1), NEW j \in 1..(N + 1), i < j
               PROVE  stream'[i].start + stream'[i].len <= stream'[j].start
    BY <1>6 DEF Ordered
  <2>1. i \in 1..N /\ stream'[i] = stream[i]
    BY <1>3, <1>6
  <2>2. CASE j \in 1..N
    BY <1>6, <2>1, <2>2 DEF StreamOK, Ordered
  <2>3. CASE j = N + 1
    <3>1. stream'[j].start = stream[N].start + stream[N].len
      BY <1>3, <1>5, <1>6, <2>1, <2>3 DEF EndAt
    <3>2. /\ stream[i].start \in Nat /\ stream[i].len \in Nat
          /\ stream[N].start \in Nat /\ stream[N].len \in Nat
      BY <1>3, <2>1, FrameFields
    <3>3. i < N => stream[i].start + stream[i].len <= stream[N].start
      BY <1>3, <2>1 DEF StreamOK, Ordered
    <3> QED
      BY <1>3, <2>1, <3>1, <3>2, <3>3
  <2> QED
    BY <1>3, <2>2, <2>3
<1>12. EndOf(stream') \in Nat /\ EndOf(stream) <= EndOf(stream')
  BY <1>3, <1>4, <1>7 DEF headerLen
<1> QED
  BY <1>3, <1>4, <1>6, <1>8, <1>10, <1>11, <1>12 DEF StreamOK

(* .. and nothing changes for the handlers.                                *)
LEMMA SendFrameKeeps ==
  ASSUME IInv, NEW type \in Types, SendFrame(type)
  PROVE  IInv'
<1> DEFINE N == Len(stream)
<1>2. UNCHANGED <<arrived, pos, pc, handled>>
  BY DEF SendFrame
<1>3. /\ stream \in Seq(Frames) /\ N \in Nat /\ EndOf(stream) \in Nat
      /\ EndOf(stream') \in Nat /\ EndOf(stream) <= EndOf(stream') /\ StreamOK'
  BY StreamGrows DEF IInv, StreamOK
<1>6. /\ stream' \in Seq(Frames) /\ Len(stream') = N + 1
      /\ \A i \in 1..N : stream'[i] = stream[i]
  BY <1>3, StreamGrows DEF IInv, StreamOK
<1>8. TypeOK'
  <2>1. EndOf(stream)' = EndOf(stream')
    BY DEF EndOf
  <2> QED
    BY <1>2, <1>3, <1>6, <2>1 DEF IInv, TypeOK
<1>12. Aligned'
  <2> DEFINE h == Len(handled)
  <2>1. /\ h \in 0..N /\ handled = SubSeq(stream, 1, h) /\ h \in 0..Len(stream')
        /\ handled \in Seq(Frames)
    BY <1>3, <1>6 DEF IInv, TypeOK, Aligned
  <2>2. \A i \in 1..h : handled[i] = stream[i]
    BY <1>3, <2>1, Prefix
  <2>3. /\ SubSeq(stream', 1, h) \in Seq(Frames) /\ Len(SubSeq(stream', 1, h)) = h
        /\ \A i \in 1..h : SubSeq(stream', 1, h)[i] = stream'[i]
    <3>1. \A i \in 1..h : stream'[i] \in Frames
      BY <1>3, <1>6, <2>1
    <3>2. /\ SubSeq(stream', 1, h) \in Seq(Frames)
          /\ Len(SubSeq(stream', 1, h)) = IF 1 <= h THEN h - 1 + 1 ELSE 0
          /\ \A i \in 1..(h - 1 + 1) : SubSeq(stream', 1, h)[i] = stream'[1 + i - 1]
      BY <2>1, <3>1, SubSeqProperties
    <3> QED
      BY <2>1, <3>2
  <2>4. \A i \in 1..h : handled[i] = SubSeq(stream', 1, h)[i]
    BY <1>6, <2>1, <2>2, <2>3
  <2>5. handled = SubSeq(stream', 1, h)
    BY <2>1, <2>3, <2>4, SeqEqual
  <2>6. EndOf(handled)' = EndOf(handled)
    BY <1>2 DEF EndOf
  <2> QED
    BY <1>2, <2>1, <2>5, <2>6 DEF IInv, Aligned
<1>13. TakesWhatArrived'
  BY <1>2 DEF IInv, TakesWhatArrived
<1>14. MovedIsWhole'
  <2> SUFFICES ASSUME pc = "moved"
               PROVE  /\ Len(handled) < Len(stream')
                      /\ stream'[Len(handled) + 1].start
                           + stream'[Len(handled) + 1].len <= arrived
    BY <1>2 DEF MovedIsWhole
  <2>1. /\ Len(handled) < N
        /\ stream[Len(handled) + 1].start + stream[Len(handled) + 1].len <= arrived
    BY DEF IInv, MovedIsWhole
  <2>2. Len(handled) \in Nat
    BY DEF IInv, TypeOK
  <2> QED
    BY <1>3, <1>6, <2>1, <2>2
<1> QED
  BY <1>3, <1>8, <1>12, <1>13, <1>14 DEF IInv

(* While the stream stays, so do the facts about it alone.                 *)
LEMMA StreamFacts ==
  ASSUME StreamOK, stream' = stream
  PROVE  StreamOK' /\ EndOf(stream)' = EndOf(stream)
BY DEF StreamOK, Measured, Adjacent, Ordered, EndOf, Takes, Bare, Fits

(* handleRead makes more bytes available.                                  *)
LEMMA HandleReadKeeps ==
  ASSUME IInv, NEW n \in 1..(EndOf(stream) - arrived), HandleRead(n)
  PROVE  IInv'
<1>1. /\ pc = "poll" /\ pc' = "parse" /\ arrived' = arrived + n
      /\ UNCHANGED <<stream, pos, handled>>
  BY DEF HandleRead
<1>2. StreamOK' /\ EndOf(stream)' = EndOf(stream)
  BY <1>1, StreamFacts DEF IInv
<1>3. EndOf(stream) \in Nat /\ arrived \in Nat /\ pos \in Nat
  BY StreamEnds DEF IInv, TypeOK
<1>4. TypeOK'
  BY <1>1, <1>2, <1>3 DEF IInv, TypeOK
<1>5. Aligned'
  BY <1>1 DEF IInv, Aligned, EndOf
<1>6. TakesWhatArrived' /\ MovedIsWhole'
  BY <1>1, <1>3 DEF IInv, TakesWhatArrived, MovedIsWhole
<1> QED
  BY <1>2, <1>4, <1>5, <1>6 DEF IInv

(* handleMsg returns: nothing but the control moves.                       *)
LEMMA ReturnKeeps ==
  ASSUME IInv, Return
  PROVE  IInv'
<1>1. pc = "parse" /\ pc' = "poll" /\ UNCHANGED <<stream, arrived, pos, handled>>
  BY DEF Return
<1>2. StreamOK' /\ EndOf(stream)' = EndOf(stream)
  BY <1>1, StreamFacts DEF IInv
<1> QED
  BY <1>1, <1>2 DEF IInv, TypeOK, Aligned, EndOf, TakesWhatArrived, MovedIsWhole

(* What holds of the frame at the head of the buffer when handleMsg looks. *)
LEMMA HeadFrame ==
  ASSUME IInv, pc = "parse", NEW k \in 1..Len(stream), AtHead(stream[k])
  PROVE  /\ k = Len(handled) + 1 /\ stream[k] \in Frames /\ stream[k].start = pos
         /\ Takes(stream[k]) \in Nat
         /\ ~Bare(stream[k]) => Fits(stream[k])
<1>1. stream[k].start = pos /\ pos = EndOf(handled)
  <2>1. pos = EndOf(handled) + 0 /\ EndOf(handled) \in Nat
    BY EndIsNat DEF IInv, Aligned
  <2> QED
    BY <2>1 DEF AtHead
<1> QED
  BY <1>1, NextFrame DEF IInv, StreamOK, Measured

(* The next frame is handled as a whole, by whichever loop: the invariant  *)
(* holds where its handler stops.                                          *)
LEMMA FrameDone ==
  ASSUME IInv, NEW k \in 1..Len(stream), k = Len(handled) + 1,
         stream[k].start + stream[k].len <= arrived,
         pos' = stream[k].start + stream[k].len,
         handled' = Append(handled, stream[k]),
         UNCHANGED <<stream, arrived>>,
         pc' \in {"poll", "parse"}
  PROVE  IInv'
<1>1. StreamOK' /\ EndOf(stream)' = EndOf(stream)
  BY StreamFacts DEF IInv
<1>2. /\ handled' \in Seq(Frames) /\ Len(handled') = k
      /\ handled' = SubSeq(stream', 1, k)
      /\ EndOf(handled') = stream[k].start + stream[k].len
      /\ EndOf(handled') <= EndOf(stream)
  BY HandledGrows
<1>3. pos' \in Nat /\ EndOf(stream) \in Nat /\ arrived \in Nat
  <2>1. stream[k] \in Frames
    BY DEF IInv, TypeOK
  <2> QED
    BY <2>1, StreamEnds DEF IInv, TypeOK, Frames
<1>4. TypeOK'
  BY <1>1, <1>2, <1>3 DEF IInv, TypeOK
<1>5. Aligned'
  <2>1. EndOf(handled)' = EndOf(handled')
    BY DEF EndOf
  <2> QED
    BY <1>2, <1>3, <2>1 DEF Aligned
<1>6. TakesWhatArrived' /\ MovedIsWhole'
  BY <1>3 DEF TakesWhatArrived, MovedIsWhole
<1> QED
  BY <1>1, <1>4, <1>5, <1>6 DEF IInv

(* A frame handled by the loop that read it.                               *)
LEMMA HandleKeeps ==
  ASSUME IInv, NEW k \in 1..Len(stream), ~Bare(stream[k]),
         HandleFrame(stream[k]) \/ LoginHere(stream[k])
  PROVE  IInv'
<1>1. /\ pc = "parse" /\ AtHead(stream[k]) /\ Whole(stream[k])
      /\ pos' = pos + headerLen + Takes(stream[k])
      /\ handled' = Append(handled, stream[k])
      /\ UNCHANGED <<stream, arrived>> /\ pc' \in {"poll", "parse"}
  BY DEF HandleFrame, LoginHere
<1>2. /\ k = Len(handled) + 1 /\ stream[k] \in Frames /\ stream[k].start = pos
      /\ Takes(stream[k]) \in Nat
      /\ stream[k].len = headerLen + Takes(stream[k])
  BY <1>1, HeadFrame DEF Fits
<1>3. pos \in Nat /\ arrived \in Nat
  BY StreamEnds DEF IInv, TypeOK
<1>4. /\ pos' = stream[k].start + stream[k].len
      /\ stream[k].start + stream[k].len <= arrived
  BY <1>1, <1>2, <1>3 DEF Whole, length, headerLen
<1> QED
  BY <1>1, <1>2, <1>4, FrameDone

(* A LOGIN_IN that goes to another loop leaves its header behind.          *)
LEMMA LoginMovesKeeps ==
  ASSUME IInv, NEW k \in 1..Len(stream), LoginMoves(stream[k])
  PROVE  IInv'
<1>1. /\ pc = "parse" /\ AtHead(stream[k]) /\ Whole(stream[k])
      /\ pos' = pos + headerLen /\ pc' = "moved"
      /\ UNCHANGED <<stream, arrived, handled>>
  BY DEF LoginMoves
<1>2. /\ k = Len(handled) + 1 /\ stream[k] \in Frames /\ stream[k].start = pos
      /\ Takes(stream[k]) \in Nat
      /\ stream[k].len = headerLen + Takes(stream[k])
  <2>1. ~Bare(stream[k])
    BY DEF LoginMoves, Bare
  <2> QED
    BY <1>1, <2>1, HeadFrame DEF Fits
<1>3. /\ pos \in Nat /\ arrived \in Nat /\ EndOf(stream) \in Nat
      /\ arrived <= EndOf(stream) /\ Len(handled) \in Nat /\ Len(stream) \in Nat
  BY StreamEnds DEF IInv, TypeOK
<1>4. StreamOK' /\ EndOf(stream)' = EndOf(stream)
  BY <1>1, StreamFacts DEF IInv
<1>5. stream[k].start + stream[k].len <= arrived /\ pos' <= arrived
  BY <1>1, <1>2, <1>3 DEF Whole, length, headerLen
<1>6. TypeOK'
  BY <1>1, <1>3, <1>4, <1>5 DEF IInv, TypeOK, headerLen
<1>7. Aligned'
  <2>1. EndOf(handled)' = EndOf(handled) /\ EndOf(handled) \in Nat
    BY <1>1, EndIsNat DEF EndOf
  <2>2. pos = EndOf(handled)
    BY <1>1, <2>1 DEF IInv, Aligned
  <2> QED
    BY <1>1, <2>1, <2>2 DEF IInv, Aligned
<1>8. TakesWhatArrived'
  BY <1>1, <1>5 DEF TakesWhatArrived
<1>9. MovedIsWhole'
  BY <1>1, <1>2, <1>3, <1>5 DEF MovedIsWhole
<1> QED
  BY <1>4, <1>6, <1>7, <1>8, <1>9 DEF IInv

(* .. and the task there takes the rest.                                   *)
LEMMA RunLoginKeeps ==
  ASSUME IInv, NEW k \in 1..Len(stream), ~Bare(stream[k]), RunLogin(stream[k])
  PROVE  IInv'
<1>1. /\ pc = "moved" /\ stream[k].start + headerLen = pos
      /\ pos' = pos + Takes(stream[k])
      /\ handled' = Append(handled, stream[k]) /\ pc' = "poll"
      /\ UNCHANGED <<stream, arrived>>
  BY DEF RunLogin
<1>2. /\ stream[k].start \in Nat /\ Takes(stream[k]) \in Nat
      /\ stream[k].len = headerLen + Takes(stream[k])
  BY FrameFields DEF IInv, StreamOK, Measured, Fits
<1>3. EndOf(handled) \in Nat /\ pos = EndOf(handled) + headerLen
  BY <1>1, EndIsNat DEF IInv, Aligned
<1>4. k = Len(handled) + 1
  <2>1. stream[k].start = EndOf(handled)
    BY <1>1, <1>2, <1>3 DEF headerLen
  <2> QED
    BY <2>1, NextFrame
<1>5. stream[k].start + stream[k].len <= arrived
  BY <1>1, <1>4 DEF IInv, MovedIsWhole
<1>6. pos' = stream[k].start + stream[k].len
  <2> DEFINE s == stream[k].start
             t == Takes(stream[k])
  <2>1. s \in Nat /\ t \in Nat /\ stream[k].len = 3 + t
    BY <1>2 DEF headerLen
  <2>2. pos' = (s + 3) + t
    BY <1>1 DEF headerLen
  <2> HIDE DEF s, t
  <2>3. pos' = s + stream[k].len
    BY <2>1, <2>2
  <2> QED
    BY <2>3 DEF s
<1> QED
  BY <1>1, <1>4, <1>5, <1>6, FrameDone

----------------------------------------------------------------------------

(* The invariant holds at the start ..                                     *)
LEMMA InitIInv == Init => HealthyInv
<1> SUFFICES ASSUME Init PROVE HealthyInv
  OBVIOUS
<1>1. stream = <<>> /\ handled = <<>> /\ arrived = 0 /\ pos = 0 /\ pc = "poll"
  BY DEF Init
<1>2. /\ stream \in Seq(Frames) /\ Len(stream) = 0
      /\ handled \in Seq(Frames) /\ Len(handled) = 0
  BY <1>1, EmptySeq
<1>3. EndOf(stream) = 0 /\ EndOf(handled) = 0
  BY <1>1 DEF EndOf
<1>4. handled = SubSeq(stream, 1, Len(handled))
  BY <1>1, <1>2, SubSeqEmpty
<1> QED
  BY <1>1, <1>2, <1>3, <1>4
     DEF HealthyInv, StreamOK, IInv, TypeOK, Measured, Adjacent, Ordered, Aligned,
         TakesWhatArrived, MovedIsWhole

(* A frame once handled stays handled.                                     *)
LEMMA HandledStays ==
  ASSUME handled \in Seq(Frames), NEW f \in Frames, handled' = Append(handled, f)
  PROVE  /\ handled' \in Seq(Frames)
         /\ Healthy' <=> Healthy /\ ~Bare(f)
<1>1. /\ handled' \in Seq(Frames) /\ Len(handled') = Len(handled) + 1
      /\ \A i \in 1..Len(handled) : handled'[i] = handled[i]
      /\ handled'[Len(handled) + 1] = f /\ Len(handled) \in Nat
  OBVIOUS
<1>2. Healthy' <=> \A i \in 1..(Len(handled) + 1) : ~Bare(handled'[i])
  BY <1>1 DEF Healthy, Bare
<1>3. Healthy' <=> Healthy /\ ~Bare(f)
  BY <1>1, <1>2 DEF Healthy
<1> QED
  BY <1>1, <1>3

(* .. and every step keeps it: what it handles is a frame of the stream.   *)
LEMMA NextIInv == HealthyInv /\ [Next]_vars => HealthyInv'
<1> SUFFICES ASSUME HealthyInv, [Next]_vars PROVE HealthyInv'
  OBVIOUS
<1>0. /\ StreamOK /\ handled \in Seq(Frames) /\ stream \in Seq(Frames)
      /\ DOMAIN stream = 1..Len(stream)
  BY DEF HealthyInv, StreamOK
<1>1. CASE Return
  <2>1. UNCHANGED <<stream, handled>>
    BY <1>1 DEF Return
  <2> QED
    BY <1>0, <1>1, <2>1, StreamFacts, ReturnKeeps DEF HealthyInv, Healthy, Bare
<1>2. ASSUME NEW k \in 1..Len(stream),
             \/ HandleFrame(stream[k]) \/ LoginHere(stream[k]) \/ RunLogin(stream[k])
      PROVE  HealthyInv'
  <2>1. /\ handled' = Append(handled, stream[k]) /\ stream' = stream
        /\ stream[k] \in Frames
    BY <1>0, <1>2 DEF HandleFrame, LoginHere, RunLogin
  <2>2. handled' \in Seq(Frames) /\ (Healthy' => Healthy /\ ~Bare(stream[k]))
    BY <1>0, <2>1, HandledStays
  <2>3. Healthy' => IInv'
    BY <1>2, <2>2, HandleKeeps, RunLoginKeeps DEF HealthyInv
  <2> QED
    BY <1>0, <2>1, <2>2, <2>3, StreamFacts DEF HealthyInv
<1>3. ASSUME NEW k \in 1..Len(stream), LoginMoves(stream[k])
      PROVE  HealthyInv'
  <2>1. UNCHANGED <<stream, handled>>
    BY <1>3 DEF LoginMoves
  <2> QED
    BY <1>0, <1>3, <2>1, StreamFacts, LoginMovesKeeps DEF HealthyInv, Healthy, Bare
<1>4. CASE Read
  <2>1. UNCHANGED <<stream, handled>>
    BY <1>4 DEF Read, HandleRead
  <2> QED
    BY <1>0, <1>4, <2>1, StreamFacts, HandleReadKeeps
       DEF HealthyInv, Healthy, Bare, Read
<1>5. ASSUME NEW type \in Types, SendFrame(type) PROVE HealthyInv'
  <2>1. handled' = handled
    BY <1>5 DEF SendFrame
  <2> QED
    BY <1>0, <1>5, <2>1, StreamGrows, SendFrameKeeps DEF HealthyInv, Healthy, Bare
<1>6. CASE UNCHANGED vars
  <2>1. UNCHANGED <<stream, arrived, pos, pc, handled>>
    BY <1>6 DEF vars
  <2>2. StreamOK' /\ EndOf(stream)' = EndOf(stream)
    BY <1>0, <2>1, StreamFacts
  <2>3. IInv => IInv'
    BY <2>1, <2>2 DEF IInv, TypeOK, Aligned, EndOf, TakesWhatArrived, MovedIsWhole
  <2> QED
    BY <1>0, <2>1, <2>2, <2>3 DEF HealthyInv, Healthy, Bare
<1> QED
  BY <1>0, <1>1, <1>2, <1>3, <1>4, <1>5, <1>6 DEF Next, Parse

(* The invariant holds for ever.                                           *)
LEMMA Invariance == Spec => []HealthyInv
  BY InitIInv, NextIInv, PTL DEF Spec

(* Whatever clients put into a CONFIRM: up to the first one of a message   *)
(* without the msgid that is handled, handlers and frames stay aligned and *)
(* no handler takes more than has arrived, whichever loop finishes a       *)
(* LOGIN_IN (TcpSession.cpp:21-92, 159-167).                               *)
THEOREM AlignedUntilBare ==
  Spec => [](Healthy => TypeOK /\ Aligned /\ TakesWhatArrived)
<1>1. HealthyInv => (Healthy => TypeOK /\ Aligned /\ TakesWhatArrived)
  BY DEF HealthyInv, IInv
<1> QED
  BY <1>1, Invariance, PTL

----------------------------------------------------------------------------
(* Clients that put the msgid into the CONFIRM of a message.               *)

NothingBare == Healthy /\ \A i \in 1..Len(stream) : ~Bare(stream[i])

LEMMA NothingBareStep == ConfirmId /\ HealthyInv /\ NothingBare /\ [Next]_vars => NothingBare'
<1> SUFFICES ASSUME ConfirmId, HealthyInv, NothingBare, [Next]_vars PROVE NothingBare'
  OBVIOUS
<1>0. /\ StreamOK /\ handled \in Seq(Frames) /\ stream \in Seq(Frames)
      /\ DOMAIN stream = 1..Len(stream)
  BY DEF HealthyInv, StreamOK
<1>1. CASE UNCHANGED <<stream, handled>>
  BY <1>1 DEF NothingBare, Healthy, Bare
<1>2. ASSUME NEW k \in 1..Len(stream),
             \/ HandleFrame(stream[k]) \/ LoginHere(stream[k]) \/ RunLogin(stream[k])
      PROVE  NothingBare'
  <2>1. /\ handled' = Append(handled, stream[k]) /\ stream' = stream
        /\ stream[k] \in Frames /\ ~Bare(stream[k])
    BY <1>0, <1>2 DEF HandleFrame, LoginHere, RunLogin, NothingBare
  <2>2. Healthy'
    BY <1>0, <2>1, HandledStays DEF NothingBare
  <2> QED
    BY <2>1, <2>2 DEF NothingBare, Bare
<1>3. ASSUME NEW type \in Types, SendFrame(type) PROVE NothingBare'
  <2>1. handled' = handled
    BY <1>3 DEF SendFrame
  <2>2. /\ Len(stream) \in Nat /\ Len(stream') = Len(stream) + 1
        /\ \A i \in 1..Len(stream) : stream'[i] = stream[i]
        /\ ~Bare(stream'[Len(stream) + 1])
    BY <1>0, <1>3, StreamGrows
  <2>3. \A i \in 1..Len(stream') : ~Bare(stream'[i])
    BY <2>2 DEF NothingBare
  <2>4. Healthy'
    BY <2>1 DEF NothingBare, Healthy, Bare
  <2> QED
    BY <2>3, <2>4 DEF NothingBare, Bare
<1> QED
  BY <1>0, <1>1, <1>2, <1>3
     DEF Next, Parse, Read, Return, LoginMoves, HandleRead, vars

LEMMA NeverBare == ConfirmId /\ Spec => []Healthy
<1>1. ConfirmId /\ Init => NothingBare
  BY DEF Init, NothingBare, Healthy
<1>2. CASE ConfirmId
  <2>1. Init => NothingBare
    BY <1>1, <1>2
  <2>2. HealthyInv /\ NothingBare /\ [Next]_vars => NothingBare'
    BY <1>2, NothingBareStep
  <2>3. NothingBare => Healthy
    BY DEF NothingBare
  <2> QED
    BY <2>1, <2>2, <2>3, Invariance, PTL DEF Spec
<1> QED
  BY <1>2

(* Neither index passes the bytes there are (TypeOK).                      *)
THEOREM TypeCorrect == ConfirmId /\ Spec => []TypeOK
  BY AlignedUntilBare, NeverBare, PTL

(* Handlers and frames stay aligned, whichever loop finishes a LOGIN_IN.   *)
THEOREM AlwaysAligned == ConfirmId /\ Spec => []Aligned
  BY AlignedUntilBare, NeverBare, PTL

(* No handler takes bytes that have not arrived.                           *)
THEOREM NeverTakesMore == ConfirmId /\ Spec => []TakesWhatArrived
  BY AlignedUntilBare, NeverBare, PTL
=============================================================================
