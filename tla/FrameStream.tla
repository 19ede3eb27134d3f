---------------------------- MODULE FrameStream ----------------------------
(***************************************************************************)
(* What the way out of the server promises a client: the frames handed to  *)
(* send(), whole, in that order, none twice and none left out, as long as  *)
(* the threads keep out of each other's way.                               *)
(***************************************************************************)
EXTENDS IdSeqs

CONSTANTS Frames,     \* the frames
          FrameLen    \* bytes in a frame

VARIABLES handed,     \* the frames given to send() so far, in order
          received,   \* the bytes the client has
          broken      \* nothing is promised any more

Bytes == [frame : Frames, part : 1..FrameLen]

(* Byte number i of s opens the first of the frames h, or the one behind   *)
(* that which ends there, or goes on with the frame of the byte before it. *)
InPlace(s, h, i) ==
  \/ /\ i = 1 /\ h # <<>>
     /\ s[1] = [frame |-> h[1], part |-> 1]
  \/ /\ i > 1
     /\ \E k \in 1..(Len(h) - 1) :
          /\ s[i - 1] = [frame |-> h[k], part |-> FrameLen]
          /\ s[i] = [frame |-> h[k + 1], part |-> 1]
  \/ /\ i > 1
     /\ s[i - 1].part < FrameLen
     /\ s[i] = [frame |-> s[i - 1].frame, part |-> s[i - 1].part + 1]

WholeFrames(s, h) == \A i \in 1..Len(s) : InPlace(s, h, i)

Extends(s, t) == Len(s) <= Len(t) /\ \A i \in 1..Len(s) : t[i] = s[i]

Init == /\ handed = <<>>
        /\ received = <<>>
        /\ broken = FALSE

Hand(f) == /\ f \in Frames \ Elements(handed)
           /\ handed' = Append(handed, f)
           /\ UNCHANGED received

Receive == /\ received' \in Seq(Bytes)
           /\ Extends(received, received')
           /\ WholeFrames(received', handed)
           /\ UNCHANGED handed

Next == \/ broken'
        \/ ~broken /\ ~broken' /\ (Receive \/ \E f \in Frames : Hand(f))

Spec == Init /\ [][Next]_<<handed, received, broken>>
=============================================================================
