------------------------------- MODULE Buffer -------------------------------
(***************************************************************************)
(* The byte buffer of a connection (class Buffer): a vector that doubles   *)
(* when it is short of space, two indices into it, and recycleSpace, which *)
(* getString calls and which moves what is left to the front and shrinks   *)
(* the vector.  The indices count from 0: byte i of the C++ vector is      *)
(* str[i + 1].                                                             *)
(***************************************************************************)
EXTENDS Integers, Sequences

CONSTANTS
  Bytes,     \* the values of a byte
  MINSIZE,   \* the size of a new buffer (512)
  Factors,   \* 1, 2, 4, ..: what the loops of resize(size * 2) multiply by
  Pieces,    \* what is appended at once
  MaxAsked,  \* bound: how much readin makes room for
  MaxSize    \* bound: the size of the vector

ASSUME BufferAssumption == /\ 0 \in Bytes
                           /\ MINSIZE \in Nat \ {0}
                           /\ Factors \subseteq Nat \ {0}
                           /\ Pieces \subseteq Seq(Bytes)
                           /\ MaxAsked \in Nat /\ MaxSize \in Nat

VARIABLES str, readIndex, writeIndex

vars == <<str, readIndex, writeIndex>>

(* The bytes in use are inside the vector, and the vector never gets so    *)
(* small that doubling would not enlarge it.                               *)
TypeOK == /\ str \in Seq(Bytes)
          /\ MINSIZE <= Len(str)
          /\ readIndex \in 0..writeIndex
          /\ writeIndex \in 0..Len(str)

Init == /\ str = [i \in 1..MINSIZE |-> 0]
        /\ readIndex = 0
        /\ writeIndex = 0

length == writeIndex - readIndex

----------------------------------------------------------------------------
(* Appending.                                                              *)

(* size is what the vector has after the loop that makes room for len.     *)
RoomFor(len, size) ==
  \E f \in Factors : /\ size = Len(str) * f
                     /\ size - writeIndex >= len
                     /\ f = 1 \/ Len(str) * (f \div 2) - writeIndex < len

(* The vector resized to size, with piece written at writeIndex.           *)
Written(size, piece) ==
  [i \in 1..size |->
     IF i > writeIndex /\ i <= writeIndex + Len(piece) THEN piece[i - writeIndex]
     ELSE IF i <= Len(str) THEN str[i] ELSE 0]

Fill(len, piece) ==
  \E size \in 1..MaxSize : /\ RoomFor(len, size)
                           /\ str' = Written(size, piece)
                           /\ writeIndex' = writeIndex + Len(piece)
                           /\ UNCHANGED readIndex

(* in(buf, len).                                                           *)
In(piece) == Fill(Len(piece), piece)

(* readin(psocket, len): room for len, and recv puts piece there.          *)
Readin(len, piece) == Len(piece) <= len /\ Fill(len, piece)

----------------------------------------------------------------------------
(* Taking.                                                                 *)

(* getUint8, getUint16, .., out, and writeout when send takes n bytes.     *)
Get(n) == /\ n \in 0..length
          /\ readIndex' = readIndex + n
          /\ UNCHANGED <<str, writeIndex>>

(* Mutant: the two lines that "must not be swapped" are.                   *)
RecycledSwapped(r) ==
  LET rest == writeIndex - r
      size == IF rest > MINSIZE THEN rest ELSE MINSIZE
  IN  /\ str' = [i \in 1..size |-> IF i <= rest THEN str[r + i] ELSE str[i]]
      /\ readIndex' = 0
      /\ writeIndex' = writeIndex

(* Mutant: the vector shrinks before its bytes have moved.                 *)
RecycledTooSmall(r) ==
  LET rest == writeIndex - r
      size == IF rest > MINSIZE THEN rest ELSE MINSIZE
  IN  /\ str' = [i \in 1..size |->
                  IF i <= rest /\ r + i <= size THEN str[r + i] ELSE 0]
      /\ readIndex' = 0
      /\ writeIndex' = writeIndex - r

(* recycleSpace's body when r is the readIndex: what is left moves to the  *)
(* front, the vector shrinks to it or to MINSIZE.                          *)
Recycled(r) ==
  LET rest == writeIndex - r
      size == IF rest > MINSIZE THEN rest ELSE MINSIZE
  IN  /\ str' = [i \in 1..size |-> IF i <= rest THEN str[r + i] ELSE str[i]]
      /\ readIndex' = 0
      /\ writeIndex' = writeIndex - r

(* getString(n): recycled when less than a fifth of the vector is in use.  *)
GetString(n) ==
  LET r == readIndex + n
      worth == Len(str) > MINSIZE /\ (writeIndex - r) * 5 < Len(str)
  IN  /\ n \in 0..length
      /\ \/ worth /\ Recycled(r)
         \/ /\ ~worth
            /\ readIndex' = r
            /\ UNCHANGED <<str, writeIndex>>

----------------------------------------------------------------------------

Next == \/ \E piece \in Pieces : In(piece)
        \/ \E piece \in Pieces, len \in 0..MaxAsked : Readin(len, piece)
        \/ \E n \in 0..length : Get(n) \/ GetString(n)

Spec == Init /\ [][Next]_vars

----------------------------------------------------------------------------
(* Properties.                                                             *)

Held == SubSeq(str, readIndex + 1, writeIndex)

Abstract == INSTANCE ByteQueue WITH queue <- Held

(* Whatever grows, shrinks and moves, bytes come out as they were put in.  *)
IsByteQueue == Abstract!Spec
=============================================================================
