---------------------------- MODULE BufferProofs ----------------------------
(***************************************************************************)
(* The buffer is a byte queue, for every MINSIZE and every sequence of     *)
(* operations.  The invariant is the type invariant: the indices are in    *)
(* order and inside the vector, so what a step moves, cuts or overwrites   *)
(* is never in use.                                                        *)
(***************************************************************************)
EXTENDS Buffer, SequenceTheorems, TLAPS

(* What is between two indices of a vector.                                *)
LEMMA Window ==
  ASSUME NEW S, NEW s \in Seq(S), NEW w \in 0..Len(s), NEW r \in 0..w
  PROVE  /\ SubSeq(s, r + 1, w) \in Seq(S)
         /\ Len(SubSeq(s, r + 1, w)) = w - r
         /\ \A i \in 1..(w - r) : SubSeq(s, r + 1, w)[i] = s[r + i]
<1>1. \A i \in (r + 1)..w : s[i] \in S
  OBVIOUS
<1>2. r + 1 \in Int /\ w \in Int /\ w - (r + 1) + 1 = w - r
  OBVIOUS
<1>3. /\ SubSeq(s, r + 1, w) \in Seq(S)
      /\ Len(SubSeq(s, r + 1, w)) = IF r + 1 <= w THEN w - (r + 1) + 1 ELSE 0
      /\ \A i \in 1..(w - (r + 1) + 1) : SubSeq(s, r + 1, w)[i] = s[(r + 1) + i - 1]
  BY <1>1, <1>2, SubSeqProperties
<1> QED
  BY <1>2, <1>3

(* The window of a vector that holds the window [r, w) of another one from *)
(* its index q on: the same bytes.                                         *)
LEMMA SameWindow ==
  ASSUME NEW S, NEW s \in Seq(S), NEW t \in Seq(S),
         NEW w \in 0..Len(s), NEW r \in 0..w,
         NEW q \in Nat, q + (w - r) <= Len(t),
         \A i \in 1..(w - r) : t[q + i] = s[r + i]
  PROVE  SubSeq(t, q + 1, q + (w - r)) = SubSeq(s, r + 1, w)
<1> DEFINE a == SubSeq(t, q + 1, q + (w - r))
           b == SubSeq(s, r + 1, w)
<1>1. /\ b \in Seq(S) /\ Len(b) = w - r
      /\ \A i \in 1..(w - r) : b[i] = s[r + i]
  BY Window
<1>2. q + (w - r) \in 0..Len(t) /\ q \in 0..(q + (w - r)) /\ (q + (w - r)) - q = w - r
  OBVIOUS
<1>3. /\ a \in Seq(S) /\ Len(a) = (q + (w - r)) - q
      /\ \A i \in 1..((q + (w - r)) - q) : a[i] = t[q + i]
  BY <1>2, Window
<1>4. Len(a) = Len(b) /\ \A i \in 1..Len(a) : a[i] = b[i]
  BY <1>1, <1>2, <1>3
<1> HIDE DEF a, b
<1>5. a = b
  BY <1>1, <1>3, <1>4, SeqEqual
<1> QED
  BY <1>5 DEF a, b

(* What is in use of the buffer.                                           *)
LEMMA HeldIs ==
  ASSUME TypeOK
  PROVE  /\ Held \in Seq(Bytes) /\ Len(Held) = length /\ length \in Nat
         /\ \A i \in 1..length : Held[i] = str[readIndex + i]
  BY Window DEF TypeOK, Held, length

----------------------------------------------------------------------------

(* Making room and writing behind what is held appends to it.              *)
LEMMA FillPuts ==
  ASSUME TypeOK, NEW len \in Nat, NEW piece \in Seq(Bytes), Len(piece) <= len,
         Fill(len, piece)
  PROVE  TypeOK' /\ Held' = Held \o piece
<1> DEFINE n == Len(piece)
<1>1. PICK size \in 1..MaxSize : /\ RoomFor(len, size)
                                 /\ str' = Written(size, piece)
                                 /\ writeIndex' = writeIndex + n
                                 /\ readIndex' = readIndex
  BY DEF Fill
<1>2. /\ size \in Nat /\ writeIndex + len <= size /\ n \in Nat /\ n <= len
      /\ readIndex \in Nat /\ writeIndex \in Nat /\ readIndex <= writeIndex
      /\ writeIndex <= Len(str) /\ Len(str) \in Nat
  BY <1>1 DEF RoomFor, TypeOK
<1>3. MINSIZE <= size
  <2>1. PICK f \in Factors : size = Len(str) * f
    BY <1>1 DEF RoomFor
  <2>2. f \in Nat /\ f >= 1
    BY BufferAssumption
  <2>3. Len(str) * f >= Len(str)
    BY <1>2, <2>2
  <2> QED
    BY <1>2, <2>1, <2>3, BufferAssumption DEF TypeOK
<1>4. /\ str' \in Seq(Bytes) /\ Len(str') = size
      /\ \A i \in 1..size :
           str'[i] = IF i > writeIndex /\ i <= writeIndex + n
                     THEN piece[i - writeIndex]
                     ELSE IF i <= Len(str) THEN str[i] ELSE 0
  <2>1. str \in Seq(Bytes) /\ piece \in Seq(Bytes) /\ 0 \in Bytes
    BY BufferAssumption DEF TypeOK
  <2>2. \A i \in 1..size :
          (IF i > writeIndex /\ i <= writeIndex + n THEN piece[i - writeIndex]
           ELSE IF i <= Len(str) THEN str[i] ELSE 0) \in Bytes
    BY <1>2, <2>1
  <2> QED
    BY <1>1, <1>2, <2>2 DEF Written
<1>5. TypeOK'
  BY <1>1, <1>2, <1>3, <1>4 DEF TypeOK
<1>6. /\ Held' \in Seq(Bytes) /\ Len(Held') = length + n /\ length \in Nat
      /\ \A i \in 1..(length + n) : Held'[i] = str'[readIndex + i]
  <2>1. writeIndex' \in 0..Len(str') /\ readIndex' \in 0..writeIndex'
    BY <1>5 DEF TypeOK
  <2>2. writeIndex' - readIndex' = length + n /\ length \in Nat
    BY <1>1, <1>2 DEF length
  <2>3. /\ Held' \in Seq(Bytes) /\ Len(Held') = writeIndex' - readIndex'
        /\ \A i \in 1..(writeIndex' - readIndex') : Held'[i] = str'[readIndex' + i]
    BY <1>4, <2>1, Window DEF Held
  <2> QED
    BY <1>1, <2>2, <2>3
<1>7. /\ Held \o piece \in Seq(Bytes) /\ Len(Held \o piece) = length + n
      /\ \A i \in 1..(length + n) :
           (Held \o piece)[i] = IF i <= length THEN str[readIndex + i]
                                ELSE piece[i - length]
  <2>1. /\ Held \in Seq(Bytes) /\ Len(Held) = length
        /\ \A i \in 1..length : Held[i] = str[readIndex + i]
    BY HeldIs
  <2>2. n \in Nat /\ length \in Nat
    BY <1>2, <1>6
  <2>3. /\ Held \o piece \in Seq(Bytes)
        /\ Len(Held \o piece) = Len(Held) + Len(piece)
        /\ \A i \in 1..(Len(Held) + Len(piece)) :
             (Held \o piece)[i] = IF i <= Len(Held) THEN Held[i]
                                  ELSE piece[i - Len(Held)]
    BY <2>1, ConcatProperties
  <2>4. \A i \in 1..(length + n) : i <= length => i \in 1..length
    BY <2>2
  <2> QED
    BY <2>1, <2>3, <2>4
<1>8. \A i \in 1..(length + n) : Held'[i] = (Held \o piece)[i]
  <2> SUFFICES ASSUME NEW i \in 1..(length + n)
               PROVE  Held'[i] = (Held \o piece)[i]
    OBVIOUS
  <2>1. readIndex + i \in 1..size /\ readIndex + i <= writeIndex + n
    BY <1>2, <1>6 DEF length
  <2>2. CASE i <= length
    <3>1. readIndex + i <= writeIndex /\ readIndex + i <= Len(str)
      BY <1>2, <2>2 DEF length
    <3>2. str'[readIndex + i] = str[readIndex + i]
      BY <1>2, <1>4, <2>1, <3>1
    <3> QED
      BY <1>6, <1>7, <2>2, <3>2
  <2>3. CASE i > length
    <3>1. readIndex + i > writeIndex /\ (readIndex + i) - writeIndex = i - length
      BY <1>2, <2>3 DEF length
    <3>2. str'[readIndex + i] = piece[i - length]
      BY <1>4, <2>1, <3>1
    <3>3. ~(i <= length)
      BY <1>6, <2>3
    <3> QED
      BY <1>6, <1>7, <3>2, <3>3
  <2>4. length \in Nat /\ n \in Nat
    BY <1>2, <1>6
  <2>5. i <= length \/ i > length
    BY <2>4
  <2> QED
    BY <2>2, <2>3, <2>5
<1>9. Held' = Held \o piece
  BY <1>6, <1>7, <1>8, SeqEqual
<1> QED
  BY <1>5, <1>9

(* Taking n bytes leaves the window that begins n bytes later.             *)
LEMMA TakenWindow ==
  ASSUME TypeOK, NEW n \in 0..length
  PROVE  SubSeq(Held, n + 1, Len(Held)) = SubSeq(str, readIndex + n + 1, writeIndex)
<1>1. /\ Held \in Seq(Bytes) /\ Len(Held) = length /\ length \in Nat
      /\ \A i \in 1..length : Held[i] = str[readIndex + i]
  BY HeldIs
<1>2. /\ str \in Seq(Bytes) /\ writeIndex \in 0..Len(str)
      /\ readIndex \in Nat /\ length = writeIndex - readIndex
  BY DEF TypeOK, length
<1> DEFINE r == readIndex + n
<1>3. /\ r \in 0..writeIndex /\ n \in Nat /\ writeIndex - r = length - n
      /\ n + (writeIndex - r) = Len(Held)
  BY <1>1, <1>2
<1>4. \A i \in 1..(writeIndex - r) : Held[n + i] = str[r + i]
  BY <1>1, <1>2, <1>3
<1> HIDE DEF r
<1>5. SubSeq(Held, n + 1, n + (writeIndex - r)) = SubSeq(str, r + 1, writeIndex)
  BY <1>1, <1>2, <1>3, <1>4, SameWindow
<1> QED
  BY <1>3, <1>5 DEF r

(* getUint and writeout take from the front.                               *)
LEMMA GetTakes ==
  ASSUME TypeOK, NEW n \in 0..length, Get(n)
  PROVE  TypeOK' /\ Held' = SubSeq(Held, n + 1, Len(Held))
<1>1. TypeOK'
  BY DEF TypeOK, Get, length
<1>2. Held' = SubSeq(str, readIndex + n + 1, writeIndex)
  BY DEF Held, Get
<1> QED
  BY <1>1, <1>2, TakenWindow

(* recycleSpace changes nothing that is held: it shrinks a vector of which *)
(* less than a fifth is in use.                                            *)
LEMMA RecycledKeeps ==
  ASSUME TypeOK, NEW r \in 0..writeIndex, Recycled(r),
         Len(str) > MINSIZE, (writeIndex - r) * 5 < Len(str)
  PROVE  TypeOK' /\ Held' = SubSeq(str, r + 1, writeIndex)
<1> DEFINE rest == writeIndex - r
           size == IF rest > MINSIZE THEN rest ELSE MINSIZE
<1>1. /\ str' = [i \in 1..size |-> IF i <= rest THEN str[r + i] ELSE str[i]]
      /\ readIndex' = 0 /\ writeIndex' = rest
  BY DEF Recycled
<1>2. /\ str \in Seq(Bytes) /\ Len(str) \in Nat /\ rest \in Nat
      /\ r \in Nat /\ r + rest = writeIndex /\ writeIndex <= Len(str)
      /\ MINSIZE \in Nat \ {0}
  BY BufferAssumption DEF TypeOK
<1>3. size \in Nat /\ rest <= size /\ MINSIZE <= size /\ size <= Len(str)
  BY <1>2
<1> HIDE DEF rest, size
<1>4. \A i \in 1..size : (IF i <= rest THEN str[r + i] ELSE str[i]) \in Bytes
  BY <1>2, <1>3
<1>5. /\ str' \in Seq(Bytes) /\ Len(str') = size
      /\ \A i \in 1..rest : str'[i] = str[r + i]
  BY <1>1, <1>2, <1>3, <1>4
<1>6. TypeOK'
  BY <1>1, <1>2, <1>3, <1>5 DEF TypeOK
<1>7. SubSeq(str', 0 + 1, 0 + (writeIndex - r)) = SubSeq(str, r + 1, writeIndex)
  <2>1. /\ writeIndex \in 0..Len(str) /\ 0 + (writeIndex - r) <= Len(str')
        /\ \A i \in 1..(writeIndex - r) : str'[0 + i] = str[r + i]
    BY <1>2, <1>3, <1>5 DEF TypeOK, rest
  <2> QED
    BY <1>2, <1>5, <2>1, SameWindow
<1>8. Held' = SubSeq(str', 0 + 1, 0 + (writeIndex - r))
  BY <1>1, <1>2 DEF Held, rest
<1> QED
  BY <1>6, <1>7, <1>8

(* getString takes from the front, recycled or not.                        *)
LEMMA GetStringTakes ==
  ASSUME TypeOK, NEW n \in 0..length, GetString(n)
  PROVE  TypeOK' /\ Held' = SubSeq(Held, n + 1, Len(Held))
<1> DEFINE r == readIndex + n
<1>1. r \in 0..writeIndex
  BY DEF TypeOK, length
<1>2. CASE /\ Len(str) > MINSIZE /\ (writeIndex - r) * 5 < Len(str)
           /\ Recycled(r)
  <2> HIDE DEF r
  <2>1. TypeOK' /\ Held' = SubSeq(str, r + 1, writeIndex)
    BY <1>1, <1>2, RecycledKeeps
  <2> QED
    BY <2>1, TakenWindow DEF r
<1>3. CASE readIndex' = r /\ UNCHANGED <<str, writeIndex>>
  <2>1. Get(n)
    BY <1>3 DEF Get
  <2> QED
    BY <2>1, GetTakes
<1> QED
  BY <1>2, <1>3 DEF GetString

----------------------------------------------------------------------------

(* A new buffer is empty.                                                  *)
LEMMA InitEmpty == Init => TypeOK /\ Abstract!Init
<1> SUFFICES ASSUME Init PROVE TypeOK /\ Abstract!Init
  OBVIOUS
<1>1. TypeOK
  BY BufferAssumption DEF Init, TypeOK
<1>2. Held = <<>>
  BY <1>1, HeldIs DEF Init, length
<1> QED
  BY <1>1, <1>2 DEF Abstract!Init

(* Every operation keeps the indices in order, and puts or takes.          *)
LEMMA NextQueue ==
  TypeOK /\ [Next]_vars => TypeOK' /\ [Abstract!Next]_Held
<1> SUFFICES ASSUME TypeOK, [Next]_vars
             PROVE  TypeOK' /\ [Abstract!Next]_Held
  OBVIOUS
<1>1. ASSUME NEW piece \in Pieces, In(piece)
      PROVE  TypeOK' /\ Abstract!Put(piece)
  <2>1. piece \in Seq(Bytes) /\ Len(piece) \in Nat /\ Fill(Len(piece), piece)
    BY <1>1, BufferAssumption DEF In
  <2> QED
    BY <2>1, FillPuts DEF Abstract!Put
<1>2. ASSUME NEW piece \in Pieces, NEW len \in 0..MaxAsked, Readin(len, piece)
      PROVE  TypeOK' /\ Abstract!Put(piece)
  <2>1. /\ piece \in Seq(Bytes) /\ len \in Nat /\ Len(piece) <= len
        /\ Fill(len, piece)
    BY <1>2, BufferAssumption DEF Readin
  <2> QED
    BY <2>1, FillPuts DEF Abstract!Put
<1>3. ASSUME NEW n \in 0..length, Get(n) \/ GetString(n)
      PROVE  TypeOK' /\ n \in 0..Len(Held) /\ Abstract!Take(n)
  <2>1. TypeOK' /\ Held' = SubSeq(Held, n + 1, Len(Held))
    BY <1>3, GetTakes, GetStringTakes
  <2>2. Len(Held) = length
    BY HeldIs
  <2> QED
    BY <2>1, <2>2 DEF Abstract!Take
<1>4. CASE UNCHANGED vars
  BY <1>4 DEF vars, TypeOK, Held
<1> QED
  BY <1>1, <1>2, <1>3, <1>4 DEF Next, Abstract!Next

(* The indices of a buffer are in order and inside its vector, which is    *)
(* never smaller than MINSIZE.                                             *)
THEOREM TypeCorrect == Spec => []TypeOK
<1>1. Init => TypeOK
  BY InitEmpty
<1>2. TypeOK /\ [Next]_vars => TypeOK'
  BY NextQueue
<1> QED
  BY <1>1, <1>2, PTL DEF Spec

(* Growing, shrinking and moving included, a buffer is a queue of bytes.   *)
THEOREM BufferIsByteQueue == Spec => IsByteQueue
<1>1. Init => Abstract!Init
  BY InitEmpty
<1>2. TypeOK /\ [Next]_vars => [Abstract!Next]_Held
  BY NextQueue
<1> QED
  BY <1>1, <1>2, TypeCorrect, PTL DEF Spec, IsByteQueue, Abstract!Spec
=============================================================================
