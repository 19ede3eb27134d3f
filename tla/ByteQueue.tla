----------------------------- MODULE ByteQueue -----------------------------
(***************************************************************************)
(* What a Buffer promises: bytes come out in the order in which they were  *)
(* put in, none lost, none twice.                                          *)
(***************************************************************************)
EXTENDS Integers, Sequences

CONSTANT Pieces      \* what is put in at once: sequences of bytes

VARIABLE queue

Init == queue = <<>>

Put(piece) == queue' = queue \o piece

Take(n) == /\ n \in 0..Len(queue)
           /\ queue' = SubSeq(queue, n + 1, Len(queue))

Next == \/ \E piece \in Pieces : Put(piece)
        \/ \E n \in 0..Len(queue) : Take(n)

Spec == Init /\ [][Next]_queue
=============================================================================
