------------------------------- MODULE IdSeqs -------------------------------
(* Sequences of message ids: what is in them and whether it is in order.   *)
EXTENDS Integers, Sequences, FiniteSets

Elements(s) == {s[i] : i \in DOMAIN s}

Increasing(s) == \A i, j \in DOMAIN s : i < j => s[i] < s[j]

(* S in increasing order (the one sequence there is, for a finite S).      *)
InIdOrder(S) == {s \in [1..Cardinality(S) -> S] :
                   Increasing(s) /\ Elements(s) = S}
=============================================================================
