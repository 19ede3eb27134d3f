------------------------------ MODULE Journal ------------------------------
(***************************************************************************)
(* What a log promises: entries are written in the order in which they     *)
(* were logged, each once; a FATAL one is the last, and ends the process.  *)
(***************************************************************************)
EXTENDS Integers, Sequences

CONSTANTS Entries,   \* what may be logged
          Fatal(_)   \* the entries that end the process

VARIABLES logged,    \* the entries logged, in order
          written,   \* the entries written
          dead       \* the process has ended

Init == logged = <<>> /\ written = <<>> /\ dead = FALSE

Log(e) == /\ ~dead
          /\ logged' = Append(logged, e)
          /\ UNCHANGED <<written, dead>>

Write == LET next == logged[Len(written) + 1]
         IN  /\ ~dead /\ Len(written) < Len(logged)
             /\ written' = Append(written, next)
             /\ dead' = Fatal(next)
             /\ UNCHANGED logged

Next == Write \/ \E e \in Entries : Log(e)

Spec == Init /\ [][Next]_<<logged, written, dead>>
=============================================================================
