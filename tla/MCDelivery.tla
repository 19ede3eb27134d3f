----------------------------- MODULE MCDelivery -----------------------------
(* Mishaps, and with it Delivery, for TLC.                                 *)
EXTENDS Mishaps, TLC

(* Users are interchangeable.                                              *)
Symmetry == Permutations(Users)
=============================================================================
