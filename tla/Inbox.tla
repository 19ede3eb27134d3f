------------------------------- MODULE Inbox -------------------------------
(***************************************************************************)
(* What lightim promises the recipient of a message.  A message that the   *)
(* server has accepted for a user may be received by that user and by      *)
(* nobody else; a message whose sender was told so (CONFIRM) is never      *)
(* withdrawn, and it is eventually received.                               *)
(*                                                                         *)
(* Where storing may fail the promise is weaker: the sender is told so for *)
(* a message that was not accepted, or the message goes out without an id. *)
(***************************************************************************)
EXTENDS Integers

CONSTANTS Users,      \* the recipients
          Msgs,       \* the message ids
          NoMsg,      \* stands for every message without one
          MayFail     \* the server may fail to store or to number a message

VARIABLES accepted,   \* accepted[u]: ids the server stored for u
          confirmed,  \* confirmed[u]: those whose sender was confirmed
          received    \* received[u]: those that reached u's client

vars == <<accepted, confirmed, received>>

----------------------------------------------------------------------------

Init == /\ accepted  = [u \in Users |-> {}]
        /\ confirmed = [u \in Users |-> {}]
        /\ received  = [u \in Users |-> {}]

(* The server takes message m for u; nobody has had that id before.        *)
Accept(u, m) == /\ \A v \in Users : m \notin accepted[v]
                /\ accepted' = [accepted EXCEPT ![u] = @ \cup {m}]
                /\ UNCHANGED received

(* It may confirm the message to its sender in that same step, or die.     *)
Submit(u, m) == /\ Accept(u, m)
                /\ \/ confirmed' = [confirmed EXCEPT ![u] = @ \cup {m}]
                   \/ UNCHANGED confirmed

(* It confirms a message that it has not stored, or whose id it has not    *)
(* been told.                                                              *)
Botch(u) == /\ MayFail
            /\ \/ \E m \in Msgs : Accept(u, m)
               \/ UNCHANGED <<accepted, received>>
            /\ confirmed' = [confirmed EXCEPT ![u] = @ \cup {NoMsg}]

Receive(u, m) == /\ m \in accepted[u] \/ (MayFail /\ m = NoMsg)
                 /\ received' = [received EXCEPT ![u] = @ \cup {m}]
                 /\ UNCHANGED <<accepted, confirmed>>

Next == \E u \in Users : \/ \E m \in Msgs : Submit(u, m)
                         \/ \E m \in Msgs \cup {NoMsg} : Receive(u, m)
                         \/ Botch(u)

Safety == Init /\ [][Next]_vars

(* A confirmed message is received, however often the recipient goes away. *)
Live == \A u \in Users, m \in Msgs : m \in confirmed[u] ~> m \in received[u]
=============================================================================
