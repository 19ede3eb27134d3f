------------------------------- MODULE Mailbox -------------------------------
(***************************************************************************)
(* What an EventLoop promises to those who hand it tasks: each one runs    *)
(* once, on the loop's thread, in the order in which they were handed      *)
(* over, those of one call together; what the loop's own thread hands over *)
(* runs at once.                                                           *)
(***************************************************************************)
EXTENDS IdSeqs

CONSTANTS Loops,     \* the event loops, each with its thread
          Batches    \* what can be handed over in one call

VARIABLES box,       \* box[l]: handed to l and not yet run
          executed   \* executed[l]: run by l, in order

vars == <<box, executed>>

----------------------------------------------------------------------------

Init == /\ box = [l \in Loops |-> <<>>]
        /\ executed = [l \in Loops |-> <<>>]

(* The tasks of a call are new.                                            *)
Fresh(batch) == \A l \in Loops :
                  Elements(batch) \cap (Elements(box[l]) \cup Elements(executed[l])) = {}

Post(l, batch) == /\ box' = [box EXCEPT ![l] = @ \o batch]
                  /\ UNCHANGED executed

RunAtOnce(l, batch) == /\ executed' = [executed EXCEPT ![l] = @ \o batch]
                       /\ UNCHANGED box

RunFirst(l) == /\ box[l] # <<>>
               /\ executed' = [executed EXCEPT ![l] = Append(@, Head(box[l]))]
               /\ box' = [box EXCEPT ![l] = Tail(@)]

Next == \E l \in Loops : \/ RunFirst(l)
                         \/ \E batch \in Batches :
                                Fresh(batch) /\ (Post(l, batch) \/ RunAtOnce(l, batch))

Safety == Init /\ [][Next]_vars
=============================================================================
