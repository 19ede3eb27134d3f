------------------------------ MODULE Mishaps ------------------------------
(***************************************************************************)
(* Delivery with one more history variable: the recipients whom a step has *)
(* met that can cost them a message.  What everybody else is promised does *)
(* not depend on it.                                                       *)
(***************************************************************************)
EXTENDS Delivery

VARIABLE struck   \* the users met by a mishap so far (history)

all == <<vars, struck>>

----------------------------------------------------------------------------

(* chat or addFriend sends to a session that has not loaded its backlog:   *)
(* they ask for a connection and not, as agreeFriend does, for getid() > 0 *)
(* (TcpServer.cpp:51,80,110).                                              *)
Early(u) == session[u] = "login" /\ (Chat(u) \/ AddFriend(u))

(* A statement is rejected in a handler other than leave().                *)
Rejected(u) == \/ /\ faults' # faults
                  /\ \/ Chat(u) \/ AddFriend(u) \/ AgreeFriend(u)
                     \/ Login(u) \/ GetFriends(u)
               \/ CrashUnnumbered(u)

MishapOf(u) == Early(u) \/ Rejected(u)

Noted == struck' = struck \cup {u \in Users : MishapOf(u)}

NotedInit == Init /\ struck = {}

NotedNext == \/ Crash /\ Noted
             \/ \E u \in Users : \/ Chat(u) /\ Noted
                                 \/ AddFriend(u) /\ Noted
                                 \/ AgreeFriend(u) /\ Noted
                                 \/ Login(u) /\ Noted
                                 \/ GetFriends(u) /\ Noted
                                 \/ HandleConfirm(u) /\ Noted
                                 \/ Close(u) /\ Noted
                                 \/ CloseUnsaved(u) /\ Noted
                                 \/ CrashInForward(u) /\ Noted
                                 \/ CrashUnnumbered(u) /\ Noted
                                 \/ GetFriendsAgain(u) /\ Noted
                                 \/ ClientReceive(u) /\ Noted

NotedSpec == NotedInit /\ [][NotedNext]_all

FairNotedSpec == NotedSpec /\ Fairness

----------------------------------------------------------------------------
(* What recipients other than those still have.                            *)

(* Nothing confirmed is lost: it has been received, is on its way or will  *)
(* be loaded, and the saved watermark does not hide it.                    *)
OthersLoseNothing ==
  \A u \in Users \ struck :
    /\ Owed(u) \subseteq Pending(u)
    /\ \A n \in confirmed[u] : n <= stored[u] => n \in received[u]

(* A session gets each message once and in the order of ids, whatever      *)
(* mixture of chat, addFriend and agreeFriend sends it, and whatever is    *)
(* rejected or comes early for others.                                     *)
OthersInOrder ==
  \A u \in Users \ struck :
    Loaded(u) => Increasing(<<lastRecv[u]>> \o acks[u] \o wire[u])
=============================================================================
