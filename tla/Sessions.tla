------------------------------ MODULE Sessions ------------------------------
(***************************************************************************)
(* Handoff with two history variables for what spoils the sessions of      *)
(* users: a login while the loops' threads are still starting, and a       *)
(* second LOGIN_IN on a connection that has a user.  What holds until the  *)
(* first, and on the connections that have not done the second.            *)
(***************************************************************************)
EXTENDS Handoff

VARIABLES
  early,   \* somebody has logged in before all loops were in ploops (history)
  again    \* the connections that have sent LOGIN_IN with a user (history)

all == <<vars, early, again>>

----------------------------------------------------------------------------

(* LoopOf still changes when a user is listed under it                     *)
(* (EventLoopThreadManager.cpp:27,34).                                     *)
EarlyLogin == started < NLoops /\ sid' # sid

(* handleLoginIn does not ask whether the session has a user already       *)
(* (TcpSession.cpp:192).                                                   *)
SecondLogin(c) == sid[c] # 0 /\ logins'[c] # logins[c]

Noted == /\ early' = (early \/ EarlyLogin)
         /\ again' = again \cup {c \in Conns : SecondLogin(c)}

NotedInit == Init /\ early = FALSE /\ again = {}

NotedNext == \/ StartLoop /\ Noted
             \/ Accepted /\ Noted
             \/ \E c \in Conns : \/ Accept(c) /\ Noted
                                 \/ Hangup(c) /\ Noted
                                 \/ \E u \in Users : SendLogin(c, u) /\ Noted
             \/ \E l \in Loops : \/ Poll(l) /\ Noted
                                 \/ Swap(l) /\ Noted
             \/ \E l \in Loops, c \in Conns : \/ HandleFrame(l, c) /\ Noted
                                              \/ HandleClose(l, c) /\ Noted
                                              \/ RunAddIOEM(l, c) /\ Noted
                                              \/ RunEstablished(l, c) /\ Noted
                                              \/ RunAddTcpConn(l, c) /\ Noted
                                              \/ RunLogin(l, c) /\ Noted

NotedSpec == NotedInit /\ [][NotedNext]_all

FairNotedSpec == NotedSpec /\ Fairness

----------------------------------------------------------------------------
(* Properties.                                                             *)

(* Unless somebody logs in early, no user is logged in on two connections, *)
(* though clients log in again as somebody else and are moved about.       *)
OneSession == early \/ SingleSession

(* Unless somebody logs in early, the connection of a user is listed under *)
(* him on his loop from the moment he is logged in until it closes or logs *)
(* in as somebody else: also while that second LOGIN_IN is moving it, and  *)
(* whoever else asks for the same id (TcpSession.cpp:180-193).             *)
UserIsListed ==
  ~early =>
    \A c \in Conns : fd[c] = "open" /\ sid[c] # 0 =>
      id2conn[LoopOf(sid[c])][sid[c]] = c

(* .. and a connection that has not sent LOGIN_IN again is owned by the    *)
(* loop that lists it, where forwarders call it (TcpServer.cpp:36), and is *)
(* listed nowhere else.                                                    *)
FoundAtOwner ==
  ~early =>
    \A c \in Conns \ again :
      /\ fd[c] = "open" /\ sid[c] # 0 =>
           LoopOf(sid[c]) = ploop[c] /\ c \in pTcpConns[ploop[c]]
      /\ \A l \in Loops, u \in Users :
           id2conn[l][u] = c => l = LoopOf(u) /\ sid[c] = u
=============================================================================
