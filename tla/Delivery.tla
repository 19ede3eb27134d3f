------------------------------ MODULE Delivery ------------------------------
(***************************************************************************)
(* How lightim gets a message to its recipient and keeps it while the      *)
(* recipient is away: the forwarding handlers of TcpServer, the session    *)
(* state of TcpSession (LOGIN_IN, GET_FRIENDS, CONFIRM), the MySQL tables  *)
(* behind DataManager and the Redis list behind MsgCache.                  *)
(*                                                                         *)
(* Everything that concerns recipient u runs on the event loop             *)
(* ploops[u % n]: the forwarding handlers are queued there and u's own     *)
(* connection was moved there by LOGIN_IN.  Each handler is therefore one  *)
(* step, except where the process may die inside it.                       *)
(*                                                                         *)
(* A message is its msgid, the auto_increment value of its send_msg row;   *)
(* 0 is the msgid of every message whose insert failed or whose id could   *)
(* not be read: the server tells such messages as little apart as this     *)
(* model does.                                                             *)
(***************************************************************************)
EXTENDS IdSeqs

CONSTANTS
  Users,        \* recipients
  Kinds,        \* the requests senders make: "TO_SB", "ADD_SB", "AGREE_SB"
  Faults,       \* what may go wrong: see FaultKinds
  MaxMsg,       \* bound: rows ever inserted into send_msg
  MaxFaults,    \* bound: in how many steps something goes wrong
  IdMod         \* 2^32: getMsgsById takes its two bounds as uint32_t

FaultKinds == {"close",   \* a client's connection ends
               "crash",   \* the server process dies
               "sql",     \* a statement is rejected by MySQL
               "redis",   \* a command is answered with an error by Redis
               "again"}   \* a client sends GET_FRIENDS a second time

ASSUME DeliveryAssumption ==
         /\ Kinds \subseteq {"TO_SB", "ADD_SB", "AGREE_SB"}
         /\ Faults \subseteq FaultKinds
         /\ MaxMsg \in Nat /\ MaxFaults \in Nat /\ IdMod \in Nat \ {0}

Ids  == 1..MaxMsg
Ids0 == 0..MaxMsg

VARIABLES
  nextId,     \* the next auto_increment value of send_msg
  rows,       \* rows[u]: ids of the send_msg rows with to_id = u
  stored,     \* stored[u]: user.lastRecvMsgId
  cache,      \* cache[u]: the Redis list "u<id>"
  session,    \* session[u]: no connection / logged in / has sent GET_FRIENDS
  lastRecv,   \* lastRecv[u]: TcpSession::lastRecvMsgId of u's session
  wire,       \* wire[u]: sent on u's connection and not yet received
  acks,       \* acks[u]: CONFIRMs of u's client not yet handled
  received,   \* received[u]: ids u's client has received   (history)
  confirmed,  \* confirmed[u]: ids confirmed to their sender (history)
  faults      \* in how many steps something has gone wrong

tables == <<nextId, rows, stored>>
conn   == <<session, lastRecv, wire, acks>>
vars   == <<nextId, rows, stored, cache, session, lastRecv, wire, acks,
            received, confirmed, faults>>

TypeOK == /\ nextId \in 1..(MaxMsg + 1)
          /\ rows \in [Users -> SUBSET Ids]
          /\ stored \in [Users -> Ids0]
          /\ cache \in [Users -> Seq(Ids0)]
          /\ session \in [Users -> {"none", "login", "active"}]
          /\ lastRecv \in [Users -> Ids0]
          /\ wire \in [Users -> Seq(Ids0)]
          /\ acks \in [Users -> Seq(Ids0)]
          /\ received \in [Users -> SUBSET Ids0]
          /\ confirmed \in [Users -> SUBSET Ids0]
          /\ faults \in 0..MaxFaults

Init == /\ nextId = 1
        /\ rows = [u \in Users |-> {}]
        /\ stored = [u \in Users |-> 0]
        /\ cache = [u \in Users |-> <<>>]
        /\ session = [u \in Users |-> "none"]
        /\ lastRecv = [u \in Users |-> 0]
        /\ wire = [u \in Users |-> <<>>]
        /\ acks = [u \in Users |-> <<>>]
        /\ received = [u \in Users |-> {}]
        /\ confirmed = [u \in Users |-> {}]
        /\ faults = 0

----------------------------------------------------------------------------
(* Faults.                                                                 *)

Goes(kind) == /\ kind \in Faults
              /\ faults < MaxFaults
              /\ faults' = faults + 1

NoFault == UNCHANGED faults

(* Which of MySQL and Redis reject something in a handler: the handler     *)
(* counts once, whatever is rejected in it.                                *)
Rejections == SUBSET (Faults \cap {"sql", "redis"})

Fails(failed) == \/ failed = {} /\ NoFault
                 \/ \E kind \in failed : Goes(kind)

----------------------------------------------------------------------------
(* DataManager: the send_msg table.                                        *)

InsertRow(u) == /\ nextId <= MaxMsg
                /\ rows' = [rows EXCEPT ![u] = @ \cup {nextId}]
                /\ nextId' = nextId + 1

(* Mutant: the id of the insert before this one is returned.               *)
AddSendMsgStale(u, id, failed) == /\ InsertRow(u)
                                  /\ id = nextId - 1 /\ "sql" \notin failed

(* addSendMsg(u, ..) returns id: insert the row, then ask for its id.      *)
AddSendMsg(u, id, failed) ==
  \/ InsertRow(u) /\ id = nextId /\ "sql" \notin failed
  \/ InsertRow(u) /\ id = 0 /\ "sql" \in failed   \* SELECT LAST_INSERT_ID()
  \/ /\ id = 0 /\ "sql" \in failed              \* insert into send_msg
     /\ UNCHANGED <<nextId, rows>>

Uint32(i) == i % IdMod

(* Mutant: the row after startid is taken for one that was received.       *)
MsgsByIdSkips(u, startid, endid) ==
  {n \in rows[u] : /\ n > Uint32(startid) + 1
                   /\ Uint32(endid) = 0 \/ n < Uint32(endid)}

(* getMsgsById(u, .., startid, endid): both bounds are exclusive, they are *)
(* cut to 32 bits by the call, and an endid of 0 means no bound.           *)
MsgsById(u, startid, endid) ==
  {n \in rows[u] : /\ n > Uint32(startid)
                   /\ Uint32(endid) = 0 \/ n < Uint32(endid)}

----------------------------------------------------------------------------
(* TcpServer: forwarding a message to user u, on the loop of u.  A sender  *)
(* whose addMsg fails gets no confirmation and nothing changes.            *)

(* getConnById(u).lock() is not null.                                      *)
Connected(u) == session[u] # "none"

(* .. and getid() > 0: u has loaded its backlog.                           *)
Loaded(u) == session[u] = "active"

(* sendMsg on u's connection, or push on u's Redis list; what push returns *)
(* is ignored.                                                             *)
SendOrPush(u, id, direct, failed) ==
  \/ /\ direct /\ "redis" \notin failed
     /\ wire' = [wire EXCEPT ![u] = Append(@, id)]
     /\ UNCHANGED cache
  \/ /\ ~direct /\ "redis" \notin failed
     /\ cache' = [cache EXCEPT ![u] = Append(@, id)]
     /\ UNCHANGED wire
  \/ /\ ~direct /\ "redis" \in failed
     /\ UNCHANGED <<cache, wire>>

(* confirmCallback(), called whatever addSendMsg and push returned: the    *)
(* sender of a message that was never stored is told the same.             *)
Confirm(u, id) ==
  confirmed' = [confirmed EXCEPT ![u] = @ \cup {id}]

Forward(u, direct) ==
  /\ \E failed \in Rejections, id \in Ids0 :
       /\ AddSendMsg(u, id, failed)
       /\ SendOrPush(u, id, direct, failed)
       /\ Confirm(u, id)
       /\ Fails(failed)
  /\ UNCHANGED <<stored, session, lastRecv, acks, received>>

(* Mutant: agreeFriend asks what chat and addFriend ask, getid() is not    *)
(* looked at.                                                              *)
AgreeFriendAsChat(u) == "AGREE_SB" \in Kinds /\ Forward(u, Connected(u))

Chat(u)        == "TO_SB"    \in Kinds /\ Forward(u, Connected(u))
AddFriend(u)   == "ADD_SB"   \in Kinds /\ Forward(u, Connected(u))
AgreeFriend(u) == "AGREE_SB" \in Kinds /\ Forward(u, Loaded(u))

----------------------------------------------------------------------------
(* TcpSession of user u.                                                   *)

(* Mutant: the watermark is not read at login.                             *)
LoginForgets(u) ==
  /\ ~Connected(u)
  /\ session' = [session EXCEPT ![u] = "login"]
  /\ lastRecv' = [lastRecv EXCEPT ![u] = 0]
  /\ UNCHANGED <<nextId, rows, stored, cache, wire, acks, received, confirmed,
                 faults>>

(* handleLoginIn, when no live connection is registered for u.             *)
Login(u) ==
  /\ ~Connected(u)
  /\ session' = [session EXCEPT ![u] = "login"]
  /\ \/ lastRecv' = [lastRecv EXCEPT ![u] = stored[u]] /\ NoFault
     \/ lastRecv' = [lastRecv EXCEPT ![u] = 0] /\ Goes("sql")
  /\ UNCHANGED <<nextId, rows, stored, cache, wire, acks, received, confirmed>>

(* Mutant: the select has no upper bound.                                  *)
BacklogUnbounded(u) == MsgsById(u, lastRecv[u], 0)

(* Mutant: a list that is not empty is taken for the whole backlog.        *)
BacklogIfNoCache(u) == IF cache[u] = <<>> THEN MsgsById(u, lastRecv[u], 0) ELSE {}

(* The first half of loadCache: the rows above lastRecvMsgId and below the *)
(* head of the list.                                                       *)
Before(u) == IF cache[u] = <<>> THEN 0 ELSE Head(cache[u])

Backlog(u) == MsgsById(u, lastRecv[u], Before(u))

(* Mutant: the list is sent and not deleted.                               *)
LoadCacheKeeps(u) ==
  /\ \E s \in InIdOrder(Backlog(u)) :
       wire' = [wire EXCEPT ![u] = @ \o s \o cache[u]]
  /\ UNCHANGED cache
  /\ NoFault

(* loadCache when every statement succeeds: rows, then list, list deleted. *)
LoadCache(u) ==
  /\ \E s \in InIdOrder(Backlog(u)) :
       wire' = [wire EXCEPT ![u] = @ \o s \o cache[u]]
  /\ cache' = [cache EXCEPT ![u] = <<>>]
  /\ NoFault

(* What may stand for the head of the list: with lindex rejected, msgid is *)
(* uninitialised; with the first llen, the list counts as empty.           *)
Bounds(u, failed) ==
  IF "redis" \in failed /\ cache[u] # <<>> THEN Ids0 ELSE {Before(u)}

(* The second half: what is sent and what stays in Redis.  With the second *)
(* llen or lrange rejected nothing is sent, with del the list stays.       *)
Unlisted(u, failed) ==
  {[sent |-> cache[u], left |-> <<>>]} \cup
  IF "redis" \in failed
  THEN {[sent |-> <<>>, left |-> cache[u]], [sent |-> cache[u], left |-> cache[u]]}
  ELSE {}

(* loadCache when something is rejected; a rejected select has no rows.    *)
LoadCacheFails(u) ==
  \E failed \in Rejections \ {{}} :
    /\ Fails(failed)
    /\ \E msgid \in Bounds(u, failed), list \in Unlisted(u, failed) :
       \E s \in InIdOrder(IF "sql" \in failed THEN {}
                          ELSE MsgsById(u, lastRecv[u], msgid)) :
         /\ wire' = [wire EXCEPT ![u] = @ \o s \o list.sent]
         /\ cache' = [cache EXCEPT ![u] = list.left]

(* handleGetFriends: reply, load the backlog, setid(id).                   *)
GetFriends(u) ==
  /\ session[u] = "login"
  /\ LoadCache(u) \/ LoadCacheFails(u)
  /\ session' = [session EXCEPT ![u] = "active"]
  /\ UNCHANGED <<nextId, rows, stored, lastRecv, acks, received, confirmed>>

(* Mutant: the next id expected is kept instead of the last one received.  *)
HandleConfirmNext(u) ==
  /\ acks[u] # <<>>
  /\ lastRecv' = [lastRecv EXCEPT ![u] = Head(acks[u]) + 1]
  /\ acks' = [acks EXCEPT ![u] = Tail(@)]
  /\ UNCHANGED <<nextId, rows, stored, cache, session, wire, received,
                 confirmed, faults>>

(* handleConfirm: the CONFIRM that arrives sets lastRecvMsgId.             *)
HandleConfirm(u) ==
  /\ acks[u] # <<>>
  /\ lastRecv' = [lastRecv EXCEPT ![u] = Head(acks[u])]
  /\ acks' = [acks EXCEPT ![u] = Tail(@)]
  /\ UNCHANGED <<nextId, rows, stored, cache, session, wire, received,
                 confirmed, faults>>

(* The connection goes, and with it what was in its buffers.               *)
Gone(u) == /\ session' = [session EXCEPT ![u] = "none"]
           /\ lastRecv' = [lastRecv EXCEPT ![u] = 0]
           /\ wire' = [wire EXCEPT ![u] = <<>>]
           /\ acks' = [acks EXCEPT ![u] = <<>>]

(* Mutant: leave() saves what was sent last.                               *)
CloseSavesSent(u) ==
  /\ Connected(u)
  /\ Goes("close")
  /\ stored' = IF Loaded(u) /\ wire[u] # <<>>
               THEN [stored EXCEPT ![u] = wire[u][Len(wire[u])]] ELSE stored
  /\ Gone(u)
  /\ UNCHANGED <<nextId, rows, cache, received, confirmed>>

(* TcpConnection::handleClose: leave() once getid() is set.                *)
Close(u) ==
  /\ Connected(u)
  /\ Goes("close")
  /\ stored' = IF Loaded(u) THEN [stored EXCEPT ![u] = lastRecv[u]] ELSE stored
  /\ Gone(u)
  /\ UNCHANGED <<nextId, rows, cache, received, confirmed>>

(* .. and its update of lastRecvMsgId rejected.                            *)
CloseUnsaved(u) ==
  /\ Loaded(u)
  /\ Goes("sql")
  /\ Gone(u)
  /\ UNCHANGED <<tables, cache, received, confirmed>>

----------------------------------------------------------------------------
(* The process.                                                            *)

(* It dies: no leave() runs, MySQL and Redis survive.                      *)
Dies == /\ session' = [u \in Users |-> "none"]
        /\ lastRecv' = [u \in Users |-> 0]
        /\ wire' = [u \in Users |-> <<>>]
        /\ acks' = [u \in Users |-> <<>>]

Crash == /\ Goes("crash")
         /\ Dies
         /\ UNCHANGED <<tables, cache, received, confirmed>>

(* A handler forwards to the list of u: every kind does when u has no      *)
(* connection, agreeFriend also before GET_FRIENDS.                        *)
Pushes(u) == ~Connected(u) \/ (~Loaded(u) /\ "AGREE_SB" \in Kinds)

(* It dies inside a forwarding handler: the row is there, the list may not *)
(* have the message yet, the sender has no answer.                         *)
CrashInForward(u) ==
  /\ Goes("crash")
  /\ InsertRow(u)
  /\ \/ UNCHANGED cache
     \/ Pushes(u) /\ cache' = [cache EXCEPT ![u] = Append(@, nextId)]
  /\ Dies
  /\ UNCHANGED <<stored, received, confirmed>>

(* .. after addSendMsg has failed there: the list has a message without id.*)
CrashUnnumbered(u) ==
  /\ Goes("crash") /\ "sql" \in Faults
  /\ AddSendMsg(u, 0, {"sql"})
  /\ Pushes(u) /\ cache' = [cache EXCEPT ![u] = Append(@, 0)]
  /\ Dies
  /\ UNCHANGED <<stored, received, confirmed>>

(* A second GET_FRIENDS: loadCache again, then exit(1).                    *)
GetFriendsAgain(u) ==
  /\ Loaded(u)
  /\ Goes("again")
  /\ cache' = [cache EXCEPT ![u] = <<>>]
  /\ Dies
  /\ UNCHANGED <<tables, received, confirmed>>

----------------------------------------------------------------------------
(* u's client takes the next message off its connection and confirms it.   *)

ClientReceive(u) ==
  /\ wire[u] # <<>>
  /\ received' = [received EXCEPT ![u] = @ \cup {Head(wire[u])}]
  /\ acks' = [acks EXCEPT ![u] = Append(@, Head(wire[u]))]
  /\ wire' = [wire EXCEPT ![u] = Tail(@)]
  /\ UNCHANGED <<tables, cache, session, lastRecv, confirmed, faults>>

----------------------------------------------------------------------------

Next == \/ Crash
        \/ \E u \in Users : \/ Chat(u) \/ AddFriend(u) \/ AgreeFriend(u)
                            \/ Login(u) \/ GetFriends(u) \/ HandleConfirm(u)
                            \/ Close(u) \/ CloseUnsaved(u)
                            \/ CrashInForward(u) \/ CrashUnnumbered(u)
                            \/ GetFriendsAgain(u) \/ ClientReceive(u)

Spec == Init /\ [][Next]_vars

(* Loops poll for ever, so a frame that has arrived is handled and bytes   *)
(* that were sent are delivered; a client that is away logs in again.      *)
Fairness == \A u \in Users : /\ WF_vars(Login(u))
                             /\ WF_vars(GetFriends(u))
                             /\ WF_vars(ClientReceive(u))
                             /\ WF_vars(HandleConfirm(u))

FairSpec == Spec /\ Fairness

----------------------------------------------------------------------------
(* Properties.                                                             *)

Owed(u) == confirmed[u] \ received[u]

(* What u's client is going to be sent without anybody doing anything new: *)
(* what is on its connection or, before GET_FRIENDS, what that would load. *)
Pending(u) ==
  LET from == IF Connected(u) THEN lastRecv[u] ELSE stored[u]
  IN  Elements(wire[u]) \cup
      IF Loaded(u) THEN {}
      ELSE Elements(cache[u]) \cup MsgsById(u, from, Before(u))

(* A message whose sender was confirmed and that its recipient has not     *)
(* received is on the way or will be loaded: loadCache takes exactly what  *)
(* the table has and the list has not (TcpSession.cpp:296-321).            *)
NoLoss == \A u \in Users : Owed(u) \subseteq Pending(u)

(* The watermark saved by leave() never passes a confirmed message that    *)
(* its recipient has not received: such a message would never be loaded.   *)
WatermarkCovers ==
  \A u \in Users : \A n \in confirmed[u] : n <= stored[u] => n \in received[u]

(* During a session the client gets each message once and in the order of  *)
(* ids, the last one confirmed before the ones on their way.               *)
InOrder ==
  \A u \in Users :
    Loaded(u) => Increasing(<<lastRecv[u]>> \o acks[u] \o wire[u])

(* What leave() saves is an id this client has really received.            *)
StoredIsReceived == \A u \in Users : stored[u] \in received[u] \cup {0}

(* Nothing that the saved watermark covers is sent again: what leave() has *)
(* saved is the end of it, whatever the list still holds.                  *)
SavedNotResent == \A u \in Users : \A n \in Elements(wire[u]) : stored[u] < n

(* No login, crash or close moves a user's saved watermark back.           *)
StoredMonotone == [][\A u \in Users : stored[u] <= stored'[u]]_vars

Abstract == INSTANCE Inbox WITH Msgs <- Ids, NoMsg <- 0, accepted <- rows,
                                MayFail <- "sql" \in Faults

(* The server keeps its promise to senders and recipients: nobody gets     *)
(* another user's message, what was confirmed stays so, and unless MySQL   *)
(* may reject statements only messages that were stored are confirmed.     *)
KeepsPromise == Abstract!Safety

(* .. and a confirmed message is received in the end.                      *)
EventuallyReceived == Abstract!Live
=============================================================================
