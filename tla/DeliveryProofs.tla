--------------------------- MODULE DeliveryProofs ---------------------------
(***************************************************************************)
(* What Delivery guarantees whatever goes wrong: for every set of users,   *)
(* requests and faults and every bound, the types are right, a saved       *)
(* watermark is an id the client received, and the server's steps are      *)
(* steps of Inbox.  Then: why a user whom no mishap has met loses nothing  *)
(* that was confirmed and is served in order; and why there are no mishaps *)
(* when the only requests are AGREE_SB and no statement is rejected.       *)
(***************************************************************************)
EXTENDS Mishaps, IdSeqTheorems

(* Row ids are below the counter, so a new one is nobody's.                *)
RowsBelowNext == \A u \in Users : \A n \in rows[u] : n < nextId

(* The id of a message without one, where there can be such messages.      *)
NoId == {i \in {0} : "sql" \in Faults}

(* What is sent or put aside for u, and what is confirmed to a sender, is  *)
(* in u's rows, or carries no id.                                          *)
SentHasRow ==
  \A u \in Users : /\ Elements(wire[u]) \subseteq rows[u] \cup NoId
                   /\ Elements(cache[u]) \subseteq rows[u] \cup NoId
                   /\ confirmed[u] \subseteq rows[u] \cup NoId

(* What u's client confirms it has received.                               *)
AckedIsReceived ==
  \A u \in Users : /\ Elements(acks[u]) \subseteq received[u] \cup {0}
                   /\ lastRecv[u] \in received[u] \cup {0}

Inv == /\ TypeOK
       /\ RowsBelowNext
       /\ SentHasRow
       /\ AckedIsReceived
       /\ StoredIsReceived

----------------------------------------------------------------------------
(* The shapes the actions are made of.                                     *)

(* An insert keeps the types of the table and adds the next id.            *)
LEMMA InsertRowType ==
  ASSUME TypeOK, NEW u \in Users, InsertRow(u)
  PROVE  /\ nextId' \in 1..(MaxMsg + 1)
         /\ rows' \in [Users -> SUBSET Ids]
         /\ nextId \in Ids
         /\ rows'[u] = rows[u] \cup {nextId}
         /\ \A v \in Users : rows[v] \subseteq rows'[v]
         /\ \A v \in Users \ {u} : rows'[v] = rows[v]
         /\ nextId' = nextId + 1
  BY DeliveryAssumption DEF TypeOK, InsertRow, Ids

(* An insert leaves every row below the new nextId.                        *)
LEMMA InsertRowBelow ==
  ASSUME TypeOK, RowsBelowNext, NEW u \in Users, InsertRow(u)
  PROVE  RowsBelowNext'
<1> SUFFICES ASSUME NEW v \in Users, NEW n \in rows'[v]
             PROVE  n < nextId'
  BY DEF RowsBelowNext
<1>1. nextId \in Int /\ nextId' = nextId + 1
  BY DEF TypeOK, InsertRow
<1>2. n \in rows[v] \/ n = nextId
  BY InsertRowType
<1>3. n \in rows[v] => n \in Int /\ n < nextId
  BY DEF TypeOK, RowsBelowNext, Ids
<1> QED
  BY <1>1, <1>2, <1>3

(* Counting a fault keeps its bound.                                       *)
LEMMA GoesType ==
  ASSUME TypeOK, NEW k, Goes(k)
  PROVE  faults' \in 0..MaxFaults
  BY DeliveryAssumption DEF TypeOK, Goes

(* A backlog is a finite set of u's rows, whatever the bounds.             *)
LEMMA MsgsByIdType ==
  ASSUME TypeOK, NEW u \in Users, NEW a, NEW b
  PROVE  /\ MsgsById(u, a, b) \subseteq rows[u]
         /\ IsFiniteSet(MsgsById(u, a, b))
<1>1. MsgsById(u, a, b) \subseteq rows[u] /\ rows[u] \subseteq 1..MaxMsg
  BY DEF MsgsById, TypeOK, Ids
<1>2. IsFiniteSet(1..MaxMsg)
  BY DeliveryAssumption, FS_Interval
<1> QED
  BY <1>1, <1>2, FS_Subset

(* A handler that fails or not counts as the bound allows.                 *)
LEMMA FailsType ==
  ASSUME TypeOK, NEW failed, Fails(failed)
  PROVE  faults' \in 0..MaxFaults
<1>1. CASE NoFault
  BY <1>1 DEF TypeOK, NoFault
<1>2. ASSUME NEW kind \in failed, Goes(kind) PROVE faults' \in 0..MaxFaults
  BY <1>2, GoesType
<1> QED
  BY <1>1, <1>2 DEF Fails

(* addSendMsg, in terms of what it leaves behind.                          *)
LEMMA AddSendMsgType ==
  ASSUME Inv, NEW u \in Users, NEW id, NEW failed \in Rejections,
         AddSendMsg(u, id, failed)
  PROVE  /\ nextId' \in 1..(MaxMsg + 1)
         /\ rows' \in [Users -> SUBSET Ids]
         /\ \A v \in Users : rows[v] \subseteq rows'[v]
         /\ RowsBelowNext'
         /\ id \in rows'[u] \cup NoId
         /\ id \in Ids0
<1>1. CASE InsertRow(u) /\ id = nextId
  BY <1>1, InsertRowType, InsertRowBelow DEF Inv, TypeOK, Ids, Ids0
<1>2. ASSUME id = 0, "sql" \in failed PROVE id \in NoId /\ id \in Ids0
  BY <1>2, DeliveryAssumption DEF Rejections, NoId, Ids0
<1>3. CASE InsertRow(u) /\ id = 0 /\ "sql" \in failed
  BY <1>2, <1>3, InsertRowType, InsertRowBelow DEF Inv
<1>4. CASE id = 0 /\ "sql" \in failed /\ UNCHANGED <<nextId, rows>>
  BY <1>2, <1>4 DEF Inv, RowsBelowNext, TypeOK
<1> QED
  BY <1>1, <1>3, <1>4 DEF AddSendMsg

----------------------------------------------------------------------------
(* Each action keeps the invariant.                                        *)

(* chat, addFriend and agreeFriend, direct or not, keep the invariant.     *)
LEMMA ForwardStep ==
  ASSUME Inv, NEW u \in Users, NEW d \in BOOLEAN, Forward(u, d)
  PROVE  Inv'
<1> USE DEF Inv
<1> PICK failed \in Rejections, id \in Ids0 :
           /\ AddSendMsg(u, id, failed)
           /\ SendOrPush(u, id, d, failed)
           /\ Confirm(u, id)
           /\ Fails(failed)
  BY DEF Forward
<1>1. /\ nextId' \in 1..(MaxMsg + 1)
      /\ rows' \in [Users -> SUBSET Ids]
      /\ \A v \in Users : rows[v] \subseteq rows'[v]
      /\ RowsBelowNext'
      /\ id \in rows'[u] \cup NoId
  BY AddSendMsgType
<1>2. faults' \in 0..MaxFaults
  BY FailsType
<1>3. /\ wire[u] \in Seq(Ids0) /\ cache[u] \in Seq(Ids0)
      /\ Append(wire[u], id) \in Seq(Ids0)
      /\ Append(cache[u], id) \in Seq(Ids0)
      /\ Elements(Append(wire[u], id)) = Elements(wire[u]) \cup {id}
      /\ Elements(Append(cache[u], id)) = Elements(cache[u]) \cup {id}
  BY AppendElements DEF TypeOK
<1>4. wire' = wire \/ wire' = [wire EXCEPT ![u] = Append(wire[u], id)]
  BY DEF SendOrPush
<1>5. cache' = cache \/ cache' = [cache EXCEPT ![u] = Append(cache[u], id)]
  BY DEF SendOrPush
<1>6. confirmed' = [confirmed EXCEPT ![u] = confirmed[u] \cup {id}]
  BY DEF Confirm
<1>7. wire' \in [Users -> Seq(Ids0)] /\ cache' \in [Users -> Seq(Ids0)]
  BY <1>3, <1>4, <1>5 DEF TypeOK
<1>8. confirmed' \in [Users -> SUBSET Ids0]
  BY <1>6 DEF TypeOK
<1>9. SentHasRow'
  <2> SUFFICES ASSUME NEW v \in Users
               PROVE  /\ Elements(wire'[v]) \subseteq rows'[v] \cup NoId
                      /\ Elements(cache'[v]) \subseteq rows'[v] \cup NoId
                      /\ confirmed'[v] \subseteq rows'[v] \cup NoId
    BY DEF SentHasRow
  <2>1. /\ Elements(wire[v]) \subseteq rows'[v] \cup NoId
        /\ Elements(cache[v]) \subseteq rows'[v] \cup NoId
        /\ confirmed[v] \subseteq rows'[v] \cup NoId
    BY <1>1 DEF SentHasRow
  <2>2. wire'[v] = wire[v] \/ (v = u /\ wire'[v] = Append(wire[u], id))
    BY <1>4 DEF TypeOK
  <2>3. cache'[v] = cache[v] \/ (v = u /\ cache'[v] = Append(cache[u], id))
    BY <1>5 DEF TypeOK
  <2>4. confirmed'[v] = confirmed[v] \/ (v = u /\ confirmed'[v] = confirmed[v] \cup {id})
    BY <1>6 DEF TypeOK
  <2>5. Elements(wire'[v]) \subseteq rows'[v] \cup NoId
    BY <1>1, <1>3, <2>1, <2>2
  <2>6. Elements(cache'[v]) \subseteq rows'[v] \cup NoId
    BY <1>1, <1>3, <2>1, <2>3
  <2>7. confirmed'[v] \subseteq rows'[v] \cup NoId
    BY <1>1, <2>1, <2>4
  <2> QED
    BY <2>5, <2>6, <2>7
<1> QED
  BY <1>1, <1>2, <1>7, <1>8, <1>9
     DEF TypeOK, Forward, AckedIsReceived, StoredIsReceived

(* handleLoginIn keeps it: the watermark it reads was received, or it is   *)
(* 0.                                                                      *)
LEMMA LoginStep ==
  ASSUME Inv, NEW u \in Users, Login(u)
  PROVE  Inv'
<1> USE DEF Inv
<1>1. faults' \in 0..MaxFaults
  BY GoesType DEF Login, NoFault, TypeOK
<1>2. /\ lastRecv' \in [Users -> Ids0]
      /\ session' \in [Users -> {"none", "login", "active"}]
  <2>1. 0 \in Ids0 /\ stored[u] \in Ids0
    BY DeliveryAssumption DEF TypeOK, Ids0
  <2> QED
    BY <2>1 DEF Login, TypeOK
<1>3. \A v \in Users : lastRecv'[v] \in {lastRecv[v], stored[v], 0}
  BY DEF Login, TypeOK
<1>4. AckedIsReceived'
  BY <1>3 DEF AckedIsReceived, StoredIsReceived, Login
<1> QED
  BY <1>1, <1>2, <1>4 DEF Login, TypeOK, RowsBelowNext, SentHasRow, StoredIsReceived

(* A result set of u's rows and then a list, sent on u's connection.       *)
LEMMA ResultSent ==
  ASSUME Inv, NEW u \in Users, NEW a, NEW b,
         NEW rs \in {{}, MsgsById(u, a, b)}, NEW s \in InIdOrder(rs),
         NEW l \in {<<>>, cache[u]}
  PROVE  /\ wire[u] \o s \o l \in Seq(Ids0)
         /\ Elements(wire[u] \o s \o l) \subseteq rows[u] \cup NoId
<1> USE DEF Inv
<1>1. IsFiniteSet(rs) /\ rs \subseteq rows[u] /\ rows[u] \subseteq Ids0
  <2>1. IsFiniteSet(MsgsById(u, a, b)) /\ MsgsById(u, a, b) \subseteq rows[u]
    BY MsgsByIdType
  <2>2. IsFiniteSet({})
    BY FS_EmptySet
  <2>3. rows[u] \subseteq Ids0
    BY DeliveryAssumption DEF TypeOK, Ids, Ids0
  <2>4. CASE rs = {}
    BY <2>2, <2>3, <2>4
  <2>5. CASE rs = MsgsById(u, a, b)
    BY <2>1, <2>3, <2>5
  <2> QED
    BY <2>4, <2>5
<1>2. s \in Seq(rs) /\ Elements(s) = rs
  BY <1>1, InIdOrderIsSeq
<1>3. s \in Seq(Ids0) /\ wire[u] \in Seq(Ids0)
  <2>1. rs \subseteq Ids0
    BY <1>1
  <2> QED
    BY <1>2, <2>1, SeqOverMore DEF TypeOK
<1>4. l \in Seq(Ids0) /\ Elements(l) \subseteq rows[u] \cup NoId
  <2>1. CASE l = <<>>
    <3>1. <<>> \in Seq(Ids0) /\ Elements(<<>>) = {}
      BY EmptyQueue
    <3> QED
      BY <2>1, <3>1
  <2>2. CASE l = cache[u]
    BY <2>2 DEF TypeOK, SentHasRow
  <2> QED
    BY <2>1, <2>2
<1>5. /\ wire[u] \o s \in Seq(Ids0)
      /\ Elements(wire[u] \o s) = Elements(wire[u]) \cup Elements(s)
  BY <1>3, ConcatElements
<1>6. /\ wire[u] \o s \o l \in Seq(Ids0)
      /\ Elements(wire[u] \o s \o l) = Elements(wire[u] \o s) \cup Elements(l)
  <2> DEFINE w == wire[u] \o s
  <2>1. w \in Seq(Ids0)
    BY <1>5
  <2> HIDE DEF w
  <2>2. w \o l \in Seq(Ids0) /\ Elements(w \o l) = Elements(w) \cup Elements(l)
    BY <1>4, <2>1, ConcatElements
  <2> QED
    BY <2>2 DEF w
<1>7. Elements(wire[u]) \subseteq rows[u] \cup NoId
  BY DEF SentHasRow
<1> QED
  BY <1>1, <1>2, <1>4, <1>5, <1>6, <1>7

(* handleGetFriends keeps it, whatever part of loadCache fails.            *)
LEMMA GetFriendsStep ==
  ASSUME Inv, NEW u \in Users, GetFriends(u)
  PROVE  Inv'
<1> USE DEF Inv
<1> DEFINE Good(w) == w \in Seq(Ids0) /\ Elements(w) \subseteq rows[u] \cup NoId
<1>1. ASSUME NEW a, NEW b, NEW rs \in {{}, MsgsById(u, a, b)},
             NEW s \in InIdOrder(rs), NEW l \in {<<>>, cache[u]}
      PROVE  Good(wire[u] \o s \o l)
  BY ResultSent
<1>2. /\ \E w : Good(w) /\ wire' = [wire EXCEPT ![u] = w]
      /\ cache' = [cache EXCEPT ![u] = <<>>] \/ cache' = [cache EXCEPT ![u] = cache[u]]
      /\ faults' \in 0..MaxFaults
  <2>1. CASE LoadCache(u)
    <3>1. PICK s \in InIdOrder(MsgsById(u, lastRecv[u], Before(u))) :
              wire' = [wire EXCEPT ![u] = @ \o s \o cache[u]]
      BY <2>1 DEF LoadCache, Backlog
    <3>2. Good(wire[u] \o s \o cache[u])
      BY <1>1, <3>1
    <3>3. wire' = [wire EXCEPT ![u] = wire[u] \o s \o cache[u]]
      BY <3>1 DEF TypeOK
    <3> QED
      BY <2>1, <3>2, <3>3 DEF LoadCache, NoFault, TypeOK
  <2>2. CASE LoadCacheFails(u)
    <3>1. PICK failed \in Rejections :
             /\ Fails(failed)
             /\ \E msgid \in Bounds(u, failed), list \in Unlisted(u, failed) :
                \E s \in InIdOrder(IF "sql" \in failed THEN {}
                                   ELSE MsgsById(u, lastRecv[u], msgid)) :
                  /\ wire' = [wire EXCEPT ![u] = @ \o s \o list.sent]
                  /\ cache' = [cache EXCEPT ![u] = list.left]
      BY <2>2 DEF LoadCacheFails
    <3>2. PICK msgid \in Bounds(u, failed), list \in Unlisted(u, failed) :
             \E s \in InIdOrder(IF "sql" \in failed THEN {}
                                ELSE MsgsById(u, lastRecv[u], msgid)) :
                  /\ wire' = [wire EXCEPT ![u] = @ \o s \o list.sent]
                  /\ cache' = [cache EXCEPT ![u] = list.left]
      BY <3>1
    <3>3. PICK rs \in {{}, MsgsById(u, lastRecv[u], msgid)} :
             rs = IF "sql" \in failed THEN {} ELSE MsgsById(u, lastRecv[u], msgid)
      OBVIOUS
    <3>4. PICK s \in InIdOrder(rs) : /\ wire' = [wire EXCEPT ![u] = @ \o s \o list.sent]
                                    /\ cache' = [cache EXCEPT ![u] = list.left]
      BY <3>2, <3>3
    <3>5. list.sent \in {<<>>, cache[u]} /\ list.left \in {<<>>, cache[u]}
      BY DEF Unlisted
    <3>6. Good(wire[u] \o s \o list.sent)
      BY <1>1, <3>5
    <3>7. wire' = [wire EXCEPT ![u] = wire[u] \o s \o list.sent]
      BY <3>4 DEF TypeOK
    <3>8. faults' \in 0..MaxFaults
      BY <3>1, FailsType
    <3> QED
      BY <3>4, <3>5, <3>6, <3>7, <3>8
  <2> QED
    BY <2>1, <2>2 DEF GetFriends
<1>3. PICK w : Good(w) /\ wire' = [wire EXCEPT ![u] = w]
  BY <1>2
<1>4. /\ wire' \in [Users -> Seq(Ids0)]
      /\ \A v \in Users : Elements(wire'[v]) \subseteq rows[v] \cup NoId
  BY <1>3 DEF TypeOK, SentHasRow
<1>5. /\ cache' \in [Users -> Seq(Ids0)]
      /\ \A v \in Users : Elements(cache'[v]) \subseteq rows[v] \cup NoId
  <2>1. cache' \in [Users -> Seq(Ids0)]
    <3>1. PICK l \in {<<>>, cache[u]} : cache' = [cache EXCEPT ![u] = l]
      BY <1>2
    <3>2. <<>> \in Seq(Ids0) /\ cache[u] \in Seq(Ids0)
      BY DEF TypeOK
    <3>3. l \in Seq(Ids0)
      BY <3>2
    <3> QED
      BY <3>1, <3>3 DEF TypeOK
  <2>2. \A v \in Users : cache'[v] = <<>> \/ cache'[v] = cache[v]
    BY <1>2 DEF TypeOK
  <2> QED
    BY <2>1, <2>2, EmptyQueue DEF SentHasRow
<1> QED
  BY <1>2, <1>4, <1>5
     DEF GetFriends, TypeOK, RowsBelowNext, SentHasRow, AckedIsReceived,
         StoredIsReceived

(* handleConfirm keeps it: an id that is confirmed was received.           *)
LEMMA HandleConfirmStep ==
  ASSUME Inv, NEW u \in Users, HandleConfirm(u)
  PROVE  Inv'
<1> USE DEF Inv
<1>1. /\ acks[u] \in Seq(Ids0) /\ acks[u] # <<>>
      /\ Head(acks[u]) \in Elements(acks[u]) /\ Head(acks[u]) \in Ids0
      /\ Tail(acks[u]) \in Seq(Ids0)
      /\ Elements(Tail(acks[u])) \subseteq Elements(acks[u])
  BY HeadIn, TailElements DEF HandleConfirm, TypeOK
<1>2. /\ lastRecv' = [lastRecv EXCEPT ![u] = Head(acks[u])]
      /\ acks' = [acks EXCEPT ![u] = Tail(acks[u])]
  BY DEF HandleConfirm, TypeOK
<1>3. AckedIsReceived'
  BY <1>1, <1>2 DEF AckedIsReceived, HandleConfirm, TypeOK
<1> QED
  BY <1>1, <1>2, <1>3
     DEF HandleConfirm, TypeOK, RowsBelowNext, SentHasRow, StoredIsReceived

(* A connection, or all of them, going away.                               *)
LEMMA GoneConns ==
  ASSUME Inv, NEW u \in Users, Gone(u) \/ Dies
  PROVE  /\ session' \in [Users -> {"none", "login", "active"}]
         /\ lastRecv' \in [Users -> Ids0]
         /\ wire' \in [Users -> Seq(Ids0)]
         /\ acks' \in [Users -> Seq(Ids0)]
         /\ \A v \in Users : /\ Elements(wire'[v]) \subseteq Elements(wire[v])
                              /\ Elements(acks'[v]) \subseteq Elements(acks[v])
                              /\ lastRecv'[v] \in {lastRecv[v], 0}
<1> USE DEF Inv
<1>1. 0 \in Ids0 /\ <<>> \in Seq(Ids0)
  BY DeliveryAssumption DEF Ids0
<1>2. CASE Gone(u)
  BY <1>1, <1>2, EmptyQueue DEF Gone, TypeOK
<1>3. CASE Dies
  BY <1>1, <1>3, EmptyQueue DEF Dies, TypeOK
<1> QED
  BY <1>2, <1>3

(* handleClose keeps it: leave() saves lastRecv, which was received.       *)
LEMMA CloseStep ==
  ASSUME Inv, NEW u \in Users, Close(u) \/ CloseUnsaved(u)
  PROVE  Inv'
<1> USE DEF Inv
<1>1. faults' \in 0..MaxFaults
  BY GoesType DEF Close, CloseUnsaved
<1>2. /\ Gone(u)
      /\ UNCHANGED <<nextId, rows, cache, received, confirmed>>
      /\ stored' = stored \/ stored' = [stored EXCEPT ![u] = lastRecv[u]]
  BY DEF Close, CloseUnsaved, tables
<1>3. stored' \in [Users -> Ids0] /\ StoredIsReceived'
  BY <1>2 DEF TypeOK, StoredIsReceived, AckedIsReceived
<1>4. TypeOK'
  BY <1>1, <1>2, <1>3, GoneConns DEF TypeOK
<1>5. SentHasRow' /\ AckedIsReceived'
  BY <1>2, GoneConns DEF SentHasRow, AckedIsReceived
<1> QED
  BY <1>2, <1>3, <1>4, <1>5 DEF RowsBelowNext

(* The three ways the process dies keep it: nothing is saved.              *)
LEMMA DiesStep ==
  ASSUME Inv, \/ Crash
              \/ \E u \in Users : \/ CrashInForward(u) \/ CrashUnnumbered(u)
                                 \/ GetFriendsAgain(u)
  PROVE  Inv'
<1> USE DEF Inv
<1>1. CASE Crash
  <2>1. /\ UNCHANGED <<nextId, rows, stored, cache, received, confirmed>>
        /\ Dies
        /\ faults' \in 0..MaxFaults
    BY <1>1, GoesType DEF Crash, tables
  <2> QED
    BY <2>1, GoesType, EmptyQueue, DeliveryAssumption
       DEF Dies, TypeOK, RowsBelowNext, SentHasRow, AckedIsReceived,
           StoredIsReceived, Ids0
<1>2. ASSUME NEW u \in Users, CrashInForward(u) PROVE Inv'
  <2>1. /\ nextId' \in 1..(MaxMsg + 1)
        /\ rows' \in [Users -> SUBSET Ids]
        /\ nextId \in Ids /\ nextId \in Ids0
        /\ faults' \in 0..MaxFaults
        /\ nextId \in rows'[u]
        /\ \A v \in Users : rows[v] \subseteq rows'[v]
        /\ RowsBelowNext'
    BY <1>2, InsertRowType, InsertRowBelow, GoesType
       DEF CrashInForward, Ids, Ids0
  <2>2. /\ cache[u] \in Seq(Ids0)
        /\ Append(cache[u], nextId) \in Seq(Ids0)
        /\ Elements(Append(cache[u], nextId)) = Elements(cache[u]) \cup {nextId}
    BY <2>1, AppendElements DEF TypeOK
  <2>3. UNCHANGED cache \/ cache' = [cache EXCEPT ![u] = Append(cache[u], nextId)]
    BY <1>2 DEF CrashInForward, TypeOK
  <2>4. /\ cache' \in [Users -> Seq(Ids0)]
        /\ \A v \in Users : Elements(cache'[v]) \subseteq rows'[v] \cup NoId
    <3>1. \A v \in Users : Elements(cache[v]) \subseteq rows'[v] \cup NoId
      BY <2>1 DEF SentHasRow
    <3>2. CASE UNCHANGED cache
      BY <3>1, <3>2 DEF TypeOK
    <3>3. CASE cache' = [cache EXCEPT ![u] = Append(cache[u], nextId)]
      <4>1. /\ cache'[u] = Append(cache[u], nextId)
            /\ \A v \in Users \ {u} : cache'[v] = cache[v]
        BY <3>3 DEF TypeOK
      <4>2. Elements(cache'[u]) \subseteq rows'[u] \cup NoId
        BY <2>1, <2>2, <3>1, <4>1
      <4>3. cache' \in [Users -> Seq(Ids0)]
        BY <2>2, <3>3 DEF TypeOK
      <4> QED
        BY <3>1, <4>1, <4>2, <4>3
    <3> QED
      BY <2>3, <3>2, <3>3
  <2>5. Dies /\ UNCHANGED <<stored, received, confirmed>>
    BY <1>2 DEF CrashInForward
  <2>6. SentHasRow' /\ AckedIsReceived'
    BY <1>2, <2>1, <2>4, <2>5, GoneConns DEF SentHasRow, AckedIsReceived
  <2> QED
    BY <1>2, <2>1, <2>4, <2>5, <2>6, GoneConns DEF TypeOK, StoredIsReceived
<1>3. ASSUME NEW u \in Users, GetFriendsAgain(u) PROVE Inv'
  <2>1. /\ UNCHANGED <<nextId, rows, stored, received, confirmed>>
        /\ Dies
        /\ faults' \in 0..MaxFaults
        /\ cache' = [cache EXCEPT ![u] = <<>>]
    BY <1>3, GoesType DEF GetFriendsAgain, tables
  <2>2. /\ cache' \in [Users -> Seq(Ids0)]
        /\ \A v \in Users : Elements(cache'[v]) \subseteq rows[v] \cup NoId
    BY <2>1, EmptyQueue DEF TypeOK, SentHasRow
  <2>3. SentHasRow' /\ AckedIsReceived'
    BY <1>3, <2>1, <2>2, GoneConns DEF SentHasRow, AckedIsReceived
  <2> QED
    BY <1>3, <2>1, <2>2, <2>3, GoneConns
       DEF TypeOK, RowsBelowNext, StoredIsReceived
<1>4. ASSUME NEW u \in Users, CrashUnnumbered(u) PROVE Inv'
  <2>1. /\ "sql" \in Faults /\ {"sql"} \in Rejections
        /\ AddSendMsg(u, 0, {"sql"}) /\ faults' \in 0..MaxFaults
    BY <1>4, GoesType DEF CrashUnnumbered, Rejections
  <2>2. /\ nextId' \in 1..(MaxMsg + 1)
        /\ rows' \in [Users -> SUBSET Ids]
        /\ \A v \in Users : rows[v] \subseteq rows'[v]
        /\ RowsBelowNext'
        /\ 0 \in NoId /\ 0 \in Ids0
    BY <2>1, AddSendMsgType DEF NoId
  <2>3. /\ cache[u] \in Seq(Ids0)
        /\ Append(cache[u], 0) \in Seq(Ids0)
        /\ Elements(Append(cache[u], 0)) = Elements(cache[u]) \cup {0}
    BY <2>2, AppendElements DEF TypeOK
  <2>4. /\ Dies /\ UNCHANGED <<stored, received, confirmed>>
        /\ cache' = [cache EXCEPT ![u] = Append(cache[u], 0)]
    BY <1>4 DEF CrashUnnumbered
  <2>5. cache' \in [Users -> Seq(Ids0)]
    BY <2>3, <2>4 DEF TypeOK
  <2>6. \A v \in Users : Elements(cache'[v]) \subseteq Elements(cache[v]) \cup NoId
    BY <2>2, <2>3, <2>4 DEF TypeOK
  <2>7. SentHasRow' /\ AckedIsReceived'
    BY <1>4, <2>2, <2>4, <2>6, GoneConns DEF SentHasRow, AckedIsReceived
  <2> QED
    BY <1>4, <2>1, <2>2, <2>4, <2>5, <2>7, GoneConns DEF TypeOK, StoredIsReceived
<1> QED
  BY <1>1, <1>2, <1>3, <1>4

(* The client's step keeps it: what it confirms it has received.           *)
LEMMA ClientReceiveStep ==
  ASSUME Inv, NEW u \in Users, ClientReceive(u)
  PROVE  Inv'
<1> USE DEF Inv
<1> DEFINE h == Head(wire[u])
<1>1. /\ wire[u] \in Seq(Ids0) /\ wire[u] # <<>> /\ acks[u] \in Seq(Ids0)
      /\ h \in Elements(wire[u]) /\ h \in Ids0
      /\ Tail(wire[u]) \in Seq(Ids0)
      /\ Elements(Tail(wire[u])) \subseteq Elements(wire[u])
  BY HeadIn, TailElements DEF ClientReceive, TypeOK
<1>2. /\ Append(acks[u], h) \in Seq(Ids0)
      /\ Elements(Append(acks[u], h)) = Elements(acks[u]) \cup {h}
  BY <1>1, AppendElements
<1>3. /\ received' = [received EXCEPT ![u] = received[u] \cup {h}]
      /\ acks' = [acks EXCEPT ![u] = Append(acks[u], h)]
      /\ wire' = [wire EXCEPT ![u] = Tail(wire[u])]
      /\ UNCHANGED <<nextId, rows, stored, cache, session, lastRecv,
                     confirmed, faults>>
  BY DEF ClientReceive, TypeOK, tables
<1> HIDE DEF h
<1>4. received' \in [Users -> SUBSET Ids0] /\ \A v \in Users : received[v] \subseteq received'[v]
  BY <1>1, <1>3 DEF TypeOK
<1>5. AckedIsReceived' /\ StoredIsReceived'
  BY <1>2, <1>3, <1>4 DEF AckedIsReceived, StoredIsReceived, TypeOK
<1>6. SentHasRow'
  BY <1>1, <1>3 DEF SentHasRow, TypeOK
<1> QED
  BY <1>1, <1>2, <1>3, <1>4, <1>5, <1>6 DEF TypeOK, RowsBelowNext

----------------------------------------------------------------------------

(* The inductive invariant holds initially ..                              *)
LEMMA InitInv == Init => Inv
<1> SUFFICES ASSUME Init PROVE Inv
  OBVIOUS
<1>1. 0 \in Ids0 /\ <<>> \in Seq(Ids0)
  BY DeliveryAssumption DEF Ids0
<1> QED
  BY <1>1, DeliveryAssumption, EmptyQueue
     DEF Init, Inv, TypeOK, RowsBelowNext, SentHasRow, AckedIsReceived,
         StoredIsReceived

(* .. and every step keeps it.                                             *)
LEMMA NextInv == Inv /\ [Next]_vars => Inv'
<1> SUFFICES ASSUME Inv, [Next]_vars PROVE Inv'
  OBVIOUS
<1>1. ASSUME NEW u \in Users, Chat(u) \/ AddFriend(u) \/ AgreeFriend(u)
      PROVE  Inv'
  <2>1. Connected(u) \in BOOLEAN /\ Loaded(u) \in BOOLEAN
    BY DEF Connected, Loaded
  <2> QED
    BY <1>1, <2>1, ForwardStep DEF Chat, AddFriend, AgreeFriend
<1>2. CASE UNCHANGED vars
  BY <1>2 DEF vars, Inv, TypeOK, RowsBelowNext, SentHasRow, AckedIsReceived,
              StoredIsReceived
<1> QED
  BY <1>1, <1>2, LoginStep, GetFriendsStep, HandleConfirmStep, CloseStep,
     DiesStep, ClientReceiveStep DEF Next

(* Every reachable state is well typed.                                    *)
THEOREM TypeCorrect == Spec => []TypeOK
<1>1. Inv => TypeOK
  BY DEF Inv
<1> QED
  BY <1>1, InitInv, NextInv, PTL DEF Spec

(* Whatever goes wrong, the watermark leave() saves is an id the client    *)
(* received.                                                               *)
THEOREM SavedWasReceived == Spec => []StoredIsReceived
<1>1. Inv => StoredIsReceived
  BY DEF Inv
<1> QED
  BY <1>1, InitInv, NextInv, PTL DEF Spec

(* The server's steps are Inbox's: a handler accepts one message nobody    *)
(* had, and perhaps confirms it, or botches one; a client receives what    *)
(* was accepted for it; every other step, those where something fails      *)
(* included, changes none of the three.                                    *)
LEMMA AcceptsOne ==
  ASSUME Inv, NEW u \in Users, InsertRow(u), UNCHANGED received
  PROVE  nextId \in Ids /\ Abstract!Accept(u, nextId)
<1>1. /\ nextId \in Ids
      /\ rows' = [rows EXCEPT ![u] = @ \cup {nextId}]
  BY InsertRowType DEF Inv, InsertRow
<1>2. \A v \in Users : nextId \notin rows[v]
  BY DEF Inv, RowsBelowNext, TypeOK, Ids
<1> QED
  BY <1>1, <1>2 DEF Abstract!Accept

(* A process that dies inside a handler has accepted one or none.          *)
LEMMA CrashPromise ==
  ASSUME Inv, NEW u \in Users, CrashInForward(u) \/ CrashUnnumbered(u)
  PROVE  [Abstract!Next]_(Abstract!vars)
<1>1. UNCHANGED <<received, confirmed>>
  BY DEF CrashInForward, CrashUnnumbered
<1>2. CASE InsertRow(u)
  <2>1. nextId \in Ids /\ Abstract!Accept(u, nextId)
    BY <1>1, <1>2, AcceptsOne
  <2>2. Abstract!Submit(u, nextId)
    BY <1>1, <2>1 DEF Abstract!Submit
  <2> QED
    BY <2>1, <2>2 DEF Abstract!Next
<1>3. CASE ~InsertRow(u)
  BY <1>1, <1>3 DEF CrashInForward, CrashUnnumbered, AddSendMsg, Abstract!vars
<1> QED
  BY <1>2, <1>3

(* Forwarding is a Submit of Inbox, or a Botch: the sender is confirmed.   *)
LEMMA ForwardPromise ==
  ASSUME Inv, NEW u \in Users, NEW d \in BOOLEAN, Forward(u, d)
  PROVE  Abstract!Next
<1>1. UNCHANGED received
  BY DEF Forward
<1> PICK failed \in Rejections, id \in Ids0 :
           AddSendMsg(u, id, failed) /\ Confirm(u, id)
  BY DEF Forward
<1>2. confirmed' = [confirmed EXCEPT ![u] = @ \cup {id}]
  BY DEF Confirm
<1>3. CASE InsertRow(u) /\ id = nextId
  <2>1. nextId \in Ids /\ Abstract!Accept(u, nextId)
    BY <1>1, <1>3, AcceptsOne
  <2>2. Abstract!Submit(u, nextId)
    BY <1>2, <1>3, <2>1 DEF Abstract!Submit
  <2> QED
    BY <2>1, <2>2 DEF Abstract!Next
<1>4. ASSUME id = 0, "sql" \in failed,
             InsertRow(u) \/ UNCHANGED <<nextId, rows>>
      PROVE  Abstract!Next
  <2>1. \/ \E m \in Ids : Abstract!Accept(u, m)
        \/ UNCHANGED <<rows, received>>
    BY <1>1, <1>4, AcceptsOne
  <2>2. "sql" \in Faults
    BY <1>4 DEF Rejections
  <2>3. Abstract!Botch(u)
    BY <1>2, <1>4, <2>1, <2>2 DEF Abstract!Botch
  <2> QED
    BY <2>3 DEF Abstract!Next
<1> QED
  BY <1>3, <1>4 DEF AddSendMsg

(* Every step is a step of Inbox or changes nothing that it sees.          *)
LEMMA NextPromise == Inv /\ [Next]_vars => [Abstract!Next]_(Abstract!vars)
<1> SUFFICES ASSUME Inv, [Next]_vars
             PROVE  [Abstract!Next]_(Abstract!vars)
  OBVIOUS
<1>1. ASSUME NEW u \in Users, Chat(u) \/ AddFriend(u) \/ AgreeFriend(u)
      PROVE  [Abstract!Next]_(Abstract!vars)
  <2>1. Connected(u) \in BOOLEAN /\ Loaded(u) \in BOOLEAN
    BY DEF Connected, Loaded
  <2> QED
    BY <1>1, <2>1, ForwardPromise DEF Chat, AddFriend, AgreeFriend
<1>2. ASSUME NEW u \in Users, ClientReceive(u)
      PROVE  [Abstract!Next]_(Abstract!vars)
  <2> DEFINE h == Head(wire[u])
  <2>1. h \in rows[u] \cup NoId /\ rows[u] \subseteq Ids
    <3>1. wire[u] \in Seq(Ids0) /\ wire[u] # <<>>
      BY <1>2 DEF ClientReceive, Inv, TypeOK
    <3> QED
      BY <3>1, HeadIn DEF Inv, SentHasRow, TypeOK
  <2>2. /\ received' = [received EXCEPT ![u] = @ \cup {h}]
        /\ UNCHANGED <<rows, confirmed>>
    BY <1>2 DEF ClientReceive, tables
  <2> HIDE DEF h
  <2>3. h \in Ids \cup {0} /\ (h \in rows[u] \/ ("sql" \in Faults /\ h = 0))
    BY <2>1 DEF NoId
  <2>4. Abstract!Receive(u, h)
    BY <2>2, <2>3 DEF Abstract!Receive
  <2> QED
    BY <2>3, <2>4 DEF Abstract!Next
<1>3. ASSUME NEW u \in Users, CrashInForward(u) \/ CrashUnnumbered(u)
      PROVE  [Abstract!Next]_(Abstract!vars)
  BY <1>3, CrashPromise
<1>4. ASSUME NEW u \in Users,
             \/ Login(u) \/ GetFriends(u) \/ HandleConfirm(u) \/ Close(u)
             \/ CloseUnsaved(u) \/ GetFriendsAgain(u)
      PROVE  UNCHANGED Abstract!vars
  BY <1>4 DEF Login, GetFriends, HandleConfirm, Close, CloseUnsaved,
              GetFriendsAgain, Abstract!vars, tables
<1>5. CASE Crash
  BY <1>5 DEF Crash, Abstract!vars, tables
<1>6. CASE UNCHANGED vars
  BY <1>6 DEF vars, Abstract!vars
<1> QED
  BY <1>1, <1>2, <1>3, <1>4, <1>5, <1>6 DEF Next

(* Delivery implements the safety part of Inbox for all constants; Inbox   *)
(* lets the server confirm what it has not stored only if "sql" is among   *)
(* the faults.                                                             *)
THEOREM PromiseKept == Spec => KeepsPromise
<1>1. Init => Abstract!Init
  BY DEF Init, Abstract!Init
<1> QED
  BY <1>1, InitInv, NextInv, NextPromise, PTL
     DEF Spec, KeepsPromise, Abstract!Safety

(* Every message whose sender is confirmed has a row: so it is as long as  *)
(* MySQL rejects nothing, whatever Redis does and whenever the process     *)
(* dies.                                                                   *)
ConfirmedIsStored == \A u \in Users : confirmed[u] \subseteq rows[u]

THEOREM OnlyStoredIsConfirmed == "sql" \notin Faults => (Spec => []ConfirmedIsStored)
<1> SUFFICES ASSUME "sql" \notin Faults PROVE Spec => []ConfirmedIsStored
  OBVIOUS
<1>1. Inv => ConfirmedIsStored
  BY DEF Inv, SentHasRow, NoId, ConfirmedIsStored
<1> QED
  BY <1>1, InitInv, NextInv, PTL DEF Spec

----------------------------------------------------------------------------
(* What can lose a message: a mishap.  Behaviours without one: connections *)
(* end, leave() fails to save, clients repeat GET_FRIENDS and the process  *)
(* dies at any moment.                                                     *)
Mishap   == \E u \in Users : MishapOf(u)
NoMishap == [][~Mishap]_vars

(* The ids fit in the uint32_t parameters of getMsgsById.                  *)
NarrowIds == MaxMsg < IdMod

(* The case without any: the only requests are AGREE_SB and no statement   *)
(* is rejected.                                                            *)
Agreed == /\ Kinds \subseteq {"AGREE_SB"}
          /\ Faults \subseteq {"close", "crash", "again"}
          /\ NarrowIds

(* Every message has an id and a row.                                      *)
Numbered(u) == /\ Elements(wire[u]) \subseteq rows[u]
               /\ Elements(cache[u]) \subseteq rows[u]
               /\ Elements(acks[u]) \subseteq rows[u]
               /\ confirmed[u] \subseteq rows[u]
               /\ received[u] \subseteq rows[u]

(* Nothing is sent before GET_FRIENDS; from LOGIN_IN to it, the session    *)
(* has the saved watermark.                                                *)
Idle(u) == /\ ~Loaded(u) => wire[u] = <<>> /\ acks[u] = <<>>
           /\ session[u] = "login" => lastRecv[u] = stored[u]

(* The list is empty from GET_FRIENDS on.                                  *)
Drained(u) == Loaded(u) => cache[u] = <<>>

(* The list is in order and above the watermark.                           *)
ListOrdered(u) == /\ Increasing(cache[u])
                  /\ \A c \in Elements(cache[u]) : stored[u] < c

(* From its head on the list has every confirmed message: that is why      *)
(* loadCache may stop reading rows at the head.                            *)
ListIsSuffix(u) ==
  cache[u] # <<>> =>
    \A m \in confirmed[u] : Head(cache[u]) <= m => m \in Elements(cache[u])

(* Up to the watermark everything was received: that is why loadCache may  *)
(* start reading rows above it.                                            *)
Covered(u) == \A m \in confirmed[u] : m <= stored[u] => m \in received[u]

(* During a session, what is owed is on the connection.                    *)
OnTheWay(u) == Loaded(u) => confirmed[u] \ received[u] \subseteq Elements(wire[u])

(* .. and what the client confirmed last covers what is below it.          *)
AckCovers(u) ==
  Loaded(u) =>
    \A m \in confirmed[u] :
      /\ m <= lastRecv[u] => m \in received[u]
      /\ \A a \in Elements(acks[u]) : m <= a => m \in received[u]

(* .. saved, confirmed, being confirmed, on the way: in this order.        *)
PipeOrdered(u) ==
  Loaded(u) =>
    /\ stored[u] <= lastRecv[u]
    /\ Increasing(acks[u]) /\ Increasing(wire[u])
    /\ \A a \in Elements(acks[u]) : lastRecv[u] < a
    /\ \A w \in Elements(wire[u]) : lastRecv[u] < w
    /\ \A a \in Elements(acks[u]), w \in Elements(wire[u]) : a < w

UserInv(u) == /\ Numbered(u) /\ Idle(u) /\ Drained(u)
              /\ ListOrdered(u) /\ ListIsSuffix(u)
              /\ Covered(u) /\ OnTheWay(u) /\ AckCovers(u) /\ PipeOrdered(u)

SafeFor(u) == Inv /\ UserInv(u)
SafeInv    == \A u \in Users : SafeFor(u)

----------------------------------------------------------------------------

(* Below 2^32 the cut does nothing.                                        *)
LEMMA SmallUint32 ==
  ASSUME NEW i \in Nat, i < IdMod
  PROVE  Uint32(i) = i
  BY DeliveryAssumption DEF Uint32

(* A user nothing happens to.                                              *)
LEMMA Untouched ==
  ASSUME NEW v \in Users, UserInv(v),
         rows'[v] = rows[v], stored'[v] = stored[v], cache'[v] = cache[v],
         session'[v] = session[v], lastRecv'[v] = lastRecv[v],
         wire'[v] = wire[v], acks'[v] = acks[v],
         received'[v] = received[v], confirmed'[v] = confirmed[v]
  PROVE  UserInv(v)'
  BY DEF UserInv, Numbered, Idle, Drained, ListOrdered, ListIsSuffix, Covered,
         OnTheWay, AckCovers, PipeOrdered, Loaded

(* A user whose connection goes, with the watermark saved or not.          *)
LEMMA Disconnected ==
  ASSUME Inv, NEW v \in Users, UserInv(v),
         rows'[v] = rows[v], cache'[v] = cache[v],
         stored'[v] = stored[v] \/ (Loaded(v) /\ stored'[v] = lastRecv[v]),
         received'[v] = received[v], confirmed'[v] = confirmed[v],
         session'[v] = "none", wire'[v] = <<>>, acks'[v] = <<>>
  PROVE  UserInv(v)'
<1> USE DEF UserInv
<1>1. ~Loaded(v)'
  BY DEF Loaded
<1>2. Numbered(v)'
  BY EmptyQueue DEF Numbered
<1>3. Idle(v)' /\ Drained(v)' /\ OnTheWay(v)' /\ AckCovers(v)' /\ PipeOrdered(v)'
  BY <1>1 DEF Idle, Drained, OnTheWay, AckCovers, PipeOrdered
<1>4. ListOrdered(v)'
  <2>1. CASE Loaded(v)
    <3>1. cache'[v] = <<>>
      BY <2>1 DEF Drained
    <3> QED
      BY <3>1, EmptyQueue DEF ListOrdered
  <2>2. CASE ~Loaded(v)
    BY <2>2 DEF ListOrdered
  <2> QED
    BY <2>1, <2>2
<1>5. ListIsSuffix(v)'
  BY DEF ListIsSuffix
<1>6. Covered(v)'
  BY DEF Covered, AckCovers
<1> QED
  BY <1>2, <1>3, <1>4, <1>5, <1>6


(* A row that is new is above everything u's queues and watermarks hold.   *)
LEMMA NewRowIsLast ==
  ASSUME Inv, NEW u \in Users, UserInv(u)
  PROVE  /\ nextId \in Int
         /\ \A n \in rows[u] : n \in Int /\ n < nextId
         /\ stored[u] \in Int /\ stored[u] < nextId
         /\ lastRecv[u] \in Int /\ lastRecv[u] < nextId
         /\ wire[u] \in Seq(Ids0) /\ acks[u] \in Seq(Ids0)
         /\ cache[u] \in Seq(Ids0) /\ nextId \notin rows[u]
         /\ wire[u] \in Seq(Int) /\ acks[u] \in Seq(Int)
         /\ cache[u] \in Seq(Int)
<1>1. /\ nextId \in Int /\ 0 < nextId
      /\ rows[u] \subseteq Ids
      /\ stored[u] \in Ids0 /\ lastRecv[u] \in Ids0
      /\ wire[u] \in Seq(Ids0) /\ acks[u] \in Seq(Ids0)
      /\ cache[u] \in Seq(Ids0)
  BY DEF Inv, TypeOK
<1>2. Ids0 \subseteq Int /\ Ids \subseteq Int
  BY DeliveryAssumption DEF Ids, Ids0
<1>3. \A n \in rows[u] : n \in Int /\ n < nextId
  BY <1>1, <1>2 DEF Inv, RowsBelowNext
<1>4. /\ stored[u] \in rows[u] \cup {0}
      /\ lastRecv[u] \in rows[u] \cup {0}
  BY DEF Inv, StoredIsReceived, AckedIsReceived, UserInv, Numbered
<1>5. nextId \notin rows[u]
  BY <1>1, <1>3
<1>6. \A s \in Seq(Ids0) : s \in Seq(Int)
  BY DeliveryAssumption DEF Ids0
<1>7. /\ stored[u] \in Int /\ stored[u] < nextId
      /\ lastRecv[u] \in Int /\ lastRecv[u] < nextId
  BY <1>1, <1>2, <1>3, <1>4
<1> QED
  BY <1>1, <1>3, <1>5, <1>6, <1>7

(* A message is put at the end of u's list, confirmed or not.              *)
LEMMA Pushed ==
  ASSUME Inv, NEW u \in Users, UserInv(u), InsertRow(u), ~Loaded(u),
         cache'[u] = Append(cache[u], nextId),
         confirmed'[u] = confirmed[u] \cup {nextId} \/ confirmed'[u] = confirmed[u],
         stored'[u] = stored[u], received'[u] = received[u],
         wire'[u] = <<>>, acks'[u] = <<>>,
         \/ session'[u] = "none"
         \/ session'[u] = session[u] /\ lastRecv'[u] = lastRecv[u]
  PROVE  UserInv(u)'
<1> USE DEF UserInv
<1> DEFINE n == nextId
<1>1. /\ n \in Int /\ n \in Ids0 /\ n \notin rows[u]
      /\ \A r \in rows[u] : r \in Int /\ r < n
      /\ stored[u] \in Int /\ stored[u] < n
      /\ cache[u] \in Seq(Ids0) /\ cache[u] \in Seq(Int)
  BY NewRowIsLast, InsertRowType DEF Inv, Ids, Ids0
<1>2. rows'[u] = rows[u] \cup {n}
  BY InsertRowType DEF Inv
<1>3. ~Loaded(u)'
  BY DEF Loaded
<1>4. /\ Elements(cache'[u]) = Elements(cache[u]) \cup {n}
      /\ Elements(cache[u]) \subseteq rows[u]
      /\ confirmed[u] \subseteq rows[u]
  BY <1>1, AppendElements DEF Numbered
<1>5. Numbered(u)'
  BY <1>2, <1>4, EmptyQueue DEF Numbered
<1>6. Idle(u)' /\ Drained(u)' /\ OnTheWay(u)' /\ AckCovers(u)' /\ PipeOrdered(u)'
  BY <1>3 DEF Idle, Drained, OnTheWay, AckCovers, PipeOrdered
<1>7. ListOrdered(u)'
  <2>1. Increasing(cache'[u])
    BY <1>1, <1>4, AppendIncreasing DEF ListOrdered
  <2> QED
    BY <1>1, <1>4, <2>1 DEF ListOrdered
<1>8. ListIsSuffix(u)'
  <2> SUFFICES ASSUME NEW m \in confirmed'[u], Head(cache'[u]) <= m
               PROVE  m \in Elements(cache'[u])
    BY DEF ListIsSuffix
  <2>1. CASE m = n
    BY <1>4, <2>1
  <2>2. CASE m # n /\ cache[u] = <<>>
    <3>1. Head(cache'[u]) = n
      BY <1>1, <2>2
    <3>2. m \in rows[u]
      BY <1>4, <2>2
    <3> QED
      BY <1>1, <3>1, <3>2
  <2>3. CASE m # n /\ cache[u] # <<>>
    <3>1. Head(cache'[u]) = Head(cache[u])
      BY <1>1, <2>3
    <3> QED
      BY <1>4, <2>3, <3>1 DEF ListIsSuffix
  <2> QED
    BY <2>1, <2>2, <2>3
<1>9. Covered(u)'
  BY <1>1, <1>4 DEF Covered
<1> QED
  BY <1>5, <1>6, <1>7, <1>8, <1>9

(* A message is sent on u's connection, the backlog being loaded.          *)
LEMMA SentDirect ==
  ASSUME Inv, NEW u \in Users, UserInv(u), InsertRow(u), Loaded(u),
         wire'[u] = Append(wire[u], nextId),
         confirmed'[u] = confirmed[u] \cup {nextId},
         cache'[u] = cache[u], stored'[u] = stored[u],
         received'[u] = received[u], acks'[u] = acks[u],
         session'[u] = session[u], lastRecv'[u] = lastRecv[u]
  PROVE  UserInv(u)'
<1> USE DEF UserInv
<1> DEFINE n == nextId
<1>1. /\ n \in Int /\ n \in Ids0 /\ n \notin rows[u]
      /\ \A r \in rows[u] : r \in Int /\ r < n
      /\ stored[u] \in Int /\ stored[u] < n
      /\ lastRecv[u] \in Int /\ lastRecv[u] < n
      /\ wire[u] \in Seq(Ids0) /\ wire[u] \in Seq(Int)
  BY NewRowIsLast, InsertRowType DEF Inv, Ids, Ids0
<1>2. rows'[u] = rows[u] \cup {n}
  BY InsertRowType DEF Inv
<1>3. Loaded(u)' /\ cache[u] = <<>>
  BY DEF Loaded, Drained
<1>4. /\ Elements(wire'[u]) = Elements(wire[u]) \cup {n}
      /\ Elements(wire[u]) \subseteq rows[u]
      /\ Elements(acks[u]) \subseteq rows[u]
  BY <1>1, AppendElements DEF Numbered
<1>5. Numbered(u)'
  BY <1>2, <1>4 DEF Numbered
<1>6. Idle(u)' /\ Drained(u)' /\ ListIsSuffix(u)'
  BY <1>3 DEF Idle, Drained, ListIsSuffix, Loaded
<1>7. ListOrdered(u)'
  BY DEF ListOrdered
<1>8. Covered(u)'
  BY <1>1 DEF Covered
<1>9. OnTheWay(u)'
  BY <1>4 DEF OnTheWay
<1>10. AckCovers(u)'
  BY <1>1, <1>4 DEF AckCovers
<1>11. PipeOrdered(u)'
  <2>1. Increasing(wire'[u])
    BY <1>1, <1>4, AppendIncreasing DEF PipeOrdered
  <2> QED
    BY <1>1, <1>4, <2>1 DEF PipeOrdered
<1> QED
  BY <1>5, <1>6, <1>7, <1>8, <1>9, <1>10, <1>11

(* u's first GET_FRIENDS: the rows above the watermark and below the head  *)
(* of the list, then the list.                                             *)
LEMMA BacklogLoaded ==
  ASSUME NarrowIds, Inv, NEW u \in Users, UserInv(u),
         session[u] = "login", LoadCache(u), session'[u] = "active",
         rows'[u] = rows[u], stored'[u] = stored[u], lastRecv'[u] = lastRecv[u],
         acks'[u] = acks[u], received'[u] = received[u],
         confirmed'[u] = confirmed[u]
  PROVE  UserInv(u)'
<1> USE DEF UserInv
<1> DEFINE B == Backlog(u)
<1>1. /\ wire[u] = <<>> /\ acks[u] = <<>> /\ lastRecv[u] = stored[u]
      /\ ~Loaded(u) /\ Loaded(u)'
  BY DEF Idle, Loaded
<1>2. /\ rows[u] \subseteq Ids /\ Ids \subseteq Int /\ Ids \subseteq Ids0
      /\ stored[u] \in Nat /\ stored[u] < IdMod
      /\ cache[u] \in Seq(Ids0) /\ cache[u] \in Seq(Int)
      /\ Ids0 \subseteq Int
  <2>1. Ids0 \subseteq Int /\ \A s \in Seq(Ids0) : s \in Seq(Int)
    BY DeliveryAssumption DEF Ids0
  <2> QED
    BY <2>1, DeliveryAssumption DEF Inv, TypeOK, Ids, Ids0, NarrowIds
<1>3. Uint32(lastRecv[u]) = stored[u]
  BY <1>1, <1>2, SmallUint32
<1>4. /\ B \subseteq rows[u]
      /\ \A n \in B : stored[u] < n
      /\ cache[u] # <<>> => \A n \in B : n < Head(cache[u])
      /\ \A n \in rows[u] :
           stored[u] < n => n \in B \/ (cache[u] # <<>> /\ Head(cache[u]) <= n)
  <2>1. CASE cache[u] = <<>>
    <3>1. Uint32(0) = 0
      BY SmallUint32, DeliveryAssumption
    <3>2. B = {n \in rows[u] : n > stored[u]}
      BY <1>3, <2>1, <3>1 DEF Backlog, Before, MsgsById
    <3> QED
      BY <1>2, <2>1, <3>2
  <2>2. CASE cache[u] # <<>>
    <3> DEFINE h == Head(cache[u])
    <3>1. h \in rows[u]
      BY <1>2, <2>2, HeadIn DEF Numbered
    <3>2. h \in Nat \ {0} /\ Uint32(h) = h
      BY <1>2, <3>1, SmallUint32, DeliveryAssumption DEF Ids, NarrowIds
    <3>3. B = {n \in rows[u] : n > stored[u] /\ n < h}
      BY <1>3, <2>2, <3>2 DEF Backlog, Before, MsgsById
    <3>4. \A n \in rows[u] : n \in Int
      BY <1>2
    <3>5. stored[u] \in Int /\ h \in Int
      BY <1>2, <3>2
    <3> HIDE DEF B, h
    <3>6. \A n \in rows[u] : stored[u] < n => n \in B \/ h <= n
      BY <3>3, <3>4, <3>5
    <3>7. B \subseteq rows[u] /\ \A n \in B : stored[u] < n /\ n < h
      BY <3>3, <3>4, <3>5
    <3> QED
      BY <2>2, <3>6, <3>7 DEF h
  <2> QED
    BY <2>1, <2>2
<1>5. PICK s \in InIdOrder(B) : wire' = [wire EXCEPT ![u] = @ \o s \o cache[u]]
  BY DEF LoadCache
<1>6. s \in Seq(B) /\ Elements(s) = B /\ Increasing(s)
  <2>1. IsFiniteSet(B)
    BY MsgsByIdType DEF Backlog, Inv
  <2> HIDE DEF B
  <2> QED
    BY <2>1, <1>5, InIdOrderIsSeq
<1> HIDE DEF B
<1>7. s \in Seq(Ids0) /\ s \in Seq(Int)
  <2>1. B \subseteq Ids0 /\ B \subseteq Int
    BY <1>2, <1>4
  <2> QED
    BY <1>6, <2>1, SeqOverMore
<1>8. wire'[u] = s \o cache[u] /\ cache'[u] = <<>>
  <2>1. wire'[u] = <<>> \o s \o cache[u]
    BY <1>1, <1>5 DEF Inv, TypeOK
  <2>2. <<>> \o s = s
    BY <1>7
  <2> QED
    BY <2>1, <2>2 DEF LoadCache, Inv, TypeOK
<1>9. /\ Elements(wire'[u]) = B \cup Elements(cache[u])
      /\ Elements(cache[u]) \subseteq rows[u]
  BY <1>2, <1>6, <1>7, <1>8, ConcatElements DEF Numbered
<1>10. \A c \in Elements(cache[u]) :
         cache[u] # <<>> /\ c \in Int /\ stored[u] < c /\ Head(cache[u]) <= c
  <2> SUFFICES ASSUME NEW c \in Elements(cache[u])
               PROVE  /\ cache[u] # <<>> /\ c \in Int /\ stored[u] < c
                      /\ Head(cache[u]) <= c
    OBVIOUS
  <2>1. cache[u] # <<>> /\ c \in Int /\ stored[u] < c
    BY <1>2, EmptyQueue, ElementsIn DEF ListOrdered
  <2>2. c = Head(cache[u]) \/ Head(cache[u]) < c
    BY <1>2, <2>1, TailElements, TailIncreasing DEF ListOrdered
  <2>3. Head(cache[u]) \in Int
    BY <1>2, <2>1, HeadIn
  <2> QED
    BY <2>1, <2>2, <2>3
<1>11. Increasing(wire'[u])
  <2>1. \A x \in Elements(s), y \in Elements(cache[u]) : x < y
    <3> SUFFICES ASSUME NEW x \in B, NEW y \in Elements(cache[u]) PROVE x < y
      BY <1>6
    <3>1. /\ x \in Int /\ x < Head(cache[u]) /\ y \in Int
          /\ Head(cache[u]) <= y /\ Head(cache[u]) \in Int
      BY <1>2, <1>4, <1>10, HeadIn
    <3> QED
      BY <3>1
  <2> QED
    BY <1>2, <1>6, <1>7, <1>8, <2>1, ConcatIncreasing DEF ListOrdered
<1>12. Numbered(u)'
  BY <1>4, <1>8, <1>9, EmptyQueue DEF Numbered
<1>13. Idle(u)' /\ Drained(u)' /\ ListIsSuffix(u)' /\ ListOrdered(u)' /\ Covered(u)'
  BY <1>1, <1>8, EmptyQueue
     DEF Idle, Drained, ListIsSuffix, ListOrdered, Covered, Loaded
<1>14. OnTheWay(u)'
  <2> SUFFICES ASSUME NEW m \in confirmed[u], m \notin received[u]
               PROVE  m \in Elements(wire'[u])
    BY DEF OnTheWay
  <2>1. m \in rows[u] /\ m \in Int /\ stored[u] < m
    <3>1. m \in rows[u]
      BY DEF Numbered
    <3>2. ~(m <= stored[u])
      BY DEF Covered
    <3> QED
      <4>1. /\ \A n \in rows[u] : n \in Int
            /\ stored[u] \in Int
        BY NewRowIsLast
      <4> QED
        BY <3>1, <3>2, <4>1
  <2> QED
    BY <1>4, <1>9, <2>1 DEF ListIsSuffix
<1>15. AckCovers(u)'
  BY <1>1, EmptyQueue DEF AckCovers, Covered
<1>16. PipeOrdered(u)'
  <2>1. Increasing(acks'[u]) /\ Elements(acks'[u]) = {}
    BY <1>1, EmptyQueue
  <2>2. \A w \in Elements(wire'[u]) : lastRecv'[u] < w
    BY <1>1, <1>4, <1>9, <1>10
  <2> QED
    BY <1>1, <1>2, <1>11, <2>1, <2>2 DEF PipeOrdered
<1> QED
  BY <1>12, <1>13, <1>14, <1>15, <1>16

(* The client takes a message.                                             *)
LEMMA Received ==
  ASSUME Inv, NEW u \in Users, UserInv(u), ClientReceive(u)
  PROVE  UserInv(u)'
<1> USE DEF UserInv
<1> DEFINE h == Head(wire[u])
           t == Tail(wire[u])
<1>1. /\ Loaded(u) /\ wire[u] # <<>>
      /\ wire[u] \in Seq(Ids0) /\ wire[u] \in Seq(Int)
      /\ acks[u] \in Seq(Ids0) /\ acks[u] \in Seq(Int)
      /\ \A r \in rows[u] : r \in Int /\ r # 0
      /\ lastRecv[u] \in Int
  BY NewRowIsLast DEF Idle, ClientReceive, Inv, TypeOK, Ids
<1>2. /\ h \in Ids0 /\ h \in Elements(wire[u]) /\ h \in rows[u]
      /\ h \in Int /\ h # 0
  BY <1>1, HeadIn DEF Numbered
<1>3. /\ received'[u] = received[u] \cup {h}
      /\ acks'[u] = Append(acks[u], h)
      /\ wire'[u] = t
      /\ UNCHANGED <<rows, stored, cache, session, lastRecv, confirmed>>
  BY <1>2 DEF ClientReceive, tables, Inv, TypeOK
<1>4. /\ Elements(wire[u]) = {h} \cup Elements(t)
      /\ Increasing(t) /\ \A x \in Elements(t) : h < x
  BY <1>1, TailElements, TailIncreasing DEF PipeOrdered
<1>5. /\ Elements(acks'[u]) = Elements(acks[u]) \cup {h}
      /\ Increasing(acks'[u])
  BY <1>1, <1>2, <1>3, AppendElements, AppendIncreasing DEF PipeOrdered
<1>6. Loaded(u)'
  BY <1>1, <1>3 DEF Loaded
<1> HIDE DEF h, t
<1>7. Numbered(u)'
  BY <1>2, <1>3, <1>4, <1>5 DEF Numbered
<1>8. Idle(u)' /\ Drained(u)' /\ ListOrdered(u)' /\ ListIsSuffix(u)' /\ Covered(u)'
  BY <1>1, <1>3, <1>6
     DEF Idle, Drained, ListOrdered, ListIsSuffix, Covered, Loaded
<1>9. OnTheWay(u)'
  BY <1>1, <1>3, <1>4 DEF OnTheWay
<1>10. AckCovers(u)'
  <2>1. \A m \in confirmed[u] : m <= h => m \in received'[u]
    <3> SUFFICES ASSUME NEW m \in confirmed[u], m <= h, m \notin received[u], m # h
                 PROVE  FALSE
      BY <1>3
    <3>1. m \in Elements(t)
      BY <1>1, <1>4 DEF OnTheWay
    <3>2. m \in Int /\ h < m
      BY <1>1, <1>4, <3>1 DEF Numbered
    <3> QED
      BY <1>2, <3>2
  <2> QED
    BY <1>1, <1>3, <1>5, <2>1 DEF AckCovers
<1>11. PipeOrdered(u)'
  BY <1>1, <1>2, <1>3, <1>4, <1>5 DEF PipeOrdered
<1> QED
  BY <1>7, <1>8, <1>9, <1>10, <1>11

(* A CONFIRM is handled.                                                   *)
LEMMA Confirmed ==
  ASSUME Inv, NEW u \in Users, UserInv(u), HandleConfirm(u)
  PROVE  UserInv(u)'
<1> USE DEF UserInv
<1> DEFINE h == Head(acks[u])
           t == Tail(acks[u])
<1>1. /\ Loaded(u) /\ acks[u] # <<>>
      /\ acks[u] \in Seq(Ids0) /\ acks[u] \in Seq(Int)
      /\ wire[u] \in Seq(Int)
      /\ \A r \in rows[u] : r \in Int
      /\ stored[u] \in Int /\ lastRecv[u] \in Int
  BY NewRowIsLast DEF Idle, HandleConfirm, Inv, TypeOK
<1>2. /\ h \in Ids0 /\ h \in Elements(acks[u]) /\ h \in Int
      /\ lastRecv[u] < h
  BY <1>1, HeadIn DEF PipeOrdered
<1>3. /\ lastRecv'[u] = h
      /\ acks'[u] = t
      /\ UNCHANGED <<rows, stored, cache, session, wire, received, confirmed>>
  BY DEF HandleConfirm, Inv, TypeOK
<1>4. /\ Elements(acks[u]) = {h} \cup Elements(t)
      /\ Increasing(t) /\ \A x \in Elements(t) : h < x
  BY <1>1, TailElements, TailIncreasing DEF PipeOrdered
<1>5. Loaded(u)'
  BY <1>1, <1>3 DEF Loaded
<1> HIDE DEF h, t
<1>6. Numbered(u)'
  BY <1>3, <1>4 DEF Numbered
<1>7. Idle(u)' /\ Drained(u)' /\ ListOrdered(u)' /\ ListIsSuffix(u)' /\ Covered(u)'
  BY <1>1, <1>3, <1>5
     DEF Idle, Drained, ListOrdered, ListIsSuffix, Covered, Loaded
<1>8. OnTheWay(u)'
  BY <1>1, <1>3 DEF OnTheWay
<1>9. AckCovers(u)'
  BY <1>1, <1>2, <1>3, <1>4 DEF AckCovers
<1>10. PipeOrdered(u)'
  <2>1. stored[u] <= h
    BY <1>1, <1>2 DEF PipeOrdered
  <2> QED
    BY <1>1, <1>2, <1>3, <1>4, <2>1 DEF PipeOrdered
<1> QED
  BY <1>6, <1>7, <1>8, <1>9, <1>10

----------------------------------------------------------------------------
(* The steps.                                                              *)

(* The strengthened invariant holds initially.                             *)
LEMMA SafeInit == Init => SafeInv
<1> SUFFICES ASSUME Init PROVE SafeInv
  OBVIOUS
<1>1. Inv
  BY InitInv
<1>2. ASSUME NEW u \in Users PROVE UserInv(u)
  BY EmptyQueue
     DEF Init, UserInv, Numbered, Idle, Drained, ListOrdered, ListIsSuffix,
         Covered, OnTheWay, AckCovers, PipeOrdered, Loaded
<1> QED
  BY <1>1, <1>2 DEF SafeInv, SafeFor

(* A step in which nothing goes wrong is not a fault.                      *)
LEMMA NothingGoes ==
  ASSUME Inv, UNCHANGED faults
  PROVE  /\ \A kind : ~Goes(kind)
         /\ \A failed : Fails(failed) => failed = {}
<1>1. faults \in Nat
  BY DeliveryAssumption DEF Inv, TypeOK
<1> QED
  BY <1>1 DEF Goes, Fails

(* Forwarding keeps it when it asks whether u has loaded its backlog: the  *)
(* new id is the largest wherever it goes.                                 *)
LEMMA ForwardKeeps ==
  ASSUME NEW v \in Users, SafeFor(v), NEW u \in Users,
         Forward(u, Loaded(u)), UNCHANGED faults
  PROVE  UserInv(v)'
<1> USE DEF SafeFor
<1>1. PICK id \in Ids0 : /\ AddSendMsg(u, id, {})
                        /\ SendOrPush(u, id, Loaded(u), {})
                        /\ Confirm(u, id)
  BY NothingGoes DEF Forward
<1>2. InsertRow(u) /\ id = nextId
  BY <1>1 DEF AddSendMsg
<1>3. /\ nextId \in Ids
      /\ \A w \in Users \ {u} : rows'[w] = rows[w]
  BY <1>2, InsertRowType DEF Inv
<1>4. /\ confirmed'[u] = confirmed[u] \cup {nextId}
      /\ \A w \in Users \ {u} : confirmed'[w] = confirmed[w]
  BY <1>1, <1>2 DEF Confirm, Inv, TypeOK
<1>5. UNCHANGED <<stored, session, lastRecv, acks, received>>
  BY DEF Forward
<1>6. CASE v # u
  <2>1. wire'[v] = wire[v] /\ cache'[v] = cache[v]
    BY <1>1, <1>6 DEF SendOrPush, Inv, TypeOK
  <2> QED
    BY <1>3, <1>4, <1>5, <1>6, <2>1, Untouched
<1>7. CASE v = u /\ Loaded(u)
  <2>1. wire'[u] = Append(wire[u], nextId) /\ cache'[u] = cache[u]
    BY <1>1, <1>2, <1>7 DEF SendOrPush, Inv, TypeOK
  <2> QED
    BY <1>2, <1>4, <1>5, <1>7, <2>1, SentDirect
<1>8. CASE v = u /\ ~Loaded(u)
  <2>1. /\ cache'[u] = Append(cache[u], nextId)
        /\ wire'[u] = <<>> /\ acks'[u] = <<>>
    BY <1>1, <1>2, <1>5, <1>8 DEF SendOrPush, Inv, TypeOK, UserInv, Idle
  <2> QED
    BY <1>2, <1>4, <1>5, <1>8, <2>1, Pushed
<1> QED
  BY <1>6, <1>7, <1>8

(* .. and a message for somebody else does not touch v, whatever goes wrong*)
(* with it.                                                                *)
LEMMA ForwardOther ==
  ASSUME NEW v \in Users, SafeFor(v), NEW u \in Users, v # u,
         NEW direct, Forward(u, direct)
  PROVE  UserInv(v)'
<1> USE DEF SafeFor
<1>1. UNCHANGED <<stored, session, lastRecv, acks, received>>
  BY DEF Forward
<1>2. /\ rows'[v] = rows[v] /\ confirmed'[v] = confirmed[v]
      /\ cache'[v] = cache[v] /\ wire'[v] = wire[v]
  <2>1. ASSUME NEW id, NEW failed, AddSendMsg(u, id, failed) PROVE rows'[v] = rows[v]
    BY <2>1 DEF AddSendMsg, InsertRow, Inv, TypeOK
  <2>2. ASSUME NEW id, Confirm(u, id) PROVE confirmed'[v] = confirmed[v]
    BY <2>2 DEF Confirm, Inv, TypeOK
  <2>3. ASSUME NEW id, NEW failed, SendOrPush(u, id, direct, failed)
        PROVE  cache'[v] = cache[v] /\ wire'[v] = wire[v]
    BY <2>3 DEF SendOrPush, Inv, TypeOK
  <2> QED
    BY <2>1, <2>2, <2>3 DEF Forward
<1> QED
  BY <1>1, <1>2, Untouched

(* handleLoginIn of another user does not, if its statement fails.         *)
LEMMA LoginOther ==
  ASSUME NEW v \in Users, SafeFor(v), NEW u \in Users, v # u,
         Login(u) \/ GetFriends(u)
  PROVE  UserInv(v)'
<1> USE DEF SafeFor
<1>1. UNCHANGED <<rows, stored, acks, received, confirmed>>
  BY DEF Login, GetFriends
<1>2. session'[v] = session[v] /\ lastRecv'[v] = lastRecv[v]
  BY DEF Login, GetFriends, Inv, TypeOK
<1>3. cache'[v] = cache[v] /\ wire'[v] = wire[v]
  BY DEF Login, GetFriends, LoadCache, LoadCacheFails, Inv, TypeOK
<1> QED
  BY <1>1, <1>2, <1>3, Untouched

(* handleLoginIn keeps it: the session starts at the saved watermark.      *)
LEMMA LoginKeeps ==
  ASSUME NEW v \in Users, SafeFor(v), NEW u \in Users, Login(u), UNCHANGED faults
  PROVE  UserInv(v)'
<1> USE DEF SafeFor
<1>1. /\ session' = [session EXCEPT ![u] = "login"]
      /\ lastRecv' = [lastRecv EXCEPT ![u] = stored[u]]
      /\ UNCHANGED <<rows, stored, cache, wire, acks, received, confirmed>>
      /\ ~Loaded(u)
  BY NothingGoes DEF Login, Connected, Loaded
<1>2. CASE v # u
  BY <1>1, <1>2, Untouched DEF Inv, TypeOK
<1>3. CASE v = u
  <2>1. session'[u] = "login" /\ lastRecv'[u] = stored[u]
    BY <1>1 DEF Inv, TypeOK
  <2> QED
    BY <1>1, <1>3, <2>1
       DEF UserInv, Numbered, Idle, Drained, ListOrdered, ListIsSuffix,
           Covered, OnTheWay, AckCovers, PipeOrdered, Loaded
<1> QED
  BY <1>2, <1>3

(* loadCache keeps it: rows below the head of the list, then the list.     *)
LEMMA GetFriendsKeeps ==
  ASSUME NarrowIds, NEW v \in Users, SafeFor(v), NEW u \in Users,
         GetFriends(u), UNCHANGED faults
  PROVE  UserInv(v)'
<1> USE DEF SafeFor
<1>1. /\ session[u] = "login" /\ LoadCache(u)
      /\ session' = [session EXCEPT ![u] = "active"]
      /\ UNCHANGED <<rows, stored, lastRecv, acks, received, confirmed>>
  BY NothingGoes DEF GetFriends, LoadCacheFails
<1>2. CASE v # u
  <2>1. wire'[v] = wire[v] /\ cache'[v] = cache[v] /\ session'[v] = session[v]
    BY <1>1, <1>2 DEF LoadCache, Inv, TypeOK
  <2> QED
    BY <1>1, <2>1, Untouched
<1>3. CASE v = u
  <2>1. session'[u] = "active"
    BY <1>1 DEF Inv, TypeOK
  <2> QED
    BY <1>1, <1>3, <2>1, BacklogLoaded
<1> QED
  BY <1>2, <1>3

(* The client's step keeps it: the message moves from wire to acks.        *)
LEMMA ClientReceiveKeeps ==
  ASSUME NEW v \in Users, SafeFor(v), NEW u \in Users, ClientReceive(u)
  PROVE  UserInv(v)'
<1> USE DEF SafeFor
<1>1. CASE v # u
  BY <1>1, Untouched DEF ClientReceive, tables, Inv, TypeOK
<1>2. CASE v = u
  BY <1>2, Received
<1> QED
  BY <1>1, <1>2

(* handleConfirm keeps it: the watermark moves to the next id received.    *)
LEMMA HandleConfirmKeeps ==
  ASSUME NEW v \in Users, SafeFor(v), NEW u \in Users, HandleConfirm(u)
  PROVE  UserInv(v)'
<1> USE DEF SafeFor
<1>1. CASE v # u
  BY <1>1, Untouched DEF HandleConfirm, Inv, TypeOK
<1>2. CASE v = u
  BY <1>2, Confirmed
<1> QED
  BY <1>1, <1>2

(* handleClose keeps it when leave() saves nothing: u is sent again what   *)
(* it has confirmed in this session.                                       *)
LEMMA CloseUnsavedKeeps ==
  ASSUME NEW v \in Users, SafeFor(v), NEW u \in Users, CloseUnsaved(u)
  PROVE  UserInv(v)'
<1> USE DEF SafeFor
<1>1. /\ UNCHANGED <<rows, stored, cache, received, confirmed>>
      /\ session' = [session EXCEPT ![u] = "none"]
      /\ lastRecv' = [lastRecv EXCEPT ![u] = 0]
      /\ wire' = [wire EXCEPT ![u] = <<>>]
      /\ acks' = [acks EXCEPT ![u] = <<>>]
  BY DEF CloseUnsaved, Gone, tables
<1>2. CASE v # u
  BY <1>1, <1>2, Untouched DEF Inv, TypeOK
<1>3. CASE v = u
  BY <1>1, <1>3, Disconnected DEF Inv, TypeOK
<1> QED
  BY <1>2, <1>3

(* handleClose keeps it: nothing below the watermark saved is owed.        *)
LEMMA CloseKeeps ==
  ASSUME NEW v \in Users, SafeFor(v), NEW u \in Users, Close(u)
  PROVE  UserInv(v)'
<1> USE DEF SafeFor
<1>1. /\ UNCHANGED <<rows, cache, received, confirmed>>
      /\ session' = [session EXCEPT ![u] = "none"]
      /\ lastRecv' = [lastRecv EXCEPT ![u] = 0]
      /\ wire' = [wire EXCEPT ![u] = <<>>]
      /\ acks' = [acks EXCEPT ![u] = <<>>]
      /\ stored' = IF Loaded(u) THEN [stored EXCEPT ![u] = lastRecv[u]] ELSE stored
  BY DEF Close, Gone
<1>2. CASE v # u
  BY <1>1, <1>2, Untouched DEF Inv, TypeOK
<1>3. CASE v = u
  BY <1>1, <1>3, Disconnected DEF Inv, TypeOK
<1> QED
  BY <1>2, <1>3

(* The process dies between two handlers, inside one, or in exit(1).       *)
LEMMA DiesKeeps ==
  ASSUME NEW v \in Users, SafeFor(v), Dies,
         UNCHANGED <<rows, stored, received, confirmed>>, cache'[v] = cache[v]
  PROVE  UserInv(v)'
  BY Disconnected DEF SafeFor, Dies, Inv, TypeOK

(* A crash inside agreeFriend keeps it: the row was never confirmed, so    *)
(* it may stay hidden behind the head of the list.                         *)
LEMMA CrashInForwardKeeps ==
  ASSUME NEW v \in Users, SafeFor(v), NEW u \in Users, CrashInForward(u)
  PROVE  UserInv(v)'
<1> USE DEF SafeFor
<1>1. /\ InsertRow(u) /\ Dies
      /\ UNCHANGED <<stored, received, confirmed>>
      /\ \/ UNCHANGED cache
         \/ ~Loaded(u) /\ cache' = [cache EXCEPT ![u] = Append(@, nextId)]
  BY DEF CrashInForward, Pushes, Connected, Loaded
<1>2. /\ \A w \in Users \ {u} : rows'[w] = rows[w]
      /\ rows[u] \subseteq rows'[u]
  BY <1>1, InsertRowType DEF Inv
<1>3. session'[v] = "none" /\ wire'[v] = <<>> /\ acks'[v] = <<>>
  BY <1>1 DEF Dies
<1>4. CASE v # u
  <2>1. cache'[v] = cache[v] /\ rows'[v] = rows[v]
    BY <1>1, <1>2, <1>4 DEF Inv, TypeOK
  <2> QED
    BY <1>1, <1>3, <2>1, Disconnected
<1>5. CASE v = u /\ UNCHANGED cache
  (* The row is above all that matters to u; without it, u would just be   *)
  (* disconnected.                                                         *)
  <2>1. ~Loaded(u)' /\ (Loaded(u) => cache[u] = <<>>)
    BY <1>3, <1>5 DEF Loaded, UserInv, Drained
  <2>2. Numbered(u)'
    BY <1>1, <1>2, <1>3, <1>5, EmptyQueue DEF UserInv, Numbered
  <2>3. ListOrdered(u)' /\ ListIsSuffix(u)' /\ Covered(u)'
    BY <1>1, <1>5 DEF UserInv, ListOrdered, ListIsSuffix, Covered
  <2> QED
    BY <1>3, <1>5, <2>1, <2>2, <2>3
       DEF UserInv, Idle, Drained, OnTheWay, AckCovers, PipeOrdered
<1>6. CASE v = u /\ ~Loaded(u) /\ cache' = [cache EXCEPT ![u] = Append(@, nextId)]
  <2>1. cache'[u] = Append(cache[u], nextId)
    BY <1>6 DEF Inv, TypeOK
  <2> QED
    BY <1>1, <1>3, <1>6, <2>1, Pushed
<1> QED
  BY <1>1, <1>4, <1>5, <1>6

(* .. and one after addSendMsg has failed for somebody else.               *)
LEMMA CrashUnnumberedOther ==
  ASSUME NEW v \in Users, SafeFor(v), NEW u \in Users, u # v, CrashUnnumbered(u)
  PROVE  UserInv(v)'
<1> USE DEF SafeFor
<1>1. /\ AddSendMsg(u, 0, {"sql"}) /\ Dies
      /\ UNCHANGED <<stored, received, confirmed>>
      /\ cache' = [cache EXCEPT ![u] = Append(@, 0)]
  BY DEF CrashUnnumbered
<1>2. cache'[v] = cache[v] /\ rows'[v] = rows[v]
  BY <1>1 DEF AddSendMsg, InsertRow, Inv, TypeOK
<1>3. session'[v] = "none" /\ wire'[v] = <<>> /\ acks'[v] = <<>>
  BY <1>1 DEF Dies
<1> QED
  BY <1>1, <1>2, <1>3, Disconnected

(* Every step that is not a mishap of v keeps v's part of the strengthened *)
(* invariant.                                                              *)
LEMMA SafeStep ==
  ASSUME NarrowIds, NEW v \in Users, SafeFor(v), [Next]_vars, [~MishapOf(v)]_vars
  PROVE  SafeFor(v)'
<1>1. Inv'
  BY NextInv DEF SafeFor
<1> SUFFICES UserInv(v)'
  BY <1>1 DEF SafeFor
<1>2. CASE Crash
  BY <1>2, DiesKeeps DEF Crash, tables
<1>3. ASSUME ~UNCHANGED vars, NEW u \in Users,
             Chat(u) \/ AddFriend(u) \/ AgreeFriend(u)
      PROVE  UserInv(v)'
  <2>1. CASE u # v
    BY <1>3, <2>1, ForwardOther DEF Chat, AddFriend, AgreeFriend
  <2>2. CASE u = v
    <3>1. UNCHANGED faults
      BY <1>3, <2>2 DEF MishapOf, Rejected
    <3>2. CASE AgreeFriend(u)
      BY <3>1, <3>2, ForwardKeeps DEF AgreeFriend
    <3>3. CASE Chat(u) \/ AddFriend(u)
      <4>1. session[u] # "login"
        BY <1>3, <2>2, <3>3 DEF MishapOf, Early
      <4>2. session[u] \in {"none", "active"}
        BY <4>1 DEF SafeFor, Inv, TypeOK
      <4>3. Connected(u) = Loaded(u)
        BY <4>2 DEF Connected, Loaded
      <4>4. Forward(u, Connected(u))
        BY <3>3 DEF Chat, AddFriend
      <4> QED
        BY <3>1, <4>3, <4>4, ForwardKeeps
    <3> QED
      BY <1>3, <3>2, <3>3
  <2> QED
    BY <2>1, <2>2
<1>4. ASSUME ~UNCHANGED vars, NEW u \in Users, Login(u) \/ GetFriends(u)
      PROVE  UserInv(v)'
  <2>1. CASE u # v
    BY <1>4, <2>1, LoginOther
  <2>2. CASE u = v
    <3>1. UNCHANGED faults
      BY <1>4, <2>2 DEF MishapOf, Rejected
    <3> QED
      BY <1>4, <3>1, LoginKeeps, GetFriendsKeeps
  <2> QED
    BY <2>1, <2>2
<1>5. ASSUME NEW u \in Users, GetFriendsAgain(u) PROVE UserInv(v)'
  <2>1. /\ Dies /\ UNCHANGED <<rows, stored, received, confirmed>>
        /\ cache' = [cache EXCEPT ![u] = <<>>] /\ Loaded(u)
    BY <1>5 DEF GetFriendsAgain, tables
  <2>2. u = v => cache[v] = <<>>
    BY <2>1 DEF SafeFor, UserInv, Drained
  <2>3. cache'[v] = cache[v]
    BY <2>1, <2>2 DEF SafeFor, Inv, TypeOK
  <2> QED
    BY <2>1, <2>3, DiesKeeps
<1>6. CASE UNCHANGED vars
  BY <1>6, Untouched DEF vars, SafeFor
<1>7. ASSUME ~UNCHANGED vars, NEW u \in Users, CrashUnnumbered(u)
      PROVE  UserInv(v)'
  <2>1. u # v
    BY <1>7 DEF MishapOf, Rejected
  <2> QED
    BY <1>7, <2>1, CrashUnnumberedOther
<1> QED
  BY <1>2, <1>3, <1>4, <1>5, <1>6, <1>7, HandleConfirmKeeps, CloseKeeps,
     CloseUnsavedKeeps, CrashInForwardKeeps, ClientReceiveKeeps
     DEF Next

(* A step that is nobody's mishap keeps all of it.                         *)
LEMMA SafeNext ==
  NarrowIds /\ SafeInv /\ [Next]_vars /\ [~Mishap]_vars => SafeInv'
<1> SUFFICES ASSUME NarrowIds, SafeInv, [Next]_vars, [~Mishap]_vars,
                    NEW v \in Users
             PROVE  SafeFor(v)'
  BY DEF SafeInv
<1>1. SafeFor(v) /\ [~MishapOf(v)]_vars
  BY DEF SafeInv, Mishap
<1> QED
  BY <1>1, SafeStep

----------------------------------------------------------------------------
(* What follows.                                                           *)

(* It implies that what is confirmed is received, under way or to be       *)
(* loaded.                                                                 *)
LEMMA NothingLost ==
  ASSUME NarrowIds, NEW u \in Users, SafeFor(u)
  PROVE  Owed(u) \subseteq Pending(u)
<1> SUFFICES ASSUME NEW m \in Owed(u) PROVE m \in Pending(u)
  OBVIOUS
<1> DEFINE from == IF Connected(u) THEN lastRecv[u] ELSE stored[u]
           head == Before(u)
<1>1. UserInv(u) /\ Inv /\ m \in confirmed[u] /\ m \notin received[u]
  BY DEF SafeFor, Owed
<1>2. CASE Loaded(u)
  BY <1>1, <1>2 DEF UserInv, OnTheWay, Pending
<1>3. CASE ~Loaded(u) /\ m \in Elements(cache[u])
  BY <1>3 DEF Pending
<1>4. CASE ~Loaded(u) /\ m \notin Elements(cache[u])
  <2>1. from = stored[u]
    BY <1>1, <1>4 DEF UserInv, Idle, Connected, Loaded, Inv, TypeOK
  <2>2. /\ m \in rows[u] /\ m \in Int /\ stored[u] < m
        /\ stored[u] \in Nat /\ stored[u] < IdMod /\ 0 < IdMod
    <3>1. /\ \A n \in rows[u] : n \in Int
          /\ stored[u] \in Int
      BY <1>1, NewRowIsLast
    <3>2. m \in rows[u] /\ ~(m <= stored[u])
      BY <1>1 DEF UserInv, Numbered, Covered
    <3>3. stored[u] \in Nat /\ stored[u] < IdMod /\ 0 < IdMod
      BY <1>1, DeliveryAssumption DEF Inv, TypeOK, Ids0, NarrowIds
    <3> QED
      BY <3>1, <3>2, <3>3
  <2>3. Uint32(from) = stored[u]
    BY <2>1, <2>2, SmallUint32
  <2>4. Uint32(head) = 0 \/ m < Uint32(head)
    <3>1. CASE cache[u] = <<>>
      <4>1. head = 0
        BY <3>1 DEF Before
      <4> QED
        BY <2>2, <4>1, SmallUint32
    <3>2. CASE cache[u] # <<>>
      <4>0. head = Head(cache[u])
        BY <3>2 DEF Before
      <4>1. Head(cache[u]) \in rows[u] /\ rows[u] \subseteq Ids
        BY <1>1, <3>2, HeadIn DEF Inv, TypeOK, UserInv, Numbered
      <4>2. Head(cache[u]) \in Nat /\ Uint32(head) = Head(cache[u])
        BY <4>0, <4>1, SmallUint32, DeliveryAssumption DEF Ids, NarrowIds
      <4>3. ~(Head(cache[u]) <= m)
        BY <1>1, <1>4, <3>2 DEF UserInv, ListIsSuffix
      <4> QED
        BY <2>2, <4>2, <4>3
    <3> QED
      BY <3>1, <3>2
  <2>5. m \in MsgsById(u, from, head)
    BY <2>2, <2>3, <2>4 DEF MsgsById
  <2> QED
    BY <1>4, <2>5 DEF Pending
<1> QED
  BY <1>2, <1>3, <1>4

(* It implies the order of a session's messages.                           *)
LEMMA PipeInOrder ==
  ASSUME NEW u \in Users, SafeFor(u), Loaded(u)
  PROVE  Increasing(<<lastRecv[u]>> \o acks[u] \o wire[u])
<1> DEFINE l == <<lastRecv[u]>>
           a == acks[u]
           w == wire[u]
<1>1. /\ lastRecv[u] \in Int
      /\ l \in Seq(Int) /\ a \in Seq(Int) /\ w \in Seq(Int)
  BY NewRowIsLast DEF SafeFor
<1>2. Elements(l) = {lastRecv[u]} /\ Increasing(l)
  BY <1>1 DEF Elements, Increasing
<1>3. /\ Increasing(a) /\ Increasing(w)
      /\ \A x \in Elements(a) : lastRecv[u] < x
      /\ \A y \in Elements(w) : lastRecv[u] < y
      /\ \A x \in Elements(a), y \in Elements(w) : x < y
  BY DEF SafeFor, UserInv, PipeOrdered
<1> HIDE DEF l, a, w
<1>4. /\ l \o a \in Seq(Int) /\ Increasing(l \o a)
      /\ Elements(l \o a) = {lastRecv[u]} \cup Elements(a)
  BY <1>1, <1>2, <1>3, ConcatElements, ConcatIncreasing
<1>5. \A x \in Elements(l \o a), y \in Elements(w) : x < y
  BY <1>3, <1>4
<1>6. Increasing((l \o a) \o w)
  BY <1>1, <1>3, <1>4, <1>5, ConcatIncreasing
<1> QED
  BY <1>6 DEF l, a, w

(* From it, no step moves a saved watermark back.                          *)
LEMMA WatermarkStep ==
  SafeInv /\ [Next]_vars => [\A u \in Users : stored[u] <= stored'[u]]_vars
<1> SUFFICES ASSUME SafeInv, Next, NEW v \in Users
             PROVE  stored[v] <= stored'[v]
  BY DEF vars
<1>1. stored[v] \in Int
  BY NewRowIsLast DEF SafeInv, SafeFor
<1>2. ASSUME NEW u \in Users, Close(u) PROVE stored[v] <= stored'[v]
  <2>1. stored'[v] = stored[v] \/ (Loaded(v) /\ stored'[v] = lastRecv[v])
    BY <1>2 DEF Close, SafeInv, Inv, TypeOK
  <2>2. Loaded(v) => stored[v] <= lastRecv[v]
    BY DEF SafeInv, SafeFor, UserInv, PipeOrdered
  <2> QED
    BY <1>1, <2>1, <2>2
<1>3. CASE \A u \in Users : ~Close(u)
  <2>1. UNCHANGED stored
    BY <1>3 DEF Next, Chat, AddFriend, AgreeFriend, Forward, Login, GetFriends,
                HandleConfirm, CloseUnsaved, Crash, CrashInForward,
                CrashUnnumbered, GetFriendsAgain, ClientReceive, tables
  <2> QED
    BY <1>1, <2>1
<1> QED
  BY <1>2, <1>3

(* It implies that what is on a connection is above the saved watermark.   *)
LEMMA WireAboveWatermark == SafeInv => SavedNotResent
<1> SUFFICES ASSUME SafeInv, NEW u \in Users, NEW n \in Elements(wire[u])
             PROVE  stored[u] < n
  BY DEF SavedNotResent
<1>1. wire[u] # <<>>
  BY EmptyQueue
<1>2. Loaded(u)
  BY <1>1 DEF SafeInv, SafeFor, UserInv, Idle
<1>3. stored[u] <= lastRecv[u] /\ lastRecv[u] < n
  BY <1>2 DEF SafeInv, SafeFor, UserInv, PipeOrdered
<1>4. stored[u] \in Int /\ lastRecv[u] \in Int /\ n \in Int
  BY NewRowIsLast, ElementsIn DEF SafeInv, SafeFor
<1> QED
  BY <1>3, <1>4

(* The strengthened invariant, in every behaviour without a mishap.        *)
LEMMA SafeAlways == NarrowIds => (Spec /\ NoMishap => []SafeInv)
<1> SUFFICES ASSUME NarrowIds PROVE Spec /\ NoMishap => []SafeInv
  OBVIOUS
<1>1. SafeInv /\ [Next]_vars /\ [~Mishap]_vars => SafeInv'
  BY SafeNext
<1> QED
  BY <1>1, SafeInit, PTL DEF Spec, NoMishap

(* A confirmed message that is lost was lost by a mishap: without one,     *)
(* what is confirmed and not received is on its way or will be loaded.     *)
THEOREM NeverLost == NarrowIds => (Spec /\ NoMishap => []NoLoss)
<1> SUFFICES ASSUME NarrowIds PROVE Spec /\ NoMishap => []NoLoss
  OBVIOUS
<1>1. Spec /\ NoMishap => []SafeInv
  BY SafeAlways
<1>2. SafeInv => NoLoss
  BY NothingLost DEF SafeInv, NoLoss
<1> QED
  BY <1>1, <1>2, PTL

(* Without a mishap the saved watermark never passes a message that was    *)
(* not received.                                                           *)
THEOREM WatermarkNeverPasses == NarrowIds => (Spec /\ NoMishap => []WatermarkCovers)
<1> SUFFICES ASSUME NarrowIds PROVE Spec /\ NoMishap => []WatermarkCovers
  OBVIOUS
<1>1. Spec /\ NoMishap => []SafeInv
  BY SafeAlways
<1>2. SafeInv => WatermarkCovers
  BY DEF SafeInv, SafeFor, UserInv, Covered, WatermarkCovers
<1> QED
  BY <1>1, <1>2, PTL

(* Without a mishap a session delivers each message once, in the order of  *)
(* ids, whatever mixture of requests sends it.                             *)
THEOREM OrderedSession == NarrowIds => (Spec /\ NoMishap => []InOrder)
<1> SUFFICES ASSUME NarrowIds PROVE Spec /\ NoMishap => []InOrder
  OBVIOUS
<1>1. Spec /\ NoMishap => []SafeInv
  BY SafeAlways
<1>2. SafeInv => InOrder
  BY PipeInOrder DEF SafeInv, InOrder
<1> QED
  BY <1>1, <1>2, PTL

(* Without a mishap nothing that the saved watermark covers is sent again. *)
THEOREM NeverResent == NarrowIds => (Spec /\ NoMishap => []SavedNotResent)
<1> SUFFICES ASSUME NarrowIds PROVE Spec /\ NoMishap => []SavedNotResent
  OBVIOUS
<1>1. Spec /\ NoMishap => []SafeInv
  BY SafeAlways
<1> QED
  BY <1>1, WireAboveWatermark, PTL

(* Without a mishap the saved watermark never moves back.                  *)
THEOREM WatermarkGrows == NarrowIds => (Spec /\ NoMishap => StoredMonotone)
<1> SUFFICES ASSUME NarrowIds PROVE Spec /\ NoMishap => StoredMonotone
  OBVIOUS
<1>1. Spec /\ NoMishap => []SafeInv
  BY SafeAlways
<1> QED
  BY <1>1, WatermarkStep, PTL DEF Spec, StoredMonotone

(* The users whom no mishap has met.                                       *)
OthersSafe == \A u \in Users \ struck : SafeFor(u)

(* Recipients do not depend on each other: a step that is not a mishap of  *)
(* v keeps what holds of v, whosever mishap it is.                         *)
LEMMA NotedStep ==
  ASSUME NarrowIds, OthersSafe, [NotedNext]_all
  PROVE  OthersSafe'
<1> SUFFICES ASSUME NEW v \in Users \ struck' PROVE SafeFor(v)'
  BY DEF OthersSafe
<1>1. (Next /\ Noted) \/ UNCHANGED <<vars, struck>>
  BY DEF NotedNext, Next, all
<1>2. [Next]_vars
  BY <1>1
<1>3. v \notin struck /\ [~MishapOf(v)]_vars
  BY <1>1 DEF Noted
<1> QED
  BY <1>2, <1>3, SafeStep DEF OthersSafe

(* .. so it holds in every behaviour, mishaps and all.                     *)
LEMMA OthersAlwaysSafe == NarrowIds => (NotedSpec => []OthersSafe)
<1> SUFFICES ASSUME NarrowIds PROVE NotedSpec => []OthersSafe
  OBVIOUS
<1>1. NotedInit => OthersSafe
  BY SafeInit DEF NotedInit, SafeInv, OthersSafe
<1>2. OthersSafe /\ [NotedNext]_all => OthersSafe'
  BY NotedStep
<1> QED
  BY <1>1, <1>2, PTL DEF NotedSpec

(* With every kind of request and every fault: a recipient whom no mishap  *)
(* of its own has met loses nothing, whatever is lost to others.           *)
THEOREM OthersNeverLose == NarrowIds => (NotedSpec => []OthersLoseNothing)
<1> SUFFICES ASSUME NarrowIds PROVE NotedSpec => []OthersLoseNothing
  OBVIOUS
<1>1. NotedSpec => []OthersSafe
  BY OthersAlwaysSafe
<1>2. OthersSafe => OthersLoseNothing
  <2>1. \A u \in Users : SafeFor(u) =>
          \A n \in confirmed[u] : n <= stored[u] => n \in received[u]
    BY DEF SafeFor, UserInv, Covered
  <2> QED
    BY <2>1, NothingLost DEF OthersSafe, OthersLoseNothing
<1> QED
  BY <1>1, <1>2, PTL

(* .. and gets each message once in a session, in the order of ids.        *)
THEOREM OthersAlwaysInOrder == NarrowIds => (NotedSpec => []OthersInOrder)
<1> SUFFICES ASSUME NarrowIds PROVE NotedSpec => []OthersInOrder
  OBVIOUS
<1>1. NotedSpec => []OthersSafe
  BY OthersAlwaysSafe
<1>2. OthersSafe => OthersInOrder
  BY PipeInOrder DEF OthersSafe, OthersInOrder
<1> QED
  BY <1>1, <1>2, PTL

(* agreeFriend alone causes no mishap.                                     *)
LEMMA AgreedIsSafe == Agreed => (Spec => NoMishap)
<1> SUFFICES ASSUME Agreed PROVE Spec => NoMishap
  OBVIOUS
<1>1. [Next]_vars => [~Mishap]_vars
  <2> SUFFICES ASSUME Mishap PROVE FALSE
    OBVIOUS
  <2>1. PICK u \in Users : Early(u) \/ Rejected(u)
    BY DEF Mishap, MishapOf
  <2>2. ~Chat(u) /\ ~AddFriend(u)
    BY DEF Chat, AddFriend, Agreed
  <2>3. /\ "sql" \notin Faults
        /\ \A kind : ~(kind \in {"sql", "redis"} /\ Goes(kind))
        /\ \A failed \in Rejections : failed = {}
    BY DEF Goes, Agreed, Rejections
  <2>4. AgreeFriend(u) => UNCHANGED faults
    BY <2>3 DEF AgreeFriend, Forward, Fails, NoFault
  <2>5. Login(u) => UNCHANGED faults
    BY <2>3 DEF Login, NoFault
  <2>6. GetFriends(u) => UNCHANGED faults
    BY <2>3 DEF GetFriends, LoadCache, LoadCacheFails, NoFault
  <2>7. ~CrashUnnumbered(u)
    BY <2>3 DEF CrashUnnumbered
  <2> QED
    BY <2>1, <2>2, <2>4, <2>5, <2>6, <2>7 DEF Early, Rejected
<1> QED
  BY <1>1, PTL DEF Spec, NoMishap

(* With AGREE_SB alone no confirmed message is lost.                       *)
THEOREM AgreedNeverLost == Agreed => (Spec => []NoLoss)
<1> SUFFICES ASSUME Agreed PROVE Spec => []NoLoss
  OBVIOUS
<1>1. Spec => NoMishap
  BY AgreedIsSafe
<1>2. Spec /\ NoMishap => []NoLoss
  BY NeverLost DEF Agreed
<1> QED
  BY <1>1, <1>2, PTL

(* .. the saved watermark never passes one that was not received.          *)
THEOREM AgreedWatermarkCovers == Agreed => (Spec => []WatermarkCovers)
<1> SUFFICES ASSUME Agreed PROVE Spec => []WatermarkCovers
  OBVIOUS
<1>1. Spec => NoMishap
  BY AgreedIsSafe
<1>2. Spec /\ NoMishap => []WatermarkCovers
  BY WatermarkNeverPasses DEF Agreed
<1> QED
  BY <1>1, <1>2, PTL

(* .. a session delivers each message once, in the order of ids.           *)
THEOREM AgreedInOrder == Agreed => (Spec => []InOrder)
<1> SUFFICES ASSUME Agreed PROVE Spec => []InOrder
  OBVIOUS
<1>1. Spec => NoMishap
  BY AgreedIsSafe
<1>2. Spec /\ NoMishap => []InOrder
  BY OrderedSession DEF Agreed
<1> QED
  BY <1>1, <1>2, PTL

(* .. nothing the saved watermark covers is sent again.                    *)
THEOREM AgreedNotResent == Agreed => (Spec => []SavedNotResent)
<1> SUFFICES ASSUME Agreed PROVE Spec => []SavedNotResent
  OBVIOUS
<1>1. Spec => NoMishap
  BY AgreedIsSafe
<1>2. Spec /\ NoMishap => []SavedNotResent
  BY NeverResent DEF Agreed
<1> QED
  BY <1>1, <1>2, PTL

(* .. the saved watermark never moves back.                                *)
THEOREM AgreedMonotone == Agreed => (Spec => StoredMonotone)
<1> SUFFICES ASSUME Agreed PROVE Spec => StoredMonotone
  OBVIOUS
<1>1. Spec => NoMishap
  BY AgreedIsSafe
<1>2. Spec /\ NoMishap => StoredMonotone
  BY WatermarkGrows DEF Agreed
<1> QED
  BY <1>1, <1>2, PTL
=============================================================================
