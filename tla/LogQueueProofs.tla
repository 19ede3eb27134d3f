--------------------------- MODULE LogQueueProofs ---------------------------
(***************************************************************************)
(* The log for every number of threads and entries: it implements Journal. *)
(***************************************************************************)
EXTENDS LogQueue, SequenceTheorems, TLAPS

(* Who holds the mutex has something to push, or is about to swap.         *)
HolderReady == /\ mtxLogs \in Loggers => call[mtxLogs] # NoEntry
               /\ mtxLogs = LogThread => pc = "swap"

(* Between two rounds nothing is left of what was taken.                   *)
NothingTaken == pc = "swap" => tmpLogs = <<>>

(* What was logged is what was written, what was taken and what waits.     *)
Pipeline == logged = (written \o tmpLogs) \o logs

Inv == TypeOK /\ HolderReady /\ NothingTaken /\ Pipeline

----------------------------------------------------------------------------
(* Three sequences one behind the other.                                   *)

(* An entry at the end of the last is at the end of the whole.             *)
LEMMA AppendLast ==
  ASSUME NEW S, NEW s \in Seq(S), NEW t \in Seq(S), NEW e \in S
  PROVE  s \o Append(t, e) = Append(s \o t, e)
<1> DEFINE a == s \o Append(t, e)
           b == Append(s \o t, e)
<1>1. /\ a \in Seq(S) /\ b \in Seq(S)
      /\ Len(a) = Len(s) + Len(t) + 1 /\ Len(b) = Len(s) + Len(t) + 1
      /\ Len(s) \in Nat /\ Len(t) \in Nat
  OBVIOUS
<1>2. ASSUME NEW i \in 1..Len(a) PROVE a[i] = b[i]
  BY <1>1, <1>2
<1> HIDE DEF a, b
<1>3. a = b
  BY <1>1, <1>2, SeqEqual
<1> QED
  BY <1>3 DEF a, b

(* The first of the second moves to the end of the first.                  *)
LEMMA MoveHead ==
  ASSUME NEW S, NEW s \in Seq(S), NEW t \in Seq(S), t # <<>>
  PROVE  /\ Append(s, Head(t)) \o Tail(t) = s \o t
         /\ (s \o t)[Len(s) + 1] = Head(t)
         /\ Len(s) < Len(s \o t)
<1> DEFINE a == Append(s, Head(t)) \o Tail(t)
           b == s \o t
<1>1. /\ Len(s) \in Nat /\ Len(t) \in Nat \ {0}
      /\ Head(t) \in S /\ Tail(t) \in Seq(S) /\ Len(Tail(t)) = Len(t) - 1
      /\ Head(t) = t[1]
      /\ \A i \in 1..(Len(t) - 1) : Tail(t)[i] = t[i + 1]
  OBVIOUS
<1>2. /\ Append(s, Head(t)) \in Seq(S) /\ Len(Append(s, Head(t))) = Len(s) + 1
      /\ \A i \in 1..Len(s) : Append(s, Head(t))[i] = s[i]
      /\ Append(s, Head(t))[Len(s) + 1] = Head(t)
  BY <1>1
<1> DEFINE h == Append(s, Head(t))
<1> HIDE DEF h
<1>3. /\ a \in Seq(S) /\ b \in Seq(S)
      /\ Len(a) = Len(s) + Len(t) /\ Len(b) = Len(s) + Len(t)
  BY <1>1, <1>2
<1>4. ASSUME NEW i \in 1..Len(b) PROVE a[i] = b[i]
  <2>1. CASE i \in 1..Len(s)
    BY <1>1, <1>2, <2>1
  <2>2. CASE i = Len(s) + 1
    BY <1>1, <1>2, <2>2
  <2>3. CASE i > Len(s) + 1
    <3>1. i - Len(s) - 1 \in 1..(Len(t) - 1) /\ i \in Nat
      BY <1>1, <1>3, <1>4, <2>3
    <3>2. a[i] = Tail(t)[i - Len(s) - 1]
      BY <1>1, <1>2, <1>3, <1>4, <2>3, <3>1
    <3>3. b[i] = t[i - Len(s)]
      BY <1>1, <1>3, <1>4, <2>3, <3>1
    <3> QED
      BY <1>1, <3>1, <3>2, <3>3
  <2> QED
    BY <1>1, <1>3, <1>4, <2>1, <2>2, <2>3
<1>5. b[Len(s) + 1] = Head(t) /\ Len(s) < Len(b)
  BY <1>1, <1>3
<1> HIDE DEF a, b
<1>6. a = b
  BY <1>3, <1>4, SeqEqual
<1> QED
  BY <1>5, <1>6 DEF a, b

----------------------------------------------------------------------------
(* The invariant.                                                          *)

(* It holds initially ..                                                   *)
LEMMA InitInv == Init => Inv
<1> SUFFICES ASSUME Init PROVE Inv
  OBVIOUS
<1>1. TypeOK
  <2>1. 0 \in 0..MaxLogs
    BY LogQueueAssumption
  <2>2. <<>> \in Seq(Entries)
    BY EmptySeq
  <2> QED
    BY <2>1, <2>2 DEF Init, TypeOK
<1>2. HolderReady /\ NothingTaken
  BY LogQueueAssumption DEF Init, HolderReady, NothingTaken
<1>3. Pipeline
  <2>1. \A s \in Seq(Entries) : s \o <<>> = s
    BY ConcatEmptySeq
  <2> QED
    BY <2>1, EmptySeq DEF Init, Pipeline
<1> QED
  BY <1>1, <1>2, <1>3 DEF Inv

(* .. an entry is pushed by the thread that holds the mutex ..             *)
LEMMA PushInv ==
  ASSUME Inv, NEW t \in Loggers, Push(t)
  PROVE  Inv' /\ Abstract!Next
<1>1. /\ mtxLogs = t /\ ~aborted
      /\ tmplog' = call[t]
      /\ logs' = Append(logs, call[t])
      /\ logged' = Append(logged, call[t])
      /\ call' = [call EXCEPT ![t] = NoEntry]
      /\ mtxLogs' = NoThread
      /\ UNCHANGED <<pc, tmpLogs, written, aborted, count>>
  BY DEF Push
<1>2. call[t] \in Entries
  BY <1>1 DEF Inv, TypeOK, HolderReady
<1>3. TypeOK'
  <2>1. logs' \in Seq(Entries) /\ logged' \in Seq(Entries)
    BY <1>1, <1>2 DEF Inv, TypeOK
  <2> QED
    BY <1>1, <1>2, <2>1 DEF Inv, TypeOK
<1>4. HolderReady' /\ NothingTaken'
  BY <1>1, LogQueueAssumption DEF Inv, HolderReady, NothingTaken
<1>5. Pipeline'
  <2>1. written \o tmpLogs \in Seq(Entries) /\ logs \in Seq(Entries)
    BY DEF Inv, TypeOK
  <2> DEFINE s == written \o tmpLogs
  <2> HIDE DEF s
  <2>2. s \o Append(logs, call[t]) = Append(s \o logs, call[t])
    BY <1>2, <2>1, AppendLast DEF s
  <2> QED
    BY <1>1, <2>2 DEF Inv, Pipeline, s
<1>6. Abstract!Log(call[t])
  BY <1>1 DEF Abstract!Log
<1> QED
  BY <1>2, <1>3, <1>4, <1>5, <1>6 DEF Inv, Abstract!Next

(* .. the log thread takes all there is ..                                 *)
LEMMA SwapInv ==
  ASSUME Inv, Swap
  PROVE  Inv' /\ UNCHANGED <<logged, written, aborted>>
<1>1. /\ mtxLogs = LogThread
      /\ tmpLogs' = logs /\ logs' = <<>>
      /\ mtxLogs' = NoThread /\ pc' = "write"
      /\ UNCHANGED <<call, tmplog, written, aborted, count, logged>>
  BY DEF Swap
<1>2. tmpLogs = <<>>
  BY <1>1 DEF Inv, HolderReady, NothingTaken
<1>3. TypeOK'
  BY <1>1, EmptySeq DEF Inv, TypeOK
<1>4. HolderReady' /\ NothingTaken'
  BY <1>1, LogQueueAssumption DEF Inv, HolderReady, NothingTaken
<1>5. Pipeline'
  <2>1. /\ written \in Seq(Entries) /\ logs \in Seq(Entries)
        /\ written \o logs \in Seq(Entries)
    BY DEF Inv, TypeOK
  <2>2. written \o <<>> = written /\ (written \o logs) \o <<>> = written \o logs
    BY <2>1, ConcatEmptySeq
  <2> QED
    BY <1>1, <1>2, <2>2 DEF Inv, Pipeline
<1> QED
  BY <1>1, <1>3, <1>4, <1>5 DEF Inv

(* .. and writes the first of it.                                          *)
LEMMA WriteInv ==
  ASSUME Inv, Write
  PROVE  Inv' /\ Abstract!Next
<1> DEFINE e == Head(tmpLogs)
<1>1. /\ ~aborted /\ pc = "write" /\ tmpLogs # <<>>
      /\ written' = Append(written, e)
      /\ tmpLogs' = Tail(tmpLogs)
      /\ aborted' = Fatal(e)
      /\ UNCHANGED <<mtxLogs, call, tmplog, logs, pc, count, logged>>
  BY DEF Write
<1>2. /\ written \in Seq(Entries) /\ tmpLogs \in Seq(Entries)
      /\ logs \in Seq(Entries)
      /\ e \in Entries /\ Tail(tmpLogs) \in Seq(Entries)
      /\ Append(written, e) \in Seq(Entries)
  BY <1>1 DEF Inv, TypeOK
<1>3. TypeOK'
  BY <1>1, <1>2 DEF Inv, TypeOK, Fatal
<1>4. HolderReady' /\ NothingTaken'
  BY <1>1 DEF Inv, HolderReady, NothingTaken
<1>5. /\ Append(written, e) \o Tail(tmpLogs) = written \o tmpLogs
      /\ (written \o tmpLogs)[Len(written) + 1] = e
      /\ Len(written) < Len(written \o tmpLogs)
  BY <1>1, <1>2, MoveHead
<1> HIDE DEF e
<1>6. Pipeline'
  BY <1>1, <1>5 DEF Inv, Pipeline
<1>7. logged[Len(written) + 1] = e /\ Len(written) < Len(logged)
  <2> DEFINE s == written \o tmpLogs
  <2>1. s \in Seq(Entries) /\ Len(written) \in Nat /\ Len(s) \in Nat
    BY <1>2
  <2> HIDE DEF s
  <2>2. /\ Len(s \o logs) = Len(s) + Len(logs) /\ Len(logs) \in Nat
        /\ \A i \in 1..Len(s) : (s \o logs)[i] = s[i]
    BY <1>2, <2>1
  <2>3. Len(written) + 1 \in 1..Len(s)
    BY <1>5, <2>1 DEF s
  <2> QED
    BY <1>5, <2>1, <2>2, <2>3 DEF s, Inv, Pipeline
<1>8. Abstract!Write
  BY <1>1, <1>7 DEF Abstract!Write
<1> QED
  BY <1>3, <1>4, <1>6, <1>8 DEF Inv, Abstract!Next

(* Every step keeps the invariant, and is a step of Journal or changes     *)
(* nothing that it sees.                                                   *)
LEMMA NextInv ==
  Inv /\ [Next]_vars => Inv' /\ [Abstract!Next]_<<logged, written, aborted>>
<1> SUFFICES ASSUME Inv, [Next]_vars
             PROVE  Inv' /\ [Abstract!Next]_<<logged, written, aborted>>
  OBVIOUS
<1>1. ASSUME NEW t \in Loggers, NEW type \in {"INFO", "FATAL"}, Call(t, type)
      PROVE  Inv' /\ UNCHANGED <<logged, written, aborted>>
  <2>1. TypeOK'
    BY <1>1, LogQueueAssumption DEF Call, Inv, TypeOK, Entries
  <2>2. HolderReady'
    <3>1. [by |-> t, n |-> count[t] + 1, type |-> type] # NoEntry
      BY LogQueueAssumption DEF NoEntry
    <3> QED
      BY <1>1, <3>1 DEF Call, Inv, TypeOK, HolderReady
  <2> QED
    BY <1>1, <2>1, <2>2 DEF Call, Inv, NothingTaken, Pipeline
<1>2. ASSUME NEW t \in Loggers, Lock(t)
      PROVE  Inv' /\ UNCHANGED <<logged, written, aborted>>
  BY <1>2, LogQueueAssumption
     DEF Lock, Inv, TypeOK, HolderReady, NothingTaken, Pipeline
<1>3. ASSUME NEW t \in Loggers, Push(t) PROVE Inv' /\ Abstract!Next
  BY <1>3, PushInv
<1>4. ASSUME LockLogs PROVE Inv' /\ UNCHANGED <<logged, written, aborted>>
  BY <1>4, LogQueueAssumption
     DEF LockLogs, Inv, TypeOK, HolderReady, NothingTaken, Pipeline
<1>5. ASSUME Swap PROVE Inv' /\ UNCHANGED <<logged, written, aborted>>
  BY <1>5, SwapInv
<1>6. ASSUME Write PROVE Inv' /\ Abstract!Next
  BY <1>6, WriteInv
<1>7. ASSUME WriteDone PROVE Inv' /\ UNCHANGED <<logged, written, aborted>>
  <2>1. mtxLogs # LogThread
    BY <1>7 DEF WriteDone, Inv, HolderReady
  <2> QED
    BY <1>7, <2>1 DEF WriteDone, Inv, TypeOK, HolderReady, NothingTaken, Pipeline
<1>8. CASE UNCHANGED vars
  BY <1>8 DEF vars, Inv, TypeOK, HolderReady, NothingTaken, Pipeline
<1> QED
  BY <1>1, <1>2, <1>3, <1>4, <1>5, <1>6, <1>7, <1>8 DEF Next, Loop

(* Everything keeps its type, in particular nothing is pushed that no      *)
(* thread has logged (LogManager.h:23-28).                                 *)
THEOREM TypeCorrect == Spec => []TypeOK
<1>1. Inv => TypeOK
  BY DEF Inv
<1> QED
  BY <1>1, InitInv, NextInv, PTL DEF Spec

(* The log implements Journal: swaps lose, double and reorder nothing, and *)
(* behind a FATAL entry nothing is written (LogManager.h:23-62).           *)
THEOREM LogIsJournal == Spec => IsJournal
<1>1. Init => Abstract!Init
  BY DEF Init, Abstract!Init
<1> QED
  BY <1>1, InitInv, NextInv, PTL DEF Spec, IsJournal, Abstract!Spec
=============================================================================
