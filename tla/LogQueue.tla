------------------------------ MODULE LogQueue ------------------------------
(***************************************************************************)
(* The asynchronous log (LogManager): every thread appends to logs under   *)
(* mtxLogs, and the log thread, which never sleeps, swaps logs with an     *)
(* empty vector and writes what it took.  Writing a FATAL entry aborts the *)
(* process: easylogging++ does it inside LOG(FATAL), so the sleep and exit *)
(* that follow are never reached (LogManager.h:54-55).  Until then the     *)
(* thread that logged it goes on.                                          *)
(***************************************************************************)
EXTENDS IdSeqs

CONSTANTS Loggers,   \* the threads that log
          MaxLogs,   \* bound: entries one thread logs
          LogThread, \* the thread of LogManager::loop
          NoThread   \* the holder of a free mutex

ASSUME LogQueueAssumption == /\ MaxLogs \in Nat
                             /\ LogThread \notin Loggers
                             /\ NoThread \notin Loggers \cup {LogThread}

(* Entry n of a thread; the other types differ in nothing that matters.    *)
Entries == [by : Loggers, n : 1..MaxLogs, type : {"INFO", "FATAL"}]

NoEntry == [by |-> NoThread, n |-> 0, type |-> "none"]

VARIABLES
  mtxLogs,   \* the thread that holds it
  call,      \* call[t]: the entry t has called logInQueue for, or NoEntry
  tmplog,    \* the member every call fills and copies from
  logs,
  pc,        \* pc: where the log thread is: swap / write
  tmpLogs,   \* what it has taken and not yet written
  written,   \* the entries in the log file
  aborted,   \* the process has ended
  count,     \* count[t]: entries t has logged or is logging
  logged     \* the entries pushed, in order (history)

vars == <<mtxLogs, call, tmplog, logs, pc, tmpLogs, written, aborted, count,
          logged>>

TypeOK == /\ mtxLogs \in Loggers \cup {LogThread, NoThread}
          /\ call \in [Loggers -> Entries \cup {NoEntry}]
          /\ tmplog \in Entries \cup {NoEntry}
          /\ logs \in Seq(Entries)
          /\ pc \in {"swap", "write"}
          /\ tmpLogs \in Seq(Entries)
          /\ written \in Seq(Entries)
          /\ aborted \in BOOLEAN
          /\ count \in [Loggers -> 0..MaxLogs]
          /\ logged \in Seq(Entries)

Init == /\ mtxLogs = NoThread
        /\ call = [t \in Loggers |-> NoEntry]
        /\ tmplog = NoEntry
        /\ logs = <<>>
        /\ pc = "swap"
        /\ tmpLogs = <<>>
        /\ written = <<>>
        /\ aborted = FALSE
        /\ count = [t \in Loggers |-> 0]
        /\ logged = <<>>

----------------------------------------------------------------------------
(* logInQueue.                                                             *)

Call(t, type) ==
  /\ ~aborted /\ call[t] = NoEntry /\ count[t] < MaxLogs
  /\ count' = [count EXCEPT ![t] = @ + 1]
  /\ call' = [call EXCEPT ![t] = [by |-> t, n |-> count[t] + 1, type |-> type]]
  /\ UNCHANGED <<mtxLogs, tmplog, logs, pc, tmpLogs, written, aborted, logged>>

Lock(t) ==
  /\ ~aborted /\ mtxLogs = NoThread /\ call[t] # NoEntry
  /\ mtxLogs' = t
  /\ UNCHANGED <<call, tmplog, logs, pc, tmpLogs, written, aborted, count, logged>>

(* Mutant: tmplog is pushed before it is filled.                           *)
PushStale(t) ==
  /\ ~aborted /\ mtxLogs = t
  /\ tmplog' = call[t]
  /\ logs' = Append(logs, tmplog)
  /\ logged' = Append(logged, call[t])
  /\ call' = [call EXCEPT ![t] = NoEntry]
  /\ mtxLogs' = NoThread
  /\ UNCHANGED <<pc, tmpLogs, written, aborted, count>>

(* tmplog is filled and pushed, and the mutex released.                    *)
Push(t) ==
  /\ ~aborted /\ mtxLogs = t
  /\ tmplog' = call[t]
  /\ logs' = Append(logs, call[t])
  /\ logged' = Append(logged, call[t])
  /\ call' = [call EXCEPT ![t] = NoEntry]
  /\ mtxLogs' = NoThread
  /\ UNCHANGED <<pc, tmpLogs, written, aborted, count>>

----------------------------------------------------------------------------
(* loop.                                                                   *)

LockLogs ==
  /\ ~aborted /\ mtxLogs = NoThread /\ pc = "swap"
  /\ mtxLogs' = LogThread
  /\ UNCHANGED <<call, tmplog, logs, pc, tmpLogs, written, aborted, count, logged>>

(* Mutant: the queue is copied and not emptied.                            *)
SwapCopies ==
  /\ ~aborted /\ mtxLogs = LogThread
  /\ tmpLogs' = logs
  /\ mtxLogs' = NoThread
  /\ pc' = "write"
  /\ UNCHANGED <<call, tmplog, logs, written, aborted, count, logged>>

(* swap, and the mutex is released.                                        *)
Swap ==
  /\ ~aborted /\ mtxLogs = LogThread
  /\ tmpLogs' = logs
  /\ logs' = <<>>
  /\ mtxLogs' = NoThread
  /\ pc' = "write"
  /\ UNCHANGED <<call, tmplog, written, aborted, count, logged>>

Fatal(e) == e.type = "FATAL"

(* Mutant: LOG(FATAL) writes and returns.                                  *)
WriteGoesOn ==
  /\ ~aborted /\ pc = "write" /\ tmpLogs # <<>>
  /\ written' = Append(written, Head(tmpLogs))
  /\ tmpLogs' = Tail(tmpLogs)
  /\ UNCHANGED <<mtxLogs, call, tmplog, logs, pc, aborted, count, logged>>

(* The first of the entries taken is written; LOG(FATAL) does not return.  *)
Write ==
  /\ ~aborted /\ pc = "write" /\ tmpLogs # <<>>
  /\ written' = Append(written, Head(tmpLogs))
  /\ tmpLogs' = Tail(tmpLogs)
  /\ aborted' = Fatal(Head(tmpLogs))
  /\ UNCHANGED <<mtxLogs, call, tmplog, logs, pc, count, logged>>

WriteDone ==
  /\ ~aborted /\ pc = "write" /\ tmpLogs = <<>>
  /\ pc' = "swap"
  /\ UNCHANGED <<mtxLogs, call, tmplog, logs, tmpLogs, written, aborted, count, logged>>

----------------------------------------------------------------------------

Loop == LockLogs \/ Swap \/ Write \/ WriteDone

Next == \/ Loop
        \/ \E t \in Loggers : \/ Lock(t) \/ Push(t)
                              \/ \E type \in {"INFO", "FATAL"} : Call(t, type)

Spec == Init /\ [][Next]_vars

(* The threads run.  Others take the mutex too, so the log thread finds it *)
(* free now and then and no more: that it gets it in the end is what one   *)
(* expects of std::mutex.                                                  *)
Fairness == /\ WF_vars(Swap \/ Write \/ WriteDone)
            /\ SF_vars(LockLogs)
            /\ \A t \in Loggers : WF_vars(Push(t))

FairSpec == Spec /\ Fairness

----------------------------------------------------------------------------
(* Properties.                                                             *)

Abstract == INSTANCE Journal WITH dead <- aborted

(* Entries are written once and in the order in which logInQueue took      *)
(* them, across swaps, and nothing behind the first FATAL one              *)
(* (LogManager.h:30-62).                                                   *)
IsJournal == Abstract!Spec

(* A FATAL entry ends the process, whatever else is logged meanwhile.      *)
FatalEnds == \A e \in Entries : (Fatal(e) /\ e \in Elements(logged)) ~> aborted
=============================================================================
