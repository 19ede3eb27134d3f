\* Two threads that log two entries each.
CONSTANTS
  Loggers = {t1, t2}
  MaxLogs = 2
  LogThread = log
  NoThread = none
SPECIFICATION FairSpec
INVARIANTS
  TypeOK
PROPERTIES
  IsJournal
  FatalEnds
CHECK_DEADLOCK FALSE
