\* A login that comes before all loops have started.
CONSTANTS
  NLoops = 2
  InitLoops = 1
  Users = {1}
  Conns = {c1}
  NoConn = NoConn
  Relogin = FALSE
  MaxLogins = 1
SPECIFICATION Spec
INVARIANT FoundAtHome
CHECK_DEADLOCK FALSE
