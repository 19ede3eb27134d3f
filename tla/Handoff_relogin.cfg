\* All loops have started; a client logs in again as somebody else.
CONSTANTS
  NLoops = 2
  InitLoops = 2
  Users = {1, 2}
  Conns = {c1}
  NoConn = NoConn
  Relogin = TRUE
  MaxLogins = 2
SPECIFICATION Spec
INVARIANT OwnedWhereListed
CHECK_DEADLOCK FALSE
