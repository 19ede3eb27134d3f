\* Clients come while the loops' threads start, and log in again at will.
CONSTANTS
  NLoops = 2
  InitLoops = 1
  Users = {1, 2}
  Conns = {c1, c2}
  NoConn = NoConn
  Relogin = TRUE
  MaxLogins = 2
SPECIFICATION FairNotedSpec
INVARIANTS
  TypeOK
  OneOwner
  EventsAtOwner
  ClosedIsGone
  OneSession
  UserIsListed
  FoundAtOwner
PROPERTIES
  LoginAnswered
CHECK_DEADLOCK FALSE
