\* Every request and every fault, two users.
CONSTANTS
  Users = {u1, u2}
  Kinds = {"TO_SB", "ADD_SB", "AGREE_SB"}
  Faults = {"close", "crash", "sql", "redis", "again"}
  MaxMsg = 2
  MaxFaults = 2
  IdMod = 100
SPECIFICATION NotedSpec
SYMMETRY Symmetry
INVARIANTS
  StoredIsReceived
  OthersLoseNothing
  OthersInOrder
PROPERTIES
  KeepsPromise
CHECK_DEADLOCK FALSE
