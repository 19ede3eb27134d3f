\* AGREE_SB only; connections end, the process dies; two users.
CONSTANTS
  Users = {u1, u2}
  Kinds = {"AGREE_SB"}
  Faults = {"close", "crash", "again"}
  MaxMsg = 3
  MaxFaults = 2
  IdMod = 100
SPECIFICATION FairNotedSpec
INVARIANTS
  TypeOK
  NoLoss
  WatermarkCovers
  InOrder
  SavedNotResent
PROPERTIES
  StoredMonotone
  KeepsPromise
  EventuallyReceived
CHECK_DEADLOCK FALSE
