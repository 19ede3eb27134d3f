\* Chat alone: a message is left behind the watermark for ever.
CONSTANTS
  Users = {u1}
  Kinds = {"TO_SB"}
  Faults = {"close"}
  MaxMsg = 3
  MaxFaults = 2
  IdMod = 100
SPECIFICATION Spec
INVARIANT
  WatermarkCovers
CHECK_DEADLOCK FALSE
