\* Three frames in any pieces; strings of 1 byte instead of 32.
CONSTANTS
  StrLen = 1
  MaxContent = 1
  MaxFrames = 3
  ConfirmId = TRUE
SPECIFICATION FairSpec
INVARIANTS
  TypeOK
  Aligned
  TakesWhatArrived
PROPERTIES
  AllHandled
CHECK_DEADLOCK FALSE
