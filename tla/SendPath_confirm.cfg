\* A confirmation and one more frame.
CONSTANTS
  Foreign = {other}
  Owner = owner
  FrameLen = 1
  MaxFrames = 2
SPECIFICATION FairSpec
PROPERTY ConfirmReturned
CHECK_DEADLOCK FALSE
