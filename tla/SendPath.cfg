\* Two frames of two bytes, one other thread.
CONSTANTS
  Foreign = {other}
  Owner = owner
  FrameLen = 2
  MaxFrames = 2
SPECIFICATION FairSpec
INVARIANTS
  TypeOK
  InterestFollows
  NoStrandedBytes
PROPERTIES
  IsFrameStream
  EveryFrameWritten
CHECK_DEADLOCK FALSE
