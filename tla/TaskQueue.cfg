\* Two loops, calls of two tasks each.
CONSTANTS
  Loops = {l1, l2}
  Sizes = {2}
  MaxPosts = 2
  NoThread = NoThread
SPECIFICATION FairSpec
INVARIANTS
  TypeOK
  NoLostWakeup
  ProducerOrder
  BatchTogether
PROPERTIES
  IsMailbox
  QueuedRuns
