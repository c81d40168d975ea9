SPECIFICATION FairSpec
CONSTANTS
  Topic <- MCTopic
  Capacity = 2
  MaxRequests = 3
  MaxSubscribes = 1
  MaxDrops = 1
  MaxNoMemory = 1
INVARIANTS
  TypeOK
  Heard
  EraseInBounds
PROPERTIES
  Reconnects
CHECK_DEADLOCK FALSE
