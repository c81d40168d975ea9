SPECIFICATION FairSpec
CONSTANTS
  SEND_BUFFER_SIZE = 6
  AckEvery = 2
  TxWindow = 7
  SeqMod = 8
INVARIANTS
  TypeOK
  WedgeTakesReplies
  HandedToFreeController
PROPERTIES
  InOrder
  WindowReopens
  
  Connectable
CHECK_DEADLOCK FALSE
