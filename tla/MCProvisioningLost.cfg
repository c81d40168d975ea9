SPECIFICATION FairSpec
CONSTANTS
  Symbol <- MCSymbol
  File <- MCFile
  FiSize = 4
  ContentSize = 5
  MaxFiles = 1
PROPERTY AcknowledgedIsUsed
CHECK_DEADLOCK FALSE
