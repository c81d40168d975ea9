SPECIFICATION Spec
CONSTANTS
  Symbol <- MCSymbol
  File <- MCFile
  FiSize = 4
  ContentSize = 5
  MaxFiles = 2
INVARIANT ContentOfWifiConfig
CHECK_DEADLOCK FALSE
