SPECIFICATION FairSpec
CONSTANTS
  Symbol <- MCSymbol
  File <- MCFile
  FiSize = 4
  ContentSize = 5
  MaxFiles = 3
INVARIANTS
  TypeOK
  NoRemains
  TakenWhole
PROPERTIES
  PresentIsTaken
CHECK_DEADLOCK FALSE
