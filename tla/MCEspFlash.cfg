SPECIFICATION FairSpec
CONSTANTS
  t1 = t1
  t2 = t2
  Tasks = {t1, t2}
  Affinity <- MCAffinity
  Sectors = 2
  BlockSize = 2
  Regions <- MCRegions
  Mapped = {0}
INVARIANTS FlashAlone StaleOnlyDuring
PROPERTY LockGivenBack
