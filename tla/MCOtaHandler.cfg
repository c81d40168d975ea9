SPECIFICATION MCFairSpec
CONSTANTS
  f1 = f1
  f2 = f2
  Firmware = {f1, f2}
  NoFirmware = NoFirmware
  FwSize = 2
  ChunkSize = 2
  ChunkRetries = 1
  MaxInFlight = 2
  MaxCalls = 3
INVARIANTS
  TypeOK
  BootsWholeFirmware
  ToldOnce
  NullOnlyAfterEnd
  Watched
  BufferRestored
PROPERTIES
  UpdateEnds
CHECK_DEADLOCK FALSE
