SPECIFICATION Spec
CONSTANTS
  PumpOn = 3
  PumpRest = 6
  ModemOn = 2
  ModemRest = 6
  MaxLap = 2
  MaxSettle = 1
  GpioAfterReset <- MCGpioAfterReset
  MaxTime = 34
  MaxBoots = 1
INVARIANTS
  TypeOK
  ValveBeforePump
  PumpRunBounded
  ModemOnBounded
PROPERTIES
  RestBetweenRuns
CHECK_DEADLOCK FALSE
