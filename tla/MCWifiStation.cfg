SPECIFICATION FairSpec
CONSTANT EXAMPLE_ESP_MAXIMUM_RETRY = 3
INVARIANTS
  TypeOK
  AttemptsBounded
  WaitAnswered
  StrandedOnlyByLateFlag
PROPERTIES
  RestartIsLastResort
  WaitEnds
  LinkComesBack
CHECK_DEADLOCK FALSE
