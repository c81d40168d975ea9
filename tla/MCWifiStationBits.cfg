SPECIFICATION Spec
CONSTANT EXAMPLE_ESP_MAXIMUM_RETRY = 3
INVARIANT EitherConnectedOrFailed
CHECK_DEADLOCK FALSE
