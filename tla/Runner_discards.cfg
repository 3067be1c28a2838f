\* Two records: the second arrives while the first is retried.
SPECIFICATION Spec
CONSTANTS
  MaxRecords = 2
  MaxRetries = 1
  MaxRejections = 1
  BatchSize = 2
  Prefetch = 3
PROPERTY
  DiscardedWereRetried
CHECK_DEADLOCK FALSE
