\* Every source, with three records: two share a Kafka partition, a broker's batch leaves
\* one buffered.
SPECIFICATION Spec
CONSTANTS
  MaxRecords = 3
  MaxRetries = 1
  MaxRejections = 1
  BatchSize = 2
  Prefetch = 3
INVARIANTS
  TypeOK
  SettledOnce
  DeliveriesHeld
PROPERTIES
  ImplementsDelivery
  DiscardsExhausted
  MovesOn
  EndsOnAbortOrFailure
CHECK_DEADLOCK FALSE
