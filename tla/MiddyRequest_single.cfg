\* One call with full stacks, on a plain or a durable context.
SPECIFICATION FairSpec
CONSTANTS
  Requests = {r}
  Hosts = {h, d}
  Durable = {d}
  StackLen <- TwoEach
  None = None
INVARIANTS
  TypeOK
  ErrorNotLost
  FailedNeverAnswersStale
  RequestEndOnce
  TimerDisarmed
PROPERTIES
  EarlyTimeoutSettles
\* A settled call is not made again.
CHECK_DEADLOCK FALSE
