\* What the hooks page says of timeoutEarlyResponse.
SPECIFICATION Spec
CONSTANTS
  Requests = {r}
  Hosts = {h}
  Durable = {}
  StackLen <- TwoEach
  None = None
INVARIANTS
  TimeoutAnswers
\* A settled call is not made again.
CHECK_DEADLOCK FALSE
