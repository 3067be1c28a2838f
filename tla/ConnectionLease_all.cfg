\* Every lifetime, concurrent and durable invocations, one eviction.  Three invocations: one
\* reconnects while another, after its own reconnect, awaits a connect that was replaced.
SPECIFICATION Spec
CONSTANTS
  Requests = {r1, r2, r3}
  Cachings = {"off", "forever", "for"}
  MaxConnects = 3
  MaxDrops = 1
INVARIANTS
  TypeOK
  ClosedOnce
  NoLeak
PROPERTIES
  NeverClosesHeld
  SteadyHandsOutOpen
CHECK_DEADLOCK FALSE
