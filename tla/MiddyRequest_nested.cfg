\* Two calls, nested, concurrent or one after the other on a context.
SPECIFICATION Spec
CONSTANTS
  Requests = {r1, r2}
  Hosts = {h}
  Durable = {}
  StackLen <- AfterOnly
  None = None
INVARIANTS
  MarkTracksRun
  TimelyHandlerNotAborted
PROPERTIES
  InheritsOnlyFromRunning
  ImplementsContract
SYMMETRY Symmetry
\* A settled call is not made again.
CHECK_DEADLOCK FALSE
