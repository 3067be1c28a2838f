\* Two instances sharing an entry of two keys, none with a unix timestamp.
SPECIFICATION Spec
CONSTANTS
  a = a
  b = b
  k1 = k1
  k2 = k2
  Instances = {a, b}
  Keys = {k1, k2}
  CacheExpiry <- DurationAndForever
  AssumeRole = FALSE
  Lifetimes = {1}
  MaxDelay = 2
  Early = 1
  Infinity = 100
  MaxTime = 3
  MaxCalls = 3
SYMMETRY Symmetry
INVARIANTS
  TypeOK
  NeverServesExpired
  NeverServesFailure
  RefreshNeverLost
PROPERTIES
  OnlyOwnFailureEvicts
CHECK_DEADLOCK FALSE
