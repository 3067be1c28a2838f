\* Two instances sharing an entry of one key, each with a unix timestamp.
SPECIFICATION Spec
CONSTANTS
  a = a
  b = b
  k1 = k1
  k2 = k2
  Instances = {a, b}
  Keys = {k1}
  CacheExpiry <- BothUntil
  AssumeRole = TRUE
  Lifetimes = {1, 2}
  MaxDelay = 2
  Early = 1
  Infinity = 100
  MaxTime = 3
  MaxCalls = 3
INVARIANTS
  NeverServesExpired
CHECK_DEADLOCK FALSE
