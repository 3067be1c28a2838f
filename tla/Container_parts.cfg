\* Every part: two callers each, two rotations within and beyond the life of the cache, a
\* body of four chunks in a buffer of two, a batch of three records.
SPECIFICATION Spec
CONSTANTS
  Tokens = {t1, t2}
  MaxKeys = 3
  KeptKids = {3}
  CacheMaxAge = 2
  Cooldown = 2
  Timeout = 1
  Horizon = 5
  Invocations = {i1, i2}
  MaxCreds = 2
  MaxConfig = 2
  Chunks = 4
  HighWaterMark = 2
  AwsRequestLimit = 2
  Versions = {1, 2, 3}
  CacheMaxSize = 2
  MaxFetches = 2
  Connections = {c1, c2}
  BodyLimit = 2
  MaxParts = 2
  MaxRoutes = 2
  BatchLength = 3
  Received = 2
  DerivedClientsMax = 1
  MaxBodyBytes = 2
  MaxUsed = 3
  MaxCalls = 2
  Tasks = 2
  MaxSignificant = 2
  PlainUpTo = 3
  PlainDownTo = 1
  MaxDecimals = 3
  MaxBudget = 4
  MinWait = 2
  Margin = 1
INVARIANTS
  TypeOK
  FetchedIsOwn
  OutcomesHold
  RequestsServed
PROPERTIES
  KeysRefetched
  ClientIsCurrent
  CallsSettle
CHECK_DEADLOCK FALSE
