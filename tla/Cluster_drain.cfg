\* SIGTERM while a closed source already drains the workers.
SPECIFICATION Spec
CONSTANTS
  Workers = 2
  InitialDelay = 1
  MaxDelay = 3
  MaxForks = 2
INVARIANTS
  DrainUndisturbed
CHECK_DEADLOCK FALSE
