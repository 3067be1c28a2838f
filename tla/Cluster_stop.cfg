\* Two workers, two re-forks, SIGTERM at any time, sources that close.
SPECIFICATION Spec
CONSTANTS
  Workers = 2
  InitialDelay = 1
  MaxDelay = 3
  MaxForks = 4
INVARIANTS
  TypeOK
  WorkersReplaced
  ReforksBackedOff
  ExitsLast
  ExitCodeTells
PROPERTIES
  StopsEventually
CHECK_DEADLOCK FALSE
