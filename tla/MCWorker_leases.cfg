\* Half-second ticks: every time of the code is rounded to one tick or more.
SPECIFICATION LiveSpec
CONSTANTS
  LeaseSeconds = 3
  Timeout = 4
  Margin = 1
  Wait = 1
  MinCall = 1
  MaxCall = 2
  LeaseCall = 2
INVARIANTS
  TypeOK
  LocalDeadlineSafe
  OverrunBounded
  LateStartIsMet
  SuccessIsEarned
  NothingLeftBehind
PROPERTY ExecutionEnds
CHECK_DEADLOCK FALSE
