\* Twentieths of a second; the wait equals the margin, as in the code, and
\* both, like the lease, are scaled down.
SPECIFICATION Spec
CONSTANTS
  LeaseSeconds = 5
  Timeout = 5
  Margin = 2
  Wait = 2
  MinCall = 2
  MaxCall = 3
  LeaseCall = 2
INVARIANT KilledBeforeLease
CHECK_DEADLOCK FALSE
