SPECIFICATION Spec
CONSTANTS
  w1 = w1
  w2 = w2
  Job = {1}
  Worker = {w1, w2}
  Tx = {t1, t2}
  None = None
  Need <- MCNeed
  Capacity <- MCCapacity
  MaxAttempts <- TwoAttempts
  Timeout <- MCTimeout
  LeaseSeconds = 1
  MaxBudget = 3
  ReapLimit = 1
SYMMETRY Symmetry
INVARIANTS TypeOK LeaseNeverRefused
PROPERTIES NoEarlyExpiry LifecycleSteps
