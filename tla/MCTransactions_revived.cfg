SPECIFICATION Spec
CONSTANTS
  w1 = w1
  w2 = w2
  Job = {1}
  Worker = {w1}
  Tx = {t1, t2}
  None = None
  Need <- MCNeed
  Capacity <- MCCapacity
  MaxAttempts <- MCMaxAttempts
  Timeout <- MCTimeout
  LeaseSeconds = 1
  MaxBudget = 2
  ReapLimit = 1
PROPERTIES NeverRevived
