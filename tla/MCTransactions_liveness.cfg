SPECIFICATION FairSpec
CONSTANTS
  w1 = w1
  w2 = w2
  Job = {1, 2}
  Worker = {w1}
  Tx = {t1, t2}
  None = None
  Need <- MCNeed
  Capacity <- MCCapacity
  MaxAttempts <- MCMaxAttempts
  Timeout <- ShortTimeout
  LeaseSeconds = 1
  MaxBudget = 1
  ReapLimit = 2
INVARIANTS CapacityRespected
PROPERTIES TransactionEnds
