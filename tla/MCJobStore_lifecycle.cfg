SPECIFICATION Spec
CONSTANTS
  j1 = j1
  j2 = j2
  w1 = w1
  w2 = w2
  Job = {j1, j2}
  Worker = {w1, w2}
  Session = {s1, s2}
  NoSession = NoSession
  Resource = {"cpu", "gpu"}
  Need <- MCNeed
  Capacity <- MCCapacity
  MaxAttempts <- MCMaxAttempts
  Timeout <- MCTimeout
  LeaseSeconds = 1
  Key = {k1}
  Checksum = {"c"}
  Upload <- NoUpload
  MaxBudget = 2
  ReapLimit = 2
SYMMETRY SessionSymmetry
INVARIANTS TypeOK AttemptsAgree AttemptBudget CapacityRespected
PROPERTIES DrainedForGood LifecycleSpec
