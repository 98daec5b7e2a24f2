SPECIFICATION FairSpec
CONSTANTS
  j1 = j1
  j2 = j2
  w1 = w1
  w2 = w2
  Job = {j1, j2}
  Worker = {w1}
  Session = {s1}
  NoSession = NoSession
  Resource = {"cpu", "gpu"}
  Need <- MCNeed
  Capacity <- MCCapacity
  MaxAttempts <- MCMaxAttempts
  Timeout <- MixedTimeout
  LeaseSeconds = 2
  Key = {k1}
  Checksum = {"c"}
  Upload <- NoUpload
  MaxBudget = 2
  ReapLimit = 2
INVARIANTS DeadlineCovered
PROPERTIES AttemptEnds
