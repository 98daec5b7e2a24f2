SPECIFICATION Spec
CONSTANTS
  j1 = j1
  j2 = j2
  w1 = w1
  w2 = w2
  Job = {j1}
  Worker = {w1}
  Session = {s1}
  NoSession = NoSession
  Resource = {"cpu", "gpu"}
  Need <- MCNeed
  Capacity <- MCCapacity
  MaxAttempts <- MCMaxAttempts
  Timeout <- MCTimeout
  LeaseSeconds = 1
  Key = {"a", "b", "d"}
  Checksum = {"c", "e"}
  Upload <- Reports
  MaxBudget = 3
  ReapLimit = 2
INVARIANTS ArtifactsInOrder ResumesFromLatest EventsAgree
