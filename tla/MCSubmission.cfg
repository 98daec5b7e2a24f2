SPECIFICATION LiveSpec
CONSTANTS
  v = v
  w = w
  Caller = {c1, c2, c3}
  Key = {1, 2, 3, 4}
  Def = {v, w}
  Batches <- MCBatches
  MaxJobs = 3
  Hash <- MCHash
  MaxErrors = 1
INVARIANTS
  AnswersAgree
  AllOrNothing
  WaitsAscend
PROPERTY SubmissionEnds
CHECK_DEADLOCK FALSE
