SPECIFICATION Spec
CONSTANTS
  Epochs = 3
  MaxAttempts = 3
  Data = {d1, d2}
  Advance = {0, 1}
  Batch = 2
  Limit = 7
  MaxDamage = 1
INVARIANTS
  TypeOK
  NeverTorn
  ProgressOrdered
  
  AggregateSound
SYMMETRY DataSymmetry
CHECK_DEADLOCK FALSE
