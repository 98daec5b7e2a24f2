SPECIFICATION Spec
CONSTANTS
  c1 = c1
  c2 = c2
  c3 = c3
  i1 = i1
  Call = {c1, c2, c3}
  Id = {i1}
  Payload = {"p", "q"}
  IdOf <- MCIdOf
  PayloadOf <- MCPayloadOf
  Result = {"x", "y"}
  Tx = {t1, t2}
  None = None
  MaxSends = 2
SYMMETRY TxSymmetry
INVARIANTS TypeOK AtMostOnce AnswerIsDurable 
CHECK_DEADLOCK FALSE
