\* payloads captured at two times are ingested in the other order
SPECIFICATION Spec
CONSTANTS
  None = None
  A = A  B = B  X = X  Y = Y  i1 = i1  e1 = e1
  Rules = {A, B}
  Books = {X}
  Assessments = {i1}
  Pairings = {e1}
  IdOrder <- MCIdOrder
  MaxTime = 2
  OneAtATime = FALSE
  Recurs = FALSE
  MaxFetches = 2
  MaxCalls = 1
INVARIANT GateSeesNoFuture
CHECK_DEADLOCK FALSE
