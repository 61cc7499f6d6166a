\* payloads are ingested in any order and contents recur
SPECIFICATION Spec
CONSTANTS
  None = None
  A = A  B = B  X = X  Y = Y  i1 = i1  e1 = e1
  Rules = {A, B}
  Books = {X}
  Assessments = {i1}
  Pairings = {e1}
  IdOrder <- MCIdOrder
  MaxTime = 2
  OneAtATime = FALSE
  Recurs = TRUE
  MaxFetches = 2
  MaxCalls = 2
INVARIANTS TypeOK FreshVerdicts
CHECK_DEADLOCK FALSE
