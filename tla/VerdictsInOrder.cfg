\* payloads are ingested as they are captured and bring new contents
SPECIFICATION Spec
CONSTANTS
  None = None
  A = A  B = B  X = X  Y = Y  i1 = i1  e1 = e1
  Rules = {A, B}
  Books = {X, Y}
  Assessments = {i1}
  Pairings = {e1}
  IdOrder <- MCIdOrder
  MaxTime = 2
  OneAtATime = TRUE
  Recurs = FALSE
  MaxFetches = 2
  MaxCalls = 2
INVARIANTS VerdictsSeeNoFuture
PROPERTIES PastIsFixed ReplayRepeats
CHECK_DEADLOCK FALSE
