SPECIFICATION Spec
CONSTANTS
  k1 = k1
  k2 = k2
  Session = Session
  None = None
  Keys = {k1}
  q1 = q1
  q2 = q2
  Requests = {q1}
  Window = 4
  Second = 2
  FirstLimit <- MCFirstLimit
  NewLimits <- MCNewLimits
  MaxBatch = 2
  MaxActive = 2
  MaxHits = 4
  MaxTime = 6
  MaxChanges = 2
INVARIANTS WindowRespected HintSuffices
PROPERTIES GrowsPaidAndCapped
