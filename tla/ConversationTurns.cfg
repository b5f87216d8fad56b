\* Four requests, so that a second summary is made on top of a first one.
CONSTANTS
  q1 = q1  q2 = q2  q3 = q3  q4 = q4
  Requests = {q1, q2, q3, q4}
  Costs = {1, 2, 3}
  Budget = 3
  Reserved = 1
  Parts = 2
  MaxFaults = 1
SPECIFICATION Spec
INVARIANTS
  OneTurnAtATime
  TurnsNumbered
  HistoryComplete
  WithinBudget
PROPERTIES
  CheckpointAdvances
  ClaimReleased
\* A conversation without new requests stops.
CHECK_DEADLOCK FALSE
