CONSTANTS
  q1 = q1  q2 = q2  q3 = q3  q4 = q4
  Requests = {q1, q2}
  Costs = {1}
  Budget = 3
  Reserved = 1
  Parts = 1
  MaxFaults = 0
SPECIFICATION Spec
PROPERTY BusyMeansRunning
CHECK_DEADLOCK FALSE
