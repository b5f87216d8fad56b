\* A descendant in a session of its own keeps the output pipe open.
CONSTANTS
  Leader = leader
  Others = {c1}
  HeadLimit = 1
  TailLimit = 1
  ReadSize = 1
  MaxEscapes = 1
  MaxOutput = 1
SPECIFICATION Spec
PROPERTY TimeoutBoundsExecution
CHECK_DEADLOCK FALSE
