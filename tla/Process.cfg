\* A command with two descendants, one of which may make its own session; more
\* output than the captures hold.
CONSTANTS
  Leader = leader
  Others = {c1, c2}
  HeadLimit = 2
  TailLimit = 3
  ReadSize = 3
  MaxEscapes = 1
  MaxOutput = 6
  MaxDiagnostics = 2
SPECIFICATION Spec
INVARIANTS
  HeadAndTailKept
  ResultIsWhole
  NoSurvivors
  VerdictOfWholeOutput
  NothingHidden
PROPERTY ReturnsUnlessEscaped
\* A run that is over stops.
CHECK_DEADLOCK FALSE
