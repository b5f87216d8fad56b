\* Every patch of at most two hunks and three hunk lines, for at most two files,
\* against every text of at most two lines.
CONSTANTS
  Null = Null  Words = {w}
  Paths = {a, b}
  MaxNumber = 2
  MaxBody = 3
  MaxHunks = 2
  MaxLines = 2
SYMMETRY Renamings
SPECIFICATION Spec
INVARIANTS
  AppliesWhatItDeclares
  InverseRestores
\* A patch that is applied or rejected is over.
CHECK_DEADLOCK FALSE
