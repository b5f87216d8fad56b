\* Two index requests, overlapping or not, and a search; one edit, one restart
\* and one failure between any two steps.
CONSTANTS
  Files <- MCFiles
  Texts <- MCTexts
  Trees <- MCTrees
  Settings <- MCSettings
  BatchSize = 1
  Indexers = {i1, i2}
  Searches = {s1}
  MaxRequests = 2
  MaxEdits = 1
  MaxRestarts = 1
  MaxFaults = 1
SPECIFICATION Spec
INVARIANTS
  NothingPaidTwice
PROPERTIES
  MirrorsTree
  ReindexRepairs
  SearchComplete
  IndexEnds
\* When all requests are made, nothing more need happen.
CHECK_DEADLOCK FALSE
