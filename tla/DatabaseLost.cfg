\* An indexer and a run.
CONSTANTS
  Indexers = {i1}
  Runs = {run}
  Turns = {}
  Routes = {}
  RepositoryOf <- MCRepositoryOf
  MaxRounds = 1
  None = None
  i1 = i1  i2 = i2  i3 = i3
SPECIFICATION Spec
INVARIANT OutcomePersisted
CHECK_DEADLOCK FALSE
