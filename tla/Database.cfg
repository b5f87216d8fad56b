\* Two indexers of one repository and one of another, a run, a turn and a handler in
\* a thread; up to two answers of each provider.
CONSTANTS
  Indexers <- MCIndexers
  Runs = {run}
  Turns = {turn}
  Routes = {route}
  RepositoryOf <- MCRepositoryOf
  MaxRounds = 1
  None = None
  i1 = i1  i2 = i2  i3 = i3
SPECIFICATION Spec
 
PROPERTY EveryRequestEnds
\* When every request is over the model stops.
CHECK_DEADLOCK FALSE
