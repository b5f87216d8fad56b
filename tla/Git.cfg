\* Two service calls of any kind, one step of somebody else, one failure.
CONSTANTS
  f1 = f1  f2 = f2  main = main  dev = dev
  Callers = {c1, c2}
  Files = {f1, f2}
  Versions = {"a", "b"}
  Branches = {main, dev}
  Start <- MCStart
  Detached = Detached
  Free = Free
  MaxCalls = 2
  MaxOthers = 1
  MaxFaults = 1
SPECIFICATION Spec
INVARIANT TypeOK
PROPERTIES
  ReviewIsSnapshot
  CommitsWhatWasStaged
  CheckoutStartsClean
  CallsEnd
\* When all calls are made, nothing more need happen.
CHECK_DEADLOCK FALSE
