\* Three model turns with three tool calls between them, in one response or in several,
\* against a budget of two repairs, and two refused commits.
CONSTANTS
  MaxIterations = 3
  MaxRepairAttempts = 2
  MaxCalls = 3
  MaxFaults = 2
SPECIFICATION Spec
INVARIANTS
  CompletedRepairWasTested
  SequencesDense
  CallsAnswered
  EveryPatchBatchVerified
  RepairsBounded
PROPERTIES
  TerminalIsFinal
  RunSettles
\* A run that is over stops.
CHECK_DEADLOCK FALSE
