\* Every patch of one or two changes against three failing file operations and two
\* steps of other writers.
CONSTANTS
  f1 = f1  f2 = f2  dir = dir  ca = ca  cb = cb  cx = cx
  Absent = Absent
  NoDir = NoDir
  Files = {f1, f2}
  Contents = {ca, cb, cx}
  Foreign = {cx}
  Dirs = {dir}
  DirOf <- MCDirOf
  Patches <- MCPatches
  SameEdits = TRUE
  RecoveryFails = TRUE
  MaxFaults = 3
  MaxEdits = 2
SPECIFICATION Spec
INVARIANTS
  OthersEditsSurvive
  OriginalsRecoverable
PROPERTY ImplementsContract
\* A transaction that is over stops.
CHECK_DEADLOCK FALSE
