CONSTANTS
  f1 = f1  f2 = f2  dir = dir  ca = ca  cb = cb  cx = cx
  Absent = Absent
  NoDir = NoDir
  Files = {f1, f2}
  Contents = {ca, cb, cx}
  Foreign = {cx}
  Dirs = {dir}
  DirOf <- MCDirOf
  Patches <- MCPatches
  SameEdits = TRUE
  RecoveryFails = TRUE
  MaxFaults = 3
  MaxEdits = 0
SPECIFICATION Spec
INVARIANT ErrorMeansNotApplied
CHECK_DEADLOCK FALSE
