CONSTANTS
  Key = {a, b}
  Value = {x, y}
  KeySize <- MCKeySize
  WalFsyncEveryNWrites = 2
  ValueLogFsyncEveryNWrites = 3
  SnapshotEveryNWriteOps = 3
  Fails = {}
  MaxCalls = 3
  MaxStarts = 2
SYMMETRY PowerSymmetry
SPECIFICATION Spec
INVARIANT
  SnapshotIsDurable
CHECK_DEADLOCK FALSE
