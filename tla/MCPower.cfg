CONSTANTS
  Key = {a, b}
  Value = {x, y}
  KeySize <- MCKeySize
  WalFsyncEveryNWrites = 2
  ValueLogFsyncEveryNWrites = 3
  SnapshotEveryNWriteOps = 3
  Fails = {"open directory", "open log", "sync log"}
  MaxCalls = 4
  MaxStarts = 3
SYMMETRY PowerSymmetry
SPECIFICATION Spec
INVARIANTS
  TypeOK
  
  
CHECK_DEADLOCK FALSE
