CONSTANTS
  Symbol <- MCSymbol
  Key <- MCKey
  Value <- MCValue
  SnapshotEveryNWriteOps = 2
  MaxCalls = 3
  MaxStarts = 2
SPECIFICATION Spec
PROPERTY
  RefinesKV
CHECK_DEADLOCK FALSE
