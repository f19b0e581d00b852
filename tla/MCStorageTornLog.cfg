CONSTANTS
  Symbol <- MCSymbol
  Key <- MCKey
  Value <- MCValue
  SnapshotEveryNWriteOps = 2
  MaxCalls = 3
  MaxStarts = 3
SPECIFICATION Spec
INVARIANT
  ReturnedCallsSurvive
CHECK_DEADLOCK FALSE
