CONSTANTS
  Symbol <- MCSymbol
  Key <- MCSpacedKey
  Value <- MCValue
  SnapshotEveryNWriteOps = 2
  MaxCalls = 3
  MaxStarts = 3
SPECIFICATION Spec
INVARIANT
  AnyKeySurvives
CHECK_DEADLOCK FALSE
