CONSTANTS
  Symbol <- MCSymbol
  Key <- MCKey
  Value <- MCValue
  SnapshotEveryNWriteOps = 2
  MaxCalls = 3
  MaxStarts = 3
SPECIFICATION FairSpec
INVARIANTS
  TypeOK
  OffsetsResolve
  FilesMatchIndex
PROPERTY
  EngineReturns
CHECK_DEADLOCK FALSE
