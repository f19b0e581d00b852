CONSTANTS
  Symbol <- MCSymbol
  Key <- MCKey
  Value <- MCValue
  Line <- MCLine
  SizeModulus = 64
  SnapshotEveryNWriteOps = 3
  CompactionDeleteThreshold = 1
  SNAPSHOT_THRESHOLD = 2
  MaxCalls = 3
  MaxStarts = 2
SPECIFICATION AllSpec
INVARIANTS
  AllTypeOK
  SearchSurvives
  LogIsCounted
PROPERTY
  FullCountEmptiesLog
CHECK_DEADLOCK FALSE
