CONSTANTS
  Symbol <- MCSymbol
  Key = {a, b}
  Value <- MCValue
  Queries <- MCQueries
  Bm25 <- MCBm25
  CompactionDeleteThreshold = 2
  SizeModulus = 64
  MaxCalls = 2
  MaxReplayed = 2
SYMMETRY KeySymmetry
SPECIFICATION Spec
INVARIANT
  StatisticsExact
CHECK_DEADLOCK FALSE
