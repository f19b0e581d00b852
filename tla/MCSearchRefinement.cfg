CONSTANTS
  Symbol <- MCSymbol
  Key = {a, b, c}
  Value <- MCValue
  Queries <- MCQueries
  Bm25 <- MCBm25
  CompactionDeleteThreshold = 2
  SizeModulus = 64
  MaxCalls = 2
  MaxReplayed = 0
SYMMETRY KeySymmetry
SPECIFICATION Spec
PROPERTY
  RefinesSearchable
CHECK_DEADLOCK FALSE
