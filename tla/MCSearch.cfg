CONSTANTS
  Symbol <- MCSymbol
  Key = {a, b}
  Value <- MCValue
  Queries = {}
  Bm25 <- MCBm25
  CompactionDeleteThreshold = 2
  SizeModulus = 64
  MaxCalls = 5
  MaxReplayed = 2
SYMMETRY KeySymmetry
SPECIFICATION Spec
INVARIANTS
  TypeOK
  SearchMatchesStore
  PostingsMatchEntries
PROPERTY
  IdsKeepTheirMeaning
CHECK_DEADLOCK FALSE
