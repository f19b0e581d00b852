CONSTANTS
  Key = {a, b}
  Value = {x, y}
SPECIFICATION Spec
INVARIANTS
  TypeOK
  Promise
PROPERTY
  CrashIsAtomic
