SPECIFICATION Spec
CONSTANTS
  Impls = {i1, i2}
  LogImpls = {l1, l2}
  Writers = {w1, w2, w3}
  Levels = {0, 5}
  Null = Null
SYMMETRY Symmetry
INVARIANTS
  TypeOK
  CarefulIsSafe
  NothingLeaks
