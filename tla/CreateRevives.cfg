SPECIFICATION Spec
CONSTANTS
  Impls = {i1}
  LogImpls = {l1, l2}
  Writers = {w1}
  Levels = {0, 5}
  Null = Null
SYMMETRY Symmetry
INVARIANT
  CreateRevives
