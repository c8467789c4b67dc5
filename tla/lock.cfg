SPECIFICATION Spec
CONSTANTS
  Labels <- SomeLabels
  p1 = p1
  p2 = p2
  p3 = p3
  NoFile = NoFile
  AnyFree = AnyFree
  Procs <- ThreeProcs
  Owned <- TwoNames
  Typed <- SomeTyped
SYMMETRY ProcSymmetry
INVARIANTS TypeOK ExclusiveUnlessRaced VisibleUnlessRaced GuardsOnlyOwned
PROPERTIES SkipsOnlyTunnelled LeaseUnlessRaced
CHECK_DEADLOCK FALSE
