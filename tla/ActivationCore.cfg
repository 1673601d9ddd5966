SPECIFICATION Spec
CONSTANTS
  A = A
  B = B
  None = None
  t1 = t1
  t2 = t2
  k1 = k1
  k2 = k2
  k3 = k3
  v1 = v1
  v2 = v2
  v3 = v3
  n1 = n1
  n2 = n2
  Node = {n1, n2}
  Volume = {v1, v2}
  Store = {A}
  Target = {t1}
  Slot = {k1, k2}
  TargetOf <- OneTarget
  Snap = {}
  Parent <- NoParent
  StateVol = {}
  StoreOf <- OneStore
  Multipath = FALSE
  Cycles = 2
  Faults <- NothingStale
SYMMETRY SymNodesSlots
INVARIANTS TypeOK ActiveHolds
PROPERTIES DetachSpares FatalStops
