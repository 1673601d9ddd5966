SPECIFICATION Spec
CONSTANTS
  A = A
  B = B
  None = None
  t1 = t1
  t2 = t2
  k1 = k1
  k2 = k2
  k3 = k3
  v1 = v1
  v2 = v2
  v3 = v3
  n1 = n1
  Node = {n1}
  Volume = {v1, v3}
  Store = {A, B}
  Target = {t1, t2}
  Slot = {k1, k2, k3}
  TargetOf <- TwoTargets
  Snap = {}
  Parent <- NoParent
  StateVol = {v3}
  StoreOf <- TwoStores
  Multipath = FALSE
  Cycles = 2
  Faults <- Everything
INVARIANTS NoSharedTarget OneRecord
