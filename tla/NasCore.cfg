SPECIFICATION Spec
CONSTANTS
  n1 = n1
  n2 = n2
  d1 = d1
  d2 = d2
  s1 = s1
  None = None
  Node <- Nodes
  Disk <- Disks
  Snap <- Snaps
  Attempts = 2
  MaxWrites = 2
  MaxFailures = 2
SYMMETRY Sym
INVARIANTS Findable
PROPERTY RollbackRestores
CHECK_DEADLOCK FALSE
