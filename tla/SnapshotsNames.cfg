SPECIFICATION Spec
CONSTANTS
  p1 = p1
  p2 = p2
  a = a
  b = b
  c = c
  s1 = s1
  s2 = s2
  None = None
  Proc <- OneProc
  Vol <- ThreeNames
  Snap <- TwoSnaps
  Cmds <- Cloning
  Faults <- NoSet
  Killable <- NoSet
  MaxFailures = 0
  Lossy <- NoSet
  LateCalls <- NoSet
  SharedNames = TRUE
  RenameClones = FALSE
  Zone = "same"
  MaxVols = 3
  MaxWrites = 1
SYMMETRY Sym
INVARIANT CloneHolds
CHECK_DEADLOCK FALSE
