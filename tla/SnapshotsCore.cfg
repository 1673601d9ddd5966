SPECIFICATION Spec
CONSTANTS
  p1 = p1
  p2 = p2
  a = a
  b = b
  c = c
  s1 = s1
  s2 = s2
  None = None
  Proc <- Procs
  Vol <- TwoNames
  Snap <- TwoSnaps
  Cmds <- Commands
  Faults <- CoreFaults
  Killable <- Calls
  MaxFailures = 1
  Lossy <- CoreLossy
  LateCalls <- Creates
  SharedNames = FALSE
  RenameClones = FALSE
  Zone = "same"
  MaxVols = 2
  MaxWrites = 1
CONSTRAINT Overlap
SYMMETRY Sym
INVARIANTS CloneHolds Kept Explained ConfigFollows
PROPERTY OnlyNamed
CHECK_DEADLOCK FALSE
