SPECIFICATION Spec
CONSTANTS
  v1 = v1
  v2 = v2
  v3 = v3
  c1 = c1
  foreign = foreign
  u1 = u1
  p1 = p1
  p2 = p2
  None = None
  Proc <- OneProc
  Volume <- VolumeAndClone
  Clone <- Clones
  Own <- Pair
  Foreign <- Foreigners
  Luns = 2
  User <- OneUser
  Modes <- UserOrNone
  Cmds <- Commands
  Overlap <- NoSet
  Faults <- CoreFaults
  MaxErrs = 1
  Lossy = TRUE
  LateCalls <- LateCreate
  Clash <- NoSet
  Rounds = 2
  Attempts = 3
INVARIANTS TypeOK AnswerHolds ChapApplied RemoveCompletes Explained
PROPERTIES OthersStay SessionsKept
