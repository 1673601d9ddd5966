SPECIFICATION Spec
CONSTANTS
  v1 = v1
  v2 = v2
  v3 = v3
  c1 = c1
  foreign = foreign
  u1 = u1
  p1 = p1
  p2 = p2
  None = None
  Proc <- OneProc
  Volume <- Trio
  Clone <- NoSet
  Own <- Pair
  Foreign <- NoSet
  Luns = 3
  User <- OneUser
  Modes <- JustNone
  Cmds <- CreateRemove
  Overlap <- NoSet
  Faults <- NoSet
  MaxErrs = 1
  Lossy = TRUE
  LateCalls <- LateAttach
  Clash <- First
  Rounds = 2
  Attempts = 3
INVARIANTS AnswerOnTarget
PROPERTIES SessionsKept
