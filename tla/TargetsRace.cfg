SPECIFICATION FairSpec
CONSTANTS
  v1 = v1
  v2 = v2
  v3 = v3
  c1 = c1
  foreign = foreign
  u1 = u1
  p1 = p1
  p2 = p2
  None = None
  Proc <- Procs
  Volume <- Three
  Clone <- Clones
  Own <- Pair
  Foreign <- Foreigners
  Luns = 2
  User <- OneUser
  Modes <- JustNone
  Cmds <- Publishing
  Overlap <- Creates
  Faults <- NoSet
  MaxErrs = 1
  Lossy = TRUE
  LateCalls <- NoSet
  Clash <- NoSet
  Rounds = 2
  Attempts = 3
INVARIANTS AnswerHolds LostRace
PROPERTIES CommandEnds
