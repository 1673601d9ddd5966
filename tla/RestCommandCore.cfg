SPECIFICATION Spec
CONSTANTS
  Hosts = 3
  Rounds = 2
  Tries = 2
  Retries = 1
  Requests = 2
  Changes <- OneChange
  Lines = 2
INVARIANTS GivesUpLast OneWholeRun
CHECK_DEADLOCK FALSE
