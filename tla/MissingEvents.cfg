SPECIFICATION OneUnknownSpec
CONSTANTS
  Event <- Events
  Graph <- Acyclics
  AskedLimit = {0, 2, 30}
INVARIANTS OnlyWanted CompleteWithRoom
CHECK_DEADLOCK FALSE
