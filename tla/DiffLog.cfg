SPECIFICATION FairSpec
CONSTANTS
  Records = 2
  QueueSize = 1
  Length <- MCLength
  MaxFileBytes = 2
  MaxFiles = 2
  MaxMatches = 1
  MaxErrors = 1
  MaxRestarts = 2
INVARIANTS NoSendOnClosedQueue DiskBounded AcceptedIsAccountedFor
PROPERTIES EvidenceKept CheckpointsGrow CloseReturns
CHECK_DEADLOCK FALSE
