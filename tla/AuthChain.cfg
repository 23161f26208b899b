SPECIFICATION FairSpec
CONSTANTS
  Event <- Events
  Graph <- Graphs
INVARIANT Exact
PROPERTY Terminates
CHECK_DEADLOCK FALSE
