SPECIFICATION Spec
CONSTANTS
  r1 = r1
  r2 = r2
  h1 = h1
  i1 = i1
  Req = {r1, r2}
  Host = {h1}
  Inst = {i1}
  NoInst = NoInst
  ConfSleepLimit = 1
  ConfRejectLimit = 1
  ConfConcurrent = 1
  Prompt = TRUE
  Asks <- Streams
  HasShadow = TRUE
INVARIANT SlotReturned
CHECK_DEADLOCK FALSE
