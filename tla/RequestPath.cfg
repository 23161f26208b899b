SPECIFICATION Spec
CONSTANTS
  r1 = r1
  r2 = r2
  r3 = r3
  h1 = h1
  i1 = i1
  Req = {r1, r2, r3}
  Host = {h1}
  Inst = {i1}
  NoInst = NoInst
  ConfSleepLimit = 1
  ConfRejectLimit = 1
  ConfConcurrent = 1
  Prompt = TRUE
  Asks <- AnyEndpoint
  HasShadow = TRUE
SYMMETRY Symmetry
INVARIANTS NobodyForgotten SynapseCost NoSlotAfterNative ComparedIsComplete DigesterReleased
PROPERTY OneAnswer
CHECK_DEADLOCK FALSE
