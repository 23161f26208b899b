SPECIFICATION FairSpec
CONSTANTS
  r1 = r1
  r2 = r2
  r3 = r3
  h1 = h1
  i1 = i1
  i2 = i2
  Req = {r1, r2, r3}
  Host = {h1}
  Inst = {i1, i2}
  NoInst = NoInst
  ConfSleepLimit = 1
  ConfRejectLimit = 1
  ConfConcurrent = 1
  Prompt = TRUE
INVARIANTS SlotsAccountedFor ConcurrencyBound NoIdleSlotWhileQueued WaitingAccountedFor
PROPERTIES NoOvertaking EveryRequestLeaves
