SPECIFICATION FairSpec
CONSTANTS
  k1 = k1
  r1 = r1
  Order <- ThreeCaches
  Key = {k1}
  Reader = {r1}
  MaxVersion = 1
  MaxChannel = 2
INVARIANT StaleIsOnItsWayOut
PROPERTY StaleGoes
