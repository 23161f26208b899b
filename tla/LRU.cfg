SPECIFICATION Spec
CONSTANTS
  k1 = k1
  k2 = k2
  k3 = k3
  k4 = k4
  Key = {k1, k2, k3, k4}
  Value <- MCValue
  Size <- MCSize
  MaxBytes = 4
INVARIANTS BytesExact
PROPERTIES ImplementsBoundedMap EvictsOnlyWhatItMust
