SPECIFICATION Spec
CONSTANTS
  MaxOdd = 2
  MaxChanges = 2
  MaxRequests = 2
INVARIANTS RedactionHonoured PrunedForAReason PrivacyKept AccessWasGranted NoWholeAfterRedaction
CHECK_DEADLOCK FALSE
