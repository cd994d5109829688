\* Requests that interleave, pins at any time.  All requests may be over.
SPECIFICATION Spec
CONSTANTS
  r1 = r1
  r2 = r2
  t1 = t1
  t2 = t2
  t3 = t3
  ssn = ssn
  key = key
  Rules <- CliRules
  AnyDetector <- Star
  Requests <- Two
  Values <- Pair
  none = none
  NoValue = none
  Token <- Three
  Detectors <- Scanners
  CategoryOf <- Category
  Confidences <- LowAndHigh
  MayBeUnavailable <- WithModel
  SUGGEST_THRESHOLD = 1
  MaxFields = 2
SYMMETRY Symmetry
INVARIANTS TypeOK PinnedNeverLeaves RepliesStayScoped VerdictsHold
CHECK_DEADLOCK FALSE
