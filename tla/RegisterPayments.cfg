SPECIFICATION FairSpec
CONSTANTS
  MaxAttempts = 2
  MaxTotal = 1
  Calls = {c1}
  Slots = {s1, s2}
  ClockMayGoBack = FALSE
CHECK_DEADLOCK FALSE
INVARIANTS TypeOK ResultsAreTrue OrderIsPaidOnce
PROPERTIES ResultsReachTheRegister
