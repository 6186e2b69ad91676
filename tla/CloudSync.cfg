SPECIFICATION FairSpec
CONSTANTS
  Devices = {till1}
  MaxSeq = 2
  BatchSize = 1
  Locations = {bar, terrace}
  MovesOrders = TRUE
  MaxLate = 1
  MaxAssignments = 1
CHECK_DEADLOCK FALSE
INVARIANTS TypeOK ProjectionIsSound
PROPERTIES CloudFollowsTheVenue CloudCatchesUp
