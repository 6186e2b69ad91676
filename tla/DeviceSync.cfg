SPECIFICATION FairSpec
CONSTANTS
  MaxSeq = 3
  BatchSize = 2
  Absent = Absent
  NoLocation = NoLocation
  Locations = {old, bar}
  Legacy = old
  LegacyRegister = TRUE
  SharedMenus = TRUE
  MaxReassigns = 1
  FollowRunbook = FALSE
INVARIANTS
  TypeOK
  WatermarksAreSound
  CopiesDoNotFork
PROPERTIES
  ImplementsLog
  RegisterConverges
