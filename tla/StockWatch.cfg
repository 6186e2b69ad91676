SPECIFICATION WatchSpec
CONSTANTS
  Places = {"bar", "store"}
  InitialStock <- MCStock
  Configurations <- MCConfigurations
  Rates = {0, 1}
  Window = 10
  Remaining = 15
  Minimum = 1
  CoverThreshold = 15
  TargetCover = 20
  SourceSafety = 0
  WideSafety = 1
  Ratio = 1
  MaxEvents = 2
INVARIANTS WatchTypeOK OneActiveAlert
PROPERTIES AlertsDoTheirWork
