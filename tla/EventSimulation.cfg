SPECIFICATION SimulationSpec
CONSTANTS
  Bars = {1, 2}
  Scenarios = {"cloudOutage", "partition", "posIsolation", "edgeRestart", "largeReplay",
    "callbacks", "demandSpike", "replenishment", "slowDatabase", "wanFailover", "combined"}
  LocalCapacity = 3
  EdgeCapacity = 6
  SlowCapacity = 2
  TransferDelay = 1
  RestartLasts = 1
  TimeoutDelay = 1
CHECK_DEADLOCK FALSE
INVARIANTS BooksBalance EverySeedPasses
