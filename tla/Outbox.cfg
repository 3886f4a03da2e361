\* Two overlapping dispatchers, two events of one asset, two attempts each, a crash and a revival.
SPECIFICATION FairSpec
CONSTANTS
  Asset = {a1}
  NoAsset = NoAsset
  MaxEvents = 2
  Dispatcher = {d1, d2}
  MaxAttempts = 2
  FailuresBeforeDisable = 2
  MaxCrashes = 1
  MaxRevivals = 1
CHECK_DEADLOCK FALSE
PROPERTIES
  KeepsOrder
  EventuallyOver
