SPECIFICATION SwitchLiveSpec
CONSTANTS
  drawdown = drawdown
  manual = manual
  Triggers <- MCTriggers
  WorkerTriggers <- MCWorkerTriggers
  Drawdown = drawdown
  Manual = manual
  RedisFails = TRUE
  Crashes = TRUE
INVARIANTS StoreRemembers
PROPERTIES CacheConverges
