CONSTANTS
  Demand = {{"TIER1", "TIER2"}, {"TIER3"}}
  Interval <- Minutes
  Ttl = 3
  Hour = 8
  MaxJobs = 1
  Failure = {"slow", "publish", "fsp", "database", "others", "stop"}
SPECIFICATION Spec
INVARIANTS
  TierIsFollowed
PROPERTIES
  DispatcherIsAClock
  PromotionIsFresh
