SPECIFICATION FairSpec
CONSTANTS
  MaxOrders = 2
  Size = 1
  StartBase = 1
  StartQuote = 1
  MaxBase = 2
  ConfirmAttempts = 2
  StopAttempts = 2
  Faults = {"get", "delete", "post_lost", "post_dropped", "rate_post", "auth", "stop_slow"}
  MaxFaults = 1
  MaxKills = 1
  MaxResets = 0
  MaxCrashes = 0
PROPERTY KillClears StopEnds OrdersSettle
