SPECIFICATION Spec
CONSTANTS
  MaxOrders = 2
  Size = 1
  StartBase = 1
  StartQuote = 1
  MaxBase = 2
  ConfirmAttempts = 1
  StopAttempts = 2
  Faults = {"get", "delete", "post_refused"}
  MaxFaults = 1
  MaxKills = 1
  MaxResets = 1
  MaxCrashes = 1
INVARIANT NoFillSkipped OneLiveSession
