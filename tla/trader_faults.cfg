SPECIFICATION Spec
CONSTANTS
  MaxOrders = 3
  Size = 2
  StartBase = 2
  StartQuote = 6
  MaxBase = 4
  ConfirmAttempts = 5
  StopAttempts = 3
  Faults = {"get", "delete", "rate", "post_lost", "post_refused"}
  MaxFaults = 1
  MaxKills = 1
  MaxResets = 0
  MaxCrashes = 0
INVARIANT OneOrderPerSide WrittenOffIsDead OvershootBounded ResetsAreReal
PROPERTY QuietOnlyWhenConfirmed
