SPECIFICATION Spec
CONSTANTS
  MaxOrders = 1
  MaxTicks = 3
  MaxTime = 4
  MaxFailures = 2
  OrderSize = 2
  Prices <- PricesDef
  Books <- BooksDef
  Latency = 2
  Probability = 2
  Units = 4
  Calibrated = TRUE
  TouchRate = 3
  MaxInterval = 2
  VolatilityWindow = 2
  Draw <- DrawDef
INVARIANTS
  ReplayReproduces
  FillsAreLabelled
  ModelsAreOrdered
CHECK_DEADLOCK FALSE
