SPECIFICATION Spec
CONSTANTS
  Q32 = 4
  MaxTick = 8
  TickMultiplier <- MCMultiplier
  WordBits = 2
  FeeDen = 100
  V2FeeNum = 9
  V2FeeDen = 10
  MaxIterations = 12
  Spacing = 2
  FeePips = 3
  BaseRange <- MCBaseRange
  Others <- MCOthers
  PoolPrices = {45, 64, 101, 140}
  Growth = {60}
  StartGrowth = 65500
  WindowWords = 2
  WindowRefresh = 2
  Capital = 60
  Unit = 64
  UnitLiquidity = 64
  GasLive = 1
  GasFallback = 2
  HalfWidth = 65
  DriftLimit = 30
  Percent = 100
  Cooldown = 2
  SnapTolerance = 1
  Centers <- MCCenters
  Faults = {"read", "kill", "persist", "bounds", "window", "ticks", "words", "fee"}
  MaxFaults = 1
  MaxBlocks = 3
  MaxTicks = 3
INVARIANT NeverOverdrawn
PROPERTY Reconciles ExactIsTrue OpensInRange
CHECK_DEADLOCK FALSE
