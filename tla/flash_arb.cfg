SPECIFICATION Spec
CONSTANTS
  Q32 = 6
  MaxTick = 8
  TickMultiplier <- MCMultiplier
  WordBits = 2
  FeeDen = 100
  V2FeeNum = 97
  V2FeeDen = 100
  MaxIterations = 12
  Spacing = 2
  FeePips = 3
  BaseRange <- MCBaseRange
  Others <- MCOthers
  Orders <- MCOrders
  StartReserves <- MCReserves
  Owners = {"alice", "bob"}
  SimOwner = "simulator"
  Amounts = {20}
  MinProfits = {0, 3}
  Moves = {60}
  Gift = 5
  SmallUsdc = 1
  SmallWeth = 1
  ReferenceSize = 20
  GasCost = 2
  Subsidy = 100
  EveryTicks = 1
  WindowWords = 1
  MaxSearch = 12
  MaxBlocks = 3
  MaxReorgs = 1
  MaxRuns = 2
  MaxFaults = 1
INVARIANT HeldIsGifts RefusedBeforeMoving EstimateIsExact
PROPERTY OwnerIsPaid
CHECK_DEADLOCK FALSE
