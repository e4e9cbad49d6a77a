SPECIFICATION Spec
CONSTANTS
  Q32 = 6
  MaxTick = 8
  TickMultiplier <- MCMultiplier
  WordBits = 2
  FeeDen = 100
  V2FeeNum = 97
  V2FeeDen = 100
  MaxIterations = 12
  Spacing = 2
  FeePips = 3
  V3Fee = 5
  UrBalance = 839808
  Sr02Balance = 0
  BaseRange <- MCBaseRange
  StartReserves <- MCReserves
  Orders <- MCOrders
  Calls <- MCCalls
  Others <- MCOthers
  WindowWords = 1
  ReanchorBlocks = 2
  BlockTime = 12
  MaxBlocks = 3
  MaxTxs = 3
  MaxPerBlock = 2
INVARIANT MathIsExact TrackerIsTrue PredictedIfFirst
CHECK_DEADLOCK FALSE
