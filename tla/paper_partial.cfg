SPECIFICATION Spec
CONSTANTS
  Pairs = {"BTC", "ETH"}
  FirstPair = "BTC"
  Operators = {o1}
  Prices = {1, 2, 3}
  QuoteSize = 2
  InitialQuote = 100000
  MakerFeeBps = 1000
  MaxPositionBase = 4
  MaxPositionNotional = 8
  FillMode = "partial"
  FillLatency = 2
  CertainFill = FALSE
  Venues = {"dex", "v3", "arb"}
  MaxErrors = 3
  MaxTicks = 6
  MaxSwitches = 1
INVARIANT RestingIsFunded PositionCapped KillMeansNoQuotes BookIsSaved LpIsSaved
