SPECIFICATION FairSpec
CONSTANTS
  Pairs = {"BTC", "ETH"}
  FirstPair = "BTC"
  Operators = {o1}
  Prices = {1, 2, 3}
  QuoteSize = 2
  InitialQuote = 68000
  MakerFeeBps = 1000
  MaxPositionBase = 3
  MaxPositionNotional = 8
  FillMode = "latency"
  FillLatency = 3
  CertainFill = TRUE
  Venues = {"dex", "v3"}
  MaxErrors = 3
  MaxTicks = 6
  MaxSwitches = 1
PROPERTY CrossedQuoteMatures SwitchRestarts
