SPECIFICATION FairSpec
CONSTANTS
  Visitors = {v1, v2, v3}
  Addresses = {a1}
  Settings = {s1}
  Workers = {w1, w2}
  QueueSize = 2
  LiveLimit = 2
  BundledLimit = 1
  RunsKept = 1
  Hour = 1
  Keep = 1
  MaxRuns = 3
  MaxClock = 2
INVARIANT HourlyLimit LineIsWaitingRuns
PROPERTY DeletedOnlyWhenDue FirstComeFirstServed ImplementsLedger
