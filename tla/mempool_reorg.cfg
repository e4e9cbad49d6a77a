SPECIFICATION FairSpec
CONSTANTS
    t1 = t1
    Txs = {t1}
    Rivals = {}
    QueueSize = 1
    ResolveBlocks = 1
    DeferBlocks = 1
    ReanchorBlocks = 100
    Alongside = TRUE
    MaxReorgDepth = 12
    MaxCatchUp = 16
    Checkpoints = 16
    HeadLag = 0
    Faults = {"rpc", "window"}
    MaxFaults = 1
    MaxBlocks = 7
    MaxReorgs = 1
    MaxDrop = 2
    MaxSwitches = 0
    MaxRestarts = 0
INVARIANTS PoolStateIsExact RedoneAfterReorg
PROPERTIES CatchesUp
CHECK_DEADLOCK FALSE
