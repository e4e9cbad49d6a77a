SPECIFICATION Spec
CONSTANTS
    t1 = t1
    t2 = t2
    Txs = {t1, t2}
    Rivals = {{t1, t2}}
    QueueSize = 1
    ResolveBlocks = 1
    DeferBlocks = 1
    ReanchorBlocks = 100
    Alongside = TRUE
    MaxReorgDepth = 12
    MaxCatchUp = 16
    Checkpoints = 16
    HeadLag = 0
    Faults = {"rpc", "budget", "late_feed", "predict", "after", "db"}
    MaxFaults = 1
    MaxBlocks = 3
    MaxReorgs = 0
    MaxDrop = 2
    MaxSwitches = 1
    MaxRestarts = 1
INVARIANTS NothingLost
CHECK_DEADLOCK FALSE
