SPECIFICATION Spec
CONSTANTS
    Requests = {r1, r2}
    Keys = {k1, k2}
    Closers = {c1}
    shardCount = 2
    ShardOf <- MCShardOf
    Global <- MCGlobal
    Client <- MCClient
    TTL = 2
    MaxCalls = 2
    MaxTime = 3
CHECK_DEADLOCK FALSE
INVARIANTS GlobalLimit ClientLimitUnlessTorn
PROPERTIES CloseTerminates
