SPECIFICATION FairSpec
CONSTANTS
    Servers = {s1, s2}
    Conns = {c1, c2}
    NoServer = NoServer
    NoConn = NoConn
    Attempts = 2
    ChanCap = 1
    MaxBreaks = 1
    LookupMayFail = TRUE
INVARIANTS NoLostWakeup OneOwnerPerReplica NoLeakedTunnel
PROPERTIES ServedTunnelsSurvive ShutdownCompletes EveryReplicaTracked
CHECK_DEADLOCK FALSE
