SPECIFICATION FairSpec
CONSTANTS
    Nodes = {n1, n2}
    Conns = {c1, c2}
    Requests = {r1}
    NoNode = NoNode
    NoTunnel = NoTunnel
    RRMod = 2
    HalfCloses = TRUE
INVARIANTS RegisteredIffOwned NoSocketLeak RightNode NothingLeftOpen
PROPERTIES ImplementsDirectory UnregisteredBeforeClosed RefusedOnlyWithoutTunnel SplicesEnd DeadTunnelsLeave
