SPECIFICATION FairSpec
CONSTANTS
    UpNames = {u1}
    DownNames = {d1}
    MaxObjects = 2
    Links = {l1, l2}
    Removers = {r1}
    Clients = {c1}
    Endpoints = {e1}
    EndpointLists <- MCEndpointLists
    None = None
    Idle = Idle
    Spliced = Spliced
INVARIANT LinkedIsRegistered
PROPERTIES CallsReturn CloseStopsLoops
CHECK_DEADLOCK FALSE
