\* The replica count is always looked up successfully and no tunnel breaks by
\* itself: what is left is scaling up and down.
SPECIFICATION FairSpec
CONSTANTS
    Servers = {s1, s2}
    Conns = {c1, c2}
    NoServer = NoServer
    NoConn = NoConn
    Attempts = 2
    ChanCap = 1
    MaxBreaks = 0
    LookupMayFail = FALSE
PROPERTIES KeepsExactlyTarget
CHECK_DEADLOCK FALSE
