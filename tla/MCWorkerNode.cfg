SPECIFICATION MCSpec
CONSTANTS
    Hosts = {h1, h2}
    Keys = {1, 2, 3, 4}
    Attempts = 2
    MaxJoins = 2
    MaxFaults = 3
    MaxMoves = 1
    Order <- MCOrder
    Reporting <- MCReporting
    MaxRetries = 1
INVARIANTS OneRequest KubeconfigHasCertificate
PROPERTIES NodeComesUp WorkerReturns StopIsFinal
CHECK_DEADLOCK FALSE
