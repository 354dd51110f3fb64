SPECIFICATION Spec
CONSTANTS
    MaxGen = 2
    MaxFaults = 0
INVARIANTS DeletionUninstalls
CHECK_DEADLOCK FALSE
