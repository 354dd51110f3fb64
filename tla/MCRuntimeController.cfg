SPECIFICATION FairSpec
CONSTANTS
    Specs = {s1, s2}
    CAs = {ca1, ca2, ca3}
    None = None
    Edited = Edited
    Rest <- MCRest
    Tolerant <- MCTolerant
    MaxGen = 2
    MaxFaults = 1
INVARIANTS SettlesInSync
PROPERTIES CAPreserved Converges
CHECK_DEADLOCK FALSE
