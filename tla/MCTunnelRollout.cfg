SPECIFICATION RolloutSpec
CONSTANTS
    Specs = {s1, s2}
    CAs = {ca1, ca2}
    None = None
    Edited = Edited
    Rest <- MCRest
    Tolerant <- MCTolerant
    MaxGen = 2
    MaxFaults = 0
INVARIANTS PodsUseStoredCertificate
CHECK_DEADLOCK FALSE
