SPECIFICATION FairSpec
CONSTANTS
    MaxGen = 3
    MaxFaults = 2
INVARIANTS SettlesInstalled ReadyMeansInstalled OneHelmAtATime
PROPERTIES RunningJobsStay DeletionCompletes
CHECK_DEADLOCK FALSE
