SPECIFICATION FairSpec
CONSTANTS
    MaxChanges = 2
    MaxFaults = 1
    CaptainCap = 1
    WorkerCap = 1
INVARIANTS TypeOK QuietMeansCurrent
PROPERTIES OnlyInitialRegresses SessionReturns ConfigConverges
CHECK_DEADLOCK FALSE
