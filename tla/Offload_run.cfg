SPECIFICATION FairSpec
CONSTANTS
    capacity = 2
    DUMP_TS_SLOTS = 4
    Total = 7
INVARIANTS OffloadInv NoMutualWait LatencyPaired 
PROPERTY AllAnswered
CHECK_DEADLOCK FALSE
