SPECIFICATION FairSpec
CONSTANTS
    Proc = {p1, p2, p3}
    NoPid = NoPid
    ReuseRecorded = FALSE
    MaxFaults = 1
INVARIANTS TypeOK ExclusiveUnlessEvicted
PROPERTIES EvictionNeedsStaleObservation StaleLockIsReclaimed
CHECK_DEADLOCK FALSE
