SPECIFICATION FairSpec
CONSTANTS
    Job = {j1, j2}
    NoPid = NoPid
    External = External
    MaxWait = 0
    MaxFaults = 1
    MaxOutside = 0
PROPERTY LaunchesEnd
CHECK_DEADLOCK FALSE
