SPECIFICATION Spec
CONSTANTS
    Job = {j1, j2}
    NoPid = NoPid
    External = External
    MaxWait = 1
    MaxFaults = 1
    MaxOutside = 1
INVARIANTS TypeOK OneJobUnlessStolen AcceptedIsPublished DeathIsReal
PROPERTY OnlyHarmedJobsSteal
SYMMETRY Perms
CHECK_DEADLOCK FALSE
