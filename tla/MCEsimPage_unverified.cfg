SPECIFICATION Spec
CONSTANTS
    Endpoints <- MCEndpoints
    Profiles <- MCProfiles
    Messages <- MCMessages
    Home <- MCHome
    Situations <- MCSituations
    p1 = p1
    p2 = p2
    n1 = n1
    Unread = Unread
    Failed = Failed
    Nothing = Nothing
    PollLimit = 2
    Attempts = 1
    MaxElsewhere = 0
    MaxPresses = 2
    MaxCalls = 1
INVARIANT UnverifiedIsAgreed
CHECK_DEADLOCK FALSE
