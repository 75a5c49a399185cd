SPECIFICATION Spec
CONSTANTS
    Endpoints <- MCEndpoints
    Profiles <- MCProfiles
    Messages <- MCMessages
    Home <- MCHome
    Situations <- MCSituations
    p1 = p1
    p2 = p2
    n1 = n1
    Unread = Unread
    Failed = Failed
    Nothing = Nothing
    PollLimit = 2
    Attempts = 1
    MaxElsewhere = 1
    MaxPresses = 1
    MaxCalls = 1
INVARIANTS TypeOK OnlyNamedIsDeleted ListsFollowTheCard
PROPERTIES KeepsConsent ControlsComeBack
CHECK_DEADLOCK FALSE
