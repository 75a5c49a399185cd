SPECIFICATION Spec
CONSTANTS
    Modems <- MCModems
    Sections <- MCSections
    Section <- MCSection
    Routers <- MCRouters
    Unread = Unread
    Failed = Failed
    Nothing = Nothing
    MaxRequests = 1
    MaxMoves = 1
INVARIANTS TypeOK OffersAreAccepted TargetsAreNamed ConnectionsHaveCards PasswordIsCleared
PROPERTY KeepsConsent
CHECK_DEADLOCK FALSE
