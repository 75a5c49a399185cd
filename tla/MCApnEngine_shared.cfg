SPECIFICATION FairSpec
CONSTANTS
    Proc = {p1, p2}
    Coordinator = Coordinator
    NoOwner = NoOwner
    DeadOwner = DeadOwner
    Sim = {s1, s2}
    s1 = s1
    s2 = s2
    a1 = a1
    a2 = a2
    NoSim = NoSim
    Backend = "qmi"
    Ipv6Off = FALSE
    Apn = {a1, a2}
    WithUser = {a1}
    Database <- OneProfile
    Manual <- ManualProfile
    NoProfile = NoProfile
    Commands = {"reset", "reconcile", "modem-reset"}
    MaxStarts = 2
    MaxKills = 1
    MaxTerms = 0
    MaxSignal = 1
    MaxSwitch = 1
    MaxEdits = 0
    RegistrationWait = 1
    InterfaceWait = 1
    ModemWait = 1
    UciMayFail = FALSE
    CoordMayDie = TRUE
INVARIANTS CacheBelongsToSim ReconcileIsIdempotent
PROPERTY OperationsEnd
CHECK_DEADLOCK FALSE
