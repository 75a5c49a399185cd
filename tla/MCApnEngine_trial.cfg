SPECIFICATION Spec
CONSTANTS
    Proc = {p1, p2}
    Coordinator = Coordinator
    NoOwner = NoOwner
    DeadOwner = DeadOwner
    Sim = {s1, s2}
    s1 = s1
    s2 = s2
    a1 = a1
    a2 = a2
    NoSim = NoSim
    Backend = "mbim"
    Ipv6Off = FALSE
    Apn = {a1, a2}
    WithUser = {a1}
    Database <- TwoSims
    Manual <- ManualProfile
    NoProfile = NoProfile
    Commands = {"apply", "reset"}
    MaxStarts = 2
    MaxKills = 1
    MaxTerms = 1
    MaxSignal = 1
    MaxSwitch = 0
    MaxEdits = 0
    RegistrationWait = 0
    InterfaceWait = 1
    ModemWait = 1
    UciMayFail = TRUE
    CoordMayDie = FALSE
INVARIANTS TypeOK OneOperation FailureRestoresProfile OriginRecoverable
PROPERTY KeepsBaseline
SYMMETRY Perms
CHECK_DEADLOCK FALSE
