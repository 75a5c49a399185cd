SPECIFICATION Spec
CONSTANTS
    Proc = {p1}
    Coordinator = Coordinator
    NoOwner = NoOwner
    DeadOwner = DeadOwner
    Sim = {s1, s2}
    s1 = s1
    s2 = s2
    a1 = a1
    a2 = a2
    NoSim = NoSim
    Backend = "atdial"
    Ipv6Off = FALSE
    Apn = {a1, a2}
    WithUser = {a1}
    Database <- OneProfile
    Manual <- ManualProfile
    NoProfile = NoProfile
    Commands = {"reconcile"}
    MaxStarts = 1
    MaxKills = 0
    MaxTerms = 0
    MaxSignal = 0
    MaxSwitch = 0
    MaxEdits = 0
    RegistrationWait = 1
    InterfaceWait = 1
    ModemWait = 1
    UciMayFail = FALSE
    CoordMayDie = FALSE
INVARIANTS ReconcileIsIdempotent
CHECK_DEADLOCK FALSE
