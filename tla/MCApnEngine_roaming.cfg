SPECIFICATION Spec
CONSTANTS
    Proc = {p1}
    Coordinator = Coordinator
    NoOwner = NoOwner
    DeadOwner = DeadOwner
    Sim = {s1, s2}
    s1 = s1
    s2 = s2
    a1 = a1
    a2 = a2
    NoSim = NoSim
    Backend = "modemmanager"
    Ipv6Off = FALSE
    Apn = {a1, a2}
    WithUser = {a1}
    Database <- OneProfile
    Manual <- ManualProfile
    NoProfile = NoProfile
    Commands = {"reconcile", "roaming-policy-set", "modem-reset"}
    MaxStarts = 1
    MaxKills = 1
    MaxTerms = 1
    MaxSignal = 2
    MaxSwitch = 0
    MaxEdits = 1
    RegistrationWait = 1
    InterfaceWait = 1
    ModemWait = 1
    UciMayFail = TRUE
    CoordMayDie = FALSE
INVARIANTS RoamingBlockHolds PowerOffIsOwned
CHECK_DEADLOCK FALSE
