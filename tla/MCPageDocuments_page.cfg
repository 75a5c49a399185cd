SPECIFICATION Spec
CONSTANTS
    Modems <- MCModems
    Targets <- MCTargets
    Section <- MCSection
    Attached <- MCAttached
    Workspace = "apn"
    PollLimit = 2
    PollWhileFilling = FALSE
    MaxChains = 2
    MaxEvents = 2
INVARIANT TypeOK
PROPERTIES FormIsKept PageComesToRest ControlsComeBack HardwareIsShown ResultsAreShown
CHECK_DEADLOCK FALSE
