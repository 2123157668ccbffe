SPECIFICATION Spec
CONSTANTS
    Pods = {p1}
    NoPod = NoPod
    Specs <- Auto
    VpaStates <- NoVpa
    PodsLag = FALSE
    MaxIncarnations = 1
    MaxGeneration = 1
    MaxApplied = 1
    MaxFaults = 0
    MaxCrashes = 0
PROPERTIES
    EvaluatedOnInterval
CHECK_DEADLOCK FALSE
