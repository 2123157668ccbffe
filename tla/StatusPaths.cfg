SPECIFICATION Spec
CONSTANTS
    Pods = {p1}
    NoPod = NoPod
    Specs <- StrictOffOrInvalid
    VpaStates <- NoneToRecommendingVpa
    PodsLag = FALSE
    MaxIncarnations = 1
    MaxGeneration = 2
    MaxApplied = 1
    MaxFaults = 0
    MaxCrashes = 0
INVARIANTS
    StatusCoherent
PROPERTIES
    DeletionNotBlocked
CHECK_DEADLOCK FALSE
