SPECIFICATION Spec
CONSTANTS
    Pods = {p1}
    NoPod = NoPod
    Specs <- Recreate
    VpaStates <- NoVpa
    PodsLag = TRUE
    MaxIncarnations = 1
    MaxGeneration = 1
    MaxApplied = 1
    MaxFaults = 0
    MaxCrashes = 0
INVARIANTS
    CleanupRemovesAnnotations
CHECK_DEADLOCK FALSE
