SPECIFICATION Spec
CONSTANTS
    Pods = {p1}
    NoPod = NoPod
    Specs <- RecreateInPlaceOrDry
    VpaStates <- NoVpa
    PodsLag = FALSE
    MaxIncarnations = 1
    MaxGeneration = 2
    MaxApplied = 1
    MaxFaults = 1
    MaxCrashes = 0
INVARIANTS
    TotalNotOvercounted
    NoAnnotationLeft
PROPERTIES
    StatusNeverRegresses
    ObservedDryRunIsQuiet
    ObservedSpecRules
    DeletionNotBlocked
CHECK_DEADLOCK FALSE
