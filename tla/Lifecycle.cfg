SPECIFICATION Spec
CONSTANTS
    Pods = {p1}
    NoPod = NoPod
    Specs <- Auto
    VpaStates <- NoVpa
    PodsLag = TRUE
    MaxIncarnations = 2
    MaxGeneration = 1
    MaxApplied = 1
    MaxFaults = 1
    MaxCrashes = 1
INVARIANTS
    TypeOK
    FinalizerGuardsWork
    LoopNeverStalls
    NoAnnotationLeft
    TotalNotOvercounted
PROPERTIES
    StatusNeverRegresses
    KeepsContract
CONSTRAINT OneMishap
CHECK_DEADLOCK FALSE
