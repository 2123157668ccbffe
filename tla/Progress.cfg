SPECIFICATION FairSpec
CONSTANTS
    Pods = {p1}
    NoPod = NoPod
    Specs <- StrictInPlace
    VpaStates <- NoneOrConflictVpa
    PodsLag = FALSE
    MaxIncarnations = 1
    MaxGeneration = 1
    MaxApplied = 0
    MaxFaults = 1
    MaxCrashes = 0
PROPERTIES
    DeletionCompletes
    SpecEventuallyObserved
CHECK_DEADLOCK FALSE
