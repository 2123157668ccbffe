SPECIFICATION Spec
CONSTANTS
    Containers = {"app", "sidecar"}
    NoContainer = "none"
    Values = {"small", "large"}
    Template <- Small
    Modes = {"Auto", "InPlace", "Recreate"}
    MaxPods = 2
    MaxWrites = 1
    MaxFaults = 1
INVARIANTS
    TypeOK
    ResizedStaysResized
    PassDelivers
PROPERTIES
    OnlyRecommended
CHECK_DEADLOCK FALSE
