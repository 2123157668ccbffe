SPECIFICATION Spec
CONSTANTS
    Pods = {p1}
    Resources <- Both
    MarginPercent <- Margin
    DampeningPercent <- Dampening
    RatioTenths = 15
    DefaultMin <- MinDefault
    DefaultMax <- MaxDefault
    Unit <- Grains
    Unlimited = 10000000
    NoRec = NoRec
    Modes = {"Auto", "Recreate"}
    Threshold = 10
    ResizeAllowed = TRUE
    Template <- Fresh
    Usages <- SomeUsages
    VpaRecs <- SomeVpaRecs
    LimitRanges <- SomeLimits
    Quotas <- NoQuota
    OthersUse <- NobodyElse
    MaxChanges = 2
INVARIANTS LimitRangesRespected NoChurn
