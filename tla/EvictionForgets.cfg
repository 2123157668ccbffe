SPECIFICATION Spec
CONSTANTS
    Pods = {p1}
    Resources <- CPU
    MarginPercent <- Margin
    DampeningPercent <- Dampening
    RatioTenths = 15
    DefaultMin <- MinDefault
    DefaultMax <- MaxDefault
    Unit <- Grains
    Unlimited = 10000000
    NoRec = NoRec
    Modes = {"Recreate"}
    Threshold = 15
    ResizeAllowed = TRUE
    Template <- Fresh
    Usages <- Want10m
    VpaRecs <- NoVpa
    LimitRanges <- NoLimits
    Quotas <- NoQuota
    OthersUse <- NobodyElse
    MaxChanges = 1
INVARIANT RecreatedAsRecommended
