SPECIFICATION Spec
CONSTANTS
    Pods = {p1, p2}
    Resources <- CPU
    MarginPercent <- Margin
    DampeningPercent <- Dampening
    RatioTenths = 15
    DefaultMin <- MinDefault
    DefaultMax <- MaxDefault
    Unit <- Grains
    Unlimited = 10000000
    NoRec = NoRec
    Modes = {"Auto", "Recreate"}
    Threshold = 15
    ResizeAllowed = TRUE
    Template <- Fresh
    Usages <- CpuUsages
    VpaRecs <- NoVpa
    LimitRanges <- SomeLimits
    Quotas <- SomeQuotas
    OthersUse <- Use60m
    MaxChanges = 1
INVARIANTS TypeOK LimitCoversRequest QuotaCapped
