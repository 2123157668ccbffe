SPECIFICATION FairSpec
CONSTANTS
    Pods = {p1}
    Resources <- Both
    MarginPercent <- Margin
    DampeningPercent <- Dampening
    RatioTenths = 15
    DefaultMin <- MinDefault
    DefaultMax <- MaxDefault
    Unit <- Grains
    Unlimited = 10000000
    NoRec = NoRec
    Modes = {"InPlace"}
    Threshold = 10
    ResizeAllowed = TRUE
    Template <- Fresh
    Usages <- FewUsages
    VpaRecs <- OneVpaRec
    LimitRanges <- OneItem
    Quotas <- NoQuota
    OthersUse <- NobodyElse
    MaxChanges = 2
PROPERTIES ResizesConverge Convergence
