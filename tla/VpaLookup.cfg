SPECIFICATION FairSpec
CONSTANTS
    Names = {1, 2}
    NoVpa = NoVpa
    Vpas <- SomeVpas
    Policies <- SomePolicies
    MaxChanges = 3
    MaxFaults = 1
INVARIANTS
    TypeOK
    StrictModeRefuses
PROPERTIES
    LookupCatchesUp
    LookupIsAtomic
