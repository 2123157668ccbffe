------------------------------ MODULE Calculator ------------------------------
(***************************************************************************)
(* internal/calculator: the recommendation for one resource (CPU or        *)
(* memory) of one container.  The package computes in float64; here a      *)
(* quantity is an integer number of grains, fine enough for the products   *)
(* with the percentages below to be whole, so that only the one rounding   *)
(* that matters remains: the patch stores whole units (1m of CPU, 1 byte), *)
(* of Unit grains each, and drops the rest.                                *)
(***************************************************************************)
EXTENDS Integers

CONSTANTS
    Resources,         \* the resources: CPU and memory
    MarginPercent,     \* CPURequestMarginPercent, MemoryRequestMarginPercent
    DampeningPercent,  \* PeakDampeningCPU, PeakDampeningMemory, in percent
    RatioTenths,       \* LimitToRequestRatio, in tenths
    DefaultMin,        \* DefaultConstraints, in grains
    DefaultMax,
    Unit               \* grains in the smallest amount a resource list holds

ASSUME CalculatorAssumption ==
    /\ MarginPercent \in [Resources -> Nat]
    /\ DampeningPercent \in [Resources -> 0..100]
    /\ RatioTenths \in Nat /\ RatioTenths >= 10
    /\ Unit \in [Resources -> Nat \ {0}]
    /\ DefaultMin \in [Resources -> Nat \ {0}]
    /\ DefaultMax \in [Resources -> Nat \ {0}]
    /\ \A r \in Resources : DefaultMin[r] <= DefaultMax[r]

Larger(a, b)  == IF a > b THEN a ELSE b
Smaller(a, b) == IF a < b THEN a ELSE b

Clamp(v, min, max) == IF v < min THEN min ELSE IF v > max THEN max ELSE v

\* The request and the limit Calculate recommends, within bounds.
BaseUsage(r, usage) ==
    Larger(usage.avg, (usage.peak * DampeningPercent[r]) \div 100)

RequestFor(r, usage, bounds) ==
    Clamp((BaseUsage(r, usage) * (100 + MarginPercent[r])) \div 100,
          bounds.min, bounds.max)

LimitFor(request, bounds) ==
    Clamp((request * RatioTenths) \div 10, bounds.min, bounds.max)

Calculate(r, usage, bounds) ==
    LET request == RequestFor(r, usage, bounds)
    IN  [req |-> request, lim |-> LimitFor(request, bounds)]

\* variancePercent(recommended, current) >= threshold, without the division;
\* a container without a request is at 100 percent.
Deviates(recommended, current, threshold) ==
    IF current = 0
      THEN threshold <= 100
      ELSE 100 * (Larger(recommended, current) - Smaller(recommended, current))
             >= threshold * current

\* Mutant of Stored: int64(cores) * 1000.
StoredWhole(r, v) == (v \div (1000 * Unit[r])) * 1000 * Unit[r]

\* int64(cores * 1000), int64(bytes): what a patch (and the status) stores.
Stored(r, v) == (v \div Unit[r]) * Unit[r]
=============================================================================
