------------------------------ MODULE SizingProofs ------------------------------
(***************************************************************************)
(* Proofs about Sizing, for every number of pods, every usage, every VPA   *)
(* recommendation, every list of LimitRangeItems and every quota, and      *)
(* without the bound having a value.  What the lists merge to is taken     *)
(* from NamespaceLimitsProofs.                                             *)
(***************************************************************************)
EXTENDS Sizing, NamespaceLimitsProofs

-----------------------------------------------------------------------------
(* What a recommendation is made of. *)

LEMMA ClampStays ==
    ASSUME NEW v \in Nat, NEW min \in Nat, NEW max \in Nat, min <= max
    PROVE  /\ Clamp(v, min, max) \in Nat
           /\ min <= Clamp(v, min, max) /\ Clamp(v, min, max) <= max
  BY DEF Clamp

\* Truncation to whole units takes away less than a unit.
LEMMA StoredIsNat ==
    ASSUME NEW r \in Resources, NEW v \in Nat, NEW w \in Nat, v <= w
    PROVE  /\ Stored(r, v) \in Nat /\ Stored(r, v) <= v
           /\ Stored(r, v) <= Stored(r, w)
           /\ v < Stored(r, v) + Unit[r]
  <1>1. Unit[r] \in Nat \ {0}
    BY CalculatorAssumption
  <1>2. Stored(r, v) \in Nat /\ Stored(r, v) <= Stored(r, w)
    BY <1>1, TruncationKeepsOrder DEF Stored
  <1>3. Stored(r, v) <= v
    <2>1. v <= v
      OBVIOUS
    <2> QED BY <1>1, <2>1, TruncationKeepsOrder DEF Stored
  <1>4. v < Stored(r, v) + Unit[r]
    BY <1>1, Z3 DEF Stored
  <1> QED BY <1>2, <1>3, <1>4

\* The calculator's bounds do not cross, even if the namespace's do.
LEMMA BoundsOrdered ==
    ASSUME NEW r \in Resources, NEW nc \in MergedConstraints
    PROVE  LET b == ToCalculatorConstraints(r, nc)
           IN  b.min \in Nat /\ b.max \in Nat /\ b.min <= b.max
  BY CalculatorAssumption DEF ToCalculatorConstraints, Larger, Smaller, MergedConstraints

LEMMA PercentIsNat ==
    ASSUME NEW v \in Nat, NEW k \in Nat, NEW d \in Nat \ {0}
    PROVE  (v * k) \div d \in Nat
  <1> DEFINE product == v * k
  <1>1. product \in Nat
    OBVIOUS
  <1> HIDE DEF product
  <1>2. product \div d \in Nat
    BY <1>1
  <1> QED BY <1>2 DEF product

\* The advice of a pass: a VPA's recommendation or none.
Advice == VpaRecs \cup {NoRec}

\* The recommendation before the clamp is within the calculator's bounds.
LEMMA UnclampedWithinBounds ==
    ASSUME NEW p \in Pods, NEW r \in Resources, NEW vr \in Advice,
           NEW nc \in MergedConstraints, usage \in [Pods -> Usages]
    PROVE  LET b == ToCalculatorConstraints(r, nc)
               u == Unclamped(p, r, vr, nc)
           IN  u \in Recommendation /\ b.min <= u.req /\ u.req <= b.max
  <1> DEFINE b == ToCalculatorConstraints(r, nc)
             u == Unclamped(p, r, vr, nc)
  <1>1. b.min \in Nat /\ b.max \in Nat /\ b.min <= b.max
    BY BoundsOrdered
  <1> HIDE DEF b
  <1>2. CASE vr # NoRec
    <2> DEFINE target == vr[r].target
               limit == IF vr[r].upper = Absent THEN (target * 15) \div 10
                                                ELSE vr[r].upper
    <2>1. target \in Nat /\ vr[r].upper \in Nat
      BY <1>2, SizingAssumption DEF Advice
    <2>2. limit \in Nat
      BY <2>1
    <2>3. u = [req |-> Clamp(target, b.min, b.max), lim |-> Clamp(limit, b.min, b.max)]
      BY <1>2 DEF Unclamped, FromVPA, b
    <2> HIDE DEF target, limit, u
    <2> QED BY <1>1, <2>1, <2>2, <2>3, ClampStays DEF Recommendation, b, u
  <1>3. CASE vr = NoRec
    <2> DEFINE avg == usage[p][r]
               peak == (avg * DampeningPercent[r]) \div 100
               wanted == (Larger(avg, peak) * (100 + MarginPercent[r])) \div 100
               req == Clamp(wanted, b.min, b.max)
               lim == Clamp((req * RatioTenths) \div 10, b.min, b.max)
    <2>1. avg \in Nat
      BY SizingAssumption
    <2>2. /\ DampeningPercent[r] \in Nat /\ 100 + MarginPercent[r] \in Nat
          /\ RatioTenths \in Nat
      BY CalculatorAssumption
    <2>3. u = [req |-> req, lim |-> lim]
      BY <1>3 DEF Unclamped, Calculate, RequestFor, LimitFor, BaseUsage, b
    <2> HIDE DEF avg, u
    <2>4. peak \in Nat
      BY <2>1, <2>2, PercentIsNat
    <2> HIDE DEF peak
    <2>5. Larger(avg, peak) \in Nat
      BY <2>1, <2>4 DEF Larger
    <2>6. wanted \in Nat
      BY <2>2, <2>5, PercentIsNat
    <2> HIDE DEF wanted
    <2>7. req \in Nat /\ b.min <= req /\ req <= b.max
      BY <1>1, <2>6, ClampStays
    <2> HIDE DEF req
    <2>8. (req * RatioTenths) \div 10 \in Nat
      BY <2>2, <2>7, PercentIsNat
    <2>9. lim \in Nat
      BY <1>1, <2>8, ClampStays
    <2> HIDE DEF lim
    <2> QED BY <2>3, <2>7, <2>9 DEF Recommendation, b, u
  <1> QED BY <1>2, <1>3

\* What a patch carries is well formed, whatever was recommended.
LEMMA PatchWellFormed ==
    ASSUME NEW p \in Pods, NEW vr \in Advice,
           NEW nc \in [Resources -> MergedConstraints], usage \in [Pods -> Usages]
    PROVE  /\ Patch(p, vr, nc) \in Allocation
           /\ \A r \in Resources : Patch(p, vr, nc)[r].req <= Patch(p, vr, nc)[r].lim
  <1> DEFINE new == Patch(p, vr, nc)
  <1>1. ASSUME NEW r \in Resources
        PROVE  new[r] \in [req: Nat, lim: Nat] /\ new[r].req <= new[r].lim
    <2> DEFINE rec == Unclamped(p, r, vr, nc[r])
               c == ClampRecommendation(rec, nc[r])
    <2>1. nc[r] \in MergedConstraints
      OBVIOUS
    <2>2. rec \in Recommendation
      BY <2>1, UnclampedWithinBounds
    <2> HIDE DEF rec
    <2>3. /\ Stored(r, c.req) \in Nat /\ Stored(r, c.lim) \in Nat
          /\ Stored(r, c.req) <= Stored(r, c.lim)
      BY <2>1, <2>2, PatchIsWellFormed
    <2>4. new[r] = [req |-> Stored(r, c.req), lim |-> Stored(r, c.lim)]
      BY DEF Patch, Recommended, rec
    <2> HIDE DEF new, c
    <2> QED BY <2>3, <2>4
  <1>2. new = [r \in Resources |-> new[r]]
    BY DEF Patch
  <1> HIDE DEF new
  <1> QED BY <1>1, <1>2 DEF Allocation, new

-----------------------------------------------------------------------------
(* What a fetch returns. *)

LEMMA UsedIsNat ==
    ASSUME NEW r \in Resources, alloc \in [Pods -> Allocation]
    PROVE  Used(r) \in Nat
  <1> DEFINE requests == [p \in Pods |-> alloc[p][r].req]
  <1>1. \A p \in Pods : alloc[p][r].req \in Nat
    BY DEF Allocation
  <1>2. requests \in [Pods -> Nat]
    BY <1>1
  <1>3. OthersUse[r] \in Nat /\ IsFiniteSet(Pods)
    BY SizingAssumption
  <1>4. Used(r) = OthersUse[r] + SumFunction(requests)
    BY DEF Used
  <1> HIDE DEF requests
  <1>5. SumFunction(requests) \in Nat
    BY <1>2, <1>3, SumIsNat
  <1> QED BY <1>3, <1>4, <1>5

\* The constraints are the tightest of the items, and no more headroom than
\* the quota leaves.
LEMMA ConstraintsMerged ==
    ASSUME NEW r \in Resources, TypeOK
    PROVE  LET nc == Constraints(r)
           IN  /\ nc \in MergedConstraints
               /\ TightestOf(nc, limits[r], Len(limits[r]))
               /\ nc.max <= Unlimited
               /\ nc.remaining <= Unlimited
               /\ hard[r] = Unlimited => nc.remaining = Unlimited
               /\ hard[r] # Unlimited => nc.remaining <= hard[r] - Used(r)
  <1> DEFINE quotas == IF hard[r] = Unlimited THEN <<>>
                       ELSE <<[hard |-> hard[r], used |-> Used(r)]>>
             start == FoldLeft(ApplyLimitRangeItem, EmptyConstraints, limits[r])
             nc == FoldLeft(ApplyQuota, start, quotas)
  <1>1. limits[r] \in Seq(LimitRangeItem) /\ hard[r] \in Nat /\ Used(r) \in Nat
    BY SizingAssumption, UsedIsNat DEF TypeOK
  <1>2. quotas \in Seq(QuotaStatus)
    <2>1. CASE hard[r] = Unlimited
      BY <2>1
    <2>2. CASE hard[r] # Unlimited
      <3> DEFINE quota == [hard |-> hard[r], used |-> Used(r)]
      <3>1. quota \in QuotaStatus
        BY <1>1 DEF QuotaStatus
      <3>2. quotas = <<quota>>
        BY <2>2
      <3> HIDE DEF quota, quotas
      <3> QED BY <3>1, <3>2
    <2> QED BY <2>1, <2>2
  <1>3. /\ start \in MergedConstraints
        /\ TightestOf(start, limits[r], Len(limits[r]))
        /\ start.max <= Unlimited /\ start.remaining = Unlimited
    BY <1>1, LimitRangesMerged
  <1>4. Constraints(r) = nc
    BY DEF Constraints, NamespaceConstraints
  <1> HIDE DEF start, quotas
  <1>5. /\ nc \in MergedConstraints
        /\ nc.min = start.min /\ nc.max = start.max /\ nc.ratio = start.ratio
        /\ nc.remaining <= start.remaining
        /\ \A i \in DOMAIN quotas : nc.remaining <= quotas[i].hard - quotas[i].used
        /\ \/ nc.remaining = start.remaining
           \/ \E i \in DOMAIN quotas :
                nc.remaining = quotas[i].hard - quotas[i].used
    BY <1>2, <1>3, QuotasMerged
  <1> HIDE DEF nc
  <1>6. TightestOf(nc, limits[r], Len(limits[r]))
    BY <1>3, <1>5 DEF TightestOf
  <1>7. hard[r] = Unlimited => nc.remaining = Unlimited
    <2>1. hard[r] = Unlimited => DOMAIN quotas = {}
      BY DEF quotas
    <2> QED BY <1>3, <1>5, <2>1
  <1>8. hard[r] # Unlimited => nc.remaining <= hard[r] - Used(r)
    <2> SUFFICES ASSUME hard[r] # Unlimited PROVE nc.remaining <= hard[r] - Used(r)
      OBVIOUS
    <2>1. 1 \in DOMAIN quotas /\ quotas[1].hard = hard[r] /\ quotas[1].used = Used(r)
      BY DEF quotas
    <2> QED BY <1>5, <2>1
  <1> QED BY <1>3, <1>4, <1>5, <1>6, <1>7, <1>8
-----------------------------------------------------------------------------
(* Types. *)

\* The constraints a pass goes by are merged ones.
Fetched == seen \in [Resources -> MergedConstraints]

TypeInv == TypeOK /\ Fetched

LEMMA MergedTypes ==
    MergedConstraints \subseteq
        [min: Nat, max: Nat, ratio: Nat, podMax: Nat, remaining: Int]
  BY DEF MergedConstraints

\* The constraints a fetch finds now, of all resources.
Current == [r \in Resources |-> Constraints(r)]

LEMMA CurrentMerged ==
    ASSUME TypeOK
    PROVE  Current \in [Resources -> MergedConstraints]
  <1>1. ASSUME NEW r \in Resources PROVE Constraints(r) \in MergedConstraints
    BY ConstraintsMerged
  <1> QED BY <1>1 DEF Current

LEMMA NothingMerged ==
    [r \in Resources |-> EmptyConstraints] \in [Resources -> MergedConstraints]
  BY EmptyIsMerged

LEMMA TypeInit == Init => TypeInv
  <1> SUFFICES ASSUME Init PROVE TypeInv
    OBVIOUS
  <1>1. seen \in [Resources -> MergedConstraints]
    BY NothingMerged DEF Init
  <1>2. alloc \in [Pods -> Allocation]
    BY SizingAssumption DEF Init
  <1>3. /\ seen \in [Resources -> [min: Nat, max: Nat, ratio: Nat, podMax: Nat,
                                   remaining: Int]]
    BY <1>1, MergedTypes
  <1>4. changes \in 0..MaxChanges
    BY SizingAssumption DEF Init
  <1> QED BY <1>1, <1>2, <1>3, <1>4 DEF Init, TypeInv, TypeOK, Fetched

LEMMA TypeStep == TypeInv /\ [Next]_vars => TypeInv'
  <1> SUFFICES ASSUME TypeInv, [Next]_vars PROVE TypeInv'
    OBVIOUS
  <1> USE DEF TypeInv, Fetched
  <1>1. TypeOK /\ seen \in [Resources -> MergedConstraints]
    OBVIOUS
  <1>2. ASSUME NEW p \in Pods
        PROVE  Patch(p, advice, seen) \in Allocation
    BY <1>1, PatchWellFormed DEF TypeOK, Advice
  <1>3. ASSUME NEW found \in Advice, NEW nc \in [Resources -> MergedConstraints],
               NEW fetched \in BOOLEAN, StartPass(found, nc, fetched)
        PROVE  TypeInv'
    BY <1>1, <1>3, MergedTypes DEF StartPass, TypeOK, inputs, Advice
  <1>4. vpaRec \in Advice /\ NoRec \in Advice
    BY <1>1 DEF TypeOK, Advice
  <1>5. CASE Fetch
    BY <1>1, <1>3, <1>4, <1>5, CurrentMerged DEF Fetch, Current
  <1>6. CASE LookUpFails
    BY <1>1, <1>3, <1>4, <1>6, CurrentMerged DEF LookUpFails, Current
  <1>7. CASE FetchFails
    <2>1. PICK found \in {vpaRec, NoRec} :
            StartPass(found, [r \in Resources |-> EmptyConstraints], FALSE)
      BY <1>7 DEF FetchFails
    <2> QED BY <1>3, <1>4, <2>1, NothingMerged
  <1>8. ASSUME NEW p \in Pods, LeaveAlone(p) \/ RecreateFails(p) PROVE TypeInv'
    BY <1>1, <1>8 DEF LeaveAlone, RecreateFails, Evaluate, TypeOK, inputs
  <1>9. ASSUME NEW p \in Pods, Resize(p) PROVE TypeInv'
    BY <1>1, <1>2, <1>9 DEF Resize, Evaluate, TypeOK, inputs
  <1>10. ASSUME NEW p \in Pods, ResizeFails(p) PROVE TypeInv'
    BY <1>1, <1>10 DEF ResizeFails, PatchFails, Objections, Evaluate, TypeOK, inputs
  <1>11. ASSUME NEW p \in Pods, FallBack(p) PROVE TypeInv'
    BY <1>1, <1>2, <1>11, SizingAssumption
       DEF FallBack, PatchFails, Objections, Replace, Evaluate, TypeOK, inputs
  <1>12. ASSUME NEW p \in Pods, Recreate(p) PROVE TypeInv'
    BY <1>1, <1>2, <1>12, SizingAssumption DEF Recreate, Replace, Evaluate, TypeOK, inputs
  <1>13. ASSUME Changed PROVE changes' \in 0..MaxChanges
    BY <1>1, <1>13, SizingAssumption DEF Changed, TypeOK
  <1>14. ASSUME NEW p \in Pods, UsageChanges(p) PROVE TypeInv'
    BY <1>1, <1>13, <1>14 DEF UsageChanges, Changed, TypeOK
  <1>15. CASE VpaRecChanges
    BY <1>1, <1>13, <1>15 DEF VpaRecChanges, Changed, TypeOK
  <1>16. CASE LimitsChange
    BY <1>1, <1>13, <1>16 DEF LimitsChange, Changed, TypeOK
  <1>17. CASE QuotaChanges
    BY <1>1, <1>13, <1>17 DEF QuotaChanges, Changed, TypeOK
  <1>18. CASE UNCHANGED vars
    BY <1>1, <1>18 DEF vars, inputs, TypeOK
  <1> QED BY <1>5, <1>6, <1>7, <1>8, <1>9, <1>10, <1>11, <1>12, <1>14, <1>15, <1>16,
             <1>17, <1>18 DEF Next

LEMMA TypeAlways == Spec => []TypeInv
  <1> QED BY TypeInit, TypeStep, PTL DEF Spec

\* Every variable keeps its type: in particular requests and limits never
\* become negative, whatever headroom the quotas leave, and what a pass goes by
\* is what merging LimitRanges and quotas can give.
THEOREM TypeCorrectness == Spec => []TypeOK
  <1>1. TypeInv => TypeOK
    BY DEF TypeInv
  <1> QED BY <1>1, TypeAlways, PTL

-----------------------------------------------------------------------------
(* LimitCoversRequest. *)

LEMMA CoversStep == TypeInv /\ LimitCoversRequest /\ [Next]_vars => LimitCoversRequest'
  <1> SUFFICES ASSUME TypeInv, LimitCoversRequest, [Next]_vars
               PROVE  LimitCoversRequest'
    OBVIOUS
  <1>1. ASSUME NEW p \in Pods, PatchFails(p)
        PROVE  LimitCoversRequest'
    <2> DEFINE new == Patch(p, advice, seen)
    <2>1. advice \in Advice /\ seen \in [Resources -> MergedConstraints]
          /\ usage \in [Pods -> Usages]
      BY DEF TypeInv, TypeOK, Fetched, Advice
    <2>2. new \in Allocation /\ \A r \in Resources : new[r].req <= new[r].lim
      BY <2>1, PatchWellFormed
    <2> HIDE DEF new
    <2>3. \A r \in Resources : new[r].req \in Nat /\ new[r].lim \in Nat
      BY <2>2 DEF Allocation
    <2>4. ~\E r \in Resources : new[r].lim < new[r].req
      BY <2>2, <2>3
    <2>5. "invalid" \notin Objections(p, new)
      BY <2>4 DEF Objections
    <2> QED BY <1>1, <2>5 DEF PatchFails, LimitCoversRequest, new
  <1>2. CASE \E p \in Pods : ResizeFails(p) \/ FallBack(p)
    BY <1>1, <1>2 DEF ResizeFails, FallBack
  <1>3. CASE refusal' = {} \/ refusal' = refusal
    BY <1>3 DEF LimitCoversRequest
  <1>4. \/ \E p \in Pods : ResizeFails(p) \/ FallBack(p)
        \/ refusal' = {} \/ refusal' = refusal
    BY DEF Next, vars, Fetch, LookUpFails, FetchFails, StartPass, LeaveAlone, Resize,
           Recreate, RecreateFails, UsageChanges, VpaRecChanges, LimitsChange,
           QuotaChanges, Changed
  <1> QED BY <1>2, <1>3, <1>4

\* No patch has a limit below its request: not after the four adjustments of
\* ClampRecommendation, not after the truncation to whole units, and not when
\* the constraints it was computed from are no longer the namespace's.
THEOREM LimitCoversRequestAlways == Spec => []LimitCoversRequest
  <1>1. Init => LimitCoversRequest
    BY DEF Init, LimitCoversRequest
  <1> QED BY <1>1, TypeAlways, CoversStep, PTL DEF Spec
-----------------------------------------------------------------------------
(* What the running pass goes by is what the namespace still says. *)

\* The namespace has no ResourceQuota.
QuotaFree == \A h \in Quotas : \A r \in Resources : h[r] = Unlimited

\* While nothing changed since the fetch, a fetch would return the same.
FreshInv == informed => seen = Current

\* What the quotas say depends on the allocations, the rest does not.
LEMMA CurrentSame ==
    ASSUME TypeOK, TypeOK', limits' = limits, hard' = hard, alloc' = alloc \/ QuotaFree
    PROVE  Current' = Current
  <1>1. CASE alloc' = alloc
    BY <1>1 DEF Current, Constraints, Used
  <1>2. CASE QuotaFree
    <2>1. \A r \in Resources : hard[r] = Unlimited
      BY <1>2 DEF QuotaFree, TypeOK
    <2>2. \A r \in Resources : Constraints(r)' = Constraints(r)
      BY <2>1 DEF Constraints
    <2> QED BY <2>2 DEF Current
  <1> QED BY <1>1, <1>2

LEMMA FreshStep ==
    ASSUME QuotaFree, TypeInv, TypeInv', FreshInv, [Next]_vars
    PROVE  FreshInv'
  <1> USE DEF TypeInv
  <1>1. CASE Fetch \/ LookUpFails
    <2>1. seen' = Current /\ UNCHANGED <<limits, hard, alloc>>
      BY <1>1 DEF Fetch, LookUpFails, StartPass, inputs, Current
    <2>2. Current' = Current
      BY <2>1, CurrentSame
    <2> QED BY <2>1, <2>2 DEF FreshInv
  <1>2. CASE FetchFails \/ LimitsChange \/ QuotaChanges
    BY <1>2 DEF FetchFails, StartPass, LimitsChange, QuotaChanges, FreshInv
  <1>3. CASE UNCHANGED <<limits, hard, seen, informed>>
    BY <1>3, CurrentSame DEF FreshInv
  <1>4. \/ Fetch \/ LookUpFails \/ FetchFails \/ LimitsChange \/ QuotaChanges
        \/ UNCHANGED <<limits, hard, seen, informed>>
    BY DEF Next, vars, inputs, LeaveAlone, Resize, ResizeFails, FallBack, Recreate,
           Replace, RecreateFails, UsageChanges, VpaRecChanges, Changed
  <1> QED BY <1>1, <1>2, <1>3, <1>4

LEMMA FreshAlways == QuotaFree => (Spec => [](TypeInv /\ FreshInv))
  <1> SUFFICES ASSUME QuotaFree PROVE Spec => [](TypeInv /\ FreshInv)
    OBVIOUS
  <1>1. Init => FreshInv
    BY DEF Init, FreshInv
  <1>2. TypeInv /\ TypeInv' /\ FreshInv /\ [Next]_vars => FreshInv'
    BY FreshStep
  <1> QED BY <1>1, <1>2, TypeAlways, PTL DEF Spec

-----------------------------------------------------------------------------
(* QuotaCapped. *)

\* Until a pass has evaluated its first pod nothing is allocated, so what it goes
\* by is what the namespace says, quotas included.
FirstInv == informed /\ todo = Pods => seen = Current

LEMMA FirstStep == TypeInv /\ TypeInv' /\ FirstInv /\ [Next]_vars => FirstInv'
  <1> SUFFICES ASSUME TypeInv, TypeInv', FirstInv, [Next]_vars PROVE FirstInv'
    OBVIOUS
  <1> USE DEF TypeInv
  <1>1. CASE Fetch \/ LookUpFails
    <2>1. seen' = Current /\ UNCHANGED <<limits, hard, alloc>>
      BY <1>1 DEF Fetch, LookUpFails, StartPass, inputs, Current
    <2>2. Current' = Current
      BY <2>1, CurrentSame
    <2> QED BY <2>1, <2>2 DEF FirstInv
  <1>2. CASE FetchFails \/ LimitsChange \/ QuotaChanges
    BY <1>2 DEF FetchFails, StartPass, LimitsChange, QuotaChanges, FirstInv
  <1>3. ASSUME NEW p \in Pods, Evaluate(p) PROVE FirstInv'
    BY <1>3 DEF Evaluate, FirstInv
  <1>4. CASE UNCHANGED <<limits, hard, alloc, seen, todo, informed>>
    BY <1>4, CurrentSame DEF FirstInv
  <1>5. \/ Fetch \/ LookUpFails \/ FetchFails \/ LimitsChange \/ QuotaChanges
        \/ \E p \in Pods : Evaluate(p)
        \/ UNCHANGED <<limits, hard, alloc, seen, todo, informed>>
    BY DEF Next, vars, inputs, LeaveAlone, Resize, ResizeFails, FallBack, Recreate,
           RecreateFails, UsageChanges, VpaRecChanges, Changed
  <1> QED BY <1>1, <1>2, <1>3, <1>4, <1>5

\* A request that the clamp lowered to a headroom there still is fits the quota.
LEMMA HeadroomFits ==
    ASSUME TypeInv, NEW p \in Pods, NEW r \in Resources,
           seen[r].remaining > 0, seen[r].remaining <= Constraints(r).remaining
    PROVE  WithinQuota(r, alloc[p][r], Patch(p, advice, seen)[r])
  <1> USE DEF TypeInv
  <1> DEFINE new == Patch(p, advice, seen)
             nc == seen[r]
             rec == Unclamped(p, r, advice, nc)
             c == ClampRecommendation(rec, nc)
  <1>1. nc \in MergedConstraints
    BY DEF Fetched
  <1>2. rec \in Recommendation
    BY <1>1, UnclampedWithinBounds DEF TypeOK, Advice
  <1>3. new[r].req = Stored(r, c.req)
    BY DEF Patch, Recommended
  <1> HIDE DEF rec, new
  <1>4. c.req \in Nat /\ c.req <= nc.remaining
    BY <1>1, <1>2, ClampIsWellFormed DEF Recommendation
  <1> HIDE DEF c
  <1>5. Stored(r, c.req) \in Nat /\ Stored(r, c.req) <= c.req
    BY <1>4, StoredIsNat
  <1>6. /\ Constraints(r) \in MergedConstraints
        /\ hard[r] # Unlimited => Constraints(r).remaining <= hard[r] - Used(r)
    BY ConstraintsMerged
  <1>7. /\ hard[r] \in Nat /\ Used(r) \in Nat /\ alloc[p][r].req \in Nat
        /\ nc.remaining \in Int /\ Constraints(r).remaining \in Int
    <2>1. hard[r] \in Nat /\ Used(r) \in Nat
      BY UsedIsNat, SizingAssumption DEF TypeOK
    <2>2. alloc[p][r].req \in Nat
      BY DEF TypeOK, Allocation
    <2> HIDE DEF nc
    <2>3. nc.remaining \in Int /\ Constraints(r).remaining \in Int
      BY <1>1, <1>6 DEF MergedConstraints
    <2> QED BY <2>1, <2>2, <2>3
  <1>8. hard[r] # Unlimited => Used(r) - alloc[p][r].req + new[r].req <= hard[r]
    BY <1>3, <1>4, <1>5, <1>6, <1>7
  <1> QED BY <1>8 DEF WithinQuota, new

LEMMA QuotaExplained == TypeInv /\ FirstInv => QuotaCapped
  <1> SUFFICES ASSUME TypeInv, FirstInv, NEW p \in todo, informed,
                      "quota" \in Objections(p, Patch(p, advice, seen))
               PROVE  \E r \in Resources :
                        \/ seen[r].remaining <= 0
                        \/ todo # Pods /\ Constraints(r).remaining < seen[r].remaining
    BY DEF QuotaCapped
  <1>1. p \in Pods
    BY DEF TypeInv, TypeOK
  <1>2. PICK r \in Resources : ~WithinQuota(r, alloc[p][r], Patch(p, advice, seen)[r])
    BY DEF Objections
  <1>3. seen[r].remaining \in Int /\ Constraints(r).remaining \in Int
    BY ConstraintsMerged DEF TypeInv, Fetched, MergedConstraints
  <1>4. seen[r].remaining <= 0 \/ Constraints(r).remaining < seen[r].remaining
    BY <1>1, <1>2, <1>3, HeadroomFits
  <1>5. todo = Pods => Constraints(r) = seen[r]
    BY DEF FirstInv, Current
  <1> QED BY <1>3, <1>4, <1>5

\* With any number of pods, whatever they use: of the pods of one pass the first
\* is refused by a quota only if its headroom was used up, and a later one only
\* if the ones before it took from it.
THEOREM QuotaCappedAlways == Spec => []QuotaCapped
  <1>1. Init => FirstInv
    BY DEF Init, FirstInv
  <1> QED BY <1>1, FirstStep, QuotaExplained, TypeAlways, PTL DEF Spec
-----------------------------------------------------------------------------
(* LimitRangesRespected. *)

\* While no quota interferes only the bounds move the request.
LEMMA ClampedRequest ==
    ASSUME NEW rec \in Recommendation, NEW nc \in MergedConstraints,
           nc.remaining <= 0 \/ nc.remaining >= nc.max
    PROVE  ClampRecommendation(rec, nc).req = Smaller(Larger(rec.req, nc.min), nc.max)
  <1> DEFINE a == ClampToBounds(rec, nc)
             b == RaiseLimit(a)
             d == CapRatio(b, nc)
             c == CapQuota(d, nc)
  <1>1. a \in Recommendation /\ a.req <= nc.max
    BY BoundsHold
  <1>2. b \in Recommendation /\ b.req = a.req /\ b.req <= b.lim
    BY <1>1, RaisedLimitCovers
  <1>3. d \in Recommendation /\ d.req = b.req /\ d.req <= d.lim
    BY <1>2, RatioKept
  <1>4. nc.max \in Nat /\ nc.remaining \in Int /\ d.req \in Nat
    BY <1>3 DEF MergedConstraints, Recommendation
  <1>5. nc.remaining <= 0 \/ nc.remaining >= d.req
    BY <1>1, <1>2, <1>3, <1>4
  <1>6. c = d
    BY <1>3, <1>5, QuotaKept
  <1>7. ClampRecommendation(rec, nc) = c
    BY DEF ClampRecommendation
  <1>8. a.req = Smaller(Larger(rec.req, nc.min), nc.max)
    BY DEF ClampToBounds
  <1> HIDE DEF a, b, d, c
  <1> QED BY <1>2, <1>3, <1>6, <1>7, <1>8

Containers(items) == {i \in DOMAIN items : items[i].type = "Container"}

\* The lists whose meaning the merge and the truncation keep: minima are whole
\* units (Kubernetes has nothing finer than 1m of CPU and one byte); there is
\* one ratio, and only where grains are whole units; an item of type Pod, which
\* nothing reads, is no tighter than an item of type Container.
Respectable(r, items) ==
    /\ \A i \in Containers(items) : Stored(r, items[i].min) = items[i].min
    /\ \A i, j \in DOMAIN items :
         items[i].ratio # 0 /\ items[j].ratio # 0 => items[i].ratio = items[j].ratio
    /\ \A i \in DOMAIN items : items[i].ratio # 0 => Unit[r] = 1
    /\ \A i \in DOMAIN items \ Containers(items) :
         /\ items[i].min = 0
              \/ \E j \in Containers(items) : items[i].min <= items[j].min
         /\ items[i].max = Unlimited
              \/ \E j \in Containers(items) : items[j].max <= items[i].max
         /\ items[i].ratio = 0
              \/ \E j \in Containers(items) : items[j].ratio # 0

\* Every item admits what is patched, although only merged ones are applied.
LEMMA EveryItemAdmits ==
    ASSUME NEW r \in Resources, NEW items \in Seq(LimitRangeItem), Respectable(r, items),
           \A i, j \in DOMAIN items : items[i].min <= items[j].max,
           NEW nc \in MergedConstraints, TightestOf(nc, items, Len(items)),
           nc.max <= Unlimited, nc.remaining = Unlimited,
           NEW rec \in Recommendation, ToCalculatorConstraints(r, nc).min <= rec.req,
           NEW i \in DOMAIN items
    PROVE  LET c == ClampRecommendation(rec, nc)
           IN  Admits(items[i], [req |-> Stored(r, c.req), lim |-> Stored(r, c.lim)])
  <1> DEFINE c == ClampRecommendation(rec, nc)
             req == Stored(r, c.req)
             lim == Stored(r, c.lim)
             Cs == Containers(items)
  <1>1. /\ nc.min \in Nat /\ nc.max \in Nat /\ nc.ratio \in Nat /\ Unlimited \in Nat
        /\ rec.req \in Nat
    BY UnlimitedAssumption DEF MergedConstraints, Recommendation
  <1>2. ASSUME NEW j \in DOMAIN items
        PROVE  /\ items[j].min \in Nat /\ items[j].max \in Nat /\ items[j].ratio \in Nat
               /\ items[j].max <= Unlimited
    <2>1. items[j] \in LimitRangeItem
      OBVIOUS
    <2> QED BY <2>1, ItemTypes
  <1>3. /\ Cs \subseteq DOMAIN items
        /\ Cs = {j \in 1..Len(items) : items[j].type = "Container"}
    BY DEF Containers
  <1>4. /\ \A j \in Cs : items[j].min <= nc.min /\ nc.max <= items[j].max
        /\ nc.min = 0 \/ \E j \in Cs : nc.min = items[j].min
        /\ nc.max = Unlimited \/ \E j \in Cs : nc.max = items[j].max
        /\ nc.ratio = 0 => \A j \in Cs : items[j].ratio = 0
        /\ nc.ratio # 0 => \E j \in Cs : nc.ratio = items[j].ratio
    BY <1>3 DEF TightestOf
  <1> HIDE DEF Cs
  <1>5. nc.min <= nc.max
    BY <1>1, <1>2, <1>3, <1>4
  <1>6. nc.remaining >= nc.max
    BY <1>1
  <1>7. /\ nc.min <= c.req /\ c.lim <= nc.max
        /\ nc.ratio > 0 /\ c.req > 0 => 10 * c.lim <= c.req * nc.ratio
    BY <1>5, <1>6, ClampIsAdmitted
  <1>8. c \in Recommendation
    BY ClampIsWellFormed
  <1>9. c.req = Smaller(Larger(rec.req, nc.min), nc.max)
    BY <1>6, ClampedRequest
  <1> HIDE DEF c
  <1>10. c.req \in Nat /\ c.lim \in Nat
    BY <1>8 DEF Recommendation
  <1>11. Stored(r, nc.min) = nc.min
    <2>1. CASE nc.min = 0
      BY <2>1, StoredIsNat
    <2>2. CASE \E j \in Cs : nc.min = items[j].min
      BY <2>2 DEF Respectable, Cs
    <2> QED BY <1>4, <2>1, <2>2
  <1>12. nc.min <= req /\ req \in Nat
    BY <1>1, <1>7, <1>10, <1>11, StoredIsNat
  <1>13. lim <= nc.max /\ lim \in Nat
    <2>1. lim <= c.lim /\ lim \in Nat
      BY <1>10, StoredIsNat
    <2> QED BY <1>1, <1>7, <1>10, <2>1
  <1>14. items[i].min <= req /\ lim <= items[i].max
    <2>1. CASE i \in Cs
      BY <1>1, <1>2, <1>4, <1>12, <1>13, <2>1
    <2>2. CASE i \notin Cs
      <3>1. /\ items[i].min = 0 \/ \E j \in Cs : items[i].min <= items[j].min
            /\ items[i].max = Unlimited \/ \E j \in Cs : items[j].max <= items[i].max
        BY <2>2 DEF Respectable, Cs
      <3> HIDE DEF req, lim
      <3> QED BY <1>1, <1>2, <1>3, <1>4, <1>12, <1>13, <3>1
    <2> QED BY <2>1, <2>2
  <1>15. ASSUME items[i].ratio # 0 PROVE 10 * lim <= items[i].ratio * req
    <2>1. \E j \in Cs : items[j].ratio # 0
      BY <1>15 DEF Respectable, Cs
    <2>2. nc.ratio = items[i].ratio
      <3>1. PICK j \in Cs : nc.ratio = items[j].ratio /\ items[j].ratio # 0
        BY <1>4, <2>1
      <3> QED BY <1>3, <1>15, <3>1 DEF Respectable
    <2>3. Unit[r] = 1
      BY <1>15 DEF Respectable
    <2>4. req = c.req /\ lim = c.lim
      BY <1>10, <2>3 DEF Stored
    <2>5. CASE c.req > 0
      <3>1. 10 * c.lim <= c.req * nc.ratio
        BY <1>1, <1>7, <1>15, <2>2, <2>5
      <3> QED BY <1>1, <1>10, <2>2, <2>4, <3>1
    <2>6. CASE c.req = 0
      <3>1. nc.max = 0
        BY <1>1, <1>9, <2>6, CalculatorAssumption
           DEF ToCalculatorConstraints, Larger, Smaller
      <3> QED BY <1>1, <1>7, <1>10, <2>2, <2>4, <2>6, <3>1
    <2> QED BY <1>10, <2>5, <2>6
  <1> QED BY <1>14, <1>15 DEF Admits, c

\* What RatioExcess needs of the arithmetic.
LEMMA ProductGrows ==
    ASSUME NEW k \in Nat \ {0}, NEW v \in Nat, NEW w \in Nat, v < w
    PROVE  k * v \in Nat /\ k * w \in Nat /\ k * v < k * w
  <1>1. PICK d \in Nat : w = v + d /\ d > 0
    <2>1. w - v \in Nat /\ w = v + (w - v) /\ w - v > 0
      OBVIOUS
    <2> QED BY <2>1
  <1>2. k * w = k * v + k * d
    BY <1>1, Z3
  <1>3. k * v \in Nat /\ k * d \in Nat /\ k * d > 0
    BY <1>1, Z3
  <1> QED BY <1>2, <1>3

\* Where grains are not whole units the truncation of applyInPlace may take the
\* patch out of a ratio that ClampRecommendation kept (see the README), but by
\* less than one unit of request: with a unit more the ratio would hold.
THEOREM RatioExcess ==
    ASSUME NEW r \in Resources, NEW rec \in Recommendation,
           NEW nc \in MergedConstraints, nc.min <= nc.max,
           nc.remaining <= 0 \/ nc.remaining >= nc.max,
           nc.ratio > 0, ClampRecommendation(rec, nc).req > 0
    PROVE  LET c == ClampRecommendation(rec, nc)
           IN  10 * Stored(r, c.lim) < nc.ratio * (Stored(r, c.req) + Unit[r])
  <1> DEFINE c == ClampRecommendation(rec, nc)
             ceiling == Stored(r, c.req) + Unit[r]
  <1>1. c.req \in Nat /\ c.lim \in Nat
    BY ClampIsWellFormed DEF Recommendation
  <1>2. nc.ratio > 0 /\ c.req > 0 => 10 * c.lim <= c.req * nc.ratio
    BY ClampIsAdmitted
  <1>3. nc.ratio \in Nat \ {0}
    BY DEF MergedConstraints
  <1>4. 10 * c.lim <= nc.ratio * c.req
    BY <1>1, <1>2, <1>3
  <1> HIDE DEF c
  <1>5. Stored(r, c.lim) \in Nat /\ Stored(r, c.lim) <= c.lim
    BY <1>1, StoredIsNat
  <1>6. ceiling \in Nat /\ c.req < ceiling
    <2>1. c.req <= c.req
      BY <1>1
    <2>2. Stored(r, c.req) \in Nat /\ c.req < Stored(r, c.req) + Unit[r]
      BY <1>1, <2>1, StoredIsNat
    <2>3. Unit[r] \in Nat
      BY CalculatorAssumption
    <2> QED BY <2>2, <2>3
  <1> HIDE DEF ceiling
  <1>7. /\ nc.ratio * c.req \in Nat /\ nc.ratio * ceiling \in Nat
        /\ nc.ratio * c.req < nc.ratio * ceiling
    BY <1>1, <1>3, <1>6, ProductGrows
  <1> DEFINE kept == nc.ratio * c.req
             allowed == nc.ratio * ceiling
  <1> HIDE DEF kept, allowed
  <1>8. 10 * Stored(r, c.lim) < allowed
    BY <1>1, <1>4, <1>5, <1>7 DEF kept, allowed
  <1> QED BY <1>8 DEF allowed, ceiling, c

ItemsRespectable ==
    \A l \in LimitRanges : \A r \in Resources : Respectable(r, l[r])

LEMMA RespectStep ==
    ASSUME QuotaFree, ItemsRespectable, TypeInv, FreshInv, LimitRangesRespected,
           [Next]_vars
    PROVE  LimitRangesRespected'
  <1> USE DEF TypeInv
  <1>1. ASSUME NEW p \in Pods, PatchFails(p), informed, Satisfiable
        PROVE  "limits" \notin refusal'
    <2> DEFINE new == Patch(p, advice, seen)
    <2>1. SUFFICES ASSUME NEW r \in Resources PROVE WithinLimits(r, new[r])
      BY <1>1 DEF PatchFails, Objections
    <2> DEFINE nc == seen[r]
               rec == Unclamped(p, r, advice, nc)
               c == ClampRecommendation(rec, nc)
    <2>2. nc = Constraints(r) /\ nc \in MergedConstraints
      BY <1>1 DEF FreshInv, Current, Fetched
    <2>3. hard[r] = Unlimited
      BY DEF QuotaFree, TypeOK
    <2>4. /\ TightestOf(nc, limits[r], Len(limits[r]))
          /\ nc.max <= Unlimited /\ nc.remaining = Unlimited
      BY <2>2, <2>3, ConstraintsMerged
    <2>5. rec \in Recommendation /\ ToCalculatorConstraints(r, nc).min <= rec.req
      BY <2>2, UnclampedWithinBounds DEF TypeOK, Advice
    <2>6. new[r] = [req |-> Stored(r, c.req), lim |-> Stored(r, c.lim)]
      BY DEF Patch, Recommended
    <2>7. /\ limits[r] \in Seq(LimitRangeItem) /\ Respectable(r, limits[r])
          /\ \A i, j \in DOMAIN limits[r] : limits[r][i].min <= limits[r][j].max
      BY <1>1, SizingAssumption DEF ItemsRespectable, Satisfiable, TypeOK
    <2> HIDE DEF new, nc, rec
    <2>8. \A i \in DOMAIN limits[r] : Admits(limits[r][i], new[r])
      BY <2>2, <2>4, <2>5, <2>6, <2>7, EveryItemAdmits
    <2> QED BY <2>8 DEF WithinLimits, new
  <1>2. ASSUME NEW p \in Pods, ResizeFails(p) \/ FallBack(p)
        PROVE  LimitRangesRespected'
    <2>1. PatchFails(p) /\ UNCHANGED <<informed, limits>>
      BY <1>2 DEF ResizeFails, FallBack, Replace, inputs
    <2> QED BY <1>1, <2>1 DEF LimitRangesRespected, Satisfiable
  <1>3. CASE refusal' = {} \/ UNCHANGED <<refusal, informed, limits>>
    BY <1>3 DEF LimitRangesRespected, Satisfiable
  <1>4. \/ \E p \in Pods : ResizeFails(p) \/ FallBack(p)
        \/ refusal' = {} \/ UNCHANGED <<refusal, informed, limits>>
    BY DEF Next, vars, inputs, Fetch, LookUpFails, FetchFails, StartPass, LeaveAlone,
           Resize, Recreate, Replace, RecreateFails, UsageChanges, VpaRecChanges,
           LimitsChange, QuotaChanges, Changed
  <1> QED BY <1>2, <1>3, <1>4

\* Where no quota interferes, a patch computed from the LimitRanges as they are
\* is within each of them: what the merge keeps of a list of any length is
\* enough, and no adjustment and no truncation takes it back.
THEOREM LimitRangesRespectedAlways ==
    QuotaFree /\ ItemsRespectable => (Spec => []LimitRangesRespected)
  <1> SUFFICES ASSUME QuotaFree, ItemsRespectable PROVE Spec => []LimitRangesRespected
    OBVIOUS
  <1>1. Init => LimitRangesRespected
    BY DEF Init, LimitRangesRespected
  <1>2. TypeInv /\ FreshInv /\ LimitRangesRespected /\ [Next]_vars
          => LimitRangesRespected'
    BY RespectStep
  <1> QED BY <1>1, <1>2, FreshAlways, PTL DEF Spec

-----------------------------------------------------------------------------
(* NoChurn. *)

\* LimitRanges beside which the calculator's defaults make sense: no minimum
\* above the built-in maximum, and maxima that are whole units, but not zero.
Moderate(r, items) ==
    \A i \in Containers(items) :
      /\ items[i].min <= DefaultMax[r]
      /\ items[i].max > 0
      /\ items[i].max = Unlimited \/ Stored(r, items[i].max) = items[i].max

\* The threshold is coarser than one unit at the smallest request there is:
\* with 10m and 10 percent, or more.
ThresholdCoarse ==
    \A r \in Resources :
      /\ Stored(r, DefaultMin[r]) = DefaultMin[r]
      /\ 100 * Unit[r] <= Threshold * DefaultMin[r]

\* A recommendation within the calculator's bounds is kept by the clamp, which
\* is why it does not matter that the own algorithm measures the variance
\* before it.
LEMMA RequestKept ==
    ASSUME NEW r \in Resources, NEW nc \in MergedConstraints, NEW rec \in Recommendation,
           nc.min <= DefaultMax[r], nc.remaining >= nc.max,
           ToCalculatorConstraints(r, nc).min <= rec.req,
           rec.req <= ToCalculatorConstraints(r, nc).max
    PROVE  ClampRecommendation(rec, nc).req = rec.req
  <1>1. ClampRecommendation(rec, nc).req = Smaller(Larger(rec.req, nc.min), nc.max)
    BY ClampedRequest
  <1>2. /\ nc.min \in Nat /\ nc.max \in Nat /\ rec.req \in Nat
        /\ DefaultMin[r] \in Nat /\ DefaultMax[r] \in Nat
    BY CalculatorAssumption DEF MergedConstraints, Recommendation
  <1> QED BY <1>1, <1>2 DEF ToCalculatorConstraints, Larger, Smaller

\* What is stored of a request is within the threshold of it.
LEMMA StoredIsClose ==
    ASSUME ThresholdCoarse, NEW r \in Resources, NEW req \in Nat,
           DefaultMin[r] <= req \/ (Stored(r, req) = req /\ req > 0)
    PROVE  ~Deviates(req, Stored(r, req), Threshold)
  <1> DEFINE stored == Stored(r, req)
  <1>1. /\ Unit[r] \in Nat \ {0} /\ DefaultMin[r] \in Nat \ {0}
        /\ Threshold \in 1..100
    BY CalculatorAssumption, SizingAssumption
  <1>2. req <= req /\ stored \in Nat /\ stored <= req /\ req < stored + Unit[r]
    BY StoredIsNat
  <1>3. CASE stored = req /\ req > 0
    <2>1. Larger(req, stored) - Smaller(req, stored) = 0 /\ stored # 0
      BY <1>2, <1>3 DEF Larger, Smaller
    <2>2. Threshold * stored \in Nat /\ Threshold * stored # 0
      BY <1>1, <1>2, <1>3
    <2> HIDE DEF stored
    <2>3. ~(100 * 0 >= Threshold * stored)
      BY <2>2
    <2> QED BY <2>1, <2>3 DEF Deviates, stored
  <1>4. CASE DefaultMin[r] <= req
    <2>1. DefaultMin[r] <= stored
      BY <1>1, <1>4, StoredIsNat DEF ThresholdCoarse
    <2>2. Threshold * DefaultMin[r] <= Threshold * stored
      BY <1>1, <1>2, <2>1
    <2>3. 100 * Unit[r] <= Threshold * DefaultMin[r]
      BY DEF ThresholdCoarse
    <2>4. Threshold * DefaultMin[r] \in Nat /\ Threshold * stored \in Nat
      BY <1>1, <1>2
    <2> DEFINE least == Threshold * DefaultMin[r]
               bar == Threshold * stored
               gap == Larger(req, stored) - Smaller(req, stored)
    <2>5. gap = req - stored /\ gap \in Nat /\ gap < Unit[r]
      BY <1>1, <1>2 DEF Larger, Smaller
    <2>6. stored # 0
      BY <1>1, <1>2, <2>1
    <2> HIDE DEF least, bar, gap, stored
    <2>7. ~(100 * gap >= bar)
      BY <1>1, <2>2, <2>3, <2>4, <2>5 DEF least, bar
    <2> QED BY <2>6, <2>7 DEF Deviates, bar, gap, stored
  <1> QED BY <1>3, <1>4

LimitsModerate == \A l \in LimitRanges : \A r \in Resources : Moderate(r, l[r])

LEMMA SettledQuiet ==
    ASSUME QuotaFree, LimitsModerate, ThresholdCoarse, TypeOK,
           NEW p \in Pods, alloc[p] = Patch(p, vpaRec, Current)
    PROVE  ~Significant(p, vpaRec, Current)
  <1> SUFFICES ASSUME NEW r \in Resources
               PROVE  LET rec == IF vpaRec # NoRec
                                   THEN Recommended(p, r, vpaRec, Current[r])
                                   ELSE Unclamped(p, r, vpaRec, Current[r])
                      IN  ~Deviates(rec.req, alloc[p][r].req, Threshold)
    BY DEF Significant
  <1> DEFINE nc == Current[r]
             b == ToCalculatorConstraints(r, nc)
             u == Unclamped(p, r, vpaRec, nc)
             c == ClampRecommendation(u, nc)
  <1>1. nc = Constraints(r) /\ hard[r] = Unlimited
    BY DEF Current, QuotaFree, TypeOK
  <1>2. /\ nc \in MergedConstraints
        /\ TightestOf(nc, limits[r], Len(limits[r]))
        /\ nc.max <= Unlimited /\ nc.remaining = Unlimited
    BY <1>1, ConstraintsMerged
  <1>3. u \in Recommendation /\ b.min <= u.req /\ u.req <= b.max
    BY <1>2, UnclampedWithinBounds DEF TypeOK, Advice
  <1>4. alloc[p][r].req = Stored(r, c.req) /\ Recommended(p, r, vpaRec, nc) = c
    BY DEF Patch, Recommended
  <1> HIDE DEF nc, u
  <1>5. /\ nc.min \in Nat /\ nc.max \in Nat /\ u.req \in Nat /\ Unlimited \in Nat
        /\ DefaultMin[r] \in Nat /\ DefaultMax[r] \in Nat
        /\ DefaultMin[r] <= DefaultMax[r] /\ DefaultMax[r] < Unlimited
    BY <1>2, <1>3, CalculatorAssumption, UnlimitedAssumption
       DEF MergedConstraints, Recommendation
  <1>6. /\ nc.min <= DefaultMax[r]
        /\ nc.max = Unlimited \/ (nc.max > 0 /\ Stored(r, nc.max) = nc.max)
    <2>1. Moderate(r, limits[r]) /\ limits[r] \in Seq(LimitRangeItem)
      BY SizingAssumption DEF LimitsModerate, TypeOK
    <2>2. Containers(limits[r])
            = {i \in 1..Len(limits[r]) : limits[r][i].type = "Container"}
      BY <2>1 DEF Containers
    <2>3. /\ nc.min = 0 \/ \E i \in Containers(limits[r]) : nc.min = limits[r][i].min
          /\ nc.max = Unlimited \/ \E i \in Containers(limits[r]) : nc.max = limits[r][i].max
      BY <1>2, <2>2 DEF TightestOf
    <2> QED BY <1>5, <2>1, <2>3 DEF Moderate
  <1>7. c.req = u.req
    BY <1>2, <1>3, <1>5, <1>6, RequestKept
  <1>8. DefaultMin[r] <= u.req \/ (Stored(r, u.req) = u.req /\ u.req > 0)
    <2>1. CASE DefaultMin[r] <= nc.max
      BY <1>3, <1>5, <2>1 DEF ToCalculatorConstraints, Larger, Smaller
    <2>2. CASE nc.max < DefaultMin[r]
      <3>1. u.req = nc.max
        BY <1>3, <1>5, <2>2 DEF ToCalculatorConstraints, Larger, Smaller
      <3> QED BY <1>5, <1>6, <2>2, <3>1
    <2> QED BY <1>5, <2>1, <2>2
  <1>9. ~Deviates(u.req, Stored(r, u.req), Threshold)
    BY <1>5, <1>8, StoredIsClose
  <1> HIDE DEF c
  <1> QED BY <1>4, <1>7, <1>9 DEF nc, u

\* A settled pod has what would be patched again.
SettledInv == \A p \in settled : alloc[p] = Patch(p, vpaRec, Current)

LEMMA PatchSame ==
    ASSUME NEW p \in Pods, usage'[p] = usage[p], vpaRec' = vpaRec, Current' = Current
    PROVE  Patch(p, vpaRec, Current)' = Patch(p, vpaRec, Current)
  BY DEF Patch, Recommended, Unclamped

LEMMA SettledStep ==
    ASSUME QuotaFree, TypeInv, TypeInv', FreshInv, SettledInv, [Next]_vars
    PROVE  SettledInv'
  <1> USE DEF TypeInv
  <1>1. ASSUME UNCHANGED <<usage, vpaRec, limits, hard, alloc>>, settled' \subseteq settled
        PROVE  SettledInv'
    <2>1. Current' = Current
      BY <1>1, CurrentSame
    <2> QED BY <1>1, <2>1, PatchSame DEF SettledInv, TypeOK
  <1>2. ASSUME NEW p \in Pods, Resize(p) PROVE SettledInv'
    <2>1. /\ UNCHANGED <<usage, vpaRec, limits, hard>>
          /\ alloc' = [alloc EXCEPT ![p] = Patch(p, advice, seen)]
          /\ settled' = IF informed /\ advice = vpaRec THEN settled \cup {p}
                                                     ELSE settled \ {p}
      BY <1>2 DEF Resize, inputs
    <2>2. Current' = Current
      BY <2>1, CurrentSame
    <2>3. ASSUME NEW q \in settled', q # p PROVE alloc'[q] = Patch(q, vpaRec, Current)'
      <3>1. q \in settled /\ q \in Pods
        BY <2>1, <2>3 DEF TypeOK
      <3>2. alloc'[q] = alloc[q]
        BY <2>1, <2>3, <3>1 DEF TypeOK
      <3> QED BY <2>1, <2>2, <3>1, <3>2, PatchSame DEF SettledInv
    <2>4. ASSUME p \in settled' PROVE alloc'[p] = Patch(p, vpaRec, Current)'
      <3>1. informed /\ advice = vpaRec
        BY <2>1, <2>4
      <3>2. seen = Current
        BY <3>1 DEF FreshInv
      <3>3. alloc'[p] = Patch(p, vpaRec, Current)
        BY <2>1, <3>1, <3>2 DEF TypeOK
      <3> QED BY <2>1, <2>2, <3>3, PatchSame
    <2> QED BY <2>3, <2>4 DEF SettledInv
  <1>3. ASSUME NEW p \in Pods, Replace(p) PROVE SettledInv'
    <2>1. /\ UNCHANGED <<usage, vpaRec, limits, hard>>
          /\ alloc' = [alloc EXCEPT ![p] = Template]
          /\ settled' = settled \ {p}
      BY <1>3 DEF Replace, inputs
    <2>2. Current' = Current
      BY <2>1, CurrentSame
    <2>3. ASSUME NEW q \in settled' PROVE alloc'[q] = Patch(q, vpaRec, Current)'
      <3>1. q \in settled /\ q \in Pods /\ alloc'[q] = alloc[q]
        BY <2>1, <2>3 DEF TypeOK
      <3> QED BY <2>1, <2>2, <3>1, PatchSame DEF SettledInv
    <2> QED BY <2>3 DEF SettledInv
  <1>4. ASSUME NEW p \in Pods, UsageChanges(p) PROVE SettledInv'
    <2>1. /\ UNCHANGED <<vpaRec, limits, hard, alloc>>
          /\ settled' = settled \ {p}
          /\ \E u \in Usages : usage' = [usage EXCEPT ![p] = u]
      BY <1>4 DEF UsageChanges, Changed
    <2>2. Current' = Current
      BY <2>1, CurrentSame
    <2>3. ASSUME NEW q \in settled' PROVE alloc'[q] = Patch(q, vpaRec, Current)'
      <3>1. q \in settled /\ q \in Pods /\ usage'[q] = usage[q]
        BY <2>1, <2>3 DEF TypeOK
      <3> QED BY <2>1, <2>2, <3>1, PatchSame DEF SettledInv
    <2> QED BY <2>3 DEF SettledInv
  <1>5. CASE VpaRecChanges \/ LimitsChange \/ QuotaChanges
    BY <1>5 DEF VpaRecChanges, LimitsChange, QuotaChanges, SettledInv
  <1>6. CASE \/ Fetch \/ LookUpFails \/ FetchFails \/ UNCHANGED vars
             \/ \E p \in Pods : LeaveAlone(p) \/ ResizeFails(p) \/ RecreateFails(p)
    BY <1>1, <1>6 DEF Fetch, LookUpFails, FetchFails, StartPass, LeaveAlone, ResizeFails,
                      RecreateFails, vars, inputs
  <1> QED BY <1>2, <1>3, <1>4, <1>5, <1>6 DEF Next, FallBack, Recreate

LEMMA SettledAlways == QuotaFree => (Spec => []SettledInv)
  <1> SUFFICES ASSUME QuotaFree PROVE Spec => []SettledInv
    OBVIOUS
  <1>1. Init => SettledInv
    BY DEF Init, SettledInv
  <1>2. TypeInv /\ TypeInv' /\ FreshInv /\ SettledInv /\ [Next]_vars => SettledInv'
    BY SettledStep
  <1> QED BY <1>1, <1>2, FreshAlways, PTL DEF Spec

\* Where no quota interferes, a pod that was resized is significant no more,
\* by its usage or by a VPA, until something changes: the clamp of a value that
\* is within the calculator's bounds moves it no further than the truncation.
THEOREM NoChurnAlways ==
    QuotaFree /\ LimitsModerate /\ ThresholdCoarse => (Spec => []NoChurn)
  <1> SUFFICES ASSUME QuotaFree, LimitsModerate, ThresholdCoarse
               PROVE  Spec => []NoChurn
    OBVIOUS
  <1>1. TypeInv /\ SettledInv => NoChurn
    BY SettledQuiet DEF TypeInv, TypeOK, SettledInv, NoChurn, Deviating, Current
  <1> QED BY <1>1, TypeAlways, SettledAlways, PTL

-----------------------------------------------------------------------------
(* ResizesConverge. *)

\* Only a pod that deviates is patched or replaced, and no other is touched.
LEMMA TouchedDeviates ==
    ASSUME QuotaFree, TypeInv, TypeInv', FreshInv, [Next]_vars,
           informed, advice = vpaRec, inputs' = inputs,
           NEW q \in Pods, alloc'[q] # alloc[q] \/ (q \in settled' /\ q \notin settled)
    PROVE  q \in Deviating
  <1>1. seen = Current
    BY DEF FreshInv
  <1>2. PICK p \in Pods : Resize(p) \/ FallBack(p) \/ Recreate(p)
    <2>1. CASE UNCHANGED alloc /\ settled' \subseteq settled
      BY <2>1
    <2>2. \/ \E p \in Pods : Resize(p) \/ FallBack(p) \/ Recreate(p)
          \/ UNCHANGED alloc /\ settled' \subseteq settled
      BY DEF Next, vars, Fetch, LookUpFails, FetchFails, StartPass, LeaveAlone,
             ResizeFails, RecreateFails, UsageChanges, VpaRecChanges, LimitsChange,
             QuotaChanges, Changed
    <2> QED BY <2>1, <2>2
  <1>3. Significant(p, vpaRec, Current)
    BY <1>1, <1>2 DEF Resize, FallBack, Recreate
  <1>4. /\ alloc' = [alloc EXCEPT ![p] = alloc'[p]]
        /\ settled' \subseteq settled \cup {p}
    BY <1>2 DEF Resize, FallBack, Recreate, Replace, TypeInv, TypeOK
  <1>5. q = p
    BY <1>4 DEF TypeInv, TypeOK
  <1> QED BY <1>3, <1>5 DEF Deviating, Current

LEMMA ConvergeStep ==
    ASSUME QuotaFree, TypeInv, TypeInv', FreshInv, NoChurn', [Next]_vars,
           informed, advice = vpaRec, inputs' = inputs
    PROVE  /\ settled' \ settled \subseteq Deviating
           /\ Deviating' \subseteq Deviating \ settled'
  <1>1. settled' \ settled \subseteq Deviating
    BY TouchedDeviates DEF TypeInv, TypeOK
  <1>2. Deviating' \cap settled' = {}
    BY DEF NoChurn
  <1>3. ASSUME NEW q \in Deviating' PROVE q \in Deviating
    <2>1. q \in Pods
      BY DEF Deviating
    <2>2. Current' = Current
      BY CurrentSame DEF TypeInv, inputs
    <2>3. CASE alloc'[q] = alloc[q]
      <3>1. Significant(q, vpaRec, Current)'
        BY DEF Deviating, Current
      <3>2. usage' = usage /\ vpaRec' = vpaRec
        BY DEF inputs
      <3>3. Significant(q, vpaRec, Current)
        BY <2>2, <2>3, <3>1, <3>2 DEF Significant, Recommended, Unclamped
      <3> QED BY <2>1, <3>3 DEF Deviating, Current
    <2>4. CASE alloc'[q] # alloc[q]
      BY <2>1, <2>4, TouchedDeviates
    <2> QED BY <2>3, <2>4
  <1> QED BY <1>1, <1>2, <1>3

\* Where no quota interferes: while nothing changes, passes that know the inputs
\* leave fewer and fewer pods to patch, each resize counts, and with any number
\* of pods there are no more resizes than pods.  What Convergence needs besides
\* is that such passes go on, which is its fairness.
THEOREM ResizesConvergeAlways ==
    QuotaFree /\ LimitsModerate /\ ThresholdCoarse => (Spec => ResizesConverge)
  <1> SUFFICES ASSUME QuotaFree, LimitsModerate, ThresholdCoarse
               PROVE  Spec => ResizesConverge
    OBVIOUS
  <1> DEFINE Nearer == informed /\ advice = vpaRec /\ inputs' = inputs
                         => /\ settled' \ settled \subseteq Deviating
                            /\ Deviating' \subseteq Deviating \ settled'
  <1>1. TypeInv /\ TypeInv' /\ FreshInv /\ NoChurn' /\ [Next]_vars => [Nearer]_vars
    BY ConvergeStep
  <1> QED BY <1>1, FreshAlways, NoChurnAlways, PTL DEF Spec, ResizesConverge
=============================================================================
