---------------------------- MODULE NamespaceLimits ----------------------------
(***************************************************************************)
(* internal/namespacelimits: what the LimitRanges and ResourceQuotas of a  *)
(* namespace allow for one resource, in the grains of Calculator.          *)
(***************************************************************************)
EXTENDS Calculator, SequencesExt

CONSTANT Unlimited  \* math.MaxFloat64

ASSUME UnlimitedAssumption ==
    Unlimited \in Nat /\ \A r \in Resources : DefaultMax[r] < Unlimited

\* A LimitRangeItem: min 0, max Unlimited and ratio 0 where the item sets
\* none; ratio is maxLimitRequestRatio, in tenths, of which Kubernetes admits
\* none below 1.
LimitRangeItem ==
    [type: {"Container", "Pod"}, min: Nat, max: 0..Unlimited, ratio: Nat \ (1..9)]

\* NamespaceConstraints, for one resource.  Nothing reads podMax.
EmptyConstraints ==
    [min |-> 0, max |-> Unlimited, ratio |-> 0,
     podMax |-> Unlimited, remaining |-> Unlimited]

\* applyContainerLimitRangeItem: the tightest bounds, but the last ratio.
ApplyContainerItem(nc, item) ==
    [nc EXCEPT !.min   = Larger(item.min, @),
               !.max   = Smaller(item.max, @),
               !.ratio = IF item.ratio # 0 THEN item.ratio ELSE @]

ApplyPodItem(nc, item) == [nc EXCEPT !.podMax = Smaller(item.max, @)]

\* Mutant of ApplyLimitRangeItem: a later LimitRange replaces the bounds of an
\* earlier one.
ApplyLastItem(nc, item) ==
    IF item.type = "Container"
      THEN [nc EXCEPT !.min = item.min, !.max = item.max, !.ratio = item.ratio]
      ELSE ApplyPodItem(nc, item)

ApplyLimitRangeItem(nc, item) ==
    IF item.type = "Container" THEN ApplyContainerItem(nc, item)
                               ELSE ApplyPodItem(nc, item)

\* applyResourceQuota: hard and used are those of the quota's status.
ApplyQuota(nc, quota) ==
    [nc EXCEPT !.remaining = Smaller(quota.hard - quota.used, @)]

\* GetNamespaceConstraints, in the order of the two lists.
NamespaceConstraints(items, quotas) ==
    FoldLeft(ApplyQuota, FoldLeft(ApplyLimitRangeItem, EmptyConstraints, items),
             quotas)

\* Mutant of ToCalculatorConstraints: the upper bound is not merged.
MergeMinOnly(r, nc) ==
    [min |-> Smaller(Larger(DefaultMin[r], nc.min), DefaultMax[r]),
     max |-> DefaultMax[r]]

\* The calculator's bounds: the tightest of the defaults and the namespace's,
\* and the upper one twice when they cross.
ToCalculatorConstraints(r, nc) ==
    LET max == Smaller(DefaultMax[r], nc.max)
    IN  [min |-> Smaller(Larger(DefaultMin[r], nc.min), max), max |-> max]

\* The four adjustments of ClampRecommendation, in their order.
ClampToBounds(rec, nc) ==
    [req |-> Smaller(Larger(rec.req, nc.min), nc.max),
     lim |-> Smaller(rec.lim, nc.max)]

RaiseLimit(rec) == [rec EXCEPT !.lim = Larger(@, rec.req)]

CapRatio(rec, nc) ==
    IF nc.ratio > 0 /\ rec.req > 0
      THEN [rec EXCEPT !.lim = Smaller(@, (rec.req * nc.ratio) \div 10)]
      ELSE rec

\* Mutant of CapQuota: headroom below zero caps the request too.
CapQuotaAlways(rec, nc) ==
    IF rec.req > nc.remaining
      THEN [req |-> nc.remaining, lim |-> Smaller(rec.lim, 2 * nc.remaining)]
      ELSE rec

\* Mutant of CapQuota: the request is not lowered.
CapLimitToQuota(rec, nc) ==
    IF nc.remaining > 0 /\ rec.req > nc.remaining
      THEN [rec EXCEPT !.lim = Smaller(@, 2 * nc.remaining)]
      ELSE rec

\* Headroom that is used up caps nothing.
CapQuota(rec, nc) ==
    IF nc.remaining > 0 /\ rec.req > nc.remaining
      THEN [req |-> nc.remaining, lim |-> Smaller(rec.lim, 2 * nc.remaining)]
      ELSE rec

ClampRecommendation(rec, nc) ==
    CapQuota(CapRatio(RaiseLimit(ClampToBounds(rec, nc)), nc), nc)
=============================================================================
