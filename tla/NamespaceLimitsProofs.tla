------------------------- MODULE NamespaceLimitsProofs -------------------------
(***************************************************************************)
(* What ClampRecommendation and the truncation of a patch keep, for every  *)
(* recommendation and every set of merged constraints.                     *)
(***************************************************************************)
EXTENDS NamespaceLimits, FoldLemmas

Recommendation == [req: Nat, lim: Nat]

\* Constraints as the merge of real LimitRanges gives them: Kubernetes admits
\* no maxLimitRequestRatio below 1.
MergedConstraints ==
    {nc \in [min: Nat, max: Nat, ratio: Nat, podMax: Nat, remaining: Int] :
        nc.ratio = 0 \/ nc.ratio >= 10}

-----------------------------------------------------------------------------
(* The four adjustments, one by one. *)

\* The bounds make the request and the limit at most the maximum, and the
\* request at least the minimum if the two do not cross.
LEMMA BoundsHold ==
    ASSUME NEW rec \in Recommendation, NEW nc \in MergedConstraints
    PROVE  LET c == ClampToBounds(rec, nc)
           IN  /\ c \in Recommendation
               /\ c.req <= nc.max /\ c.lim <= nc.max
               /\ nc.min <= nc.max => nc.min <= c.req
  BY SMT DEF ClampToBounds, Larger, Smaller, Recommendation, MergedConstraints

\* The limit is raised to the request, which is not above the maximum.
LEMMA RaisedLimitCovers ==
    ASSUME NEW rec \in Recommendation
    PROVE  LET c == RaiseLimit(rec)
           IN  /\ c \in Recommendation
               /\ c.req = rec.req /\ c.req <= c.lim
               /\ \/ c.lim = rec.lim
                  \/ c.lim = rec.req
  BY SMT DEF RaiseLimit, Larger, Recommendation

\* A ratio of at least 1 leaves the limit above the request.
LEMMA RatioAboveOne ==
    ASSUME NEW req \in Nat, NEW ratio \in Nat, ratio >= 10
    PROVE  /\ (req * ratio) \div 10 \in Nat
           /\ req <= (req * ratio) \div 10
           /\ 10 * ((req * ratio) \div 10) <= req * ratio
  <1> DEFINE product == req * ratio
  <1>1. product \in Nat /\ product >= req * 10
    BY SMT
  <1> HIDE DEF product
  <1>2. /\ product \div 10 \in Nat
        /\ req <= product \div 10
        /\ 10 * (product \div 10) <= product
    BY <1>1, SMT
  <1> QED
    BY <1>2 DEF product

\* Capping to the ratio keeps the request and a limit that covers it.
LEMMA RatioKept ==
    ASSUME NEW rec \in Recommendation, NEW nc \in MergedConstraints,
           rec.req <= rec.lim
    PROVE  LET c == CapRatio(rec, nc)
           IN  /\ c \in Recommendation
               /\ c.req = rec.req /\ c.req <= c.lim /\ c.lim <= rec.lim
               /\ nc.ratio > 0 /\ c.req > 0 => 10 * c.lim <= c.req * nc.ratio
  <1>1. rec.req \in Nat /\ rec.lim \in Nat /\ nc.ratio \in Nat
    BY DEF Recommendation, MergedConstraints
  <1>2. CASE nc.ratio > 0 /\ rec.req > 0
    <2> DEFINE cap == (rec.req * nc.ratio) \div 10
    <2>1. nc.ratio >= 10
      BY <1>1, <1>2 DEF MergedConstraints
    <2>2. cap \in Nat /\ rec.req <= cap /\ 10 * cap <= rec.req * nc.ratio
      BY <1>1, <2>1, RatioAboveOne
    <2>3. CapRatio(rec, nc) = [rec EXCEPT !.lim = Smaller(@, cap)]
      BY <1>2 DEF CapRatio
    <2> HIDE DEF cap
    <2>4. CapRatio(rec, nc) = [req |-> rec.req, lim |-> Smaller(rec.lim, cap)]
      BY <2>3 DEF Recommendation
    <2> DEFINE product == rec.req * nc.ratio
    <2>5. product \in Nat /\ 10 * cap <= product
      BY <1>1, <2>2
    <2> HIDE DEF product
    <2>6. /\ Smaller(rec.lim, cap) \in Nat
          /\ rec.req <= Smaller(rec.lim, cap) /\ Smaller(rec.lim, cap) <= rec.lim
          /\ 10 * Smaller(rec.lim, cap) <= product
      BY <1>1, <2>2, <2>5 DEF Smaller
    <2> QED
      BY <1>1, <2>4, <2>6 DEF Recommendation, product
  <1>3. CASE ~(nc.ratio > 0 /\ rec.req > 0)
    <2>1. CapRatio(rec, nc) = rec
      BY <1>3 DEF CapRatio
    <2> QED
      BY <1>1, <1>3, <2>1
  <1> QED
    BY <1>2, <1>3

\* Capping to the quota lowers both and leaves the limit above the request.
LEMMA QuotaKept ==
    ASSUME NEW rec \in Recommendation, NEW nc \in MergedConstraints,
           rec.req <= rec.lim
    PROVE  LET c == CapQuota(rec, nc)
           IN  /\ c \in Recommendation
               /\ c.req <= c.lim /\ c.req <= rec.req /\ c.lim <= rec.lim
               /\ nc.remaining > 0 => c.req <= nc.remaining
               /\ nc.remaining <= 0 \/ nc.remaining >= rec.req => c = rec
  BY SMT DEF CapQuota, Smaller, Recommendation, MergedConstraints

-----------------------------------------------------------------------------
(* The whole of ClampRecommendation. *)

\* What ClampRecommendation returns never has a limit below its request, is
\* never above the LimitRange's maximum, and never asks for more than the
\* headroom the quota has left, if it has some.
THEOREM ClampIsWellFormed ==
    ASSUME NEW rec \in Recommendation, NEW nc \in MergedConstraints
    PROVE  LET c == ClampRecommendation(rec, nc)
           IN  /\ c \in Recommendation
               /\ c.req <= c.lim
               /\ c.req <= nc.max /\ c.lim <= nc.max
               /\ nc.remaining > 0 => c.req <= nc.remaining
  <1> DEFINE a == ClampToBounds(rec, nc)
             b == RaiseLimit(a)
             d == CapRatio(b, nc)
             c == CapQuota(d, nc)
  <1>1. a \in Recommendation /\ a.req <= nc.max /\ a.lim <= nc.max
    BY BoundsHold
  <1>2. /\ b \in Recommendation /\ b.req = a.req /\ b.req <= b.lim
        /\ b.lim = a.lim \/ b.lim = a.req
    BY <1>1, RaisedLimitCovers
  <1>3. d \in Recommendation /\ d.req = b.req /\ d.req <= d.lim /\ d.lim <= b.lim
    BY <1>2, RatioKept
  <1>4. /\ c \in Recommendation
        /\ c.req <= c.lim /\ c.req <= d.req /\ c.lim <= d.lim
        /\ nc.remaining > 0 => c.req <= nc.remaining
    BY <1>3, QuotaKept
  <1>5. ClampRecommendation(rec, nc) = c
    BY DEF ClampRecommendation
  <1>6. nc.max \in Nat
    BY DEF MergedConstraints
  <1> HIDE DEF a, b, d, c
  <1>7. c.req <= nc.max /\ c.lim <= nc.max
    BY <1>1, <1>2, <1>3, <1>4, <1>6, SMT DEF Recommendation
  <1> QED
    BY <1>4, <1>5, <1>7

\* While no quota interferes, what ClampRecommendation returns is what a
\* LimitRange with those bounds admits: minimum, maximum and ratio.
THEOREM ClampIsAdmitted ==
    ASSUME NEW rec \in Recommendation, NEW nc \in MergedConstraints,
           nc.min <= nc.max,
           nc.remaining <= 0 \/ nc.remaining >= nc.max
    PROVE  LET c == ClampRecommendation(rec, nc)
           IN  /\ nc.min <= c.req /\ c.lim <= nc.max
               /\ nc.ratio > 0 /\ c.req > 0 => 10 * c.lim <= c.req * nc.ratio
  <1> DEFINE a == ClampToBounds(rec, nc)
             b == RaiseLimit(a)
             d == CapRatio(b, nc)
             c == CapQuota(d, nc)
  <1>1. a \in Recommendation /\ a.req <= nc.max /\ nc.min <= a.req
    BY BoundsHold
  <1>2. b \in Recommendation /\ b.req = a.req /\ b.req <= b.lim
    BY <1>1, RaisedLimitCovers
  <1>3. /\ d \in Recommendation /\ d.req = b.req /\ d.req <= d.lim
        /\ nc.ratio > 0 /\ d.req > 0 => 10 * d.lim <= d.req * nc.ratio
    BY <1>2, RatioKept
  <1>4. nc.max \in Nat /\ nc.remaining \in Int
    BY DEF MergedConstraints
  <1>5. nc.remaining <= 0 \/ nc.remaining >= d.req
    BY <1>1, <1>2, <1>3, <1>4, SMT DEF Recommendation
  <1>6. c = d
    BY <1>3, <1>5, QuotaKept
  <1>7. ClampRecommendation(rec, nc) = c
    BY DEF ClampRecommendation
  <1>8. c.lim <= nc.max
    BY <1>7, ClampIsWellFormed
  <1> HIDE DEF a, b, d, c
  <1> QED
    BY <1>1, <1>2, <1>3, <1>6, <1>7, <1>8
-----------------------------------------------------------------------------
(* The truncation of a patch. *)

\* Truncation to whole units keeps the order of two values and raises none.
LEMMA TruncationKeepsOrder ==
    ASSUME NEW u \in Nat \ {0}, NEW v \in Nat, NEW w \in Nat, v <= w
    PROVE  /\ (v \div u) * u \in Nat
           /\ (v \div u) * u <= (w \div u) * u
           /\ (w \div u) * u <= w
  <1>1. /\ v \div u \in Nat /\ w \div u \in Nat
        /\ v \div u <= w \div u
        /\ (w \div u) * u <= w
    BY Z3
  <1> QED
    BY <1>1, Z3

\* What applyInPlace writes is well formed: after the truncation to whole units
\* the limit is still at or above the request, and both within the maximum.
THEOREM PatchIsWellFormed ==
    ASSUME NEW r \in Resources, NEW rec \in Recommendation,
           NEW nc \in MergedConstraints
    PROVE  LET c == ClampRecommendation(rec, nc)
           IN  /\ Stored(r, c.req) \in Nat /\ Stored(r, c.lim) \in Nat
               /\ Stored(r, c.req) <= Stored(r, c.lim)
               /\ Stored(r, c.lim) <= nc.max
  <1> DEFINE c == ClampRecommendation(rec, nc)
  <1>1. c \in Recommendation /\ c.req <= c.lim /\ c.lim <= nc.max
    BY ClampIsWellFormed
  <1>2. Unit[r] \in Nat \ {0} /\ nc.max \in Nat
    BY CalculatorAssumption DEF MergedConstraints
  <1> HIDE DEF c
  <1>3. c.req \in Nat /\ c.lim \in Nat
    BY <1>1 DEF Recommendation
  <1>4. /\ Stored(r, c.req) \in Nat /\ Stored(r, c.req) <= Stored(r, c.lim)
        /\ Stored(r, c.lim) <= c.lim
    BY <1>1, <1>2, <1>3, TruncationKeepsOrder DEF Stored
  <1>5. Stored(r, c.lim) \in Nat
    BY <1>2, <1>3, TruncationKeepsOrder DEF Stored
  <1>6. Stored(r, c.lim) <= nc.max
    BY <1>1, <1>2, <1>3, <1>4, <1>5, SMT
  <1> QED
    BY <1>4, <1>5, <1>6 DEF c

-----------------------------------------------------------------------------
(* The merge of the LimitRanges and quotas of a namespace. *)

LEMMA ItemTypes ==
    ASSUME NEW item \in LimitRangeItem
    PROVE  /\ item.type \in {"Container", "Pod"} /\ item.min \in Nat
           /\ item.max \in Nat /\ item.max <= Unlimited /\ item.ratio \in Nat
           /\ item.ratio = 0 \/ item.ratio >= 10
  BY UnlimitedAssumption DEF LimitRangeItem

LEMMA ItemApplied ==
    ASSUME NEW nc \in MergedConstraints, NEW item \in LimitRangeItem
    PROVE  LET c == ApplyLimitRangeItem(nc, item)
           IN  /\ c \in MergedConstraints
               /\ c.remaining = nc.remaining
               /\ item.type # "Container" =>
                    c.min = nc.min /\ c.max = nc.max /\ c.ratio = nc.ratio
               /\ item.type = "Container" =>
                    /\ c.min = Larger(item.min, nc.min)
                    /\ c.max = Smaller(item.max, nc.max)
                    /\ c.ratio = IF item.ratio # 0 THEN item.ratio ELSE nc.ratio
  <1>1. /\ item.type \in {"Container", "Pod"} /\ item.min \in Nat
        /\ item.max \in Nat /\ item.ratio \in Nat
        /\ item.ratio = 0 \/ item.ratio >= 10
    BY ItemTypes
  <1>2. CASE item.type = "Container"
    BY <1>1, <1>2 DEF ApplyLimitRangeItem, ApplyContainerItem, Larger, Smaller,
                      MergedConstraints
  <1>3. CASE item.type # "Container"
    BY <1>1, <1>3 DEF ApplyLimitRangeItem, ApplyPodItem, Smaller, MergedConstraints
  <1> QED BY <1>2, <1>3

LEMMA EmptyIsMerged == EmptyConstraints \in MergedConstraints
  BY UnlimitedAssumption DEF EmptyConstraints, MergedConstraints

\* The loop over the items, one after the other.
LEMMA LimitRangeLoop ==
    ASSUME NEW items \in Seq(LimitRangeItem)
    PROVE  \E nc : /\ nc[0] = EmptyConstraints
                   /\ \A n \in 1..Len(items) :
                        nc[n] = ApplyLimitRangeItem(nc[n - 1], items[n])
                   /\ FoldLeft(ApplyLimitRangeItem, EmptyConstraints, items)
                        = nc[Len(items)]
  <1> DEFINE D == 1..Len(items)
             V == MergedConstraints
             pick == [T \in SUBSET D |-> Max(T)]
             step == [e \in D \X V |-> ApplyLimitRangeItem(e[2], items[e[1]])]
  <1>1. /\ Len(items) \in Nat /\ IsFiniteSet(D) /\ DOMAIN items = D
        /\ \A n \in D : items[n] \in LimitRangeItem
    BY FS_Interval
  <1>2. \A T \in SUBSET D : T # {} => Max(T) \in T
    BY <1>1, MaxOfRange
  <1>3. step \in [D \X V -> V]
    BY <1>1, ItemApplied
  <1>4. PICK h : IsFold(D, V, EmptyConstraints, pick, step, h)
    <2>1. Foldable(D, V, EmptyConstraints, pick, step)
      BY <1>1, <1>2, <1>3, EmptyIsMerged DEF Foldable
    <2> HIDE DEF D, V, pick, step
    <2> QED BY <2>1, FoldExists
  <1> DEFINE Solves(g) ==
               g = [T \in SUBSET D |->
                     IF T = {} THEN EmptyConstraints
                     ELSE ApplyLimitRangeItem(g[T \ {Max(T)}], items[Max(T)])]
             fold == CHOOSE g : Solves(g)
  <1>5. Solves(h)
    <2>1. ASSUME NEW T \in SUBSET D, T # {}
          PROVE  step[<<pick[T], h[T \ {pick[T]}]>>]
                   = ApplyLimitRangeItem(h[T \ {Max(T)}], items[Max(T)])
      <3>1. Max(T) \in D /\ T \ {Max(T)} \in SUBSET D
        BY <1>2, <2>1
      <3>2. h[T \ {Max(T)}] \in V
        BY <1>4, <3>1 DEF IsFold
      <3> QED BY <3>1, <3>2
    <2> QED BY <1>4, <2>1 DEF IsFold
  <1>6. Solves(fold)
    BY <1>5
  <1>7. FoldLeft(ApplyLimitRangeItem, EmptyConstraints, items) = fold[D]
    BY <1>1 DEF FoldLeft, MapThenFoldSet
  <1> HIDE DEF fold
  <1> DEFINE nc == [n \in 0..Len(items) |-> fold[1..n]]
  <1>8. nc[0] = EmptyConstraints
    BY <1>1, <1>6
  <1>9. ASSUME NEW n \in 1..Len(items)
        PROVE  nc[n] = ApplyLimitRangeItem(nc[n - 1], items[n])
    <2>1. Max(1..n) = n /\ (1..n) \ {n} = 1..(n - 1)
      BY <1>1, MaxOfRange
    <2>2. 1..n \in SUBSET D /\ 1..n # {}
      BY <1>1, MaxOfRange
    <2>3. n \in 0..Len(items) /\ n - 1 \in 0..Len(items)
      BY <1>1
    <2> DEFINE R == 1..n
    <2>4. R \in SUBSET D /\ R # {} /\ Max(R) = n /\ R \ {n} = 1..(n - 1)
      BY <2>1, <2>2
    <2> HIDE DEF R
    <2>5. fold[R] = ApplyLimitRangeItem(fold[R \ {n}], items[n])
      BY <1>6, <2>4
    <2>6. nc[n] = fold[R] /\ nc[n - 1] = fold[R \ {n}]
      BY <2>3, <2>4 DEF R
    <2> QED BY <2>5, <2>6
  <1>10. nc[Len(items)] = fold[D]
    BY <1>1
  <1> HIDE DEF nc, D
  <1> QED BY <1>7, <1>8, <1>9, <1>10

\* What the status of a ResourceQuota says of one resource.
QuotaStatus == [hard: Nat, used: Nat]

LEMMA QuotaApplied ==
    ASSUME NEW nc \in MergedConstraints, NEW quota \in QuotaStatus
    PROVE  LET c == ApplyQuota(nc, quota)
           IN  /\ c \in MergedConstraints
               /\ c.min = nc.min /\ c.max = nc.max /\ c.ratio = nc.ratio
               /\ c.remaining = Smaller(quota.hard - quota.used, nc.remaining)
  BY DEF ApplyQuota, Smaller, MergedConstraints, QuotaStatus

\* The loop over the quotas, on top of what the LimitRanges gave.
LEMMA QuotaLoop ==
    ASSUME NEW start \in MergedConstraints, NEW quotas \in Seq(QuotaStatus)
    PROVE  \E nc : /\ nc[0] = start
                   /\ \A n \in 1..Len(quotas) :
                        nc[n] = ApplyQuota(nc[n - 1], quotas[n])
                   /\ FoldLeft(ApplyQuota, start, quotas)
                        = nc[Len(quotas)]
  <1> DEFINE D == 1..Len(quotas)
             V == MergedConstraints
             pick == [T \in SUBSET D |-> Max(T)]
             step == [e \in D \X V |-> ApplyQuota(e[2], quotas[e[1]])]
  <1>1. /\ Len(quotas) \in Nat /\ IsFiniteSet(D) /\ DOMAIN quotas = D
        /\ \A n \in D : quotas[n] \in QuotaStatus
    BY FS_Interval
  <1>2. \A T \in SUBSET D : T # {} => Max(T) \in T
    BY <1>1, MaxOfRange
  <1>3. step \in [D \X V -> V]
    BY <1>1, QuotaApplied
  <1>4. PICK h : IsFold(D, V, start, pick, step, h)
    <2>1. Foldable(D, V, start, pick, step)
      BY <1>1, <1>2, <1>3 DEF Foldable
    <2> HIDE DEF D, V, pick, step
    <2> QED BY <2>1, FoldExists
  <1> DEFINE Solves(g) ==
               g = [T \in SUBSET D |->
                     IF T = {} THEN start
                     ELSE ApplyQuota(g[T \ {Max(T)}], quotas[Max(T)])]
             fold == CHOOSE g : Solves(g)
  <1>5. Solves(h)
    <2>1. ASSUME NEW T \in SUBSET D, T # {}
          PROVE  step[<<pick[T], h[T \ {pick[T]}]>>]
                   = ApplyQuota(h[T \ {Max(T)}], quotas[Max(T)])
      <3>1. Max(T) \in D /\ T \ {Max(T)} \in SUBSET D
        BY <1>2, <2>1
      <3>2. h[T \ {Max(T)}] \in V
        BY <1>4, <3>1 DEF IsFold
      <3> QED BY <3>1, <3>2
    <2> QED BY <1>4, <2>1 DEF IsFold
  <1>6. Solves(fold)
    BY <1>5
  <1>7. FoldLeft(ApplyQuota, start, quotas) = fold[D]
    BY <1>1 DEF FoldLeft, MapThenFoldSet
  <1> HIDE DEF fold
  <1> DEFINE nc == [n \in 0..Len(quotas) |-> fold[1..n]]
  <1>8. nc[0] = start
    BY <1>1, <1>6
  <1>9. ASSUME NEW n \in 1..Len(quotas)
        PROVE  nc[n] = ApplyQuota(nc[n - 1], quotas[n])
    <2>1. Max(1..n) = n /\ (1..n) \ {n} = 1..(n - 1)
      BY <1>1, MaxOfRange
    <2>2. 1..n \in SUBSET D /\ 1..n # {}
      BY <1>1, MaxOfRange
    <2>3. n \in 0..Len(quotas) /\ n - 1 \in 0..Len(quotas)
      BY <1>1
    <2> DEFINE R == 1..n
    <2>4. R \in SUBSET D /\ R # {} /\ Max(R) = n /\ R \ {n} = 1..(n - 1)
      BY <2>1, <2>2
    <2> HIDE DEF R
    <2>5. fold[R] = ApplyQuota(fold[R \ {n}], quotas[n])
      BY <1>6, <2>4
    <2>6. nc[n] = fold[R] /\ nc[n - 1] = fold[R \ {n}]
      BY <2>3, <2>4 DEF R
    <2> QED BY <2>5, <2>6
  <1>10. nc[Len(quotas)] = fold[D]
    BY <1>1
  <1> HIDE DEF nc, D
  <1> QED BY <1>7, <1>8, <1>9, <1>10

\* nc is what the first n items amount to: bounds that are the tightest of
\* theirs, and the last ratio any of them sets.
TightestOf(nc, items, n) ==
    LET Containers == {i \in 1..n : items[i].type = "Container"}
    IN  /\ \A i \in Containers : items[i].min <= nc.min /\ nc.max <= items[i].max
        /\ nc.min = 0 \/ \E i \in Containers : nc.min = items[i].min
        /\ nc.max = Unlimited \/ \E i \in Containers : nc.max = items[i].max
        /\ nc.ratio = 0 => \A i \in Containers : items[i].ratio = 0
        /\ nc.ratio # 0 =>
             \E i \in Containers :
               /\ nc.ratio = items[i].ratio
               /\ \A j \in Containers : j > i => items[j].ratio = 0

LEMMA TightestStep ==
    ASSUME NEW items \in Seq(LimitRangeItem), NEW n \in Nat, n + 1 \in 1..Len(items),
           NEW nc \in MergedConstraints, TightestOf(nc, items, n)
    PROVE  TightestOf(ApplyLimitRangeItem(nc, items[n + 1]), items, n + 1)
  <1> DEFINE item == items[n + 1]
             c == ApplyLimitRangeItem(nc, item)
             Old == {i \in 1..n : items[i].type = "Container"}
             Now == {i \in 1..(n + 1) : items[i].type = "Container"}
  <1>1. /\ Len(items) \in Nat
        /\ \A i \in 1..(n + 1) : items[i] \in LimitRangeItem
        /\ 1..(n + 1) = 1..n \cup {n + 1}
    OBVIOUS
  <1>2. /\ \A i \in 1..(n + 1) : items[i].min \in Nat /\ items[i].max \in Nat
                                 /\ items[i].ratio \in Nat
        /\ nc.min \in Nat /\ nc.max \in Nat /\ nc.ratio \in Nat
    BY <1>1, ItemTypes DEF MergedConstraints
  <1>3. item \in LimitRangeItem
    BY <1>1
  <1>4. CASE item.type # "Container"
    <2>1. Now = Old
      BY <1>1, <1>4
    <2>2. c.min = nc.min /\ c.max = nc.max /\ c.ratio = nc.ratio
      BY <1>3, <1>4, ItemApplied
    <2> HIDE DEF c, item, Old, Now
    <2> QED BY <2>1, <2>2 DEF TightestOf, Old, Now, c, item
  <1>5. CASE item.type = "Container"
    <2>1. Now = Old \cup {n + 1}
      BY <1>1, <1>5
    <2>2. /\ c.min = Larger(item.min, nc.min)
          /\ c.max = Smaller(item.max, nc.max)
          /\ c.ratio = IF item.ratio # 0 THEN item.ratio ELSE nc.ratio
      BY <1>3, <1>5, ItemApplied
    <2>3. /\ \A i \in Now : items[i].min <= c.min /\ c.max <= items[i].max
          /\ c.min = 0 \/ \E i \in Now : c.min = items[i].min
          /\ c.max = Unlimited \/ \E i \in Now : c.max = items[i].max
      <3>1. /\ \A i \in Old : items[i].min <= nc.min /\ nc.max <= items[i].max
            /\ nc.min = 0 \/ \E i \in Old : nc.min = items[i].min
            /\ nc.max = Unlimited \/ \E i \in Old : nc.max = items[i].max
        BY DEF TightestOf
      <3>2. \A i \in Old : i \in 1..(n + 1)
        BY <1>1
      <3>3. item.min \in Nat /\ item.max \in Nat /\ item = items[n + 1]
        BY <1>2, <1>1
      <3>4. \/ c.min = item.min /\ nc.min <= item.min
            \/ c.min = nc.min /\ item.min <= nc.min
        BY <1>2, <2>2, <3>3 DEF Larger
      <3>5. \/ c.max = item.max /\ item.max <= nc.max
            \/ c.max = nc.max /\ nc.max <= item.max
        BY <1>2, <2>2, <3>3 DEF Smaller
      <3> HIDE DEF c, item, Old, Now
      <3>6. \A i \in Now : items[i].min <= c.min
        BY <1>2, <2>1, <3>1, <3>2, <3>3, <3>4
      <3>7. \A i \in Now : c.max <= items[i].max
        BY <1>2, <2>1, <3>1, <3>2, <3>3, <3>5
      <3>8. c.min = 0 \/ \E i \in Now : c.min = items[i].min
        BY <2>1, <3>1, <3>3, <3>4
      <3>9. c.max = Unlimited \/ \E i \in Now : c.max = items[i].max
        BY <2>1, <3>1, <3>3, <3>5
      <3> QED BY <3>6, <3>7, <3>8, <3>9
    <2>4. /\ c.ratio = 0 => \A i \in Now : items[i].ratio = 0
          /\ c.ratio # 0 =>
               \E i \in Now : /\ c.ratio = items[i].ratio
                              /\ \A j \in Now : j > i => items[j].ratio = 0
      <3>1. /\ nc.ratio = 0 => \A i \in Old : items[i].ratio = 0
            /\ nc.ratio # 0 =>
                 \E i \in Old : /\ nc.ratio = items[i].ratio
                                /\ \A j \in Old : j > i => items[j].ratio = 0
        BY DEF TightestOf
      <3>2. \A i \in Now : ~(i > n + 1)
        BY <1>1
      <3> HIDE DEF c, Old, Now
      <3> QED BY <2>1, <2>2, <3>1, <3>2
    <2> HIDE DEF c
    <2> QED BY <2>3, <2>4 DEF TightestOf, c
  <1> QED BY <1>4, <1>5

\* What the LimitRanges of a namespace merge to, for a list of any length.
THEOREM LimitRangesMerged ==
    ASSUME NEW items \in Seq(LimitRangeItem)
    PROVE  LET nc == FoldLeft(ApplyLimitRangeItem, EmptyConstraints, items)
           IN  /\ nc \in MergedConstraints
               /\ TightestOf(nc, items, Len(items))
               /\ nc.max <= Unlimited /\ nc.remaining = Unlimited
  <1>1. PICK nc : /\ nc[0] = EmptyConstraints
                  /\ \A n \in 1..Len(items) :
                       nc[n] = ApplyLimitRangeItem(nc[n - 1], items[n])
                  /\ FoldLeft(ApplyLimitRangeItem, EmptyConstraints, items)
                       = nc[Len(items)]
    BY LimitRangeLoop
  <1> DEFINE Holds(n) == /\ nc[n] \in MergedConstraints
                         /\ TightestOf(nc[n], items, n)
                         /\ nc[n].max <= Unlimited /\ nc[n].remaining = Unlimited
             Good == {n \in Nat : n <= Len(items) => Holds(n)}
  <1>2. Len(items) \in Nat
    OBVIOUS
  <1>3. 0 \in Good
    <2>1. /\ EmptyConstraints.min = 0 /\ EmptyConstraints.max = Unlimited
          /\ EmptyConstraints.ratio = 0 /\ EmptyConstraints.remaining = Unlimited
      BY DEF EmptyConstraints
    <2>2. 1..0 = {}
      OBVIOUS
    <2> QED BY <1>1, <2>1, <2>2, EmptyIsMerged, UnlimitedAssumption DEF TightestOf
  <1>4. ASSUME NEW n \in Nat, n \in Good PROVE n + 1 \in Good
    <2> SUFFICES ASSUME n + 1 <= Len(items) PROVE Holds(n + 1)
      OBVIOUS
    <2>1. Holds(n) /\ n + 1 \in 1..Len(items) /\ (n + 1) - 1 = n
      BY <1>2, <1>4
    <2>2. nc[n + 1] = ApplyLimitRangeItem(nc[n], items[n + 1])
      BY <1>1, <2>1
    <2>3. items[n + 1] \in LimitRangeItem
      BY <2>1
    <2>4. TightestOf(nc[n + 1], items, n + 1)
      BY <2>1, <2>2, TightestStep
    <2>5. nc[n + 1] \in MergedConstraints /\ nc[n + 1].remaining = Unlimited
      BY <2>1, <2>2, <2>3, ItemApplied
    <2>6. nc[n + 1].max <= Unlimited
      <3> DEFINE prev == nc[n]
                 item == items[n + 1]
      <3>1. prev \in MergedConstraints /\ prev.max <= Unlimited
            /\ item \in LimitRangeItem /\ nc[n + 1] = ApplyLimitRangeItem(prev, item)
        BY <2>1, <2>2, <2>3
      <3> HIDE DEF prev, item
      <3>2. nc[n + 1].max = prev.max \/ nc[n + 1].max = Smaller(item.max, prev.max)
        BY <3>1, ItemApplied
      <3>3. item.max <= Unlimited
        BY <3>1, ItemTypes
      <3> QED BY <3>1, <3>2, <3>3 DEF Smaller
    <2> QED BY <2>4, <2>5, <2>6
  <1> HIDE DEF Good
  <1>5. Len(items) \in Good
    BY <1>2, <1>3, <1>4, NatSetInduction
  <1> QED BY <1>1, <1>2, <1>5 DEF Good

\* What the quotas add: the least headroom any of them leaves.
THEOREM QuotasMerged ==
    ASSUME NEW start \in MergedConstraints, NEW quotas \in Seq(QuotaStatus)
    PROVE  LET nc == FoldLeft(ApplyQuota, start, quotas)
           IN  /\ nc \in MergedConstraints
               /\ nc.min = start.min /\ nc.max = start.max /\ nc.ratio = start.ratio
               /\ nc.remaining <= start.remaining
               /\ \A i \in DOMAIN quotas :
                    nc.remaining <= quotas[i].hard - quotas[i].used
               /\ \/ nc.remaining = start.remaining
                  \/ \E i \in DOMAIN quotas :
                       nc.remaining = quotas[i].hard - quotas[i].used
  <1>1. PICK nc : /\ nc[0] = start
                  /\ \A n \in 1..Len(quotas) : nc[n] = ApplyQuota(nc[n - 1], quotas[n])
                  /\ FoldLeft(ApplyQuota, start, quotas) = nc[Len(quotas)]
    BY QuotaLoop
  <1> DEFINE Left(i) == quotas[i].hard - quotas[i].used
             Holds(n) ==
               /\ nc[n] \in MergedConstraints
               /\ nc[n].min = start.min /\ nc[n].max = start.max
               /\ nc[n].ratio = start.ratio
               /\ nc[n].remaining <= start.remaining
               /\ \A i \in 1..n : nc[n].remaining <= Left(i)
               /\ \/ nc[n].remaining = start.remaining
                  \/ \E i \in 1..n : nc[n].remaining = Left(i)
             Good == {n \in Nat : n <= Len(quotas) => Holds(n)}
  <1>2. Len(quotas) \in Nat /\ DOMAIN quotas = 1..Len(quotas)
    OBVIOUS
  <1>3. ASSUME NEW i \in 1..Len(quotas)
        PROVE  quotas[i] \in QuotaStatus /\ Left(i) \in Int
    <2>1. quotas[i] \in QuotaStatus
      BY <1>2
    <2> QED BY <2>1 DEF QuotaStatus
  <1>4. start.remaining \in Int
    BY DEF MergedConstraints
  <1>5. 0 \in Good
    BY <1>1, <1>4
  <1>6. ASSUME NEW n \in Nat, n \in Good PROVE n + 1 \in Good
    <2> SUFFICES ASSUME n + 1 <= Len(quotas) PROVE Holds(n + 1)
      OBVIOUS
    <2>1. Holds(n) /\ n + 1 \in 1..Len(quotas) /\ (n + 1) - 1 = n
      BY <1>2, <1>6
    <2>2. nc[n + 1] = ApplyQuota(nc[n], quotas[n + 1])
      BY <1>1, <2>1
    <2>3. /\ nc[n + 1] \in MergedConstraints
          /\ nc[n + 1].min = start.min /\ nc[n + 1].max = start.max
          /\ nc[n + 1].ratio = start.ratio
          /\ nc[n + 1].remaining = Smaller(Left(n + 1), nc[n].remaining)
      <3> DEFINE prev == nc[n]
                 quota == quotas[n + 1]
      <3>1. /\ prev \in MergedConstraints /\ quota \in QuotaStatus
            /\ nc[n + 1] = ApplyQuota(prev, quota)
            /\ prev.min = start.min /\ prev.max = start.max /\ prev.ratio = start.ratio
        BY <1>3, <2>1, <2>2
      <3>2. Left(n + 1) = quota.hard - quota.used
        OBVIOUS
      <3> HIDE DEF quota, Left
      <3> QED BY <3>1, <3>2, QuotaApplied
    <2>4. nc[n].remaining \in Int /\ Left(n + 1) \in Int
      BY <1>3, <2>1 DEF MergedConstraints
    <2>5. \A i \in 1..(n + 1) : i \in 1..n \/ i = n + 1
      OBVIOUS
    <2>6. \A i \in 1..n : Left(i) \in Int /\ i \in 1..(n + 1)
      BY <1>2, <1>3, <2>1
    <2>7. n + 1 \in 1..(n + 1)
      OBVIOUS
    <2> HIDE DEF Left
    <2>8. CASE Left(n + 1) < nc[n].remaining
      BY <1>4, <2>1, <2>3, <2>4, <2>5, <2>6, <2>7, <2>8 DEF Smaller
    <2>9. CASE ~(Left(n + 1) < nc[n].remaining)
      BY <1>4, <2>1, <2>3, <2>4, <2>5, <2>6, <2>7, <2>9 DEF Smaller
    <2> QED BY <2>8, <2>9
  <1> HIDE DEF Good
  <1>7. Len(quotas) \in Good
    BY <1>2, <1>5, <1>6, NatSetInduction
  <1> QED BY <1>1, <1>2, <1>7 DEF Good
=============================================================================
