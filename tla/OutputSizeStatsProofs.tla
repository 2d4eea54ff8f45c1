------------------------ MODULE OutputSizeStatsProofs ------------------------
(***************************************************************************)
(* That no observation is lost from the range of OutputSizeStats, that the *)
(* learned estimate stays inside it, that a planner is never misled about  *)
(* it, and that the loops are atomic updates (AtomicSizeStats): for any    *)
(* renderers, planners and sizes.                                          *)
(***************************************************************************)
EXTENDS OutputSizeStats, TLAPS

Ranging     == {"min", "casMin"}
Maximizing  == {"max", "casMax"}
InRange     == {"estimate", "samples", "casEstimate", "headroom", "casHeadroom", "count"}

\* A swap is tried only with a value that moves the bound outwards.
SwapsWiden ==
    \A r \in Renderers :
        /\ pc[r] = "casMin" => loaded[r] = 0 \/ loaded[r] > actual[r]
        /\ pc[r] = "casMax" => loaded[r] < actual[r]

\* Who is past a loop of observeRange has its size inside that bound.
PastLoopsInside ==
    \A r \in Renderers :
        /\ pc[r] \in Maximizing \cup InRange => 0 < minimum /\ minimum <= actual[r]
        /\ pc[r] \in InRange => actual[r] <= maximum

\* A size is inside the range, or its renderer is still on the way there.
Covered ==
    \A size \in observed :
        /\ \/ 0 < minimum /\ minimum <= size
           \/ \E r \in Renderers : pc[r] \in Ranging /\ actual[r] = size
        /\ \/ size <= maximum
           \/ \E r \in Renderers : pc[r] \in Ranging \cup Maximizing /\ actual[r] = size

\* Sizes come from observations, and an estimate only after a range.
Grounded ==
    /\ \A r \in Renderers : pc[r] # "idle" => actual[r] \in observed
    /\ minimum \in observed \cup {0}
    /\ maximum \in observed \cup {0}
    /\ estimate # 0 => 0 < minimum /\ minimum <= estimate /\ estimate <= maximum
    /\ samples # 0 => 0 < minimum /\ minimum <= maximum

\* What a planner has loaded, relative to the range now.
PlansOrdered ==
    \A q \in Planners :
        /\ asking[q] = "idle" => high[q] = 0 /\ low[q] = 0
        /\ asking[q] = "min" => samples # 0 /\ high[q] = 0
        /\ asking[q] = "max" => 0 < low[q] /\ low[q] <= maximum /\ high[q] = 0
        /\ high[q] # 0 => 0 < low[q] /\ low[q] <= high[q]
        /\ low[q] \in observed \cup {0} /\ high[q] \in observed \cup {0}
        /\ unstable[q] => asking[q] = "answered" /\ low[q] > 0 /\ high[q] >= 4 * low[q]

IInv == TypeOk /\ SwapsWiden /\ PastLoopsInside /\ Covered /\ Grounded /\ PlansOrdered

-----------------------------------------------------------------------------
\* The size hint of a positive size is positive, and capped.
LEMMA SizeHintBounds ==
    ASSUME NEW n \in Nat
    PROVE  /\ SizeHint(n) \in 0 .. MaxGrowHint
           /\ n > 0 => SizeHint(n) > 0
           /\ SizeHint(n) <= n
BY LimitsAssumption DEF SizeHint, Smaller

\* The next estimate is between the bounds of the sizes seen, if the present
\* one and the size just seen are.
LEMMA NextEstimateInside ==
    ASSUME NEW current \in Nat, NEW size \in Nat, NEW seen \in Nat,
           NEW low_ \in Nat, NEW high_ \in Nat,
           0 < low_, low_ <= size, size <= high_, high_ <= MaxGrowHint,
           current # 0 => low_ <= current /\ current <= high_
    PROVE  /\ NextEstimate(current, size, seen) \in Nat
           /\ low_ <= NextEstimate(current, size, seen)
           /\ NextEstimate(current, size, seen) <= high_
<1>1. CASE seen = 0 \/ current = 0 \/ size = current
  BY <1>1 DEF NextEstimate
<1>2. CASE seen # 0 /\ current # 0 /\ size > current
  <2> DEFINE reach == Smaller(size, 4 * current)
             step  == Larger(1, (reach - current) \div 2)
  <2>1. reach \in Nat /\ current < reach /\ reach <= size
    BY <1>2 DEF Smaller
  <2>2. step \in Nat /\ step >= 1 /\ current + step <= reach
    BY <2>1 DEF Larger
  <2>3. NextEstimate(current, size, seen) = SizeHint(current + step)
    BY <1>2 DEF NextEstimate
  <2>4. current + step <= MaxGrowHint
    BY <2>1, <2>2, LimitsAssumption
  <2>5. SizeHint(current + step) = current + step
    BY <2>2, <2>4, LimitsAssumption DEF SizeHint, Smaller
  <2> QED
    BY <1>2, <2>1, <2>2, <2>3, <2>5
<1>3. CASE seen # 0 /\ current # 0 /\ size < current
  <2> DEFINE step == Larger(1, (current - size) \div 8)
  <2>1. step \in Nat /\ step >= 1 /\ step <= current - size
    BY <1>3 DEF Larger
  <2>2. NextEstimate(current, size, seen) = SizeHint(current - step)
    BY <1>3 DEF NextEstimate
  <2>3. SizeHint(current - step) = current - step
    BY <1>3, <2>1, LimitsAssumption DEF SizeHint, Smaller
  <2> QED
    BY <1>3, <2>1, <2>2, <2>3
<1> QED
  BY <1>1, <1>2, <1>3

\* The headroom stays within its limit.
LEMMA NextHeadroomBounded ==
    ASSUME NEW current \in 0 .. MaxHeadroom, NEW estimated \in Nat, NEW size \in Nat
    PROVE  NextHeadroom(current, estimated, size) \in 0 .. MaxHeadroom
<1>1. CASE size > estimated
  BY <1>1, LimitsAssumption DEF NextHeadroom, Larger, Smaller
<1>2. CASE ~(size > estimated) /\ current = 0
  BY <1>2, LimitsAssumption DEF NextHeadroom
<1>3. CASE ~(size > estimated) /\ current # 0
  <2> DEFINE step == Larger(1, current \div 8)
  <2>1. step \in Nat /\ step <= current
    BY <1>3, LimitsAssumption DEF Larger
  <2>2. NextHeadroom(current, estimated, size) = current - step
    BY <1>3 DEF NextHeadroom
  <2> QED
    BY <2>1, <2>2, LimitsAssumption
<1> QED
  BY <1>1, <1>2, <1>3

\* The initial state satisfies the invariant.
LEMMA InitIInv == Init => IInv
<1> SUFFICES ASSUME Init PROVE IInv
  OBVIOUS
<1> USE DEF Init
<1>1. TypeOk
  <2>1. unstable \in [Planners -> BOOLEAN]
    BY Zenon
  <2> QED
    BY <2>1, LimitsAssumption DEF TypeOk, Points
<1>2. SwapsWiden /\ PastLoopsInside /\ Covered /\ Grounded /\ PlansOrdered
  BY DEF SwapsWiden, PastLoopsInside, Covered, Grounded, PlansOrdered, Ranging, Maximizing, InRange
<1> QED
  BY <1>1, <1>2 DEF IInv

-----------------------------------------------------------------------------
\* A new size is covered by the renderer that reports it.
LEMMA ObservePreserves ==
    ASSUME IInv, NEW r \in Renderers, Observe(r)
    PROVE  IInv'
<1> USE DEF IInv
<1>1. PICK size \in Sizes, estimated \in Estimates :
        /\ actual' = [actual EXCEPT ![r] = SizeHint(size)]
        /\ base' = [base EXCEPT ![r] = SizeHint(estimated)]
        /\ observed' = observed \cup {SizeHint(size)}
  BY DEF Observe
<1>2. /\ SizeHint(size) \in 1 .. MaxGrowHint
      /\ SizeHint(estimated) \in 0 .. MaxGrowHint
  BY SizeHintBounds, SizesAssumption
<1> DEFINE hint == SizeHint(size)
<1>3. /\ pc[r] = "idle" /\ pc' = [pc EXCEPT ![r] = "min"]
      /\ observes' = observes + 1
      /\ UNCHANGED <<estimate, headroom, samples, minimum, maximum, loaded, sawSamples,
                     asking, low, high, unstable>>
  BY DEF Observe, Transition, stats, plans
<1> HIDE DEF hint
<1>4. hint \in 1 .. MaxGrowHint /\ actual' = [actual EXCEPT ![r] = hint]
      /\ observed' = observed \cup {hint}
  BY <1>1, <1>2 DEF hint
<1>5. TypeOk'
  <2>1. /\ actual' \in [Renderers -> 0 .. MaxGrowHint]
        /\ base' \in [Renderers -> 0 .. MaxGrowHint]
    BY <1>1, <1>2, <1>4 DEF TypeOk
  <2>2. pc' \in [Renderers -> Points] /\ \A x \in Renderers : pc'[x] # "idle" => actual'[x] > 0
    BY <1>3, <1>4 DEF TypeOk, Points
  <2>3. observed' \subseteq 1 .. MaxGrowHint /\ observes' \in Nat
    BY <1>3, <1>4 DEF TypeOk
  <2> QED
    BY <1>3, <2>1, <2>2, <2>3 DEF TypeOk
<1>6. SwapsWiden'
  BY <1>3, <1>4 DEF TypeOk, SwapsWiden
<1>7. PastLoopsInside'
  BY <1>3, <1>4 DEF TypeOk, PastLoopsInside, Maximizing, InRange
<1>8. Covered'
  <2>1. pc'[r] \in Ranging /\ actual'[r] = hint
    BY <1>3, <1>4 DEF TypeOk, Ranging
  <2>2. ASSUME NEW x \in Renderers, pc[x] \in Ranging \cup Maximizing
        PROVE  x # r /\ pc'[x] = pc[x] /\ actual'[x] = actual[x]
    BY <1>3, <1>4, <2>2 DEF TypeOk, Ranging, Maximizing
  <2> QED
    BY <1>3, <1>4, <2>1, <2>2 DEF Covered
<1>9. Grounded'
  BY <1>3, <1>4 DEF TypeOk, Grounded
<1>10. PlansOrdered'
  BY <1>3, <1>4 DEF PlansOrdered
<1> QED
  BY <1>5, <1>6, <1>7, <1>8, <1>9, <1>10

\* The minimum is loaded: a swap follows only if it is zero or larger than the size.
LEMMA LoadMinimumPreserves ==
    ASSUME IInv, NEW r \in Renderers, LoadMinimum(r)
    PROVE  IInv'
<1> USE DEF IInv, LoadMinimum, Transition, Load, stats, plans, locals
<1>1. TypeOk'
  BY LimitsAssumption, SizesAssumption DEF TypeOk, Points, PastLoopsInside, Grounded, InRange
<1>2. SwapsWiden'
  BY DEF TypeOk, SwapsWiden, PastLoopsInside
<1>3. PastLoopsInside'
  BY DEF TypeOk, SwapsWiden, PastLoopsInside, Maximizing, InRange
<1>4. Covered'
  BY DEF TypeOk, SwapsWiden, PastLoopsInside, Covered, Ranging, Maximizing, InRange
<1>5. Grounded'
  BY DEF TypeOk, SwapsWiden, PastLoopsInside, Grounded, Ranging, Maximizing, InRange
<1>6. PlansOrdered'
  BY DEF TypeOk, PlansOrdered, Grounded, SwapsWiden
<1> QED
  BY <1>1, <1>2, <1>3, <1>4, <1>5, <1>6

\* SwapMinimum preserves the invariant.
LEMMA SwapMinimumPreserves ==
    ASSUME IInv, NEW r \in Renderers, SwapMinimum(r)
    PROVE  IInv'
<1> USE DEF IInv, SwapMinimum, Transition, Load, stats, plans, locals
<1>1. TypeOk'
  BY LimitsAssumption, SizesAssumption DEF TypeOk, Points, PastLoopsInside, Grounded, InRange
<1>2. SwapsWiden'
  BY DEF TypeOk, SwapsWiden, PastLoopsInside
<1>3. PastLoopsInside'
  BY DEF TypeOk, SwapsWiden, PastLoopsInside, Maximizing, InRange
<1>4. Covered'
  BY DEF TypeOk, SwapsWiden, PastLoopsInside, Covered, Ranging, Maximizing, InRange
<1>5. Grounded'
  BY DEF TypeOk, SwapsWiden, PastLoopsInside, Grounded, Ranging, Maximizing, InRange
<1>6. PlansOrdered'
  BY DEF TypeOk, PlansOrdered, Grounded, SwapsWiden
<1> QED
  BY <1>1, <1>2, <1>3, <1>4, <1>5, <1>6

\* RetryMinimum preserves the invariant.
LEMMA RetryMinimumPreserves ==
    ASSUME IInv, NEW r \in Renderers, RetryMinimum(r)
    PROVE  IInv'
<1> USE DEF IInv, RetryMinimum, Transition, Load, stats, plans, locals
<1>1. TypeOk'
  BY LimitsAssumption, SizesAssumption DEF TypeOk, Points, PastLoopsInside, Grounded, InRange
<1>2. SwapsWiden'
  BY DEF TypeOk, SwapsWiden, PastLoopsInside
<1>3. PastLoopsInside'
  BY DEF TypeOk, SwapsWiden, PastLoopsInside, Maximizing, InRange
<1>4. Covered'
  BY DEF TypeOk, SwapsWiden, PastLoopsInside, Covered, Ranging, Maximizing, InRange
<1>5. Grounded'
  BY DEF TypeOk, SwapsWiden, PastLoopsInside, Grounded, Ranging, Maximizing, InRange
<1>6. PlansOrdered'
  BY DEF TypeOk, PlansOrdered, Grounded, SwapsWiden
<1> QED
  BY <1>1, <1>2, <1>3, <1>4, <1>5, <1>6

\* LoadMaximum preserves the invariant.
LEMMA LoadMaximumPreserves ==
    ASSUME IInv, NEW r \in Renderers, LoadMaximum(r)
    PROVE  IInv'
<1> USE DEF IInv, LoadMaximum, Transition, Load, stats, plans, locals
<1>1. TypeOk'
  BY LimitsAssumption, SizesAssumption DEF TypeOk, Points, PastLoopsInside, Grounded, InRange
<1>2. SwapsWiden'
  BY DEF TypeOk, SwapsWiden, PastLoopsInside
<1>3. PastLoopsInside'
  BY DEF TypeOk, SwapsWiden, PastLoopsInside, Maximizing, InRange
<1>4. Covered'
  BY DEF TypeOk, SwapsWiden, PastLoopsInside, Covered, Ranging, Maximizing, InRange
<1>5. Grounded'
  BY DEF TypeOk, SwapsWiden, PastLoopsInside, Grounded, Ranging, Maximizing, InRange
<1>6. PlansOrdered'
  BY DEF TypeOk, PlansOrdered, Grounded, SwapsWiden
<1> QED
  BY <1>1, <1>2, <1>3, <1>4, <1>5, <1>6

\* SwapMaximum preserves the invariant.
LEMMA SwapMaximumPreserves ==
    ASSUME IInv, NEW r \in Renderers, SwapMaximum(r)
    PROVE  IInv'
<1> USE DEF IInv, SwapMaximum, Transition, Load, stats, plans, locals
<1>1. TypeOk'
  BY LimitsAssumption, SizesAssumption DEF TypeOk, Points, PastLoopsInside, Grounded, InRange
<1>2. SwapsWiden'
  BY DEF TypeOk, SwapsWiden, PastLoopsInside
<1>3. PastLoopsInside'
  BY DEF TypeOk, SwapsWiden, PastLoopsInside, Maximizing, InRange
<1>4. Covered'
  BY DEF TypeOk, SwapsWiden, PastLoopsInside, Covered, Ranging, Maximizing, InRange
<1>5. Grounded'
  BY DEF TypeOk, SwapsWiden, PastLoopsInside, Grounded, Ranging, Maximizing, InRange
<1>6. PlansOrdered'
  BY DEF TypeOk, PlansOrdered, Grounded, SwapsWiden
<1> QED
  BY <1>1, <1>2, <1>3, <1>4, <1>5, <1>6

\* RetryMaximum preserves the invariant.
LEMMA RetryMaximumPreserves ==
    ASSUME IInv, NEW r \in Renderers, RetryMaximum(r)
    PROVE  IInv'
<1> USE DEF IInv, RetryMaximum, Transition, Load, stats, plans, locals
<1>1. TypeOk'
  BY LimitsAssumption, SizesAssumption DEF TypeOk, Points, PastLoopsInside, Grounded, InRange
<1>2. SwapsWiden'
  BY DEF TypeOk, SwapsWiden, PastLoopsInside
<1>3. PastLoopsInside'
  BY DEF TypeOk, SwapsWiden, PastLoopsInside, Maximizing, InRange
<1>4. Covered'
  BY DEF TypeOk, SwapsWiden, PastLoopsInside, Covered, Ranging, Maximizing, InRange
<1>5. Grounded'
  BY DEF TypeOk, SwapsWiden, PastLoopsInside, Grounded, Ranging, Maximizing, InRange
<1>6. PlansOrdered'
  BY DEF TypeOk, PlansOrdered, Grounded, SwapsWiden
<1> QED
  BY <1>1, <1>2, <1>3, <1>4, <1>5, <1>6

\* LoadEstimate preserves the invariant.
LEMMA LoadEstimatePreserves ==
    ASSUME IInv, NEW r \in Renderers, LoadEstimate(r)
    PROVE  IInv'
<1> USE DEF IInv, LoadEstimate, Transition, Load, stats, plans, locals
<1>1. TypeOk'
  BY LimitsAssumption, SizesAssumption DEF TypeOk, Points, PastLoopsInside, Grounded, InRange
<1>2. SwapsWiden'
  BY DEF TypeOk, SwapsWiden, PastLoopsInside
<1>3. PastLoopsInside'
  BY DEF TypeOk, SwapsWiden, PastLoopsInside, Maximizing, InRange
<1>4. Covered'
  BY DEF TypeOk, SwapsWiden, PastLoopsInside, Covered, Ranging, Maximizing, InRange
<1>5. Grounded'
  BY DEF TypeOk, SwapsWiden, PastLoopsInside, Grounded, Ranging, Maximizing, InRange
<1>6. PlansOrdered'
  BY DEF TypeOk, PlansOrdered, Grounded, SwapsWiden
<1> QED
  BY <1>1, <1>2, <1>3, <1>4, <1>5, <1>6

\* LoadSamples preserves the invariant.
LEMMA LoadSamplesPreserves ==
    ASSUME IInv, NEW r \in Renderers, LoadSamples(r)
    PROVE  IInv'
<1> USE DEF IInv, LoadSamples, Transition, Load, stats, plans, locals
<1>1. TypeOk'
  BY LimitsAssumption, SizesAssumption DEF TypeOk, Points, PastLoopsInside, Grounded, InRange
<1>2. SwapsWiden'
  BY DEF TypeOk, SwapsWiden, PastLoopsInside
<1>3. PastLoopsInside'
  BY DEF TypeOk, SwapsWiden, PastLoopsInside, Maximizing, InRange
<1>4. Covered'
  BY DEF TypeOk, SwapsWiden, PastLoopsInside, Covered, Ranging, Maximizing, InRange
<1>5. Grounded'
  BY DEF TypeOk, SwapsWiden, PastLoopsInside, Grounded, Ranging, Maximizing, InRange
<1>6. PlansOrdered'
  BY DEF TypeOk, PlansOrdered, Grounded, SwapsWiden
<1> QED
  BY <1>1, <1>2, <1>3, <1>4, <1>5, <1>6

\* The new estimate is in the range, for the size that is observed is.
LEMMA SwapEstimatePreserves ==
    ASSUME IInv, NEW r \in Renderers, SwapEstimate(r)
    PROVE  IInv'
<1> USE DEF IInv, SwapEstimate, Transition, plans
<1>1. /\ loaded[r] = estimate /\ estimate \in Nat /\ sawSamples[r] \in Nat
      /\ minimum \in Nat /\ maximum \in Nat /\ actual[r] \in Nat /\ maximum <= MaxGrowHint
  BY LimitsAssumption DEF TypeOk
<1>2. /\ 0 < minimum /\ minimum <= actual[r] /\ actual[r] <= maximum
      /\ estimate # 0 => minimum <= estimate /\ estimate <= maximum
  BY DEF PastLoopsInside, InRange, Grounded
<1>3. /\ estimate' \in Nat /\ minimum <= estimate' /\ estimate' <= maximum
  BY <1>1, <1>2, NextEstimateInside
<1> HIDE DEF SwapEstimate
<1>4. /\ pc[r] = "casEstimate"
      /\ pc' = [pc EXCEPT ![r] = IF base[r] > 0 THEN "headroom" ELSE "count"]
      /\ UNCHANGED <<headroom, samples, minimum, maximum, actual, base, loaded,
                     sawSamples, observed, observes, asking, low, high, unstable>>
  BY DEF SwapEstimate
<1>5. TypeOk'
  BY <1>1, <1>3, <1>4, LimitsAssumption DEF TypeOk, Points
<1>6. SwapsWiden'
  BY <1>4 DEF TypeOk, SwapsWiden
<1>7. PastLoopsInside'
  BY <1>4 DEF TypeOk, PastLoopsInside, Maximizing, InRange
<1>8. Covered'
  BY <1>4 DEF TypeOk, Covered, Ranging, Maximizing
<1>9. Grounded'
  BY <1>2, <1>3, <1>4 DEF TypeOk, Grounded
<1>10. PlansOrdered'
  BY <1>4 DEF PlansOrdered
<1> QED
  BY <1>5, <1>6, <1>7, <1>8, <1>9, <1>10

\* RetryEstimate preserves the invariant.
LEMMA RetryEstimatePreserves ==
    ASSUME IInv, NEW r \in Renderers, RetryEstimate(r)
    PROVE  IInv'
<1> USE DEF IInv, RetryEstimate, Transition, Load, stats, plans, locals
<1>1. TypeOk'
  BY LimitsAssumption, SizesAssumption DEF TypeOk, Points, PastLoopsInside, Grounded, InRange
<1>2. SwapsWiden'
  BY DEF TypeOk, SwapsWiden, PastLoopsInside
<1>3. PastLoopsInside'
  BY DEF TypeOk, SwapsWiden, PastLoopsInside, Maximizing, InRange
<1>4. Covered'
  BY DEF TypeOk, SwapsWiden, PastLoopsInside, Covered, Ranging, Maximizing, InRange
<1>5. Grounded'
  BY DEF TypeOk, SwapsWiden, PastLoopsInside, Grounded, Ranging, Maximizing, InRange
<1>6. PlansOrdered'
  BY DEF TypeOk, PlansOrdered, Grounded, SwapsWiden
<1> QED
  BY <1>1, <1>2, <1>3, <1>4, <1>5, <1>6

\* LoadHeadroom preserves the invariant.
LEMMA LoadHeadroomPreserves ==
    ASSUME IInv, NEW r \in Renderers, LoadHeadroom(r)
    PROVE  IInv'
<1> USE DEF IInv, LoadHeadroom, Transition, Load, stats, plans, locals
<1>1. TypeOk'
  BY LimitsAssumption, SizesAssumption DEF TypeOk, Points, PastLoopsInside, Grounded, InRange
<1>2. SwapsWiden'
  BY DEF TypeOk, SwapsWiden, PastLoopsInside
<1>3. PastLoopsInside'
  BY DEF TypeOk, SwapsWiden, PastLoopsInside, Maximizing, InRange
<1>4. Covered'
  BY DEF TypeOk, SwapsWiden, PastLoopsInside, Covered, Ranging, Maximizing, InRange
<1>5. Grounded'
  BY DEF TypeOk, SwapsWiden, PastLoopsInside, Grounded, Ranging, Maximizing, InRange
<1>6. PlansOrdered'
  BY DEF TypeOk, PlansOrdered, Grounded, SwapsWiden
<1> QED
  BY <1>1, <1>2, <1>3, <1>4, <1>5, <1>6

\* The new headroom is within its limit, and nothing else changes.
LEMMA SwapHeadroomPreserves ==
    ASSUME IInv, NEW r \in Renderers, SwapHeadroom(r)
    PROVE  IInv'
<1> USE DEF IInv
<1>1. headroom' \in 0 .. MaxHeadroom
  <2>1. /\ loaded[r] = headroom /\ headroom \in 0 .. MaxHeadroom
        /\ base[r] \in Nat /\ actual[r] \in Nat
    BY LimitsAssumption DEF TypeOk, SwapHeadroom
  <2> QED
    BY <2>1, NextHeadroomBounded DEF SwapHeadroom
<1>2. /\ pc[r] = "casHeadroom" /\ pc' = [pc EXCEPT ![r] = "count"]
      /\ UNCHANGED <<estimate, samples, minimum, maximum, actual, base, loaded,
                     sawSamples, observed, observes, asking, low, high, unstable>>
  BY DEF SwapHeadroom, Transition, plans
<1>3. TypeOk'
  BY <1>1, <1>2, LimitsAssumption DEF TypeOk, Points
<1>4. SwapsWiden'
  BY <1>2 DEF TypeOk, SwapsWiden
<1>5. PastLoopsInside'
  BY <1>2 DEF TypeOk, PastLoopsInside, Maximizing, InRange
<1>6. Covered'
  BY <1>2 DEF TypeOk, Covered, Ranging, Maximizing
<1>7. Grounded'
  BY <1>2 DEF TypeOk, Grounded
<1>8. PlansOrdered'
  BY <1>2 DEF PlansOrdered
<1> QED
  BY <1>3, <1>4, <1>5, <1>6, <1>7, <1>8

\* RetryHeadroom preserves the invariant.
LEMMA RetryHeadroomPreserves ==
    ASSUME IInv, NEW r \in Renderers, RetryHeadroom(r)
    PROVE  IInv'
<1> USE DEF IInv, RetryHeadroom, Transition, Load, stats, plans, locals
<1>1. TypeOk'
  BY LimitsAssumption, SizesAssumption DEF TypeOk, Points, PastLoopsInside, Grounded, InRange
<1>2. SwapsWiden'
  BY DEF TypeOk, SwapsWiden, PastLoopsInside
<1>3. PastLoopsInside'
  BY DEF TypeOk, SwapsWiden, PastLoopsInside, Maximizing, InRange
<1>4. Covered'
  BY DEF TypeOk, SwapsWiden, PastLoopsInside, Covered, Ranging, Maximizing, InRange
<1>5. Grounded'
  BY DEF TypeOk, SwapsWiden, PastLoopsInside, Grounded, Ranging, Maximizing, InRange
<1>6. PlansOrdered'
  BY DEF TypeOk, PlansOrdered, Grounded, SwapsWiden
<1> QED
  BY <1>1, <1>2, <1>3, <1>4, <1>5, <1>6

\* Count preserves the invariant.
LEMMA CountPreserves ==
    ASSUME IInv, NEW r \in Renderers, Count(r)
    PROVE  IInv'
<1> USE DEF IInv, Count, Transition, Load, stats, plans, locals
<1>1. TypeOk'
  BY LimitsAssumption, SizesAssumption DEF TypeOk, Points, PastLoopsInside, Grounded, InRange
<1>2. SwapsWiden'
  BY DEF TypeOk, SwapsWiden, PastLoopsInside
<1>3. PastLoopsInside'
  BY DEF TypeOk, SwapsWiden, PastLoopsInside, Maximizing, InRange
<1>4. Covered'
  BY DEF TypeOk, SwapsWiden, PastLoopsInside, Covered, Ranging, Maximizing, InRange
<1>5. Grounded'
  BY DEF TypeOk, SwapsWiden, PastLoopsInside, Grounded, Ranging, Maximizing, InRange
<1>6. PlansOrdered'
  BY DEF TypeOk, PlansOrdered, Grounded, SwapsWiden
<1> QED
  BY <1>1, <1>2, <1>3, <1>4, <1>5, <1>6

\* Ask preserves the invariant.
LEMMA AskPreserves ==
    ASSUME IInv, NEW q \in Planners, Ask(q)
    PROVE  IInv'
<1> USE DEF IInv, Ask, Transition, Load, stats, plans, locals
<1>1. TypeOk'
  BY LimitsAssumption, SizesAssumption DEF TypeOk, Points, PastLoopsInside, Grounded, InRange
<1>2. SwapsWiden'
  BY DEF TypeOk, SwapsWiden, PastLoopsInside
<1>3. PastLoopsInside'
  BY DEF TypeOk, SwapsWiden, PastLoopsInside, Maximizing, InRange
<1>4. Covered'
  BY DEF TypeOk, SwapsWiden, PastLoopsInside, Covered, Ranging, Maximizing, InRange
<1>5. Grounded'
  BY DEF TypeOk, SwapsWiden, PastLoopsInside, Grounded, Ranging, Maximizing, InRange
<1>6. PlansOrdered'
  BY DEF TypeOk, PlansOrdered, Grounded, SwapsWiden
<1> QED
  BY <1>1, <1>2, <1>3, <1>4, <1>5, <1>6

\* AskMinimum preserves the invariant.
LEMMA AskMinimumPreserves ==
    ASSUME IInv, NEW q \in Planners, AskMinimum(q)
    PROVE  IInv'
<1> USE DEF IInv, AskMinimum, Transition, Load, stats, plans, locals
<1>1. TypeOk'
  BY LimitsAssumption, SizesAssumption DEF TypeOk, Points, PastLoopsInside, Grounded, InRange
<1>2. SwapsWiden'
  BY DEF TypeOk, SwapsWiden, PastLoopsInside
<1>3. PastLoopsInside'
  BY DEF TypeOk, SwapsWiden, PastLoopsInside, Maximizing, InRange
<1>4. Covered'
  BY DEF TypeOk, SwapsWiden, PastLoopsInside, Covered, Ranging, Maximizing, InRange
<1>5. Grounded'
  BY DEF TypeOk, SwapsWiden, PastLoopsInside, Grounded, Ranging, Maximizing, InRange
<1>6. PlansOrdered'
  BY DEF TypeOk, PlansOrdered, Grounded, SwapsWiden
<1> QED
  BY <1>1, <1>2, <1>3, <1>4, <1>5, <1>6

\* AskMaximum preserves the invariant.
LEMMA AskMaximumPreserves ==
    ASSUME IInv, NEW q \in Planners, AskMaximum(q)
    PROVE  IInv'
<1> USE DEF IInv, AskMaximum, Transition, Load, stats, plans, locals
<1>1. TypeOk'
  BY LimitsAssumption, SizesAssumption DEF TypeOk, Points, PastLoopsInside, Grounded, InRange
<1>2. SwapsWiden'
  BY DEF TypeOk, SwapsWiden, PastLoopsInside
<1>3. PastLoopsInside'
  BY DEF TypeOk, SwapsWiden, PastLoopsInside, Maximizing, InRange
<1>4. Covered'
  BY DEF TypeOk, SwapsWiden, PastLoopsInside, Covered, Ranging, Maximizing, InRange
<1>5. Grounded'
  BY DEF TypeOk, SwapsWiden, PastLoopsInside, Grounded, Ranging, Maximizing, InRange
<1>6. PlansOrdered'
  BY DEF TypeOk, PlansOrdered, Grounded, SwapsWiden
<1> QED
  BY <1>1, <1>2, <1>3, <1>4, <1>5, <1>6

\* Forget preserves the invariant.
LEMMA ForgetPreserves ==
    ASSUME IInv, NEW q \in Planners, Forget(q)
    PROVE  IInv'
<1> USE DEF IInv, Forget, Transition, Load, stats, plans, locals
<1>1. TypeOk'
  BY LimitsAssumption, SizesAssumption DEF TypeOk, Points, PastLoopsInside, Grounded, InRange
<1>2. SwapsWiden'
  BY DEF TypeOk, SwapsWiden, PastLoopsInside
<1>3. PastLoopsInside'
  BY DEF TypeOk, SwapsWiden, PastLoopsInside, Maximizing, InRange
<1>4. Covered'
  BY DEF TypeOk, SwapsWiden, PastLoopsInside, Covered, Ranging, Maximizing, InRange
<1>5. Grounded'
  BY DEF TypeOk, SwapsWiden, PastLoopsInside, Grounded, Ranging, Maximizing, InRange
<1>6. PlansOrdered'
  BY DEF TypeOk, PlansOrdered, Grounded, SwapsWiden
<1> QED
  BY <1>1, <1>2, <1>3, <1>4, <1>5, <1>6

-----------------------------------------------------------------------------
\* Every step preserves the invariant.
LEMMA NextIInv == IInv /\ [Next]_vars => IInv'
<1> SUFFICES ASSUME IInv, [Next]_vars PROVE IInv'
  OBVIOUS
<1>1. ASSUME NEW r \in Renderers, Observe(r) \/ ObserveStep(r) PROVE IInv'
  BY <1>1, ObservePreserves, LoadMinimumPreserves, SwapMinimumPreserves,
    RetryMinimumPreserves, LoadMaximumPreserves, SwapMaximumPreserves,
    RetryMaximumPreserves, LoadEstimatePreserves, LoadSamplesPreserves,
    SwapEstimatePreserves, RetryEstimatePreserves, LoadHeadroomPreserves,
    SwapHeadroomPreserves, RetryHeadroomPreserves, CountPreserves
  DEF ObserveStep, Range, Estimate, Headroom
<1>2. ASSUME NEW q \in Planners, Unstable(q) \/ Forget(q) PROVE IInv'
  BY <1>2, AskPreserves, AskMinimumPreserves, AskMaximumPreserves, ForgetPreserves DEF Unstable
<1>3. CASE UNCHANGED vars
  <2> USE <1>3 DEF IInv, vars, stats, locals, plans
  <2>1. TypeOk'
    BY DEF TypeOk
  <2>2. SwapsWiden' /\ PastLoopsInside' /\ Covered' /\ Grounded' /\ PlansOrdered'
    BY DEF SwapsWiden, PastLoopsInside, Covered, Grounded, PlansOrdered
  <2> QED
    BY <2>1, <2>2
<1> QED
  BY <1>1, <1>2, <1>3 DEF Next

\* The inductive invariant of OutputSizeStats.
THEOREM Invariance == Spec => []IInv
<1>1. IInv /\ [Next]_vars => IInv'
  BY NextIInv
<1> QED
  BY <1>1, InitIInv, PTL DEF Spec

\* Every reachable state is type correct: in particular the words of
\* OutputSizeStats never exceed their limits.
THEOREM TypeCorrect == Spec => []TypeOk
<1>1. IInv => TypeOk
  BY DEF IInv
<1> QED
  BY <1>1, Invariance, PTL

\* The estimate that nextOutputSizeEstimate learns stays between the smallest
\* and the largest output seen.
THEOREM EstimateInRange == Spec => []EstimateWithinRange
<1>1. IInv => EstimateWithinRange
  BY DEF IInv, Grounded, EstimateWithinRange
<1> QED
  BY <1>1, Invariance, PTL

\* observeRange loses no size, however many renders race for the swaps.
THEOREM NoSizeLost == Spec => []RangeIsExact
<1>1. IInv => RangeIsExact
  <2> SUFFICES ASSUME IInv, observed # {}, \A r \in Renderers : pc[r] = "idle"
               PROVE  /\ minimum \in observed /\ maximum \in observed
                      /\ \A size \in observed : minimum <= size /\ size <= maximum
    BY DEF RangeIsExact
  <2>1. \A size \in observed : 0 < minimum /\ minimum <= size /\ size <= maximum
    BY DEF IInv, Covered, Ranging, Maximizing
  <2>2. minimum # 0 /\ maximum # 0
    <3>1. PICK size \in observed : TRUE
      OBVIOUS
    <3>2. size \in Nat /\ size > 0 /\ maximum \in Nat /\ minimum \in Nat
      BY LimitsAssumption DEF IInv, TypeOk
    <3> QED
      BY <2>1, <3>2
  <2> QED
    BY <2>1, <2>2 DEF IInv, Grounded
<1> QED
  BY <1>1, Invariance, PTL

\* Unstable never says yes of a template whose outputs have been alike.
THEOREM UnstableIsJustified == Spec => []UnstableHasWitnesses
<1>1. IInv => UnstableHasWitnesses
  <2> SUFFICES ASSUME IInv, NEW q \in Planners, unstable[q]
               PROVE  \E small, large \in observed : large >= 4 * small
    BY DEF UnstableHasWitnesses
  <2>1. /\ low[q] > 0 /\ high[q] >= 4 * low[q]
        /\ low[q] \in observed \cup {0} /\ high[q] \in observed \cup {0}
        /\ low[q] \in Nat /\ high[q] \in Nat
    BY LimitsAssumption DEF IInv, TypeOk, PlansOrdered
  <2>2. low[q] \in observed /\ high[q] \in observed
    BY <2>1
  <2> QED
    BY <2>1, <2>2
<1> QED
  BY <1>1, Invariance, PTL

\* A planner never sees an empty or an inverted range.
THEOREM PlannedRangeOrdered == Spec => []PlannedRangeIsOrdered
<1>1. IInv => PlannedRangeIsOrdered
  BY DEF IInv, PlansOrdered, PlannedRangeIsOrdered
<1> QED
  BY <1>1, Invariance, PTL

\* What a step may do to the range and to the samples: the range widens, and the
\* samples grow.
LEMMA WordsWiden ==
    ASSUME IInv, [Next]_vars
    PROVE  /\ minimum # 0 => minimum' # 0 /\ minimum' <= minimum
           /\ maximum' >= maximum
           /\ samples' >= samples
<1> USE DEF IInv
<1> DEFINE Widens == /\ minimum # 0 => minimum' # 0 /\ minimum' <= minimum
                     /\ maximum' >= maximum
                     /\ samples' >= samples
<1>1. ASSUME NEW r \in Renderers, SwapMinimum(r) PROVE Widens
  BY <1>1 DEF SwapMinimum, Transition, TypeOk, SwapsWiden
<1>2. ASSUME NEW r \in Renderers, SwapMaximum(r) PROVE Widens
  BY <1>2 DEF SwapMaximum, Transition, TypeOk, SwapsWiden
<1>3. CASE minimum' = minimum /\ maximum' = maximum /\ samples' \in {samples, samples + 1}
  BY <1>3 DEF TypeOk
<1>4. ASSUME NEW r \in Renderers, Observe(r) \/ ObserveStep(r)
      PROVE  \/ SwapMinimum(r) \/ SwapMaximum(r)
             \/ minimum' = minimum /\ maximum' = maximum /\ samples' \in {samples, samples + 1}
  BY <1>4 DEF ObserveStep, Range, Estimate, Headroom, stats, Observe, LoadMinimum,
    RetryMinimum, LoadMaximum, RetryMaximum, LoadEstimate, LoadSamples, SwapEstimate,
    RetryEstimate, LoadHeadroom, SwapHeadroom, RetryHeadroom, Count
<1>5. ASSUME NEW q \in Planners, Unstable(q) \/ Forget(q) PROVE Widens
  BY <1>3, <1>5 DEF Unstable, Ask, AskMinimum, AskMaximum, Forget, stats
<1>6. CASE UNCHANGED vars
  BY <1>3, <1>6 DEF vars, stats
<1>7. ASSUME NEW r \in Renderers, Observe(r) \/ ObserveStep(r) PROVE Widens
  BY <1>1, <1>2, <1>3, <1>4, <1>7
<1> QED
  BY <1>5, <1>6, <1>7 DEF Next

\* The compare-and-swap loops move the bounds outwards only.
THEOREM RangeWidens == Spec => RangeOnlyWidens
<1> DEFINE Widens == /\ minimum # 0 => minimum' # 0 /\ minimum' <= minimum
                     /\ maximum' >= maximum
<1>1. IInv /\ [Next]_vars => [Widens]_vars
  BY WordsWiden
<1>2. Spec => [][Widens]_vars
  BY <1>1, Invariance, PTL DEF Spec
<1> QED
  BY <1>2 DEF RangeOnlyWidens

-----------------------------------------------------------------------------
(***************************************************************************)
(* The refinement of AtomicSizeStats.  A loop takes effect with the swap   *)
(* that succeeds, or with a load that shows that there is nothing to do; a *)
(* yes to a planner with the load of the maximum, for which the minimum it *)
(* loaded before has to have stayed an upper bound of the minimum.         *)
(***************************************************************************)

\* A planner that goes on to load the bounds has seen two samples, and the
\* minimum it has loaded has only become smaller since.
PlansCurrent ==
    \A q \in Planners :
        /\ asking[q] \in {"min", "max"} => samples >= 2
        /\ asking[q] = "max" => 0 < minimum /\ minimum <= low[q]

\* How a step may move a planner on.
LEMMA PlannerMoves ==
    ASSUME IInv, [Next]_vars, NEW q \in Planners
    PROVE  \/ asking'[q] = asking[q] /\ low'[q] = low[q]
           \/ asking'[q] \in {"idle", "answered"}
           \/ asking'[q] = "min" /\ samples >= 2 /\ samples' = samples
           \/ asking[q] = "min" /\ asking'[q] = "max" /\ low'[q] = minimum /\ UNCHANGED stats
<1> DEFINE Moves == \/ asking'[q] = asking[q] /\ low'[q] = low[q]
                    \/ asking'[q] \in {"idle", "answered"}
                    \/ asking'[q] = "min" /\ samples >= 2 /\ samples' = samples
                    \/ /\ asking[q] = "min" /\ asking'[q] = "max" /\ low'[q] = minimum
                       /\ UNCHANGED stats
<1>1. ASSUME NEW r \in Renderers, Observe(r) \/ ObserveStep(r) PROVE UNCHANGED plans
  BY <1>1 DEF ObserveStep, Range, Estimate, Headroom, Observe, LoadMinimum,
    SwapMinimum, RetryMinimum, LoadMaximum, SwapMaximum, RetryMaximum, LoadEstimate,
    LoadSamples, SwapEstimate, RetryEstimate, LoadHeadroom, SwapHeadroom, RetryHeadroom, Count
<1>2. ASSUME NEW p \in Planners, Ask(p) PROVE Moves
  BY <1>2 DEF Ask, stats, IInv, TypeOk
<1>3. ASSUME NEW p \in Planners, AskMinimum(p) PROVE Moves
  BY <1>3 DEF AskMinimum, IInv, TypeOk
<1>4. ASSUME NEW p \in Planners, AskMaximum(p) PROVE Moves
  BY <1>4 DEF AskMaximum, IInv, TypeOk
<1>5. ASSUME NEW p \in Planners, Forget(p) PROVE Moves
  BY <1>5 DEF Forget, IInv, TypeOk
<1>6. CASE UNCHANGED plans
  BY <1>6 DEF plans
<1>7. ASSUME NEW r \in Renderers, Observe(r) \/ ObserveStep(r) PROVE Moves
  BY <1>1, <1>6, <1>7
<1>8. ASSUME NEW p \in Planners, Unstable(p) \/ Forget(p) PROVE Moves
  BY <1>2, <1>3, <1>4, <1>5, <1>8 DEF Unstable
<1>9. CASE UNCHANGED vars
  BY <1>6, <1>9 DEF vars
<1> QED
  BY <1>7, <1>8, <1>9 DEF Next

LEMMA NextPlansCurrent == IInv /\ PlansCurrent /\ [Next]_vars => PlansCurrent'
<1> SUFFICES ASSUME IInv, PlansCurrent, [Next]_vars, NEW q \in Planners
             PROVE  /\ asking'[q] \in {"min", "max"} => samples' >= 2
                    /\ asking'[q] = "max" => 0 < minimum' /\ minimum' <= low'[q]
  BY DEF PlansCurrent
<1>1. /\ samples \in Nat /\ minimum \in Nat /\ low[q] \in Nat
      /\ asking[q] \in {"idle", "min", "max", "answered"}
  BY LimitsAssumption DEF IInv, TypeOk
<1>2. /\ samples' \in Nat /\ minimum' \in Nat /\ low'[q] \in Nat
  BY NextIInv, LimitsAssumption DEF IInv, TypeOk
<1>3. CASE asking'[q] = asking[q] /\ low'[q] = low[q]
  BY <1>1, <1>2, <1>3, WordsWiden DEF PlansCurrent
<1>4. CASE asking[q] = "min" /\ asking'[q] = "max" /\ low'[q] = minimum /\ UNCHANGED stats
  BY <1>1, <1>2, <1>4 DEF PlansCurrent, stats, IInv, Grounded
<1> QED
  BY <1>2, <1>3, <1>4, PlannerMoves

\* A planner that goes on sees the range of now, or of a little earlier.
THEOREM PlansStayCurrent == Spec => []PlansCurrent
<1>1. Init => PlansCurrent
  BY DEF Init, PlansCurrent
<1>2. IInv /\ PlansCurrent /\ [Next]_vars => PlansCurrent'
  BY NextPlansCurrent
<1> QED
  BY <1>1, <1>2, Invariance, PTL DEF Spec

-----------------------------------------------------------------------------
\* nextOutputSizeEstimate moves by one at least, not past the size, and to four
\* times the estimate at most.
LEMMA NextEstimateTowards ==
    ASSUME NEW current \in 1 .. MaxGrowHint, NEW n \in 1 .. MaxGrowHint,
           NEW seen \in Nat \ {0}
    PROVE  NextEstimate(current, n, seen) \in Atomic!Towards(current, n)
<1> USE LimitsAssumption
<1>1. CASE n = current
  BY <1>1 DEF NextEstimate, Atomic!Towards
<1>2. CASE n > current
  <2> DEFINE reach == Smaller(n, 4 * current)
             step  == Larger(1, (reach - current) \div 2)
  <2>1. reach \in Nat /\ current < reach /\ reach <= n /\ reach <= 4 * current
    BY <1>2 DEF Smaller
  <2>2. step \in Nat /\ step >= 1 /\ current + step <= reach
    BY <2>1 DEF Larger
  <2>3. NextEstimate(current, n, seen) = SizeHint(current + step)
    BY <1>2 DEF NextEstimate
  <2> HIDE DEF reach, step
  <2>4. SizeHint(current + step) = current + step
    BY <2>1, <2>2 DEF SizeHint, Smaller
  <2>5. /\ current + step \in 1 .. MaxGrowHint /\ current < current + step
        /\ current + step <= n /\ current + step <= 4 * current
    BY <2>1, <2>2
  <2> QED
    BY <2>3, <2>4, <2>5 DEF Atomic!Towards
<1>3. CASE n < current
  <2> DEFINE step == Larger(1, (current - n) \div 8)
  <2>1. step \in Nat /\ step >= 1 /\ step <= current - n
    BY <1>3 DEF Larger
  <2>2. NextEstimate(current, n, seen) = SizeHint(current - step)
    BY <1>3 DEF NextEstimate
  <2> HIDE DEF step
  <2>3. SizeHint(current - step) = current - step
    BY <1>3, <2>1 DEF SizeHint, Smaller
  <2>4. current - step \in 1 .. MaxGrowHint /\ n <= current - step /\ current - step < current
    BY <1>3, <2>1
  <2> QED
    BY <2>2, <2>3, <2>4 DEF Atomic!Towards
<1> QED
  BY <1>1, <1>2, <1>3

\* nextOutputSizeHeadroom remembers what was missing, within the limit, and
\* forgets something else, unless it has nothing left to forget.
LEMMA NextHeadroomTracks ==
    ASSUME NEW current \in 0 .. MaxHeadroom, NEW estimated \in Nat, NEW n \in Nat,
           NEW next, next = NextHeadroom(current, estimated, n)
    PROVE  IF n > estimated
           THEN /\ next >= current
                /\ next > current => next <= n - estimated
                /\ next >= n - estimated \/ next = MaxHeadroom
           ELSE next < current \/ next = 0
<1> USE LimitsAssumption
<1>1. CASE n > estimated
  BY <1>1 DEF NextHeadroom, Larger, Smaller
<1>2. CASE ~(n > estimated)
  BY <1>2 DEF NextHeadroom, Larger
<1> QED
  BY <1>1, <1>2

\* A quotient of four or more says that one is four times the other.
LEMMA FourTimes ==
    ASSUME NEW a \in Nat, NEW b \in Nat \ {0}
    PROVE  a \div b >= 4 <=> a >= 4 * b
<1>1. a = b * (a \div b) + (a % b) /\ a \div b \in Nat /\ a % b \in 0 .. (b - 1)
  OBVIOUS
<1> QED
  BY <1>1

-----------------------------------------------------------------------------
\* Where a renderer goes on to, in the abstract specification.
LEMMA StageMoves ==
    ASSUME TypeOk, NEW r \in Renderers, NEW to, pc' = [pc EXCEPT ![r] = to]
    PROVE  /\ Stage[r] = StageAt(pc[r])
           /\ Stage' = [Stage EXCEPT ![r] = StageAt(to)]
           /\ StageAt(to) = StageAt(pc[r]) => Stage' = Stage
BY DEF TypeOk, Stage

LEMMA LookedMoves ==
    ASSUME TypeOk, NEW r \in Renderers, NEW seen, sawSamples' = [sawSamples EXCEPT ![r] = seen]
    PROVE  Looked' = [Looked EXCEPT ![r] = seen # 0]
BY DEF TypeOk, Looked

LEMMA InitRefines == Init => Atomic!Init
<1> SUFFICES ASSUME Init PROVE Atomic!Init
  OBVIOUS
<1>1. Stage = [r \in Renderers |-> "none"]
  BY DEF Init, Stage, StageAt
<1>2. Looked = [r \in Renderers |-> FALSE]
  BY DEF Init, Looked
<1> QED
  BY <1>1, <1>2 DEF Init, Atomic!Init

\* An observation begins, with a capped size.
LEMMA ObserveRefines ==
    ASSUME IInv, NEW r \in Renderers, Observe(r) PROVE Atomic!Report(r)
<1>1. PICK n \in Sizes, estimated \in Estimates :
        /\ actual' = [actual EXCEPT ![r] = SizeHint(n)]
        /\ base' = [base EXCEPT ![r] = SizeHint(estimated)]
  BY DEF Observe
<1>2. SizeHint(n) \in 1 .. MaxGrowHint /\ SizeHint(estimated) \in 0 .. MaxGrowHint
  BY SizeHintBounds, SizesAssumption, LimitsAssumption
<1>3. /\ pc[r] = "idle" /\ pc' = [pc EXCEPT ![r] = "min"]
      /\ UNCHANGED <<minimum, maximum, estimate, headroom, samples, sawSamples, unstable>>
  BY DEF Observe, Transition, stats, plans
<1>4. Stage[r] = "none" /\ Stage' = [Stage EXCEPT ![r] = "minimum"]
  BY <1>3, StageMoves DEF IInv, StageAt
<1>5. Looked' = Looked
  BY <1>3 DEF Looked
<1> QED
  BY <1>1, <1>2, <1>3, <1>4, <1>5 DEF Atomic!Report, Atomic!Enter, Atomic!words

\* The minimum is small enough, or has been swapped.
LEMMA MinimumRefines ==
    ASSUME IInv, NEW r \in Renderers,
           SwapMinimum(r) \/ (LoadMinimum(r) /\ minimum # 0 /\ minimum <= actual[r])
    PROVE  Atomic!Lower(r)
<1>1. /\ pc[r] \in {"min", "casMin"} /\ pc' = [pc EXCEPT ![r] = "max"]
      /\ UNCHANGED <<maximum, estimate, headroom, samples, actual, base, sawSamples, unstable>>
  BY DEF SwapMinimum, LoadMinimum, Transition, stats, plans
<1>2. Stage[r] = "minimum" /\ Stage' = [Stage EXCEPT ![r] = "maximum"]
  BY <1>1, StageMoves DEF IInv, StageAt
<1>3. minimum' = IF minimum = 0 \/ actual[r] < minimum THEN actual[r] ELSE minimum
  <2>0. minimum \in Nat /\ actual[r] \in Nat
    BY LimitsAssumption DEF IInv, TypeOk
  <2>1. CASE SwapMinimum(r)
    <3>1. minimum = 0 \/ minimum > actual[r]
      BY <2>1 DEF SwapMinimum, Transition, IInv, SwapsWiden
    <3> QED
      BY <2>0, <2>1, <3>1 DEF SwapMinimum
  <2>2. CASE LoadMinimum(r) /\ minimum # 0 /\ minimum <= actual[r]
    BY <2>0, <2>2 DEF LoadMinimum, stats
  <2> QED
    BY <2>1, <2>2
<1>4. Looked' = Looked
  BY <1>1 DEF Looked
<1> QED
  BY <1>1, <1>2, <1>3, <1>4 DEF Atomic!Lower, Atomic!Enter

\* The maximum is large enough, or has been swapped.
LEMMA MaximumRefines ==
    ASSUME IInv, NEW r \in Renderers,
           SwapMaximum(r) \/ (LoadMaximum(r) /\ maximum >= actual[r])
    PROVE  Atomic!Raise(r)
<1>1. /\ pc[r] \in {"max", "casMax"} /\ pc' = [pc EXCEPT ![r] = "estimate"]
      /\ UNCHANGED <<minimum, estimate, headroom, samples, actual, base, sawSamples, unstable>>
  BY DEF SwapMaximum, LoadMaximum, Transition, stats, plans
<1>2. Stage[r] = "maximum" /\ Stage' = [Stage EXCEPT ![r] = "estimate"]
  BY <1>1, StageMoves DEF IInv, StageAt
<1>3. maximum' = IF actual[r] > maximum THEN actual[r] ELSE maximum
  <2>0. maximum \in Nat /\ actual[r] \in Nat
    BY LimitsAssumption DEF IInv, TypeOk
  <2>1. CASE SwapMaximum(r)
    <3>1. maximum < actual[r]
      BY <2>1 DEF SwapMaximum, Transition, IInv, SwapsWiden
    <3> QED
      BY <2>0, <2>1, <3>1 DEF SwapMaximum
  <2>2. CASE LoadMaximum(r) /\ maximum >= actual[r]
    BY <2>0, <2>2 DEF LoadMaximum, stats
  <2> QED
    BY <2>1, <2>2
<1>4. Looked' = Looked
  BY <1>1 DEF Looked
<1> QED
  BY <1>1, <1>2, <1>3, <1>4 DEF Atomic!Raise, Atomic!Enter

LEMMA LoadSamplesRefines ==
    ASSUME IInv, NEW r \in Renderers, LoadSamples(r) PROVE Atomic!Look(r)
<1>1. /\ pc[r] = "samples" /\ pc' = [pc EXCEPT ![r] = "casEstimate"]
      /\ sawSamples' = [sawSamples EXCEPT ![r] = samples]
      /\ UNCHANGED <<minimum, maximum, estimate, headroom, samples, actual, base, unstable>>
  BY DEF LoadSamples, Transition, stats, plans
<1>2. Stage[r] = "estimate" /\ Stage' = Stage
  <2>1. StageAt("casEstimate") = StageAt(pc[r]) /\ StageAt(pc[r]) = "estimate"
    BY <1>1 DEF StageAt
  <2>2. /\ Stage[r] = StageAt(pc[r])
        /\ StageAt("casEstimate") = StageAt(pc[r]) => Stage' = Stage
    BY <1>1, StageMoves DEF IInv
  <2> QED
    BY <2>1, <2>2
<1>3. Looked' = [Looked EXCEPT ![r] = samples # 0]
  BY <1>1 DEF IInv, TypeOk, Looked
<1> QED
  BY <1>1, <1>2, <1>3 DEF Atomic!Look, Atomic!words

\* The estimate that is swapped is the one the new one was computed from.
LEMMA SwapEstimateRefines ==
    ASSUME IInv, NEW r \in Renderers, SwapEstimate(r) PROVE Atomic!Learn(r)
<1>1. /\ pc[r] = "casEstimate"
      /\ pc' = [pc EXCEPT ![r] = IF base[r] > 0 THEN "headroom" ELSE "count"]
      /\ estimate' = NextEstimate(estimate, actual[r], sawSamples[r])
      /\ UNCHANGED <<minimum, maximum, headroom, samples, actual, base, sawSamples, unstable>>
  BY DEF SwapEstimate, Transition, plans
<1>2. /\ Stage[r] = "estimate"
      /\ Stage' = [Stage EXCEPT ![r] = IF base[r] > 0 THEN "headroom" ELSE "count"]
  BY <1>1, StageMoves DEF IInv, StageAt
<1>3. /\ estimate \in 0 .. MaxGrowHint /\ actual[r] \in 1 .. MaxGrowHint
      /\ sawSamples[r] \in Nat /\ Looked[r] = (sawSamples[r] # 0)
  BY <1>1, LimitsAssumption DEF IInv, TypeOk, Looked
<1>4. IF estimate = 0 \/ ~Looked[r]
      THEN estimate' = actual[r]
      ELSE estimate' \in Atomic!Towards(estimate, actual[r])
  <2>1. CASE estimate = 0 \/ ~Looked[r]
    BY <1>1, <1>3, <2>1 DEF NextEstimate
  <2>2. CASE ~(estimate = 0 \/ ~Looked[r])
    <3>0. estimate # 0 /\ sawSamples[r] # 0
      BY <1>3, <2>2, Zenon
    <3>1. estimate \in 1 .. MaxGrowHint /\ sawSamples[r] \in Nat \ {0}
      BY <1>3, <3>0, LimitsAssumption
    <3> QED
      BY <1>1, <1>3, <2>2, <3>1, NextEstimateTowards
  <2> QED
    BY <2>1, <2>2
<1>5. Looked' = Looked
  BY <1>1 DEF Looked
<1> QED
  BY <1>1, <1>2, <1>4, <1>5 DEF Atomic!Learn, Atomic!Enter

LEMMA SwapHeadroomRefines ==
    ASSUME IInv, NEW r \in Renderers, SwapHeadroom(r) PROVE Atomic!Track(r)
<1>1. /\ pc[r] = "casHeadroom" /\ pc' = [pc EXCEPT ![r] = "count"]
      /\ headroom' = NextHeadroom(headroom, base[r], actual[r])
      /\ UNCHANGED <<minimum, maximum, estimate, samples, actual, base, sawSamples, unstable>>
  BY DEF SwapHeadroom, Transition, plans
<1>2. Stage[r] = "headroom" /\ Stage' = [Stage EXCEPT ![r] = "count"]
  BY <1>1, StageMoves DEF IInv, StageAt
<1>3. headroom \in 0 .. MaxHeadroom /\ base[r] \in Nat /\ actual[r] \in Nat
  BY LimitsAssumption DEF IInv, TypeOk
<1>4. headroom' \in 0 .. MaxHeadroom
  BY <1>1, <1>3, NextHeadroomBounded
<1>5. IF actual[r] > base[r]
      THEN /\ headroom' >= headroom
           /\ headroom' > headroom => headroom' <= actual[r] - base[r]
           /\ headroom' >= actual[r] - base[r] \/ headroom' = MaxHeadroom
      ELSE headroom' < headroom \/ headroom' = 0
  BY <1>1, <1>3, NextHeadroomTracks
<1>6. Looked' = Looked
  BY <1>1 DEF Looked
<1> QED
  BY <1>1, <1>2, <1>4, <1>5, <1>6 DEF Atomic!Track, Atomic!Enter

LEMMA CountRefines ==
    ASSUME IInv, NEW r \in Renderers, Count(r) PROVE Atomic!Count(r)
<1>1. /\ pc[r] = "count" /\ pc' = [pc EXCEPT ![r] = "idle"]
      /\ samples' = samples + 1
      /\ actual' = [actual EXCEPT ![r] = 0] /\ base' = [base EXCEPT ![r] = 0]
      /\ sawSamples' = [sawSamples EXCEPT ![r] = 0]
      /\ UNCHANGED <<minimum, maximum, estimate, headroom, unstable>>
  BY DEF Count, Transition, plans
<1>2. Stage[r] = "count" /\ Stage' = [Stage EXCEPT ![r] = "none"]
  BY <1>1, StageMoves DEF IInv, StageAt
<1>3. Looked' = [Looked EXCEPT ![r] = FALSE]
  BY <1>1, LookedMoves DEF IInv
<1> QED
  BY <1>1, <1>2, <1>3 DEF Atomic!Count, Atomic!Enter

\* A yes is true of the range of now, although the minimum was loaded before.
LEMMA AskMaximumRefines ==
    ASSUME IInv, PlansCurrent, NEW q \in Planners, AskMaximum(q)
    PROVE  Atomic!Affirm(q) \/ Atomic!Deny(q)
<1>1. /\ asking[q] = "max" /\ UNCHANGED <<stats, locals>>
      /\ unstable' = [unstable EXCEPT ![q] = low[q] > 0 /\ maximum \div low[q] >= 4]
  BY DEF AskMaximum
<1>2. UNCHANGED <<Atomic!words, Stage, actual, base, Looked>>
  BY <1>1 DEF stats, locals, Atomic!words, Stage, Looked
<1>3. CASE low[q] > 0 /\ maximum \div low[q] >= 4
  <2>1. /\ samples >= 2 /\ 0 < minimum /\ minimum <= low[q]
        /\ maximum \in Nat /\ minimum \in Nat /\ low[q] \in Nat
    BY <1>1, LimitsAssumption DEF IInv, TypeOk, PlansCurrent
  <2>2. maximum >= 4 * low[q]
    BY <1>3, <2>1, FourTimes
  <2>3. maximum >= 4 * minimum
    BY <2>1, <2>2
  <2>4. unstable' = [unstable EXCEPT ![q] = TRUE]
    BY <1>1, <1>3
  <2> QED
    BY <1>2, <2>1, <2>3, <2>4 DEF Atomic!Affirm
<1>4. CASE ~(low[q] > 0 /\ maximum \div low[q] >= 4)
  <2>1. unstable' = [unstable EXCEPT ![q] = FALSE]
    BY <1>1, <1>4
  <2> QED
    BY <1>2, <2>1 DEF Atomic!Deny
<1> QED
  BY <1>3, <1>4

LEMMA ForgetRefines ==
    ASSUME NEW q \in Planners, Ask(q) \/ Forget(q) PROVE Atomic!Deny(q)
<1>1. UNCHANGED <<stats, locals>> /\ unstable' = [unstable EXCEPT ![q] = FALSE]
  BY DEF Ask, Forget
<1> QED
  BY <1>1 DEF stats, locals, Atomic!words, Stage, Looked, Atomic!Deny

\* Loads that lead to a swap, and swaps that fail, do not show.
LEMMA LoopStutters ==
    ASSUME IInv, NEW r \in Renderers,
           \/ LoadMinimum(r) /\ ~(minimum # 0 /\ minimum <= actual[r])
           \/ LoadMaximum(r) /\ ~(maximum >= actual[r])
           \/ LoadEstimate(r) \/ LoadHeadroom(r)
           \/ RetryMinimum(r) \/ RetryMaximum(r) \/ RetryEstimate(r) \/ RetryHeadroom(r)
    PROVE  UNCHANGED Atomic!vars
<1>1. UNCHANGED <<stats, actual, base, sawSamples, unstable>>
  BY DEF LoadMinimum, LoadMaximum, LoadEstimate, LoadHeadroom, RetryMinimum, RetryMaximum,
    RetryEstimate, RetryHeadroom, plans
<1>2. PICK to : pc' = [pc EXCEPT ![r] = to] /\ StageAt(to) = StageAt(pc[r])
  <2>1. CASE LoadMinimum(r) /\ ~(minimum # 0 /\ minimum <= actual[r])
    <3>1. pc[r] = "min" /\ pc' = [pc EXCEPT ![r] = "casMin"]
      BY <2>1 DEF LoadMinimum, Transition
    <3>2. StageAt("casMin") = StageAt(pc[r])
      BY <3>1 DEF StageAt
    <3> QED
      BY <3>1, <3>2
  <2>2. CASE LoadMaximum(r) /\ ~(maximum >= actual[r])
    <3>1. pc[r] = "max" /\ pc' = [pc EXCEPT ![r] = "casMax"]
      BY <2>2 DEF LoadMaximum, Transition
    <3>2. StageAt("casMax") = StageAt(pc[r])
      BY <3>1 DEF StageAt
    <3> QED
      BY <3>1, <3>2
  <2>3. CASE RetryMinimum(r) \/ RetryMaximum(r)
    BY <2>3 DEF RetryMinimum, RetryMaximum, Transition, StageAt
  <2>4. CASE LoadEstimate(r) \/ RetryEstimate(r)
    BY <2>4 DEF LoadEstimate, RetryEstimate, Transition, StageAt
  <2>5. CASE LoadHeadroom(r) \/ RetryHeadroom(r)
    BY <2>5 DEF LoadHeadroom, RetryHeadroom, Transition, StageAt
  <2> QED
    BY <2>1, <2>2, <2>3, <2>4, <2>5
<1>3. Stage' = Stage
  BY <1>2, StageMoves DEF IInv
<1> QED
  BY <1>1, <1>3 DEF Atomic!vars, Atomic!words, stats, Looked

LEMMA StepRefines ==
    ASSUME IInv, PlansCurrent, [Next]_vars PROVE [Atomic!Next]_Atomic!vars
<1>1. ASSUME NEW r \in Renderers, Observe(r) \/ LoadSamples(r) \/ SwapEstimate(r)
                                  \/ SwapHeadroom(r) \/ Count(r)
      PROVE  Atomic!Next
  BY <1>1, ObserveRefines, LoadSamplesRefines, SwapEstimateRefines, SwapHeadroomRefines,
    CountRefines DEF Atomic!Next
<1>2. ASSUME NEW r \in Renderers, Range(r) PROVE Atomic!Next \/ UNCHANGED Atomic!vars
  BY <1>2, MinimumRefines, MaximumRefines, LoopStutters DEF Range, Atomic!Next
<1>3. ASSUME NEW r \in Renderers,
             LoadEstimate(r) \/ RetryEstimate(r) \/ LoadHeadroom(r) \/ RetryHeadroom(r)
      PROVE  UNCHANGED Atomic!vars
  BY <1>3, LoopStutters
<1>4. ASSUME NEW q \in Planners, Ask(q) \/ AskMaximum(q) \/ Forget(q) PROVE Atomic!Next
  BY <1>4, AskMaximumRefines, ForgetRefines DEF Atomic!Next
<1>5. ASSUME NEW q \in Planners, AskMinimum(q) PROVE UNCHANGED Atomic!vars
  BY <1>5 DEF AskMinimum, stats, locals, Atomic!vars, Atomic!words, Stage, Looked
<1>6. CASE UNCHANGED vars
  BY <1>6 DEF vars, stats, locals, plans, Atomic!vars, Atomic!words, Stage, Looked
<1> QED
  BY <1>1, <1>2, <1>3, <1>4, <1>5, <1>6
  DEF Next, ObserveStep, Estimate, Headroom, Unstable

\* The compare-and-swap loops of observe are atomic updates of the words, one
\* after the other, and Unstable says yes only of sizes that are unstable when it
\* answers, without a lock.
THEOREM ImplementsAtomic == Spec => ImplementsAtomicStats
<1>1. IInv /\ PlansCurrent /\ [Next]_vars => [Atomic!Next]_Atomic!vars
  BY StepRefines
<1>2. Spec => Atomic!Spec
  BY <1>1, InitRefines, Invariance, PlansStayCurrent, PTL DEF Spec, Atomic!Spec
<1> QED
  BY <1>2 DEF ImplementsAtomicStats

-----------------------------------------------------------------------------
\* The planner has loaded the minimum and is bound to answer yes.
Noticing(q) == asking[q] = "max" /\ maximum >= 4 * low[q]

\* A planner that loads the minimum of a range that is unstable notices it, and
\* stays on its way to a yes whatever others observe meanwhile: a no is true of
\* the moment when the minimum was loaded.
InstabilityNoticed ==
    [][\A q \in Planners :
        /\ asking[q] = "min" /\ asking'[q] = "max" /\ maximum >= 4 * minimum => Noticing(q)'
        /\ Noticing(q) => Noticing(q)' \/ (asking'[q] = "answered" /\ unstable'[q])]_vars

\* Together with ImplementsAtomic: each answer of Unstable is the right one for
\* some moment between the question and the answer.
THEOREM InstabilityIsNoticed == Spec => InstabilityNoticed
<1> DEFINE Notices(q) ==
      /\ asking[q] = "min" /\ asking'[q] = "max" /\ maximum >= 4 * minimum => Noticing(q)'
      /\ Noticing(q) => Noticing(q)' \/ (asking'[q] = "answered" /\ unstable'[q])
<1>1. ASSUME IInv, [Next]_vars, NEW q \in Planners PROVE Notices(q)
  <2>1. /\ minimum \in Nat /\ maximum \in Nat /\ low[q] \in Nat /\ maximum' \in Nat
        /\ maximum' >= maximum
    BY <1>1, NextIInv, WordsWiden, LimitsAssumption DEF IInv, TypeOk
  <2>2. CASE asking[q] = "min"
    BY <1>1, <2>1, <2>2, PlannerMoves DEF Noticing, stats
  <2>3. CASE asking[q] = "max" /\ ~AskMaximum(q)
    <3>1. asking'[q] = asking[q] /\ low'[q] = low[q]
      <4>1. ASSUME NEW r \in Renderers, Observe(r) \/ ObserveStep(r) PROVE UNCHANGED plans
        BY <4>1 DEF ObserveStep, Range, Estimate, Headroom, Observe, LoadMinimum,
          SwapMinimum, RetryMinimum, LoadMaximum, SwapMaximum, RetryMaximum, LoadEstimate,
          LoadSamples, SwapEstimate, RetryEstimate, LoadHeadroom, SwapHeadroom,
          RetryHeadroom, Count
      <4>2. ASSUME NEW p \in Planners, Unstable(p) \/ Forget(p) PROVE p # q \/ AskMaximum(q)
        BY <2>3, <4>2 DEF Unstable, Ask, AskMinimum, AskMaximum, Forget
      <4>3. ASSUME NEW p \in Planners, p # q, Unstable(p) \/ Forget(p)
            PROVE  asking'[q] = asking[q] /\ low'[q] = low[q]
        BY <1>1, <4>3 DEF Unstable, Ask, AskMinimum, AskMaximum, Forget, IInv, TypeOk
      <4> QED
        BY <1>1, <2>3, <4>1, <4>2, <4>3 DEF Next, vars, plans
    <3> QED
      BY <2>1, <2>3, <3>1 DEF Noticing
  <2>4. CASE asking[q] = "max" /\ AskMaximum(q)
    <3>1. /\ asking'[q] = "answered"
          /\ unstable'[q] = (low[q] > 0 /\ maximum \div low[q] >= 4)
      BY <1>1, <2>4 DEF AskMaximum, IInv, TypeOk
    <3>2. low[q] > 0
      BY <1>1, <2>4 DEF IInv, PlansOrdered
    <3>3. Noticing(q) => maximum \div low[q] >= 4
      BY <2>1, <3>2, FourTimes DEF Noticing
    <3>4. Noticing(q) => unstable'[q]
      BY <3>1, <3>2, <3>3, Zenon
    <3> QED
      BY <2>4, <3>1, <3>4
  <2> QED
    BY <2>2, <2>3, <2>4 DEF Noticing
<1>2. IInv /\ [Next]_vars => [\A q \in Planners : Notices(q)]_vars
  BY <1>1
<1>3. Spec => [][\A q \in Planners : Notices(q)]_vars
  BY <1>2, Invariance, PTL DEF Spec
<1> QED
  BY <1>3 DEF InstabilityNoticed

\* What Unstable is asked about.
SizesUnstable == samples >= 2 /\ minimum > 0 /\ maximum >= 4 * minimum

\* Sizes that are unstable stay so: the swaps of observeRange only widen the range,
\* and samples are only added.  A layout profile that asks for the samples first and
\* for the instability afterwards therefore learns what one look would tell it.
THEOREM InstabilityIsFinal == Spec => [][SizesUnstable => SizesUnstable']_vars
<1>1. ASSUME IInv, [Next]_vars, SizesUnstable PROVE SizesUnstable'
  <2>0. samples >= 2 /\ minimum > 0 /\ maximum >= 4 * minimum
    BY <1>1 DEF SizesUnstable
  <2>1. /\ minimum \in Nat /\ maximum \in Nat /\ samples \in Nat
        /\ minimum' \in Nat /\ maximum' \in Nat /\ samples' \in Nat
    BY <1>1, NextIInv, LimitsAssumption DEF IInv, TypeOk
  <2>2. /\ minimum' # 0 /\ minimum' <= minimum
        /\ maximum' >= maximum /\ samples' >= samples
    BY <1>1, WordsWiden DEF SizesUnstable
  <2>3. samples' >= 2 /\ minimum' > 0
    BY <2>0, <2>1, <2>2
  <2>4. ASSUME NEW m \in Nat, NEW n \in Nat, NEW x \in Nat, NEW y \in Nat,
               n <= m, x >= 4 * m, y >= x
        PROVE  y >= 4 * n
    BY <2>4
  <2>5. maximum' >= 4 * minimum'
    BY <2>0, <2>1, <2>2, <2>4
  <2> QED
    BY <2>3, <2>5 DEF SizesUnstable
<1>2. IInv /\ [Next]_vars => [SizesUnstable => SizesUnstable']_vars
  BY <1>1
<1> QED
  BY <1>2, Invariance, PTL DEF Spec

=============================================================================
