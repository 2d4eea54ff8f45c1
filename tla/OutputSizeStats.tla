-------------------------- MODULE OutputSizeStats --------------------------
(***************************************************************************)
(* The adaptive output-size statistics of one compiled template            *)
(* (vm/compiler/output_size_stats.go): five atomic words that concurrent   *)
(* renders of the template read before they render, and update with        *)
(* compare-and-swap loops afterwards, without any lock.                    *)
(*                                                                         *)
(* Renderers report the size of a finished output (Observe and             *)
(* ObserveWithHeadroom); Planners ask whether the sizes are unstable.      *)
(***************************************************************************)
EXTENDS Integers

CONSTANTS
    Renderers,      \* goroutines that call observe
    Planners,       \* goroutines that call Unstable
    Sizes,          \* output sizes that occur
    Estimates,      \* sizes a render was planned with, 0 if it tracks no headroom
    MaxGrowHint,    \* outputSizeStatsMaxGrowHint, 4 MiB in the code
    MaxHeadroom,    \* outputSizeStatsMaxHeadroom, 64 KiB in the code
    MaxObserves     \* bound on the number of observations of a behaviour

ASSUME SizesAssumption == Sizes \subseteq Nat \ {0} /\ Estimates \subseteq Nat
ASSUME LimitsAssumption ==
    MaxGrowHint \in Nat \ {0} /\ MaxHeadroom \in Nat \ {0} /\ MaxObserves \in Nat

VARIABLES
    estimate, headroom, samples, minimum, maximum,    \* OutputSizeStats
    pc,         \* where each renderer is
    actual,     \* the size it observes, capped
    base,       \* the capped estimatedSize, 0 when headroom is not tracked
    loaded,     \* the value its current loop has loaded
    sawSamples, \* the samples its estimate loop has loaded
    asking,     \* where each planner is
    low, high,  \* the minimum and maximum a planner has loaded
    unstable,   \* what Unstable returned
    observed,   \* history: all sizes whose observation has started
    observes    \* history: observations started

stats     == <<estimate, headroom, samples, minimum, maximum>>
locals    == <<pc, actual, base, loaded, sawSamples, observes, observed>>
plans     == <<asking, low, high, unstable>>
vars      == <<stats, locals, plans>>

Smaller(a, b) == IF a <= b THEN a ELSE b
Larger(a, b)  == IF a >= b THEN a ELSE b

\* outputSizeHintUint64.
SizeHint(n) == Smaller(n, MaxGrowHint)

\* Mutant: growth up to the limit whatever the size.
NextEstimateQuadrupled(current, size, seen) ==
    IF seen = 0 \/ current = 0 THEN size
    ELSE IF size = current THEN current
    ELSE IF size > current THEN SizeHint(4 * current)
    ELSE SizeHint(current - Larger(1, (current - size) \div 8))

\* nextOutputSizeEstimate: up by half the distance to at most four times the
\* estimate, down by an eighth of it, by 1 at least.
NextEstimate(current, size, seen) ==
    IF seen = 0 \/ current = 0 THEN size
    ELSE IF size = current THEN current
    ELSE IF size > current
         THEN SizeHint(current + Larger(1, (Smaller(size, 4 * current) - current) \div 2))
         ELSE SizeHint(current - Larger(1, (current - size) \div 8))

\* Mutant: the shortfall is not capped.
NextHeadroomUncapped(current, estimated, size) ==
    IF size > estimated THEN Larger(current, size - estimated)
    ELSE IF current = 0 THEN 0 ELSE current - Larger(1, current \div 8)

\* nextOutputSizeHeadroom: the largest shortfall, decaying by an eighth.
NextHeadroom(current, estimated, size) ==
    IF size > estimated
    THEN Larger(current, Smaller(size - estimated, MaxHeadroom))
    ELSE IF current = 0 THEN 0 ELSE current - Larger(1, current \div 8)

Init ==
    /\ estimate = 0 /\ headroom = 0 /\ samples = 0 /\ minimum = 0 /\ maximum = 0
    /\ pc = [r \in Renderers |-> "idle"]
    /\ actual = [r \in Renderers |-> 0]
    /\ base = [r \in Renderers |-> 0]
    /\ loaded = [r \in Renderers |-> 0]
    /\ sawSamples = [r \in Renderers |-> 0]
    /\ asking = [q \in Planners |-> "idle"]
    /\ low = [q \in Planners |-> 0]
    /\ high = [q \in Planners |-> 0]
    /\ unstable = [q \in Planners |-> FALSE]
    /\ observed = {}
    /\ observes = 0

Transition(r, from, to) ==
    /\ pc[r] = from
    /\ pc' = [pc EXCEPT ![r] = to]

Load(r, value) == loaded' = [loaded EXCEPT ![r] = value]

-----------------------------------------------------------------------------
\* observe, with a positive size: Observe has no estimated size, and one that
\* is not positive is not tracked.
Observe(r) ==
    /\ observes < MaxObserves
    /\ Transition(r, "idle", "min")
    /\ \E size \in Sizes, estimated \in Estimates :
        /\ actual' = [actual EXCEPT ![r] = SizeHint(size)]
        /\ base' = [base EXCEPT ![r] = SizeHint(estimated)]
        /\ observed' = observed \cup {SizeHint(size)}
    /\ observes' = observes + 1
    /\ UNCHANGED <<stats, loaded, sawSamples, plans>>

\* observeRange, the minimum: load, then swap unless it is small enough.
LoadMinimum(r) ==
    /\ Transition(r, "min", IF minimum # 0 /\ minimum <= actual[r] THEN "max" ELSE "casMin")
    /\ Load(r, minimum)
    /\ UNCHANGED <<stats, actual, base, sawSamples, observed, observes, plans>>

\* Mutant: a store instead of the compare-and-swap.
StoreMinimum(r) ==
    /\ Transition(r, "casMin", "max")
    /\ minimum' = actual[r]
    /\ UNCHANGED <<estimate, headroom, samples, maximum, actual, base, loaded,
                   sawSamples, observed, observes, plans>>

SwapMinimum(r) ==
    /\ minimum = loaded[r]
    /\ Transition(r, "casMin", "max")
    /\ minimum' = actual[r]
    /\ UNCHANGED <<estimate, headroom, samples, maximum, actual, base, loaded,
                   sawSamples, observed, observes, plans>>

RetryMinimum(r) ==
    /\ minimum # loaded[r]
    /\ Transition(r, "casMin", "min")
    /\ UNCHANGED <<stats, actual, base, loaded, sawSamples, observed, observes, plans>>

\* observeRange, the maximum.
LoadMaximum(r) ==
    /\ Transition(r, "max", IF maximum >= actual[r] THEN "estimate" ELSE "casMax")
    /\ Load(r, maximum)
    /\ UNCHANGED <<stats, actual, base, sawSamples, observed, observes, plans>>

\* Mutant: a store instead of the compare-and-swap.
StoreMaximum(r) ==
    /\ Transition(r, "casMax", "estimate")
    /\ maximum' = actual[r]
    /\ UNCHANGED <<estimate, headroom, samples, minimum, actual, base, loaded,
                   sawSamples, observed, observes, plans>>

SwapMaximum(r) ==
    /\ maximum = loaded[r]
    /\ Transition(r, "casMax", "estimate")
    /\ maximum' = actual[r]
    /\ UNCHANGED <<estimate, headroom, samples, minimum, actual, base, loaded,
                   sawSamples, observed, observes, plans>>

RetryMaximum(r) ==
    /\ maximum # loaded[r]
    /\ Transition(r, "casMax", "max")
    /\ UNCHANGED <<stats, actual, base, loaded, sawSamples, observed, observes, plans>>

\* The estimate: two loads, then the swap.
LoadEstimate(r) ==
    /\ Transition(r, "estimate", "samples")
    /\ Load(r, estimate)
    /\ UNCHANGED <<stats, actual, base, sawSamples, observed, observes, plans>>

LoadSamples(r) ==
    /\ Transition(r, "samples", "casEstimate")
    /\ sawSamples' = [sawSamples EXCEPT ![r] = samples]
    /\ UNCHANGED <<stats, actual, base, loaded, observed, observes, plans>>

SwapEstimate(r) ==
    /\ estimate = loaded[r]
    /\ Transition(r, "casEstimate", IF base[r] > 0 THEN "headroom" ELSE "count")
    /\ estimate' = NextEstimate(loaded[r], actual[r], sawSamples[r])
    /\ UNCHANGED <<headroom, samples, minimum, maximum, actual, base, loaded,
                   sawSamples, observed, observes, plans>>

\* Mutant: the swap is tried again with the old value.
RetryEstimateStale(r) ==
    /\ estimate # loaded[r]
    /\ Transition(r, "casEstimate", "casEstimate")
    /\ UNCHANGED <<stats, actual, base, loaded, sawSamples, observed, observes, plans>>

RetryEstimate(r) ==
    /\ estimate # loaded[r]
    /\ Transition(r, "casEstimate", "estimate")
    /\ UNCHANGED <<stats, actual, base, loaded, sawSamples, observed, observes, plans>>

\* observeHeadroom.
LoadHeadroom(r) ==
    /\ Transition(r, "headroom", "casHeadroom")
    /\ Load(r, headroom)
    /\ UNCHANGED <<stats, actual, base, sawSamples, observed, observes, plans>>

SwapHeadroom(r) ==
    /\ headroom = loaded[r]
    /\ Transition(r, "casHeadroom", "count")
    /\ headroom' = NextHeadroom(loaded[r], base[r], actual[r])
    /\ UNCHANGED <<estimate, samples, minimum, maximum, actual, base, loaded,
                   sawSamples, observed, observes, plans>>

RetryHeadroom(r) ==
    /\ headroom # loaded[r]
    /\ Transition(r, "casHeadroom", "headroom")
    /\ UNCHANGED <<stats, actual, base, loaded, sawSamples, observed, observes, plans>>

\* s.samples.Add(1), the end of the observation and of its local variables.
Count(r) ==
    /\ Transition(r, "count", "idle")
    /\ samples' = samples + 1
    /\ actual' = [actual EXCEPT ![r] = 0]
    /\ base' = [base EXCEPT ![r] = 0]
    /\ loaded' = [loaded EXCEPT ![r] = 0]
    /\ sawSamples' = [sawSamples EXCEPT ![r] = 0]
    /\ UNCHANGED <<estimate, headroom, minimum, maximum, observed, observes, plans>>

-----------------------------------------------------------------------------
\* Unstable: three loads, in this order.
Ask(q) ==
    /\ asking[q] = "idle"
    /\ asking' = [asking EXCEPT ![q] = IF samples < 2 THEN "answered" ELSE "min"]
    /\ unstable' = [unstable EXCEPT ![q] = FALSE]
    /\ UNCHANGED <<low, high, stats, locals>>

AskMinimum(q) ==
    /\ asking[q] = "min"
    /\ asking' = [asking EXCEPT ![q] = "max"]
    /\ low' = [low EXCEPT ![q] = minimum]
    /\ UNCHANGED <<high, unstable, stats, locals>>

\* Mutant: a threshold of three.
AskMaximumThree(q) ==
    /\ asking[q] = "max"
    /\ asking' = [asking EXCEPT ![q] = "answered"]
    /\ high' = [high EXCEPT ![q] = maximum]
    /\ unstable' = [unstable EXCEPT ![q] = low[q] > 0 /\ maximum \div low[q] >= 3]
    /\ UNCHANGED <<low, stats, locals>>

AskMaximum(q) ==
    /\ asking[q] = "max"
    /\ asking' = [asking EXCEPT ![q] = "answered"]
    /\ high' = [high EXCEPT ![q] = maximum]
    /\ unstable' = [unstable EXCEPT ![q] = low[q] > 0 /\ maximum \div low[q] >= 4]
    /\ UNCHANGED <<low, stats, locals>>

\* The planner asks again before its next render.
Forget(q) ==
    /\ asking[q] = "answered"
    /\ asking' = [asking EXCEPT ![q] = "idle"]
    /\ low' = [low EXCEPT ![q] = 0]
    /\ high' = [high EXCEPT ![q] = 0]
    /\ unstable' = [unstable EXCEPT ![q] = FALSE]
    /\ UNCHANGED <<stats, locals>>

-----------------------------------------------------------------------------
Range(r)    == LoadMinimum(r) \/ SwapMinimum(r) \/ RetryMinimum(r)
               \/ LoadMaximum(r) \/ SwapMaximum(r) \/ RetryMaximum(r)
Estimate(r) == LoadEstimate(r) \/ LoadSamples(r) \/ SwapEstimate(r) \/ RetryEstimate(r)
Headroom(r) == LoadHeadroom(r) \/ SwapHeadroom(r) \/ RetryHeadroom(r)

ObserveStep(r) == Range(r) \/ Estimate(r) \/ Headroom(r) \/ Count(r)

Unstable(q) == Ask(q) \/ AskMinimum(q) \/ AskMaximum(q)

Next ==
    \/ \E r \in Renderers : Observe(r) \/ ObserveStep(r)
    \/ \E q \in Planners : Unstable(q) \/ Forget(q)

\* A render that has started to report its size keeps running.
Fairness == \A r \in Renderers : WF_vars(ObserveStep(r))

Spec == Init /\ [][Next]_vars /\ Fairness

-----------------------------------------------------------------------------
Points == {"idle", "min", "casMin", "max", "casMax", "estimate", "samples",
           "casEstimate", "headroom", "casHeadroom", "count"}

\* The words hold capped sizes, and every goroutine is at a point of observe
\* or of Unstable.
TypeOk ==
    /\ estimate \in 0 .. MaxGrowHint /\ headroom \in 0 .. MaxHeadroom
    /\ minimum \in 0 .. MaxGrowHint /\ maximum \in 0 .. MaxGrowHint
    /\ samples \in Nat /\ observes \in Nat
    /\ pc \in [Renderers -> Points]
    /\ actual \in [Renderers -> 0 .. MaxGrowHint]
    /\ \A r \in Renderers : pc[r] # "idle" => actual[r] > 0
    /\ base \in [Renderers -> 0 .. MaxGrowHint]
    /\ loaded \in [Renderers -> Nat]
    /\ sawSamples \in [Renderers -> Nat]
    /\ asking \in [Planners -> {"idle", "min", "max", "answered"}]
    /\ low \in [Planners -> 0 .. MaxGrowHint]
    /\ high \in [Planners -> 0 .. MaxGrowHint]
    /\ unstable \in [Planners -> BOOLEAN]
    /\ observed \subseteq 1 .. MaxGrowHint

\* The learned estimate lies between the smallest and the largest output seen
\* so far, whichever observation wins each swap: a plan is never smaller or
\* larger than every real output.
EstimateWithinRange == estimate # 0 => minimum <= estimate /\ estimate <= maximum

\* No observation is lost from the range: when none is in progress, minimum
\* and maximum are those of all the sizes that were ever reported.
RangeIsExact ==
    (observed # {} /\ \A r \in Renderers : pc[r] = "idle") =>
        /\ minimum \in observed /\ maximum \in observed
        /\ \A size \in observed : minimum <= size /\ size <= maximum

\* Unstable says yes only of a template that has produced two outputs one of
\* which is at least four times as large as the other, although it reads the
\* two bounds at different times.
UnstableHasWitnesses ==
    \A q \in Planners : unstable[q] =>
        \E small, large \in observed : large >= 4 * small

\* A planner that has seen two samples never sees an empty or an inverted
\* range: the range of an observation is stored before it is counted.
PlannedRangeIsOrdered ==
    \A q \in Planners : asking[q] = "answered" /\ high[q] # 0 =>
        0 < low[q] /\ low[q] <= high[q]

\* Reported bounds only ever widen.
RangeOnlyWidens ==
    [][ /\ minimum # 0 => minimum' # 0 /\ minimum' <= minimum
        /\ maximum' >= maximum ]_vars

\* Every observation comes to its end: a swap fails only because another
\* observation has succeeded, and there are finitely many.
ObservationsEnd == \A r \in Renderers : pc[r] = "min" ~> pc[r] = "idle"

\* The word that each observation comes to next.
StageAt(point) ==
    CASE point = "idle"                                 -> "none"
      [] point \in {"min", "casMin"}                    -> "minimum"
      [] point \in {"max", "casMax"}                    -> "maximum"
      [] point \in {"estimate", "samples", "casEstimate"} -> "estimate"
      [] point \in {"headroom", "casHeadroom"}          -> "headroom"
      [] point = "count"                                -> "count"
Stage  == [r \in Renderers |-> StageAt(pc[r])]
Looked == [r \in Renderers |-> sawSamples[r] # 0]

\* The loops are atomic: a word changes as if a report came to it in one step,
\* although others change it between the load and the swap, and a planner is told
\* yes, after three loads, only if one look would say so.
Atomic == INSTANCE AtomicSizeStats WITH
    MaxSize <- MaxGrowHint,
    stage   <- Stage,
    size    <- actual,
    planned <- base,
    looked  <- Looked,
    verdict <- unstable
ImplementsAtomicStats == Atomic!Spec

=============================================================================
