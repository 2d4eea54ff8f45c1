--------------------------- MODULE LayoutProfile ---------------------------
(***************************************************************************)
(* The layout output-size profile of a compiled root template              *)
(* (vm/compiler/layout_output_size_profile.go).  Yield sizes are divided   *)
(* into twelve fixed ranges; a range whose outputs vary too much is split  *)
(* at its midpoint, and its halves again, up to a depth and a number of    *)
(* children for the whole profile.  Every render selects the statistics    *)
(* for its yield size (Predict), renders, and reports the overhead to the  *)
(* statistics it had selected (Observe), with no lock anywhere.            *)
(*                                                                         *)
(* Sizes are in units of 1 KiB.  A layoutOutputSizeStats is named by its   *)
(* range, by the refinements it lies below, and by the goroutine that      *)
(* allocated it, so that a candidate that lost a compare-and-swap is not   *)
(* the one that was published.                                             *)
(***************************************************************************)
EXTENDS Integers, Sequences, FiniteSets

CONSTANTS
    Renderers,      \* goroutines that render with one root template
    Nobody,         \* the nil pointer
    Yields,         \* yield sizes that occur
    Overheads,      \* overheads that occur, not positive ones are ignored
    MinSamples,     \* layoutOutputRefinementMinSamples, 32 in the code
    WarmSamples,    \* layoutOutputRefinementWarmSamples, 4
    MaxDepth,       \* layoutOutputRefinementMaxDepth, 3
    MinWidth,       \* layoutOutputRefinementMinWidth, 8 KiB
    MaxChildren,    \* layoutOutputRefinementMaxChildren, 16
    MaxReports      \* bound on the number of observations of a behaviour

ASSUME NobodyAssumption == Nobody \notin Renderers
ASSUME SizesAssumption == Yields \subseteq Nat /\ Overheads \subseteq Int
ASSUME LimitsAssumption ==
    /\ MinSamples \in Nat /\ MinSamples >= 2 /\ WarmSamples \in Nat
    /\ MaxDepth \in Nat /\ MinWidth \in Nat \ {0} /\ MaxChildren \in Nat
    /\ MaxReports \in Nat

VARIABLES
    buckets,    \* who allocated the twelve ranges, or Nobody
    children,   \* refinementChildren
    stats,      \* the statistics that are not all zero
    pc,         \* where each goroutine is
    yield,      \* the yield size of its render
    selected,   \* layoutOutputSizeSelection.stats
    depth,      \* layoutOutputSizeSelection.depth
    loaded,     \* the pointer or counter it has loaded last
    fallback,   \* layoutOutputSizeSelection.fallbackMinimum
    seen,       \* LayoutOutputSizePrediction.Samples
    reported    \* history: observations that are counted

shared == <<buckets, children, stats>>
locals == <<yield, selected, depth, loaded, fallback, seen>>
vars   == <<shared, pc, locals, reported>>

-----------------------------------------------------------------------------
\* layoutOutputSizeRanges; the last one has no upper end.
Ranges == << <<0, 4>>, <<4, 16>>, <<16, 32>>, <<32, 64>>, <<64, 128>>, <<128, 192>>,
             <<192, 256>>, <<256, 384>>, <<384, 512>>, <<512, 1024>>, <<1024, 4096>>,
             <<4096, 0>> >>

\* layoutOutputSizeBucket: the first range whose end the size does not exceed.
Bucket(size) == 1 + Cardinality({i \in 1 .. 11 : size > Ranges[i][2]})

Band(range, level, by) == [lower |-> range[1], upper |-> range[2], level |-> level, by |-> by]
Base(i, by) == Band(Ranges[i], 0, by)
NoStats     == Band(<<0, 0>>, 0, Nobody)

Zero == [samples |-> 0, minimum |-> 0, maximum |-> 0, refinement |-> Nobody]
WordsIn(all, s) == IF s \in DOMAIN all THEN all[s] ELSE Zero
Words(s) == WordsIn(stats, s)

Becomes(s, words) ==
    stats' = [t \in DOMAIN stats \cup {s} |-> IF t = s THEN words ELSE stats[t]]

\* Where a range is split.
Midpoint(s) == s.lower + (s.upper - s.lower) \div 2

\* The half of a refined range that a yield size falls into.
Half(s, by, size) ==
    IF size <= Midpoint(s) THEN Band(<<s.lower, Midpoint(s)>>, s.level + 1, by)
                           ELSE Band(<<Midpoint(s), s.upper>>, s.level + 1, by)

Unstable(words) ==
    words.samples >= 2 /\ words.minimum > 0 /\ words.maximum \div words.minimum >= 4

\* shouldRefine.  Samples and instability never go back, so that reading one
\* after the other gives what reading both at once gives.
ShouldRefine(s, level) ==
    /\ level < MaxDepth
    /\ s.upper - s.lower >= 2 * MinWidth
    /\ Words(s).samples >= MinSamples /\ Unstable(Words(s))

Init ==
    /\ buckets = Nobody /\ children = 0 /\ stats = <<>>
    /\ pc = [r \in Renderers |-> "idle"]
    /\ yield = [r \in Renderers |-> 0]
    /\ selected = [r \in Renderers |-> NoStats]
    /\ depth = [r \in Renderers |-> 0]
    /\ loaded = [r \in Renderers |-> 0]
    /\ fallback = [r \in Renderers |-> 0]
    /\ seen = [r \in Renderers |-> 0]
    /\ reported = 0

Transition(r, from, to) ==
    /\ pc[r] = from
    /\ pc' = [pc EXCEPT ![r] = to]

Load(r, value) == loaded' = [loaded EXCEPT ![r] = value]

-----------------------------------------------------------------------------
\* Predict, and with it layoutStats, begins.
Predict(r) ==
    /\ reported + Cardinality({q \in Renderers : pc[q] # "idle"}) < MaxReports
    /\ Transition(r, "idle", "buckets")
    /\ \E size \in Yields : yield' = [yield EXCEPT ![r] = size]
    /\ UNCHANGED <<shared, selected, depth, loaded, fallback, seen, reported>>

Enter(r, by) == selected' = [selected EXCEPT ![r] = Base(Bucket(yield[r]), by)]

LoadBuckets(r) ==
    /\ IF buckets = Nobody
       THEN Transition(r, "buckets", "newBuckets") /\ UNCHANGED selected
       ELSE Transition(r, "buckets", "look") /\ Enter(r, buckets)
    /\ UNCHANGED <<shared, yield, depth, loaded, fallback, seen, reported>>

\* Mutant: a store instead of the compare-and-swap.
StoreBuckets(r) ==
    /\ Transition(r, "newBuckets", "look")
    /\ buckets' = r
    /\ Enter(r, r)
    /\ UNCHANGED <<children, stats, yield, depth, loaded, fallback, seen, reported>>

\* The candidate is published with CompareAndSwap(nil, candidate).
PublishBuckets(r) ==
    /\ buckets = Nobody
    /\ Transition(r, "newBuckets", "look")
    /\ buckets' = r
    /\ Enter(r, r)
    /\ UNCHANGED <<children, stats, yield, depth, loaded, fallback, seen, reported>>

\* Somebody else's are loaded.
FindBuckets(r) ==
    /\ buckets # Nobody
    /\ Transition(r, "newBuckets", "look")
    /\ Enter(r, buckets)
    /\ UNCHANGED <<shared, yield, depth, loaded, fallback, seen, reported>>

\* The head of the loop of layoutStats, and the second load in refine, which
\* follows shouldRefine.
Refinement(r) == Words(selected[r]).refinement

Look(r) ==
    /\ Transition(r, "look", IF Refinement(r) # Nobody THEN "descend" ELSE "consider")
    /\ Load(r, Refinement(r))
    /\ UNCHANGED <<shared, yield, selected, depth, fallback, seen, reported>>

Consider(r) ==
    /\ Transition(r, "consider", IF ShouldRefine(selected[r], depth[r]) THEN "refine" ELSE "read")
    /\ UNCHANGED <<shared, locals, reported>>

LookAgain(r) ==
    /\ Transition(r, "refine", IF Refinement(r) # Nobody THEN "descend" ELSE "reserve")
    /\ Load(r, Refinement(r))
    /\ UNCHANGED <<shared, yield, selected, depth, fallback, seen, reported>>

\* Mutant: the limit is compared before the two children are added.
LoadChildrenOne(r) ==
    /\ Transition(r, "reserve", IF children > MaxChildren THEN "read" ELSE "casChildren")
    /\ Load(r, children)
    /\ UNCHANGED <<shared, yield, selected, depth, fallback, seen, reported>>

\* reserveRefinementChildren: without room the selection stays where it is.
LoadChildren(r) ==
    /\ Transition(r, "reserve", IF children + 2 > MaxChildren THEN "read" ELSE "casChildren")
    /\ Load(r, children)
    /\ UNCHANGED <<shared, yield, selected, depth, fallback, seen, reported>>

SwapChildren(r) ==
    /\ children = loaded[r]
    /\ Transition(r, "casChildren", "publish")
    /\ children' = loaded[r] + 2
    /\ UNCHANGED <<buckets, stats, locals, reported>>

\* Mutant: the swap is tried again with the old value.
RetryChildrenStale(r) ==
    /\ children # loaded[r]
    /\ Transition(r, "casChildren", "casChildren")
    /\ UNCHANGED <<shared, locals, reported>>

RetryChildren(r) ==
    /\ children # loaded[r]
    /\ Transition(r, "casChildren", "reserve")
    /\ UNCHANGED <<shared, locals, reported>>

\* Mutant: a store instead of the compare-and-swap.
StoreRefinement(r) ==
    /\ Transition(r, "publish", "descend")
    /\ Becomes(selected[r], [Words(selected[r]) EXCEPT !.refinement = r])
    /\ Load(r, r)
    /\ UNCHANGED <<buckets, children, yield, selected, depth, fallback, seen, reported>>

\* refine: the candidate is published, or the reservation is given back and
\* the refinement that was faster is loaded.
PublishRefinement(r) ==
    /\ Refinement(r) = Nobody
    /\ Transition(r, "publish", "descend")
    /\ Becomes(selected[r], [Words(selected[r]) EXCEPT !.refinement = r])
    /\ Load(r, r)
    /\ UNCHANGED <<buckets, children, yield, selected, depth, fallback, seen, reported>>

LoseRefinement(r) ==
    /\ Refinement(r) # Nobody
    /\ Transition(r, "publish", "giveBack")
    /\ UNCHANGED <<shared, locals, reported>>

\* Mutant: a lost reservation is kept.
GiveBackNothing(r) ==
    /\ Transition(r, "giveBack", "descend")
    /\ Load(r, Refinement(r))
    /\ UNCHANGED <<shared, yield, selected, depth, fallback, seen, reported>>

GiveBack(r) ==
    /\ Transition(r, "giveBack", "descend")
    /\ children' = children - 2
    /\ Load(r, Refinement(r))
    /\ UNCHANGED <<buckets, stats, yield, selected, depth, fallback, seen, reported>>

\* Mutant: the minimum is read after the selection has moved.
DescendFirst(r) ==
    /\ Transition(r, "descend", "look")
    /\ fallback' = [fallback EXCEPT ![r] = Words(Half(selected[r], loaded[r], yield[r])).minimum]
    /\ depth' = [depth EXCEPT ![r] = @ + 1]
    /\ selected' = [selected EXCEPT ![r] = Half(@, loaded[r], yield[r])]
    /\ Load(r, 0)
    /\ UNCHANGED <<shared, yield, seen, reported>>

\* The rest of the loop: the parent's minimum, and one level down.
Descend(r) ==
    /\ Transition(r, "descend", "look")
    /\ fallback' = [fallback EXCEPT ![r] = Words(selected[r]).minimum]
    /\ depth' = [depth EXCEPT ![r] = @ + 1]
    /\ selected' = [selected EXCEPT ![r] = Half(@, loaded[r], yield[r])]
    /\ Load(r, 0)
    /\ UNCHANGED <<shared, yield, seen, reported>>

\* predict, of which Samples decides about the fallback.
Read(r) ==
    /\ Transition(r, "read", "rendering")
    /\ seen' = [seen EXCEPT ![r] = Words(selected[r]).samples]
    /\ Load(r, 0)
    /\ UNCHANGED <<shared, yield, selected, depth, fallback, reported>>

RefinementFallback(r) == depth[r] > 0 /\ seen[r] < WarmSamples

-----------------------------------------------------------------------------
Forget(r) ==
    /\ yield' = [yield EXCEPT ![r] = 0]
    /\ selected' = [selected EXCEPT ![r] = NoStats]
    /\ depth' = [depth EXCEPT ![r] = 0]
    /\ loaded' = [loaded EXCEPT ![r] = 0]
    /\ fallback' = [fallback EXCEPT ![r] = 0]
    /\ seen' = [seen EXCEPT ![r] = 0]

\* Observe ignores an overhead that is not positive; a render that failed
\* does not call it.
Ignore(r) ==
    /\ Transition(r, "rendering", "idle")
    /\ Forget(r)
    /\ UNCHANGED <<shared, reported>>

Wider(words, overhead) ==
    [words EXCEPT !.minimum = IF @ = 0 \/ overhead < @ THEN overhead ELSE @,
                  !.maximum = IF overhead > @ THEN overhead ELSE @]

\* Observe: the range of the statistics that were predicted from, and then
\* the number of samples.  OutputSizeStats has the steps in between.
Observe(r) ==
    /\ Transition(r, "rendering", "count")
    /\ \E overhead \in Overheads :
        /\ overhead > 0
        /\ Becomes(selected[r], Wider(Words(selected[r]), overhead))
    /\ UNCHANGED <<buckets, children, locals, reported>>

\* Mutant: one more than the samples of the prediction.
CountSeen(r) ==
    /\ Transition(r, "count", "idle")
    /\ Becomes(selected[r], [Words(selected[r]) EXCEPT !.samples = seen[r] + 1])
    /\ reported' = reported + 1
    /\ Forget(r)
    /\ UNCHANGED <<buckets, children>>

Count(r) ==
    /\ Transition(r, "count", "idle")
    /\ Becomes(selected[r], [Words(selected[r]) EXCEPT !.samples = @ + 1])
    /\ reported' = reported + 1
    /\ Forget(r)
    /\ UNCHANGED <<buckets, children>>

-----------------------------------------------------------------------------
LayoutBuckets(r) == LoadBuckets(r) \/ PublishBuckets(r) \/ FindBuckets(r)
Reserve(r) == LoadChildren(r) \/ SwapChildren(r) \/ RetryChildren(r)
Refine(r)  == LookAgain(r) \/ Reserve(r) \/ PublishRefinement(r) \/ LoseRefinement(r)
              \/ GiveBack(r)

LayoutStats(r) == LayoutBuckets(r) \/ Look(r) \/ Consider(r) \/ Refine(r) \/ Descend(r)

Next == \E r \in Renderers :
            Predict(r) \/ LayoutStats(r) \/ Read(r) \/ Ignore(r) \/ Observe(r) \/ Count(r)

\* A render that has started to predict keeps running.
Fairness == \A r \in Renderers : WF_vars(LayoutStats(r) \/ Read(r))

Spec == Init /\ [][Next]_vars /\ Fairness

-----------------------------------------------------------------------------
\* The statistics that a render finds now for a yield size at a depth; Nobody
\* has allocated those that it cannot come to.
FoundIn(root, all, size, d) ==
    LET at[level \in 0 .. MaxDepth] ==
            IF level = 0 THEN Base(Bucket(size), root)
            ELSE Half(at[level - 1], WordsIn(all, at[level - 1]).refinement, size)
    IN  at[d]
Found(size, d) == FoundIn(buckets, stats, size, d)

Live == {s \in {Found(size, d) : size \in Yields, d \in 0 .. MaxDepth} : s.by # Nobody}

\* The observations that have been counted in some statistics, one by one.
Counted(S) == UNION {{s} \X (1 .. Words(s).samples) : s \in S}

Refined == {s \in DOMAIN stats : stats[s].refinement # Nobody}

Selecting == {"look", "consider", "refine", "reserve", "casChildren", "publish",
              "giveBack", "descend", "read", "rendering", "count"}

Bands == [lower : Nat, upper : Nat, level : 0 .. MaxDepth, by : Renderers \cup {Nobody}]

\* The words are counters and capped sizes, and every goroutine is at a point
\* of a render.
TypeOk ==
    /\ buckets \in Renderers \cup {Nobody}
    /\ children \in 0 .. MaxChildren
    /\ DOMAIN stats \subseteq Bands
    /\ \A s \in DOMAIN stats :
        stats[s] \in [samples : Nat, minimum : Nat, maximum : Nat,
                      refinement : Renderers \cup {Nobody}]
    /\ pc \in [Renderers -> Selecting \cup {"idle", "buckets", "newBuckets"}]
    /\ yield \in [Renderers -> Nat]
    /\ selected \in [Renderers -> Bands]
    /\ depth \in [Renderers -> 0 .. MaxDepth]
    /\ loaded \in [Renderers -> Nat \cup Renderers \cup {Nobody}]
    /\ fallback \in [Renderers -> Nat]
    /\ seen \in [Renderers -> Nat]
    /\ reported \in Nat

\* The counter of children is two for every refinement there is, and two for
\* every goroutine that holds a reservation: what is lost in a race is given
\* back, once.
ChildrenAccounted ==
    children = 2 * Cardinality(Refined)
             + 2 * Cardinality({r \in Renderers : pc[r] \in {"publish", "giveBack"}})

\* A goroutine holds statistics that others find too, at its depth, for a
\* range its yield size is in.
HeldStatsAreLive ==
    \A r \in Renderers : pc[r] \in Selecting =>
        /\ selected[r] = Found(yield[r], depth[r]) /\ selected[r] \in Live
        /\ selected[r].lower <= yield[r]
        /\ selected[r].upper = 0 \/ yield[r] <= selected[r].upper

\* No observation goes to statistics nobody reads, whatever was refined or
\* allocated while the page was rendered.
ObservationsKept ==
    Cardinality(Counted(Live)) = reported

\* A render that has to fall back on its parent's minimum has one, and no
\* observation of the parent has been smaller when it was read.
FallbackHasMinimum ==
    \A r \in Renderers : pc[r] = "rendering" /\ RefinementFallback(r) =>
        fallback[r] > 0 /\ fallback[r] \in Overheads

\* A refinement is final: nobody replaces it or takes it away.
RefinementsStay ==
    [][\A s \in Refined : stats'[s].refinement = stats[s].refinement]_vars

\* Who refined which statistics, and the samples of those that have any.
RefinedBy == [s \in Refined |-> stats[s].refinement]
Sampled   == [s \in {t \in DOMAIN stats : stats[t].samples > 0} |-> stats[s].samples]

\* The profile is a forest of ranges that is planted once, whose ranges are split
\* for a reason, once, and not too often, and that counts every observation.
Tree == INSTANCE SizeTree WITH
    Owners  <- Renderers,
    Bases   <- {Ranges[i] : i \in 1 .. 12},
    root    <- buckets,
    split   <- RefinedBy,
    splits  <- Cardinality(Refined),
    samples <- Sampled
ImplementsTree == Tree!Spec

\* Prediction ends although the loops repeat what others have changed.
PredictionsEnd == \A r \in Renderers : pc[r] = "buckets" ~> pc[r] = "rendering"

=============================================================================
