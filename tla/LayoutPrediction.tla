-------------------------- MODULE LayoutPrediction --------------------------
(***************************************************************************)
(* What the statistics of one range of yield sizes learn                   *)
(* (predict and observePrediction of                                       *)
(* vm/compiler/layout_output_size_profile.go): besides the absolute        *)
(* overhead, its ratio to the yield, and how wrong the two predictors have *)
(* been.  A render reads the words one after the other before it begins,   *)
(* and updates them with compare-and-swap loops when it has ended, with    *)
(* the number of samples that it had read.                                 *)
(*                                                                         *)
(* The ranges are those beyond the first, whose yields are not empty.  The *)
(* absolute overhead is the estimate of OutputSizeStats, which may be any  *)
(* of Estimates here.                                                      *)
(***************************************************************************)
EXTENDS Integers

CONSTANTS
    Renderers,      \* goroutines that render with one root template
    Yields,         \* yield sizes of the range
    Overheads,      \* overheads that are reported
    Estimates,      \* what OutputSizeStats may learn from them
    MaxGrowHint,    \* outputSizeStatsMaxGrowHint, 4 MiB in the code
    RatioScale,     \* layoutOutputRatioScale, 2^20
    ErrorScale,     \* layoutOutputErrorScale, 10^6
    MaxError,       \* layoutOutputErrorMaxPPM, 10^9
    MaxReports      \* bound on the number of renders of a behaviour

ASSUME SizesAssumption ==
    /\ Yields \subseteq Nat \ {0} /\ Overheads \subseteq Nat \ {0}
    /\ Estimates \subseteq 1 .. MaxGrowHint
ASSUME ScalesAssumption ==
    /\ MaxGrowHint \in Nat /\ RatioScale \in Nat \ {0} /\ ErrorScale \in Nat /\ MaxError \in Nat
    /\ MaxReports \in Nat

VARIABLES
    words,      \* ratio, absoluteErrorPPM and ratioErrorPPM
    estimate,   \* output.estimate
    samples,    \* output.samples
    pc,         \* where each goroutine is
    at,         \* the word that it updates
    yield,      \* its yield size
    overhead,   \* the overhead it reports
    prediction, \* LayoutOutputSizePrediction
    loaded,     \* what its loop has loaded
    learned,    \* history: the values each word has been moved towards
    reports     \* history: renders that have begun

shared == <<words, estimate, samples>>
locals == <<yield, overhead, prediction, loaded>>
vars   == <<shared, pc, at, locals, learned, reports>>

Words  == {"ratio", "absoluteError", "ratioError"}
Errors == Words \ {"ratio"}

Smaller(a, b) == IF a <= b THEN a ELSE b
Larger(a, b)  == IF a >= b THEN a ELSE b

-----------------------------------------------------------------------------
\* nextLayoutPredictionError: by an eighth of the distance, by 1 at least.
NextError(current, actual, seen) ==
    IF seen = 0 THEN actual
    ELSE IF current = actual THEN current
    ELSE IF actual > current THEN current + Larger(1, (actual - current) \div 8)
    ELSE current - Larger(1, (current - actual) \div 8)

\* Mutant: the step is half of the ratio seen, not an eighth of the distance.
NextRatioTooFar(current, actual, seen) ==
    IF seen = 0 \/ current = 0 THEN actual
    ELSE IF current = actual THEN current
    ELSE IF actual > current THEN current + Larger(1, actual \div 2)
    ELSE current - Larger(1, (current - actual) \div 8)

\* nextLayoutOutputRatio: the same, towards at most four times the ratio.  Ratios
\* are too small for the product to overflow.
NextRatio(current, actual, seen) ==
    IF seen = 0 \/ current = 0 THEN actual
    ELSE IF current = actual THEN current
    ELSE IF actual > current
         THEN current + Larger(1, (Smaller(actual, 4 * current) - current) \div 8)
    ELSE current - Larger(1, (current - actual) \div 8)

\* layoutOutputRatio, of a capped overhead, and layoutRatioOverhead which goes back.
OutputRatio(size, by) == (Smaller(size, MaxGrowHint) * RatioScale) \div by
RatioOverhead(by, ratio) ==
    IF ratio > (MaxGrowHint * RatioScale) \div by THEN MaxGrowHint
    ELSE Smaller((by * ratio) \div RatioScale, MaxGrowHint)

\* layoutPredictionErrorPPM, of the whole outputs.
Distance(a, b) == IF a >= b THEN a - b ELSE b - a
PredictionError(by, predicted, actual) ==
    Smaller((Distance(predicted, actual) * ErrorScale) \div (by + actual), MaxError)

-----------------------------------------------------------------------------
NoPrediction == [absolute |-> 0, absoluteError |-> 0, ratioError |-> 0, samples |-> 0, ratio |-> 0]

Init ==
    /\ words = [w \in Words |-> 0] /\ estimate = 0 /\ samples = 0
    /\ pc = [r \in Renderers |-> "idle"]
    /\ at = [r \in Renderers |-> "ratio"]
    /\ yield = [r \in Renderers |-> 0]
    /\ overhead = [r \in Renderers |-> 0]
    /\ prediction = [r \in Renderers |-> NoPrediction]
    /\ loaded = [r \in Renderers |-> 0]
    /\ learned = [w \in Words |-> {}]
    /\ reports = 0

Transition(r, from, to) ==
    /\ pc[r] = from
    /\ pc' = [pc EXCEPT ![r] = to]

\* predict: five loads, in this order.
Predict(r) ==
    /\ reports < MaxReports
    /\ Transition(r, "idle", "absolute")
    /\ \E size \in Yields : yield' = [yield EXCEPT ![r] = size]
    /\ reports' = reports + 1
    /\ UNCHANGED <<shared, at, overhead, prediction, loaded, learned>>

Read(r, from, to, known) ==
    /\ Transition(r, from, to)
    /\ prediction' = [prediction EXCEPT ![r] = known]
    /\ UNCHANGED <<shared, at, yield, overhead, loaded, learned, reports>>

ReadEstimate(r) ==
    Read(r, "absolute", "absoluteError", [prediction[r] EXCEPT !.absolute = estimate])
ReadAbsoluteError(r) ==
    Read(r, "absoluteError", "ratioError", [prediction[r] EXCEPT !.absoluteError = words["absoluteError"]])
ReadRatioError(r) ==
    Read(r, "ratioError", "samples", [prediction[r] EXCEPT !.ratioError = words["ratioError"]])
ReadSamples(r) ==
    Read(r, "samples", "ratio", [prediction[r] EXCEPT !.samples = samples])
ReadRatio(r) ==
    Read(r, "ratio", "rendering", [prediction[r] EXCEPT !.ratio = words["ratio"]])

\* The overhead by the ratio, and whether it is preferred to the absolute one.
PredictedByRatio(r) == RatioOverhead(yield[r], prediction[r].ratio)
UsesRatio(r) ==
    /\ prediction[r].samples >= 2 /\ PredictedByRatio(r) > 0
    /\ prediction[r].ratioError * 8 < prediction[r].absoluteError * 7

-----------------------------------------------------------------------------
\* What the render teaches a word, and the word's next value.
Actual(r, w) ==
    CASE w = "ratio"         -> OutputRatio(overhead[r], yield[r])
      [] w = "absoluteError" -> PredictionError(yield[r], prediction[r].absolute, overhead[r])
      [] w = "ratioError"    -> PredictionError(yield[r], PredictedByRatio(r), overhead[r])
NextWord(r, w, current) ==
    IF w = "ratio" THEN NextRatio(current, Actual(r, w), prediction[r].samples)
    ELSE NextError(current, Actual(r, w), prediction[r].samples - 1)

\* Mutant: the first renders teach no ratio.
ReportPredicted(r) ==
    /\ Transition(r, "rendering", IF prediction[r].samples > 0 THEN "load" ELSE "output")
    /\ \E size \in Overheads : overhead' = [overhead EXCEPT ![r] = size]
    /\ at' = [at EXCEPT ![r] = "absoluteError"]
    /\ UNCHANGED <<shared, yield, prediction, loaded, learned, reports>>

\* Observe, with a positive overhead.  Without samples there was no prediction
\* to score, and without a ratio none that was made by it.
Report(r) ==
    /\ Transition(r, "rendering", "load")
    /\ \E size \in Overheads : overhead' = [overhead EXCEPT ![r] = size]
    /\ at' = [at EXCEPT ![r] = IF prediction[r].samples > 0 THEN "absoluteError" ELSE "ratio"]
    /\ UNCHANGED <<shared, yield, prediction, loaded, learned, reports>>

Forget(r) ==
    /\ yield' = [yield EXCEPT ![r] = 0]
    /\ overhead' = [overhead EXCEPT ![r] = 0]
    /\ prediction' = [prediction EXCEPT ![r] = NoPrediction]
    /\ loaded' = [loaded EXCEPT ![r] = 0]

\* An overhead that is not positive is ignored, and a render that fails does
\* not report.
Ignore(r) ==
    /\ Transition(r, "rendering", "idle")
    /\ Forget(r)
    /\ UNCHANGED <<shared, at, learned, reports>>

\* One loop for each word: load, then swap or load again.
LoadWord(r) ==
    /\ Transition(r, "load", "swap")
    /\ loaded' = [loaded EXCEPT ![r] = words[at[r]]]
    /\ UNCHANGED <<shared, at, yield, overhead, prediction, learned, reports>>

WordAfter(r) ==
    IF at[r] = "absoluteError" /\ PredictedByRatio(r) > 0 THEN "ratioError" ELSE "ratio"

SwapWord(r) ==
    /\ words[at[r]] = loaded[r]
    /\ Transition(r, "swap", IF at[r] = "ratio" THEN "output" ELSE "load")
    /\ words' = [words EXCEPT ![at[r]] = NextWord(r, at[r], loaded[r])]
    /\ learned' = [learned EXCEPT ![at[r]] = @ \cup {Actual(r, at[r])}]
    /\ at' = [at EXCEPT ![r] = WordAfter(r)]
    /\ UNCHANGED <<estimate, samples, locals, reports>>

RetryWord(r) ==
    /\ words[at[r]] # loaded[r]
    /\ Transition(r, "swap", "load")
    /\ UNCHANGED <<shared, at, locals, learned, reports>>

\* output.Observe comes last: the estimate, and then the number of samples.
\* OutputSizeStats has the steps in between.
ObserveOutput(r) ==
    /\ Transition(r, "output", "count")
    /\ \E size \in Estimates : estimate' = size
    /\ UNCHANGED <<words, samples, at, locals, learned, reports>>

Count(r) ==
    /\ Transition(r, "count", "idle")
    /\ samples' = samples + 1
    /\ Forget(r)
    /\ UNCHANGED <<words, estimate, at, learned, reports>>

-----------------------------------------------------------------------------
Reading(r)   == ReadEstimate(r) \/ ReadAbsoluteError(r) \/ ReadRatioError(r) \/ ReadSamples(r)
                \/ ReadRatio(r)
Observing(r) == LoadWord(r) \/ SwapWord(r) \/ RetryWord(r) \/ ObserveOutput(r) \/ Count(r)

Next == \E r \in Renderers : Predict(r) \/ Reading(r) \/ Report(r) \/ Ignore(r) \/ Observing(r)

Spec == Init /\ [][Next]_vars

-----------------------------------------------------------------------------
Points == {"idle", "absolute", "absoluteError", "ratioError", "samples", "ratio", "rendering",
           "load", "swap", "output", "count"}

Predictions == [absolute : Nat, absoluteError : Nat, ratioError : Nat, samples : Nat, ratio : Nat]

\* The words are counters and capped sizes, and a goroutine that updates an
\* error has made the prediction whose error it is.
TypeOk ==
    /\ words \in [Words -> Nat] /\ estimate \in Nat /\ samples \in Nat /\ reports \in Nat
    /\ pc \in [Renderers -> Points]
    /\ at \in [Renderers -> Words]
    /\ yield \in [Renderers -> Yields \cup {0}]
    /\ \A r \in Renderers : pc[r] # "idle" => yield[r] \in Yields
    /\ overhead \in [Renderers -> Overheads \cup {0}]
    /\ \A r \in Renderers : pc[r] \in {"load", "swap", "output", "count"} => overhead[r] \in Overheads
    /\ prediction \in [Renderers -> Predictions]
    /\ \A r \in Renderers : pc[r] \in {"load", "swap"} /\ at[r] \in Errors => prediction[r].samples > 0
    /\ loaded \in [Renderers -> Nat]
    /\ learned \in [Words -> SUBSET Nat]

Below(n, values)  == \E v \in values : n <= v
Within(n, values) == Below(n, values) /\ \E v \in values : v <= n

\* Although the samples that decide about the size of a step are out of date
\* when it is taken, and several first renders each replace what the others
\* learned, the ratio is always between the smallest and the largest ratio
\* seen, and no error is larger than the largest one seen.
LearnedWithinRange ==
    /\ words["ratio"] # 0 => Within(words["ratio"], learned["ratio"])
    /\ \A w \in Errors : words[w] # 0 => Below(words[w], learned[w])

\* A render that has seen a sample also has a ratio that some renders had, and
\* it prefers the ratio only if an absolute prediction has been that wrong,
\* although it has read the words at five different times.
PredictionIsGrounded ==
    \A r \in Renderers : pc[r] = "rendering" =>
        /\ prediction[r].samples > 0 => Within(prediction[r].ratio, learned["ratio"])
        /\ UsesRatio(r) => \E e \in learned["absoluteError"] : prediction[r].ratioError * 8 < e * 7

=============================================================================
