-------------------------- MODULE AtomicSizeStats --------------------------
(***************************************************************************)
(* What the output-size statistics promise, without loads, swaps and       *)
(* retries: each word takes a reported size into account in one step.      *)
(*                                                                         *)
(* An observation lowers the minimum, raises the maximum, moves the        *)
(* estimate towards its size, moves the headroom if the render was         *)
(* planned, and is counted, in this order.  A planner is told that the     *)
(* sizes are unstable only when they are.                                  *)
(***************************************************************************)
EXTENDS Integers

CONSTANTS
    Renderers,      \* who reports sizes
    Planners,       \* who asks about them
    MaxSize,        \* the largest size that is told from larger ones
    MaxHeadroom

VARIABLES
    minimum, maximum, estimate, headroom, samples,
    stage,          \* which word each observation comes to next
    size, planned,  \* what it reports
    looked,         \* it has seen that others were counted
    verdict         \* what each planner has been told

words == <<minimum, maximum, estimate, headroom, samples>>
vars  == <<words, stage, size, planned, looked, verdict>>

Init ==
    /\ minimum = 0 /\ maximum = 0 /\ estimate = 0 /\ headroom = 0 /\ samples = 0
    /\ stage = [r \in Renderers |-> "none"]
    /\ size = [r \in Renderers |-> 0] /\ planned = [r \in Renderers |-> 0]
    /\ looked = [r \in Renderers |-> FALSE]
    /\ verdict = [q \in Planners |-> FALSE]

Enter(r, from, to) ==
    /\ stage[r] = from
    /\ stage' = [stage EXCEPT ![r] = to]

Report(r) ==
    /\ Enter(r, "none", "minimum")
    /\ \E n \in 1 .. MaxSize : size' = [size EXCEPT ![r] = n]
    /\ \E n \in 0 .. MaxSize : planned' = [planned EXCEPT ![r] = n]
    /\ UNCHANGED <<words, looked, verdict>>

Lower(r) ==
    /\ Enter(r, "minimum", "maximum")
    /\ minimum' = IF minimum = 0 \/ size[r] < minimum THEN size[r] ELSE minimum
    /\ UNCHANGED <<maximum, estimate, headroom, samples, size, planned, looked, verdict>>

Raise(r) ==
    /\ Enter(r, "maximum", "estimate")
    /\ maximum' = IF size[r] > maximum THEN size[r] ELSE maximum
    /\ UNCHANGED <<minimum, estimate, headroom, samples, size, planned, looked, verdict>>

Look(r) ==
    /\ stage[r] = "estimate"
    /\ looked' = [looked EXCEPT ![r] = samples # 0]
    /\ UNCHANGED <<words, stage, size, planned, verdict>>

\* By one at least, not past n, and up to four times the old value at most.
Towards(old, n) ==
    {e \in 1 .. MaxSize :
        \/ e = old /\ old = n
        \/ old < e /\ e <= n /\ e <= 4 * old
        \/ n <= e /\ e < old}

Learn(r) ==
    /\ Enter(r, "estimate", IF planned[r] > 0 THEN "headroom" ELSE "count")
    /\ IF estimate = 0 \/ ~looked[r] THEN estimate' = size[r]
                                     ELSE estimate' \in Towards(estimate, size[r])
    /\ UNCHANGED <<minimum, maximum, headroom, samples, size, planned, looked, verdict>>

\* What was missing, within the limit, is remembered, and forgotten bit by bit.
Track(r) ==
    /\ Enter(r, "headroom", "count")
    /\ headroom' \in 0 .. MaxHeadroom
    /\ IF size[r] > planned[r]
       THEN /\ headroom' >= headroom
            /\ headroom' > headroom => headroom' <= size[r] - planned[r]
            /\ headroom' >= size[r] - planned[r] \/ headroom' = MaxHeadroom
       ELSE headroom' < headroom \/ headroom' = 0
    /\ UNCHANGED <<minimum, maximum, estimate, samples, size, planned, looked, verdict>>

Count(r) ==
    /\ Enter(r, "count", "none")
    /\ samples' = samples + 1
    /\ size' = [size EXCEPT ![r] = 0] /\ planned' = [planned EXCEPT ![r] = 0]
    /\ looked' = [looked EXCEPT ![r] = FALSE]
    /\ UNCHANGED <<minimum, maximum, estimate, headroom, verdict>>

\* The sizes are unstable now, and will be from now on.
Affirm(q) ==
    /\ samples >= 2 /\ minimum > 0 /\ maximum >= 4 * minimum
    /\ verdict' = [verdict EXCEPT ![q] = TRUE]
    /\ UNCHANGED <<words, stage, size, planned, looked>>

Deny(q) ==
    /\ verdict' = [verdict EXCEPT ![q] = FALSE]
    /\ UNCHANGED <<words, stage, size, planned, looked>>

Next ==
    \/ \E r \in Renderers :
         Report(r) \/ Lower(r) \/ Raise(r) \/ Look(r) \/ Learn(r) \/ Track(r) \/ Count(r)
    \/ \E q \in Planners : Affirm(q) \/ Deny(q)

Spec == Init /\ [][Next]_vars

=============================================================================
