------------------------------ MODULE SizeTree ------------------------------
(***************************************************************************)
(* What the layout profile promises, without saying how goroutines come    *)
(* by its statistics or agree about them.                                  *)
(*                                                                         *)
(* There is a forest of ranges, planted once.  A range of it that is deep  *)
(* and wide enough is split once, for good, after MinSamples observations  *)
(* of it, and only so often in the whole forest.  An observation is of a   *)
(* range in the forest, and every one counts.                              *)
(***************************************************************************)
EXTENDS Integers

CONSTANTS
    Owners,         \* who may plant and split
    Nobody,
    Bases,          \* the ranges at the top
    MinSamples, MaxDepth, MinWidth, MaxChildren

VARIABLES
    root,           \* who has planted, or Nobody
    split,          \* who has split each range that is split
    splits,         \* how many these are
    samples         \* the observations of each range that has any

vars == <<root, split, splits, samples>>

Halves(s, by) ==
    LET middle == s.lower + (s.upper - s.lower) \div 2
    IN  {[lower |-> s.lower, upper |-> middle, level |-> s.level + 1, by |-> by],
         [lower |-> middle, upper |-> s.upper, level |-> s.level + 1, by |-> by]}

Top == {[lower |-> b[1], upper |-> b[2], level |-> 0, by |-> root] : b \in Bases}

Forest ==
    (IF root = Nobody THEN {} ELSE Top) \cup UNION {Halves(s, split[s]) : s \in DOMAIN split}

Samples(s) == IF s \in DOMAIN samples THEN samples[s] ELSE 0

With(f, s, value) == [t \in DOMAIN f \cup {s} |-> IF t = s THEN value ELSE f[t]]

Init ==
    /\ root = Nobody
    /\ split = [s \in {} |-> Nobody] /\ splits = 0
    /\ samples = [s \in {} |-> 0]

Plant ==
    /\ root = Nobody
    /\ root' \in Owners
    /\ UNCHANGED <<split, splits, samples>>

Split(s) ==
    /\ s \notin DOMAIN split
    /\ s.level < MaxDepth /\ s.upper - s.lower >= 2 * MinWidth
    /\ Samples(s) >= MinSamples
    /\ 2 * splits + 2 <= MaxChildren
    /\ \E by \in Owners : split' = With(split, s, by)
    /\ splits' = splits + 1
    /\ UNCHANGED <<root, samples>>

Record(s) ==
    /\ samples' = With(samples, s, Samples(s) + 1)
    /\ UNCHANGED <<root, split, splits>>

Next == Plant \/ \E s \in Forest : Split(s) \/ Record(s)

Spec == Init /\ [][Next]_vars

=============================================================================
