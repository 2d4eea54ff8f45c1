----------------------- MODULE LayoutPredictionProofs -----------------------
(***************************************************************************)
(* That the words of LayoutPrediction stay within what has been seen, and  *)
(* that a prediction rests on it, for any renderers, yields, overheads and *)
(* scales: no compare-and-swap loop has to see the samples it was planned  *)
(* with.                                                                   *)
(***************************************************************************)
EXTENDS LayoutPrediction, TLAPS

Seen == Within(words["ratio"], learned["ratio"])

\* The ratio is stored before the sample is counted, and whoever has read a
\* sample reads the ratio after it.
SampledHasRatio ==
    /\ samples > 0 => Seen
    /\ \A r \in Renderers :
        /\ pc[r] \in {"output", "count"} => Seen
        /\ pc[r] = "ratio" /\ prediction[r].samples > 0 => Seen
        /\ pc[r] = "rendering" /\ prediction[r].samples > 0 =>
               Within(prediction[r].ratio, learned["ratio"])

\* An error that a render has read was at most one that had been seen.
ErrorsWereSeen ==
    \A r \in Renderers :
        prediction[r].absoluteError # 0 =>
            Below(prediction[r].absoluteError, learned["absoluteError"])

IInv == TypeOk /\ LearnedWithinRange /\ SampledHasRatio /\ ErrorsWereSeen

-----------------------------------------------------------------------------
\* A quotient of natural numbers is one.
LEMMA QuotientNat ==
    ASSUME NEW a \in Nat, NEW b \in Nat \ {0}
    PROVE  a \div b \in Nat
OBVIOUS

\* The next error is not above both the present one and the one just seen.
LEMMA NextErrorBounds ==
    ASSUME NEW current \in Nat, NEW actual \in Nat, NEW seen \in Nat
    PROVE  /\ NextError(current, actual, seen) \in Nat
           /\ \/ NextError(current, actual, seen) <= actual
              \/ NextError(current, actual, seen) <= current
<1>1. CASE seen = 0 \/ current = actual
  BY <1>1 DEF NextError
<1>2. CASE seen # 0 /\ actual > current
  BY <1>2 DEF NextError, Larger
<1>3. CASE seen # 0 /\ actual < current
  BY <1>3 DEF NextError, Larger
<1> QED
  BY <1>1, <1>2, <1>3

\* The next ratio lies between the present one, if there is one, and the one
\* just seen.
LEMMA NextRatioBetween ==
    ASSUME NEW current \in Nat, NEW actual \in Nat, NEW seen \in Nat
    PROVE  LET next == NextRatio(current, actual, seen) IN
           /\ next \in Nat
           /\ current = 0 => next = actual
           /\ \/ current <= next /\ next <= actual
              \/ actual <= next /\ next <= current
              \/ next = actual
<1>1. CASE seen = 0 \/ current = 0 \/ current = actual
  BY <1>1 DEF NextRatio
<1>2. CASE seen # 0 /\ current # 0 /\ actual > current
  <2> DEFINE reach == Smaller(actual, 4 * current)
             step  == Larger(1, (reach - current) \div 8)
  <2>1. reach \in Nat /\ current < reach /\ reach <= actual
    BY <1>2 DEF Smaller
  <2>2. step \in Nat /\ current + step <= reach
    BY <2>1 DEF Larger
  <2>3. NextRatio(current, actual, seen) = current + step
    BY <1>2 DEF NextRatio
  <2> QED
    BY <1>2, <2>1, <2>2, <2>3
<1>3. CASE seen # 0 /\ current # 0 /\ actual < current
  BY <1>3 DEF NextRatio, Larger
<1> QED
  BY <1>1, <1>2, <1>3

\* What lies between two numbers that are within a set is within it.
LEMMA BetweenWithin ==
    ASSUME NEW values \in SUBSET Nat, NEW a \in Nat, NEW b \in values, NEW n \in Nat,
           a # 0 => Within(a, values),
           a = 0 => n = b,
           (a <= n /\ n <= b) \/ (b <= n /\ n <= a) \/ n = b
    PROVE  Within(n, values)
<1>1. CASE n = b
  BY <1>1 DEF Within, Below
<1>2. CASE a # 0 /\ n # b
  <2>1. PICK low \in values : low <= a
    BY <1>2 DEF Within
  <2>2. PICK high \in values : a <= high
    BY <1>2 DEF Within, Below
  <2>3. low \in Nat /\ high \in Nat /\ b \in Nat /\ (a <= n \/ b <= n) /\ (n <= a \/ n <= b)
    BY <1>2
  <2>4. (low <= n \/ b <= n) /\ (n <= high \/ n <= b)
    BY <2>1, <2>2, <2>3
  <2>5. Below(n, values)
    BY <2>4 DEF Below
  <2> QED
    BY <2>4, <2>5 DEF Within
<1> QED
  BY <1>1, <1>2

\* A member that is not smaller is an upper bound.
LEMMA BelowIntro ==
    ASSUME NEW values, NEW v \in values, NEW n, n <= v
    PROVE  Below(n, values)
BY DEF Below

\* The bounds of a set are bounds of a larger one.
LEMMA WithinGrows ==
    ASSUME NEW values, NEW more, values \subseteq more, NEW n
    PROVE  /\ Below(n, values) => Below(n, more)
           /\ Within(n, values) => Within(n, more)
BY DEF Below, Within

\* What a render teaches is a number.
LEMMA ActualNat ==
    ASSUME TypeOk, NEW r \in Renderers, NEW w \in Words,
           overhead[r] \in Overheads, yield[r] \in Yields
    PROVE  Actual(r, w) \in Nat
<1> DEFINE p == prediction[r]
<1>1. /\ yield[r] \in Nat \ {0} /\ overhead[r] \in Nat
      /\ p.absolute \in Nat /\ p.ratio \in Nat
  <2>1. p \in Predictions
    BY DEF TypeOk
  <2>2. yield[r] \in Nat \ {0}
    BY SizesAssumption
  <2>3. overhead[r] \in Nat
    BY SizesAssumption
  <2> QED
    BY <2>1, <2>2, <2>3 DEF Predictions
<1>2. ASSUME NEW predicted \in Nat
      PROVE  PredictionError(yield[r], predicted, overhead[r]) \in Nat
  <2>1. Distance(predicted, overhead[r]) \in Nat
    BY <1>1 DEF Distance
  <2>2. Distance(predicted, overhead[r]) * ErrorScale \in Nat
    BY <2>1, ScalesAssumption
  <2>3. yield[r] + overhead[r] \in Nat \ {0}
    BY <1>1
  <2>4. (Distance(predicted, overhead[r]) * ErrorScale) \div (yield[r] + overhead[r]) \in Nat
    BY <2>2, <2>3, QuotientNat
  <2> QED
    BY <2>4, ScalesAssumption DEF PredictionError, Smaller
<1>3. PredictedByRatio(r) \in Nat
  <2>1. yield[r] * p.ratio \in Nat
    BY <1>1
  <2>2. (yield[r] * p.ratio) \div RatioScale \in Nat
    BY <2>1, ScalesAssumption, QuotientNat
  <2> QED
    BY <2>2, ScalesAssumption DEF PredictedByRatio, RatioOverhead, Smaller
<1>4. OutputRatio(overhead[r], yield[r]) \in Nat
  <2>1. Smaller(overhead[r], MaxGrowHint) * RatioScale \in Nat
    BY <1>1, ScalesAssumption DEF Smaller
  <2> QED
    BY <1>1, <2>1, QuotientNat DEF OutputRatio
<1> QED
  BY <1>1, <1>2, <1>3, <1>4 DEF Actual, Words

-----------------------------------------------------------------------------
\* What an update of a word stores is a number, and the range of what has been
\* learned still holds it.
LEMMA NextWordWithin ==
    ASSUME TypeOk, LearnedWithinRange, NEW r \in Renderers, pc[r] = "swap",
           words[at[r]] = loaded[r]
    PROVE  LET w == at[r]
               next == NextWord(r, w, loaded[r])
               more == learned[w] \cup {Actual(r, w)}
           IN  /\ next \in Nat /\ Actual(r, w) \in Nat
               /\ w = "ratio" => Within(next, more)
               /\ w # "ratio" => Below(next, more)
<1> DEFINE w == at[r]
           more == learned[w] \cup {Actual(r, w)}
<1>1. /\ w \in Words /\ loaded[r] \in Nat /\ prediction[r].samples \in Nat
      /\ more \in SUBSET Nat /\ Actual(r, w) \in Nat
  <2>1. overhead[r] \in Overheads /\ yield[r] \in Yields /\ w \in Words
    BY DEF TypeOk
  <2>2. Actual(r, w) \in Nat
    BY <2>1, ActualNat
  <2> QED
    BY <2>1, <2>2 DEF TypeOk, Predictions
<1>2. CASE w = "ratio"
  <2> DEFINE next == NextRatio(loaded[r], Actual(r, w), prediction[r].samples)
  <2>1. NextWord(r, w, loaded[r]) = next
    BY <1>2 DEF NextWord
  <2>2. /\ next \in Nat
        /\ loaded[r] = 0 => next = Actual(r, w)
        /\ \/ loaded[r] <= next /\ next <= Actual(r, w)
           \/ Actual(r, w) <= next /\ next <= loaded[r]
           \/ next = Actual(r, w)
    BY <1>1, NextRatioBetween
  <2>3. loaded[r] # 0 => Within(loaded[r], more)
    <3>1. loaded[r] # 0 => Within(loaded[r], learned[w])
      BY <1>2 DEF LearnedWithinRange
    <3> HIDE DEF w
    <3> QED
      BY <3>1, WithinGrows
  <2>4. Within(next, more)
    <3> HIDE DEF next
    <3> QED
      BY <1>1, <2>2, <2>3, BetweenWithin
  <2> QED
    BY <1>1, <1>2, <2>1, <2>2, <2>4
<1>3. CASE w # "ratio"
  <2> DEFINE next == NextError(loaded[r], Actual(r, w), prediction[r].samples - 1)
  <2>1. NextWord(r, w, loaded[r]) = next
    BY <1>3 DEF NextWord
  <2>2. prediction[r].samples - 1 \in Nat
    BY <1>1, <1>3 DEF TypeOk, Errors
  <2>3. next \in Nat /\ (next <= Actual(r, w) \/ next <= loaded[r])
    BY <1>1, <2>2, NextErrorBounds
  <2> HIDE DEF next
  <2>4. ASSUME next <= Actual(r, w) PROVE Below(next, more)
    BY <2>4, BelowIntro
  <2>5. ASSUME next <= loaded[r], ~ next <= Actual(r, w) PROVE Below(next, more)
    <3>1. loaded[r] # 0
      BY <1>1, <2>3, <2>5
    <3>2. Below(loaded[r], learned[w])
      BY <1>1, <1>3, <3>1 DEF LearnedWithinRange, Errors
    <3>3. PICK v \in learned[w] : loaded[r] <= v
      BY <3>2 DEF Below
    <3>4. v \in Nat
      BY <1>1
    <3>5. next <= v
      BY <1>1, <2>3, <2>5, <3>3, <3>4
    <3>6. v \in more
      BY <3>3
    <3> QED
      BY <3>5, <3>6, BelowIntro
  <2>6. Below(next, more)
    BY <2>3, <2>4, <2>5
  <2> QED
    BY <1>1, <1>3, <2>1, <2>3, <2>6
<1> QED
  BY <1>2, <1>3

-----------------------------------------------------------------------------
\* At the start nothing has been learned, and no word holds anything.
LEMMA InitIInv == Init => IInv
BY DEF Init, IInv, TypeOk, LearnedWithinRange, SampledHasRatio, ErrorsWereSeen, Words, Errors,
       Points, Predictions, NoPrediction

\* Every step keeps the types.
LEMMA TypeStep == IInv /\ [Next]_vars => TypeOk'
<1> SUFFICES ASSUME IInv, [Next]_vars PROVE TypeOk'
  OBVIOUS
<1> USE DEF TypeOk
<1>0. TypeOk /\ NoPrediction \in Predictions
  BY DEF IInv, NoPrediction, Predictions
<1>1. ASSUME NEW r \in Renderers, Predict(r) PROVE TypeOk'
  BY <1>0, <1>1 DEF Predict, Transition, shared, Points
<1>2. ASSUME NEW r \in Renderers, Reading(r) PROVE TypeOk'
  <2>1. CASE ReadEstimate(r)
    BY <1>0, <2>1 DEF ReadEstimate, Read, Transition, shared, Points, Predictions
  <2>2. CASE ReadAbsoluteError(r)
    BY <1>0, <2>2 DEF ReadAbsoluteError, Read, Transition, shared, Points, Predictions, Words
  <2>3. CASE ReadRatioError(r)
    BY <1>0, <2>3 DEF ReadRatioError, Read, Transition, shared, Points, Predictions, Words
  <2>4. CASE ReadSamples(r)
    BY <1>0, <2>4 DEF ReadSamples, Read, Transition, shared, Points, Predictions
  <2>5. CASE ReadRatio(r)
    BY <1>0, <2>5 DEF ReadRatio, Read, Transition, shared, Points, Predictions, Words
  <2> QED
    BY <1>2, <2>1, <2>2, <2>3, <2>4, <2>5 DEF Reading
<1>3. ASSUME NEW r \in Renderers, Report(r) PROVE TypeOk'
  BY <1>0, <1>3 DEF Report, Transition, shared, Points, Words, Errors, Predictions
<1>4. ASSUME NEW r \in Renderers, Ignore(r) PROVE TypeOk'
  BY <1>0, <1>4 DEF Ignore, Forget, Transition, shared, Points
<1>5. ASSUME NEW r \in Renderers, Observing(r) PROVE TypeOk'
  <2>1. CASE LoadWord(r)
    BY <1>0, <2>1 DEF LoadWord, Transition, shared, Points
  <2>2. CASE SwapWord(r)
    <3>1. NextWord(r, at[r], loaded[r]) \in Nat /\ Actual(r, at[r]) \in Nat
      BY <1>0, <2>2, NextWordWithin DEF IInv, SwapWord, Transition
    <3>2. WordAfter(r) \in Words
      BY DEF WordAfter, Words
    <3>3. at[r] = "ratio" \/ (at[r] \in Errors /\ prediction[r].samples > 0)
      BY <1>0, <2>2 DEF SwapWord, Transition, Errors, Words
    <3>4. words' \in [Words -> Nat] /\ learned' \in [Words -> SUBSET Nat]
      BY <1>0, <2>2, <3>1 DEF SwapWord
    <3>5. pc' \in [Renderers -> Points] /\ at' \in [Renderers -> Words]
      BY <1>0, <2>2, <3>2 DEF SwapWord, Transition, Points
    <3>6. \A q \in Renderers : pc'[q] \in {"load", "swap"} /\ at'[q] \in Errors =>
              prediction'[q].samples > 0
      BY <1>0, <2>2, <3>3 DEF SwapWord, Transition, locals, Errors
    <3> QED
      BY <1>0, <2>2, <3>4, <3>5, <3>6 DEF SwapWord, Transition, locals
  <2>3. CASE RetryWord(r)
    BY <1>0, <2>3 DEF RetryWord, Transition, shared, locals, Points
  <2>4. CASE ObserveOutput(r)
    BY <1>0, <2>4, SizesAssumption, ScalesAssumption
       DEF ObserveOutput, Transition, locals, Points
  <2>5. CASE Count(r)
    BY <1>0, <2>5 DEF Count, Forget, Transition, Points
  <2> QED
    BY <1>5, <2>1, <2>2, <2>3, <2>4, <2>5 DEF Observing
<1>6. CASE UNCHANGED vars
  BY <1>0, <1>6 DEF vars, shared, locals
<1> QED
  BY <1>1, <1>2, <1>3, <1>4, <1>5, <1>6 DEF Next

-----------------------------------------------------------------------------
\* Only an update of a word changes the words and what they have learned.
LEMMA OtherSteps ==
    ASSUME NEW r \in Renderers,
           Predict(r) \/ Reading(r) \/ Report(r) \/ Ignore(r) \/ Observing(r)
    PROVE  SwapWord(r) \/ UNCHANGED <<words, learned>>
BY DEF Predict, Reading, ReadEstimate, ReadAbsoluteError, ReadRatioError, ReadSamples, ReadRatio,
       Read, Report, Ignore, Observing, LoadWord, RetryWord, ObserveOutput, Count, shared, locals

\* What has been learned is not forgotten, and the words stay within it.
LEMMA LearnedStep ==
    IInv /\ [Next]_vars =>
        /\ LearnedWithinRange'
        /\ \A w \in Words : learned[w] \subseteq learned'[w]
        /\ Seen => Seen'
<1> SUFFICES ASSUME IInv, [Next]_vars
             PROVE  /\ LearnedWithinRange'
                    /\ \A w \in Words : learned[w] \subseteq learned'[w]
                    /\ Seen => Seen'
  OBVIOUS
<1>1. CASE UNCHANGED <<words, learned>>
  BY <1>1 DEF IInv, LearnedWithinRange, Seen
<1>2. ASSUME NEW r \in Renderers, SwapWord(r)
      PROVE  /\ LearnedWithinRange'
             /\ \A w \in Words : learned[w] \subseteq learned'[w]
             /\ Seen => Seen'
  <2> DEFINE more == learned[at[r]] \cup {Actual(r, at[r])}
             next == NextWord(r, at[r], loaded[r])
  <2>1. /\ at[r] \in Words /\ words \in [Words -> Nat] /\ learned \in [Words -> SUBSET Nat]
        /\ words' = [words EXCEPT ![at[r]] = next]
        /\ learned' = [learned EXCEPT ![at[r]] = more]
    BY <1>2 DEF IInv, TypeOk, SwapWord
  <2>2. /\ at[r] = "ratio" => Within(next, more)
        /\ at[r] # "ratio" => Below(next, more)
    BY <1>2, NextWordWithin DEF IInv, SwapWord, Transition
  <2>3. "ratio" \in Words /\ Errors \subseteq Words /\ "ratio" \notin Errors
    BY DEF Words, Errors
  <2> HIDE DEF more, next
  <2>4. \A w \in Words : w # at[r] => words'[w] = words[w] /\ learned'[w] = learned[w]
    BY <2>1
  <2>5. words'[at[r]] = next /\ learned'[at[r]] = more
    BY <2>1
  <2>6. LearnedWithinRange'
    <3>1. words'["ratio"] # 0 => Within(words'["ratio"], learned'["ratio"])
      BY <2>2, <2>3, <2>4, <2>5 DEF IInv, LearnedWithinRange
    <3>2. ASSUME NEW w \in Errors, words'[w] # 0 PROVE Below(words'[w], learned'[w])
      BY <2>2, <2>3, <2>4, <2>5, <3>2 DEF IInv, LearnedWithinRange
    <3> QED
      BY <3>1, <3>2 DEF LearnedWithinRange, Within, Below
  <2>7. \A w \in Words : learned[w] \subseteq learned'[w]
    BY <2>4, <2>5 DEF more
  <2>8. Seen => Seen'
    <3>1. Seen => Within(words'["ratio"], learned'["ratio"])
      BY <2>2, <2>3, <2>4, <2>5 DEF Seen
    <3> QED
      BY <3>1 DEF Seen, Within, Below
  <2> QED
    BY <2>6, <2>7, <2>8
<1>3. UNCHANGED vars \/ \E r \in Renderers : SwapWord(r) \/ UNCHANGED <<words, learned>>
  BY OtherSteps DEF Next
<1> QED
  BY <1>1, <1>2, <1>3 DEF vars, shared

-----------------------------------------------------------------------------
\* Whoever has counted or read a sample does it after a ratio was stored.
LEMMA SampledStep == IInv /\ [Next]_vars => SampledHasRatio'
<1> SUFFICES ASSUME IInv, [Next]_vars PROVE SampledHasRatio'
  OBVIOUS
<1>1. /\ \A w \in Words : learned[w] \subseteq learned'[w]
      /\ Seen => Seen'
  BY LearnedStep
<1>2. /\ "ratio" \in Words
      /\ \A n : Within(n, learned["ratio"]) => Within(n, learned'["ratio"])
  BY <1>1, WithinGrows DEF Words
<1>3. TypeOk /\ SampledHasRatio
  BY DEF IInv
<1>4. ASSUME NEW r \in Renderers, Predict(r) PROVE SampledHasRatio'
  BY <1>1, <1>2, <1>3, <1>4 DEF Predict, Transition, TypeOk, SampledHasRatio, shared
<1>5. ASSUME NEW r \in Renderers, Reading(r) PROVE SampledHasRatio'
  <2>1. CASE ReadEstimate(r) \/ ReadAbsoluteError(r) \/ ReadRatioError(r)
    BY <1>1, <1>2, <1>3, <2>1
       DEF ReadEstimate, ReadAbsoluteError, ReadRatioError, Read, Transition, TypeOk,
           SampledHasRatio, shared
  <2>2. CASE ReadSamples(r)
    BY <1>1, <1>2, <1>3, <2>2
       DEF ReadSamples, Read, Transition, TypeOk, SampledHasRatio, shared, Predictions
  <2>3. CASE ReadRatio(r)
    <3>1. UNCHANGED <<words, learned, samples>>
      BY <2>3 DEF ReadRatio, Read, shared
    <3>2. prediction'[r].samples > 0 => Within(prediction'[r].ratio, learned'["ratio"])
      BY <1>3, <2>3, <3>1
         DEF ReadRatio, Read, Transition, TypeOk, SampledHasRatio, Seen, Predictions
    <3>3. \A q \in Renderers : q # r => pc'[q] = pc[q] /\ prediction'[q] = prediction[q]
      BY <1>3, <2>3 DEF ReadRatio, Read, Transition, TypeOk
    <3>4. pc'[r] = "rendering"
      BY <1>3, <2>3 DEF ReadRatio, Read, Transition, TypeOk
    <3> QED
      BY <1>1, <1>2, <1>3, <3>1, <3>2, <3>3, <3>4 DEF SampledHasRatio
  <2> QED
    BY <1>5, <2>1, <2>2, <2>3 DEF Reading
<1>6. ASSUME NEW r \in Renderers, Report(r) \/ Ignore(r) PROVE SampledHasRatio'
  BY <1>1, <1>2, <1>3, <1>6 DEF Report, Ignore, Forget, Transition, TypeOk, SampledHasRatio, shared,
     NoPrediction
<1>7. ASSUME NEW r \in Renderers, Observing(r) PROVE SampledHasRatio'
  <2>1. CASE SwapWord(r)
    <3>1. at[r] = "ratio" => Seen'
      <4> SUFFICES ASSUME at[r] = "ratio" PROVE Seen'
        OBVIOUS
      <4>1. Within(NextWord(r, "ratio", loaded[r]),
                   learned["ratio"] \cup {Actual(r, "ratio")})
        BY <2>1, NextWordWithin DEF IInv, SwapWord, Transition
      <4>2. /\ words'["ratio"] = NextWord(r, "ratio", loaded[r])
            /\ learned'["ratio"] = learned["ratio"] \cup {Actual(r, "ratio")}
        BY <1>2, <1>3, <2>1 DEF SwapWord, TypeOk
      <4> QED
        BY <4>1, <4>2 DEF Seen, Within, Below
    <3>2. /\ UNCHANGED <<samples, prediction>>
          /\ pc'[r] = "output" => at[r] = "ratio"
          /\ pc'[r] \in {"output", "load"}
          /\ \A q \in Renderers : q # r => pc'[q] = pc[q]
      BY <1>3, <2>1 DEF SwapWord, Transition, TypeOk, locals
    <3> QED
      BY <1>1, <1>2, <1>3, <3>1, <3>2 DEF SampledHasRatio
  <2>2. CASE LoadWord(r) \/ RetryWord(r) \/ ObserveOutput(r)
    BY <1>1, <1>2, <1>3, <2>2 DEF LoadWord, RetryWord, ObserveOutput, Transition, TypeOk,
       SampledHasRatio, shared, locals
  <2>3. CASE Count(r)
    BY <1>1, <1>2, <1>3, <2>3 DEF Count, Forget, Transition, TypeOk, SampledHasRatio, NoPrediction
  <2> QED
    BY <1>7, <2>1, <2>2, <2>3 DEF Observing
<1>8. CASE UNCHANGED vars
  BY <1>1, <1>2, <1>3, <1>8 DEF vars, shared, locals, SampledHasRatio
<1> QED
  BY <1>4, <1>5, <1>6, <1>7, <1>8 DEF Next

\* An error that has been read stays one that has been seen.
LEMMA ErrorsStep == IInv /\ [Next]_vars => ErrorsWereSeen'
<1> SUFFICES ASSUME IInv, [Next]_vars PROVE ErrorsWereSeen'
  OBVIOUS
<1>1. \A w \in Words : learned[w] \subseteq learned'[w]
  BY LearnedStep
<1>2. /\ "absoluteError" \in Words /\ "absoluteError" \in Errors
      /\ \A n : Below(n, learned["absoluteError"]) => Below(n, learned'["absoluteError"])
  BY <1>1, WithinGrows DEF Words, Errors
<1>3. TypeOk /\ ErrorsWereSeen /\ LearnedWithinRange
  BY DEF IInv
<1>4. ASSUME NEW r \in Renderers, ReadAbsoluteError(r) PROVE ErrorsWereSeen'
  <2>1. prediction'[r].absoluteError = words["absoluteError"]
    BY <1>3, <1>4 DEF ReadAbsoluteError, Read, TypeOk, Predictions
  <2>2. \A q \in Renderers : q # r => prediction'[q] = prediction[q]
    BY <1>3, <1>4 DEF ReadAbsoluteError, Read, TypeOk
  <2>3. words["absoluteError"] # 0 => Below(words["absoluteError"], learned["absoluteError"])
    BY <1>2, <1>3 DEF LearnedWithinRange
  <2> QED
    BY <1>2, <1>3, <2>1, <2>2, <2>3 DEF ErrorsWereSeen
<1>5. ASSUME NEW r \in Renderers,
             ReadEstimate(r) \/ ReadRatioError(r) \/ ReadSamples(r) \/ ReadRatio(r)
      PROVE  ErrorsWereSeen'
  <2>1. \A q \in Renderers : prediction'[q].absoluteError = prediction[q].absoluteError
    BY <1>3, <1>5 DEF ReadEstimate, ReadRatioError, ReadSamples, ReadRatio, Read, TypeOk, Predictions
  <2> QED
    BY <1>2, <1>3, <2>1 DEF ErrorsWereSeen
<1>6. ASSUME NEW r \in Renderers, Ignore(r) \/ Count(r) PROVE ErrorsWereSeen'
  BY <1>2, <1>3, <1>6 DEF Ignore, Count, Forget, TypeOk, NoPrediction, ErrorsWereSeen
<1>7. CASE UNCHANGED prediction
  BY <1>2, <1>3, <1>7 DEF ErrorsWereSeen
<1>8. ASSUME NEW r \in Renderers,
             Predict(r) \/ Report(r) \/ LoadWord(r) \/ SwapWord(r) \/ RetryWord(r) \/ ObserveOutput(r)
      PROVE  UNCHANGED prediction
  BY <1>8 DEF Predict, Report, LoadWord, SwapWord, RetryWord, ObserveOutput, locals
<1>9. UNCHANGED vars => UNCHANGED prediction
  BY DEF vars, locals
<1> QED
  BY <1>4, <1>5, <1>6, <1>7, <1>8, <1>9 DEF Next, Reading, Observing

-----------------------------------------------------------------------------
\* The invariant is inductive.
THEOREM Inductive == Spec => []IInv
<1>1. Init => IInv
  BY InitIInv
<1>2. IInv /\ [Next]_vars => IInv'
  BY TypeStep, LearnedStep, SampledStep, ErrorsStep DEF IInv
<1> QED
  BY <1>1, <1>2, PTL DEF Spec

\* Type correctness: every word stays a natural number and every goroutine's
\* locals are what its program point needs.
THEOREM TypeCorrect == Spec => []TypeOk
BY Inductive, PTL DEF IInv

\* Whatever the order of concurrent observations, the ratio stays between the
\* smallest and the largest seen, and no error above the largest.
THEOREM LearnedStaysWithinRange == Spec => []LearnedWithinRange
BY Inductive, PTL DEF IInv

\* A prediction rests on what renders have reported.
THEOREM PredictionsAreGrounded == Spec => []PredictionIsGrounded
<1>1. IInv => PredictionIsGrounded
  <2> SUFFICES ASSUME IInv, NEW r \in Renderers, pc[r] = "rendering"
               PROVE  /\ prediction[r].samples > 0 => Within(prediction[r].ratio, learned["ratio"])
                      /\ UsesRatio(r) => \E e \in learned["absoluteError"] :
                                             prediction[r].ratioError * 8 < e * 7
    BY DEF PredictionIsGrounded
  <2>1. prediction[r].samples > 0 => Within(prediction[r].ratio, learned["ratio"])
    BY DEF IInv, SampledHasRatio
  <2>2. ASSUME UsesRatio(r)
        PROVE  \E e \in learned["absoluteError"] : prediction[r].ratioError * 8 < e * 7
    <3>1. /\ prediction[r].absoluteError \in Nat /\ prediction[r].ratioError \in Nat
          /\ learned["absoluteError"] \subseteq Nat
      BY DEF IInv, TypeOk, Predictions, Words
    <3>2. prediction[r].ratioError * 8 < prediction[r].absoluteError * 7
      BY <2>2 DEF UsesRatio
    <3>3. prediction[r].absoluteError # 0
      BY <3>1, <3>2
    <3>4. PICK e \in learned["absoluteError"] : prediction[r].absoluteError <= e
      BY <3>3 DEF IInv, ErrorsWereSeen, Below
    <3>5. prediction[r].ratioError * 8 < e * 7
      BY <3>1, <3>2, <3>4
    <3> QED
      BY <3>5
  <2> QED
    BY <2>1, <2>2
<1> QED
  BY <1>1, Inductive, PTL

=============================================================================
