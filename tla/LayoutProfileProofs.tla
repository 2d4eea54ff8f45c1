------------------------ MODULE LayoutProfileProofs ------------------------
(***************************************************************************)
(* Proofs about LayoutProfile, for any number of goroutines, any sizes and *)
(* overheads, and any limits of refinement.                                *)
(*                                                                         *)
(* The argument: pointers only go from nil to something, so that whoever   *)
(* follows them later comes to the same statistics (FoundStays); what a    *)
(* goroutine holds is therefore what others find (HeldStatsAreLive), for   *)
(* as long as it holds it.  Every refinement that is published was decided *)
(* on two samples that are far apart (RefinedHaveMinimum), and had two     *)
(* children reserved for it (ChildrenAccounted).  So the profile is a      *)
(* forest as SizeTree describes it.  The last section is about how far a   *)
(* prediction is from its end, which only a lost reservation puts off.     *)
(***************************************************************************)
EXTENDS LayoutProfile, FiniteSetTheorems, WellFoundedInduction, TLAPS

\* What follows a decision to refine a range.
Refining == {"refine", "reserve", "casChildren", "publish", "giveBack"}

\* A refined range had observations, was above the last level, and is as wide
\* as two halves.
CanBeSplit(s) == s.level < MaxDepth /\ s.upper - s.lower >= 2 * MinWidth
RefinedHaveMinimum ==
    \A s \in DOMAIN stats :
        /\ stats[s].minimum = 0 \/ stats[s].minimum \in Overheads
        /\ stats[s].refinement # Nobody => stats[s].minimum > 0 /\ CanBeSplit(s) /\ s.by # Nobody

\* What a goroutine knows where it is.
Knows(r) ==
    /\ pc[r] # "idle" => yield[r] \in Yields
    /\ pc[r] \in Selecting => depth[r] = selected[r].level /\ selected[r].by # Nobody
    /\ pc[r] \notin Selecting => depth[r] = 0
    /\ pc[r] \in Refining => Words(selected[r]).minimum > 0 /\ CanBeSplit(selected[r])
    /\ pc[r] = "casChildren" => loaded[r] \in Int /\ loaded[r] + 2 <= MaxChildren
    /\ pc[r] = "giveBack" => Words(selected[r]).refinement # Nobody
    /\ pc[r] = "descend" => loaded[r] = Words(selected[r]).refinement /\ loaded[r] # Nobody
    /\ depth[r] > 0 => fallback[r] > 0 /\ fallback[r] \in Overheads
KnowsWhereItIs == \A r \in Renderers : Knows(r)

\* Whoever holds a reservation.
Reserving == {r \in Renderers : pc[r] \in {"publish", "giveBack"}}
ChildrenFinite == IsFiniteSet(Refined) /\ IsFiniteSet(Reserving)

IInv == TypeOk /\ RefinedHaveMinimum /\ KnowsWhereItIs /\ ChildrenFinite /\ ChildrenAccounted

-----------------------------------------------------------------------------
\* Following pointers.

\* A set of naturals that is not empty has a smallest element.
LEMMA Smallest ==
    ASSUME NEW S \in SUBSET Nat, S # {}
    PROVE  \E m \in S : \A n \in S : m <= n
<1> DEFINE less == {ss \in Nat \X Nat : ss[1] < ss[2]}
<1>1. IsWellFoundedOn(less, Nat)
  BY NatLessThanWellFounded, SMT DEF OpToRel
<1> HIDE DEF less
<1>2. PICK m \in S : \A n \in S : ~ (<<n, m>> \in less)
  BY <1>1, WFMin
<1>3. ASSUME NEW n \in S PROVE m <= n
  <2>1. m \in Nat /\ n \in Nat /\ ~ (<<n, m>> \in less)
    BY <1>2
  <2>2. n < m => <<n, m>> \in less
    BY <2>1, SMT DEF less
  <2> QED
    BY <2>1, <2>2
<1> QED
  BY <1>3

\* The statistics on the way to those of a yield size, level by level.
IsWay(at, n, root, all, size) ==
    at = [level \in 0 .. n |->
            IF level = 0 THEN Base(Bucket(size), root)
            ELSE Half(at[level - 1], WordsIn(all, at[level - 1]).refinement, size)]

LEMMA WayExists ==
    ASSUME NEW root, NEW all, NEW size, NEW n \in Nat
    PROVE  \E at : IsWay(at, n, root, all, size)
<1> DEFINE Lost == {k \in Nat : ~ \E at : IsWay(at, k, root, all, size)}
<1>1. SUFFICES ASSUME Lost # {} PROVE FALSE
  OBVIOUS
<1>2. PICK m \in Lost : \A k \in Lost : m <= k
  BY <1>1, Smallest
<1>3. CASE m = 0
  <2>1. IsWay([level \in 0 .. 0 |-> Base(Bucket(size), root)], 0, root, all, size)
    BY DEF IsWay
  <2> QED
    BY <1>2, <1>3, <2>1
<1>4. CASE m > 0
  <2>1. PICK g : IsWay(g, m - 1, root, all, size)
    <3>1. m - 1 \in Nat /\ m - 1 \notin Lost
      BY <1>2, <1>4
    <3> QED
      BY <3>1
  <2> DEFINE last == Half(g[m - 1], WordsIn(all, g[m - 1]).refinement, size)
             f == [level \in 0 .. m |-> IF level = m THEN last ELSE g[level]]
  <2>2. IsWay(f, m, root, all, size)
    <3>1. ASSUME NEW level \in 0 .. m
          PROVE  f[level] = IF level = 0 THEN Base(Bucket(size), root)
                            ELSE Half(f[level - 1], WordsIn(all, f[level - 1]).refinement, size)
      <4> HIDE DEF last
      <4>1. CASE level = 0
        BY <1>4, <2>1, <4>1 DEF IsWay
      <4>2. CASE level # 0 /\ level # m
        <5>1. f[level] = g[level] /\ f[level - 1] = g[level - 1] /\ level \in 0 .. m - 1
          BY <1>2, <4>2
        <5> QED
          BY <2>1, <4>2, <5>1 DEF IsWay
      <4>3. CASE level # 0 /\ level = m
        <5>1. f[level] = last /\ f[level - 1] = g[m - 1]
          BY <1>2, <1>4, <4>3
        <5> QED
          BY <4>3, <5>1 DEF last
      <4> QED
        BY <4>1, <4>2, <4>3
    <3> HIDE DEF last
    <3> QED
      BY <3>1 DEF IsWay
  <2> QED
    BY <1>2, <2>2
<1> QED
  BY <1>2, <1>3, <1>4

\* The equations of FoundIn.
LEMMA FoundSteps ==
    ASSUME NEW root, NEW all, NEW size
    PROVE  /\ FoundIn(root, all, size, 0) = Base(Bucket(size), root)
           /\ \A d \in Nat : d < MaxDepth =>
                FoundIn(root, all, size, d + 1)
                  = Half(FoundIn(root, all, size, d),
                         WordsIn(all, FoundIn(root, all, size, d)).refinement, size)
<1> DEFINE way == CHOOSE at : IsWay(at, MaxDepth, root, all, size)
<1>1. IsWay(way, MaxDepth, root, all, size)
  BY WayExists, LimitsAssumption
<1>2. \A d : FoundIn(root, all, size, d) = way[d]
  BY DEF FoundIn, IsWay
<1> HIDE DEF way
<1>3. way[0] = Base(Bucket(size), root)
  BY <1>1, LimitsAssumption DEF IsWay
<1>4. ASSUME NEW d \in Nat, d < MaxDepth
      PROVE  way[d + 1] = Half(way[d], WordsIn(all, way[d]).refinement, size)
  <2>1. d + 1 \in 0 .. MaxDepth /\ d + 1 # 0 /\ (d + 1) - 1 = d
    BY <1>4, LimitsAssumption
  <2> QED
    BY <1>1, <2>1 DEF IsWay
<1> QED
  BY <1>2, <1>3, <1>4

-----------------------------------------------------------------------------
\* The ranges.

\* A size is in the range of its bucket.
LEMMA BucketRange ==
    ASSUME NEW size \in Nat
    PROVE  /\ Bucket(size) \in 1 .. 12
           /\ Ranges[Bucket(size)][1] \in Nat /\ Ranges[Bucket(size)][2] \in Nat
           /\ Ranges[Bucket(size)][1] <= size
           /\ Ranges[Bucket(size)][2] = 0 \/ size <= Ranges[Bucket(size)][2]
<1> DEFINE lower(i) == Ranges[i][1]
           upper(i) == Ranges[i][2]
           exceeded == {i \in 1 .. 11 : size > upper(i)}
<1>1. /\ lower(1) = 0 /\ upper(1) = 4 /\ lower(2) = 4 /\ upper(2) = 16
      /\ lower(3) = 16 /\ upper(3) = 32 /\ lower(4) = 32 /\ upper(4) = 64
      /\ lower(5) = 64 /\ upper(5) = 128 /\ lower(6) = 128 /\ upper(6) = 192
      /\ lower(7) = 192 /\ upper(7) = 256 /\ lower(8) = 256 /\ upper(8) = 384
      /\ lower(9) = 384 /\ upper(9) = 512 /\ lower(10) = 512 /\ upper(10) = 1024
      /\ lower(11) = 1024 /\ upper(11) = 4096 /\ lower(12) = 4096 /\ upper(12) = 0
  BY DEF Ranges
<1>2. Bucket(size) = 1 + Cardinality(exceeded)
  BY DEF Bucket
<1> SUFFICES /\ Bucket(size) \in 1 .. 12
             /\ lower(Bucket(size)) \in Nat /\ upper(Bucket(size)) \in Nat
             /\ lower(Bucket(size)) <= size
             /\ upper(Bucket(size)) = 0 \/ size <= upper(Bucket(size))
  OBVIOUS
<1> HIDE DEF lower, upper
<1>3. \E k \in 0 .. 11 :
        /\ \A i \in 1 .. 11 : i <= k <=> size > upper(i)
        /\ lower(k + 1) \in Nat /\ upper(k + 1) \in Nat /\ lower(k + 1) <= size
        /\ upper(k + 1) = 0 \/ size <= upper(k + 1)
  BY <1>1, SMTT(60)
<1>4. PICK k \in 0 .. 11 :
        /\ \A i \in 1 .. 11 : i <= k <=> size > upper(i)
        /\ lower(k + 1) \in Nat /\ upper(k + 1) \in Nat /\ lower(k + 1) <= size
        /\ upper(k + 1) = 0 \/ size <= upper(k + 1)
  BY <1>3
<1>5. exceeded = 1 .. k
  BY <1>4
<1>6. Cardinality(1 .. k) = k
  <2>1. 1 \in Int /\ k \in Int /\ (1 > k => k = 0) /\ k - 1 + 1 = k
    OBVIOUS
  <2>2. Cardinality(1 .. k) = IF 1 > k THEN 0 ELSE k - 1 + 1
    BY <2>1, FS_Interval
  <2> QED
    BY <2>1, <2>2
<1> HIDE DEF exceeded
<1>7. Bucket(size) = k + 1
  BY <1>2, <1>5, <1>6
<1> QED
  BY <1>4, <1>7

\* The half that a size falls into is a range one level down, and a size in
\* the range is in it.
LEMMA HalfIs ==
    ASSUME NEW s \in Bands, CanBeSplit(s), NEW by \in Renderers \cup {Nobody}, NEW size \in Nat
    PROVE  /\ Half(s, by, size) \in Bands
           /\ Half(s, by, size).level = s.level + 1
           /\ Half(s, by, size).by = by
           /\ s.lower <= size => Half(s, by, size).lower <= size
           /\ size <= s.upper => size <= Half(s, by, size).upper
<1>1. /\ s.lower \in Nat /\ s.upper \in Nat /\ s.level \in 0 .. MaxDepth
      /\ s.level + 1 \in 0 .. MaxDepth /\ s.upper >= s.lower
  BY LimitsAssumption DEF Bands, CanBeSplit
<1>2. Midpoint(s) \in Nat
  BY <1>1 DEF Midpoint
<1> QED
  BY <1>1, <1>2 DEF Half, Band, Bands

\* A base range is at the top.
LEMMA BaseIs ==
    ASSUME NEW size \in Nat, NEW by \in Renderers \cup {Nobody}
    PROVE  /\ Base(Bucket(size), by) \in Bands
           /\ Base(Bucket(size), by).level = 0 /\ Base(Bucket(size), by).by = by
           /\ Base(Bucket(size), by).lower <= size
           /\ Base(Bucket(size), by).upper = 0 \/ size <= Base(Bucket(size), by).upper
BY BucketRange, LimitsAssumption DEF Base, Band, Bands

-----------------------------------------------------------------------------
\* Writing statistics.

WordsType == [samples : Nat, minimum : Nat, maximum : Nat, refinement : Renderers \cup {Nobody}]
StatsTyped == DOMAIN stats \subseteq Bands /\ \A s \in DOMAIN stats : stats[s] \in WordsType

\* A minimum stays positive, and a refinement stays.
Grown ==
    \A s : /\ Words(s).minimum > 0 => WordsIn(stats', s).minimum > 0
           /\ Words(s).refinement # Nobody
                => WordsIn(stats', s).refinement = Words(s).refinement

\* Statistics that nobody wrote yet have a type too, and are not refined.
LEMMA WordsTyped ==
    ASSUME TypeOk, RefinedHaveMinimum, NEW s
    PROVE  /\ Words(s) \in WordsType
           /\ Words(s).minimum = 0 \/ Words(s).minimum \in Overheads
           /\ Words(s).refinement # Nobody
                => Words(s).minimum > 0 /\ CanBeSplit(s) /\ s.by # Nobody /\ s \in Bands
<1>1. Zero \in WordsType /\ Zero.minimum = 0 /\ Zero.refinement = Nobody
  BY DEF Zero, WordsType
<1>2. StatsTyped
  BY DEF TypeOk, StatsTyped, WordsType
<1> HIDE DEF TypeOk
<1> QED
  BY <1>1, <1>2, Zenon DEF Words, WordsIn, StatsTyped, RefinedHaveMinimum

LEMMA BecomesChanges ==
    ASSUME NEW s, NEW words, Becomes(s, words)
    PROVE  /\ DOMAIN stats' = DOMAIN stats \cup {s}
           /\ stats'[s] = words
           /\ \A t \in DOMAIN stats : t # s => stats'[t] = stats[t]
           /\ \A t : t # s => WordsIn(stats', t) = Words(t)
           /\ WordsIn(stats', s) = words
BY DEF Becomes, Words, WordsIn

\* What may be written without harm to others.
LEMMA StatsWritten ==
    ASSUME TypeOk, RefinedHaveMinimum, NEW s \in Bands, NEW words \in WordsType,
           Becomes(s, words),
           words.minimum = 0 \/ words.minimum \in Overheads,
           words.refinement # Nobody => words.minimum > 0 /\ CanBeSplit(s) /\ s.by # Nobody,
           Words(s).minimum > 0 => words.minimum > 0,
           Words(s).refinement # Nobody => words.refinement = Words(s).refinement
    PROVE  /\ StatsTyped' /\ RefinedHaveMinimum' /\ Grown
           /\ words.refinement # Nobody => Refined' = Refined \cup {s}
           /\ words.refinement = Nobody => Refined' = Refined
<1> DEFINE new == stats'
<1>1. /\ DOMAIN new = DOMAIN stats \cup {s} /\ new[s] = words
      /\ \A t \in DOMAIN stats : t # s => new[t] = stats[t]
      /\ \A t : t # s => WordsIn(new, t) = Words(t)
      /\ WordsIn(new, s) = words
  BY BecomesChanges
<1>2. StatsTyped
  BY DEF TypeOk, StatsTyped, WordsType
<1>3. Words(s).refinement = Nobody => s \notin Refined
  BY DEF Words, WordsIn, Refined
<1> HIDE DEF new
<1>4. (DOMAIN new \subseteq Bands /\ \A t \in DOMAIN new : new[t] \in WordsType)
  BY <1>1, <1>2, Zenon DEF StatsTyped
<1>5. \A t \in DOMAIN new :
        /\ new[t].minimum = 0 \/ new[t].minimum \in Overheads
        /\ new[t].refinement # Nobody => new[t].minimum > 0 /\ CanBeSplit(t) /\ t.by # Nobody
  BY <1>1, Zenon DEF RefinedHaveMinimum
<1>6. \A t : /\ Words(t).minimum > 0 => WordsIn(new, t).minimum > 0
             /\ Words(t).refinement # Nobody
                  => WordsIn(new, t).refinement = Words(t).refinement
  BY <1>1, Zenon
<1>7. words.refinement # Nobody
        => {t \in DOMAIN new : new[t].refinement # Nobody} = Refined \cup {s}
  BY <1>1, Zenon DEF Refined
<1>8. words.refinement = Nobody
        => {t \in DOMAIN new : new[t].refinement # Nobody} = Refined
  <2> SUFFICES ASSUME words.refinement = Nobody
               PROVE  {t \in DOMAIN new : new[t].refinement # Nobody} = Refined
    OBVIOUS
  <2>1. s \notin Refined
    BY <1>3
  <2> QED
    BY <1>1, <2>1, Zenon DEF Refined
<1> QED
  BY <1>4, <1>5, <1>6, <1>7, <1>8
     DEF new, StatsTyped, RefinedHaveMinimum, Grown, Refined, CanBeSplit

\* Statistics that are left alone.
LEMMA StatsAlone ==
    ASSUME TypeOk, RefinedHaveMinimum, UNCHANGED stats
    PROVE  /\ StatsTyped' /\ RefinedHaveMinimum' /\ Grown /\ Refined' = Refined
           /\ \A s : WordsIn(stats', s) = Words(s)
<1>1. \A s : WordsIn(stats', s) = Words(s)
  BY DEF Words
<1>2. StatsTyped
  BY DEF TypeOk, StatsTyped, WordsType
<1> QED
  BY <1>1, <1>2 DEF StatsTyped, RefinedHaveMinimum, Grown, Refined

-----------------------------------------------------------------------------
\* Steps.

LocalsTyped ==
    /\ pc \in [Renderers -> Selecting \cup {"idle", "buckets", "newBuckets"}]
    /\ yield \in [Renderers -> Nat]
    /\ selected \in [Renderers -> Bands]
    /\ depth \in [Renderers -> 0 .. MaxDepth]
    /\ loaded \in [Renderers -> Nat \cup Renderers \cup {Nobody}]
    /\ fallback \in [Renderers -> Nat]
    /\ seen \in [Renderers -> Nat]

\* A goroutine writes its own selection only.
OthersUntouched(r) ==
    \A q \in Renderers \ {r} :
        /\ pc'[q] = pc[q] /\ yield'[q] = yield[q] /\ selected'[q] = selected[q]
        /\ depth'[q] = depth[q] /\ loaded'[q] = loaded[q] /\ fallback'[q] = fallback[q]

LEMMA OthersKnow ==
    ASSUME KnowsWhereItIs, Grown, NEW r \in Renderers, OthersUntouched(r), Knows(r)'
    PROVE  KnowsWhereItIs'
<1>1. ASSUME NEW q \in Renderers, q # r PROVE Knows(q)'
  <2>1. Knows(q) /\ Words(selected[q])' = WordsIn(stats', selected[q])
    BY <1>1 DEF KnowsWhereItIs, OthersUntouched, Words
  <2>2. /\ pc'[q] = pc[q] /\ yield'[q] = yield[q] /\ selected'[q] = selected[q]
        /\ depth'[q] = depth[q] /\ loaded'[q] = loaded[q] /\ fallback'[q] = fallback[q]
    BY <1>1 DEF OthersUntouched
  <2>3. /\ Words(selected[q]).minimum > 0 => Words(selected[q])'.minimum > 0
        /\ Words(selected[q]).refinement # Nobody
             => Words(selected[q])'.refinement = Words(selected[q]).refinement
    BY <2>1 DEF Grown
  <2> QED
    BY <2>1, <2>2, <2>3 DEF Knows, CanBeSplit
<1> QED
  BY <1>1 DEF KnowsWhereItIs

LEMMA ReservingKept ==
    ASSUME TypeOk, NEW r \in Renderers, OthersUntouched(r),
           pc[r] \in {"publish", "giveBack"} <=> pc'[r] \in {"publish", "giveBack"}
    PROVE  Reserving' = Reserving
<1>1. \A q \in Renderers :
        pc[q] \in {"publish", "giveBack"} <=> pc'[q] \in {"publish", "giveBack"}
  BY DEF OthersUntouched
<1> QED
  BY <1>1 DEF Reserving

\* A step that writes no statistics, and takes or returns no reservation.
LEMMA Walk ==
    ASSUME IInv, NEW r \in Renderers, UNCHANGED <<children, stats>>,
           buckets' \in Renderers \cup {Nobody}, reported' \in Nat,
           LocalsTyped', OthersUntouched(r), Knows(r)',
           pc[r] \in {"publish", "giveBack"} <=> pc'[r] \in {"publish", "giveBack"}
    PROVE  IInv'
<1>1. TypeOk /\ RefinedHaveMinimum /\ KnowsWhereItIs /\ ChildrenFinite /\ ChildrenAccounted
  BY DEF IInv
<1>2. StatsTyped' /\ RefinedHaveMinimum' /\ Grown /\ Refined' = Refined
  BY <1>1, StatsAlone
<1>3. TypeOk'
  BY <1>1, <1>2 DEF TypeOk, StatsTyped, LocalsTyped, WordsType
<1>4. KnowsWhereItIs'
  BY <1>1, <1>2, OthersKnow
<1>5. Reserving' = Reserving
  BY <1>1, ReservingKept
<1>6. ChildrenFinite' /\ ChildrenAccounted'
  BY <1>1, <1>2, <1>5 DEF ChildrenFinite, ChildrenAccounted, Reserving
<1> QED
  BY <1>2, <1>3, <1>4, <1>6 DEF IInv

LEMMA PredictStep ==
    ASSUME IInv, NEW r \in Renderers, Predict(r)
    PROVE  IInv'
<1>1. TypeOk /\ RefinedHaveMinimum /\ Knows(r) /\ Words(selected[r]) \in WordsType
  BY WordsTyped DEF IInv, KnowsWhereItIs
<1>2. LocalsTyped' /\ OthersUntouched(r)
  BY <1>1, SizesAssumption DEF TypeOk, LocalsTyped, OthersUntouched, Predict, Transition
<1>3. Knows(r)'
  BY <1>1 DEF TypeOk, Predict, Transition, Selecting, Refining, Knows
<1>4. /\ UNCHANGED <<children, stats>> /\ buckets' \in Renderers \cup {Nobody}
      /\ reported' \in Nat
      /\ pc[r] \in {"publish", "giveBack"} <=> pc'[r] \in {"publish", "giveBack"}
  BY <1>1 DEF TypeOk, Predict, Transition, shared
<1> QED
  BY <1>2, <1>3, <1>4, Walk

LEMMA LoadBucketsStep ==
    ASSUME IInv, NEW r \in Renderers, LoadBuckets(r)
    PROVE  IInv'
<1>1. TypeOk /\ RefinedHaveMinimum /\ Knows(r) /\ Words(selected[r]) \in WordsType
  BY WordsTyped DEF IInv, KnowsWhereItIs
<1>2. LocalsTyped' /\ OthersUntouched(r)
  BY <1>1, BaseIs
     DEF TypeOk, LocalsTyped, OthersUntouched, LoadBuckets, Enter, Transition, Selecting, Bands
<1>3. Knows(r)'
  BY <1>1, BaseIs DEF TypeOk, LoadBuckets, Enter, Transition, Selecting, Refining, Knows
<1>4. /\ UNCHANGED <<children, stats>> /\ buckets' \in Renderers \cup {Nobody}
      /\ reported' \in Nat
      /\ pc[r] \in {"publish", "giveBack"} <=> pc'[r] \in {"publish", "giveBack"}
  BY <1>1 DEF TypeOk, LoadBuckets, Transition, shared
<1> QED
  BY <1>2, <1>3, <1>4, Walk

LEMMA PublishBucketsStep ==
    ASSUME IInv, NEW r \in Renderers, PublishBuckets(r)
    PROVE  IInv'
<1>1. TypeOk /\ RefinedHaveMinimum /\ Knows(r) /\ Words(selected[r]) \in WordsType
  BY WordsTyped DEF IInv, KnowsWhereItIs
<1>2. LocalsTyped' /\ OthersUntouched(r)
  BY <1>1, BaseIs
     DEF TypeOk, LocalsTyped, OthersUntouched, PublishBuckets, Enter, Transition, Selecting
<1>3. Knows(r)'
  BY <1>1, NobodyAssumption, BaseIs
     DEF TypeOk, PublishBuckets, Enter, Transition, Selecting, Refining, Knows
<1>4. /\ UNCHANGED <<children, stats>> /\ buckets' \in Renderers \cup {Nobody}
      /\ reported' \in Nat
      /\ pc[r] \in {"publish", "giveBack"} <=> pc'[r] \in {"publish", "giveBack"}
  BY <1>1 DEF TypeOk, PublishBuckets, Transition
<1> QED
  BY <1>2, <1>3, <1>4, Walk

LEMMA FindBucketsStep ==
    ASSUME IInv, NEW r \in Renderers, FindBuckets(r)
    PROVE  IInv'
<1>1. TypeOk /\ RefinedHaveMinimum /\ Knows(r) /\ Words(selected[r]) \in WordsType
  BY WordsTyped DEF IInv, KnowsWhereItIs
<1>2. LocalsTyped' /\ OthersUntouched(r)
  BY <1>1, BaseIs
     DEF TypeOk, LocalsTyped, OthersUntouched, FindBuckets, Enter, Transition, Selecting
<1>3. Knows(r)'
  BY <1>1, BaseIs DEF TypeOk, FindBuckets, Enter, Transition, Selecting, Refining, Knows
<1>4. /\ UNCHANGED <<children, stats>> /\ buckets' \in Renderers \cup {Nobody}
      /\ reported' \in Nat
      /\ pc[r] \in {"publish", "giveBack"} <=> pc'[r] \in {"publish", "giveBack"}
  BY <1>1 DEF TypeOk, FindBuckets, Transition, shared
<1> QED
  BY <1>2, <1>3, <1>4, Walk

LEMMA LookStep ==
    ASSUME IInv, NEW r \in Renderers, Look(r)
    PROVE  IInv'
<1>1. TypeOk /\ RefinedHaveMinimum /\ Knows(r) /\ Words(selected[r]) \in WordsType
  BY WordsTyped DEF IInv, KnowsWhereItIs
<1>2. LocalsTyped' /\ OthersUntouched(r)
  BY <1>1
     DEF TypeOk, LocalsTyped, OthersUntouched, Look, Load, Refinement, Transition, Selecting,
         WordsType
<1>3. Knows(r)'
  BY <1>1
     DEF TypeOk, Look, Load, Refinement, Transition, Selecting, Refining, shared, Knows, Words
<1>4. /\ UNCHANGED <<children, stats>> /\ buckets' \in Renderers \cup {Nobody}
      /\ reported' \in Nat
      /\ pc[r] \in {"publish", "giveBack"} <=> pc'[r] \in {"publish", "giveBack"}
  BY <1>1 DEF TypeOk, Look, Transition, shared
<1> QED
  BY <1>2, <1>3, <1>4, Walk

LEMMA ConsiderStep ==
    ASSUME IInv, NEW r \in Renderers, Consider(r)
    PROVE  IInv'
<1>1. TypeOk /\ RefinedHaveMinimum /\ Knows(r) /\ Words(selected[r]) \in WordsType
  BY WordsTyped DEF IInv, KnowsWhereItIs
<1>2. LocalsTyped' /\ OthersUntouched(r)
  BY <1>1 DEF TypeOk, LocalsTyped, OthersUntouched, Consider, Transition, Selecting, locals
<1>3. Knows(r)'
  BY <1>1
     DEF Consider, ShouldRefine, Unstable, Transition, Selecting, Refining, shared, locals,
         Knows, Words, CanBeSplit
<1>4. /\ UNCHANGED <<children, stats>> /\ buckets' \in Renderers \cup {Nobody}
      /\ reported' \in Nat
      /\ pc[r] \in {"publish", "giveBack"} <=> pc'[r] \in {"publish", "giveBack"}
  BY <1>1 DEF TypeOk, Consider, Transition, shared
<1> QED
  BY <1>2, <1>3, <1>4, Walk

LEMMA LookAgainStep ==
    ASSUME IInv, NEW r \in Renderers, LookAgain(r)
    PROVE  IInv'
<1>1. TypeOk /\ RefinedHaveMinimum /\ Knows(r) /\ Words(selected[r]) \in WordsType
  BY WordsTyped DEF IInv, KnowsWhereItIs
<1>2. LocalsTyped' /\ OthersUntouched(r)
  BY <1>1
     DEF TypeOk, LocalsTyped, OthersUntouched, LookAgain, Load, Refinement, Transition,
         Selecting, WordsType
<1>3. Knows(r)'
  BY <1>1
     DEF TypeOk, LookAgain, Load, Refinement, Transition, Selecting, Refining, shared, Knows,
         Words
<1>4. /\ UNCHANGED <<children, stats>> /\ buckets' \in Renderers \cup {Nobody}
      /\ reported' \in Nat
      /\ pc[r] \in {"publish", "giveBack"} <=> pc'[r] \in {"publish", "giveBack"}
  BY <1>1 DEF TypeOk, LookAgain, Transition, shared
<1> QED
  BY <1>2, <1>3, <1>4, Walk

LEMMA LoadChildrenStep ==
    ASSUME IInv, NEW r \in Renderers, LoadChildren(r)
    PROVE  IInv'
<1>1. TypeOk /\ RefinedHaveMinimum /\ Knows(r) /\ Words(selected[r]) \in WordsType
  BY WordsTyped DEF IInv, KnowsWhereItIs
<1>2. LocalsTyped' /\ OthersUntouched(r)
  BY <1>1 DEF TypeOk, LocalsTyped, OthersUntouched, LoadChildren, Load, Transition, Selecting
<1>3. Knows(r)'
  BY <1>1, LimitsAssumption
     DEF TypeOk, LoadChildren, Load, Transition, Selecting, Refining, shared, Knows, Words
<1>4. /\ UNCHANGED <<children, stats>> /\ buckets' \in Renderers \cup {Nobody}
      /\ reported' \in Nat
      /\ pc[r] \in {"publish", "giveBack"} <=> pc'[r] \in {"publish", "giveBack"}
  BY <1>1 DEF TypeOk, LoadChildren, Transition, shared
<1> QED
  BY <1>2, <1>3, <1>4, Walk

LEMMA RetryChildrenStep ==
    ASSUME IInv, NEW r \in Renderers, RetryChildren(r)
    PROVE  IInv'
<1>1. TypeOk /\ RefinedHaveMinimum /\ Knows(r) /\ Words(selected[r]) \in WordsType
  BY WordsTyped DEF IInv, KnowsWhereItIs
<1>2. LocalsTyped' /\ OthersUntouched(r)
  BY <1>1 DEF TypeOk, LocalsTyped, OthersUntouched, RetryChildren, Transition, Selecting, locals
<1>3. Knows(r)'
  BY <1>1 DEF RetryChildren, Transition, Selecting, Refining, shared, locals, Knows, Words
<1>4. /\ UNCHANGED <<children, stats>> /\ buckets' \in Renderers \cup {Nobody}
      /\ reported' \in Nat
      /\ pc[r] \in {"publish", "giveBack"} <=> pc'[r] \in {"publish", "giveBack"}
  BY <1>1 DEF TypeOk, RetryChildren, Transition, shared
<1> QED
  BY <1>2, <1>3, <1>4, Walk

LEMMA LoseRefinementStep ==
    ASSUME IInv, NEW r \in Renderers, LoseRefinement(r)
    PROVE  IInv'
<1>1. TypeOk /\ RefinedHaveMinimum /\ Knows(r) /\ Words(selected[r]) \in WordsType
  BY WordsTyped DEF IInv, KnowsWhereItIs
<1>2. LocalsTyped' /\ OthersUntouched(r)
  BY <1>1
     DEF TypeOk, LocalsTyped, OthersUntouched, LoseRefinement, Transition, Selecting, locals
<1>3. Knows(r)'
  BY <1>1
     DEF LoseRefinement, Refinement, Transition, Selecting, Refining, shared, locals, Knows,
         Words
<1>4. /\ UNCHANGED <<children, stats>> /\ buckets' \in Renderers \cup {Nobody}
      /\ reported' \in Nat
      /\ pc[r] \in {"publish", "giveBack"} <=> pc'[r] \in {"publish", "giveBack"}
  BY <1>1 DEF TypeOk, LoseRefinement, Transition, shared
<1> QED
  BY <1>2, <1>3, <1>4, Walk

LEMMA DescendStep ==
    ASSUME IInv, NEW r \in Renderers, Descend(r)
    PROVE  IInv'
<1> DEFINE half == Half(selected[r], loaded[r], yield[r])
<1>1. TypeOk /\ RefinedHaveMinimum /\ Knows(r) /\ pc[r] = "descend"
  BY DEF IInv, KnowsWhereItIs, Descend, Transition
<1>2. /\ selected[r] \in Bands /\ yield[r] \in Nat
      /\ loaded[r] = Words(selected[r]).refinement /\ loaded[r] # Nobody
      /\ depth[r] = selected[r].level /\ yield[r] \in Yields
  BY <1>1 DEF TypeOk, Knows
<1>3. /\ Words(selected[r]) \in WordsType /\ CanBeSplit(selected[r])
      /\ Words(selected[r]).minimum > 0 /\ Words(selected[r]).minimum \in Overheads
  BY <1>1, <1>2, WordsTyped
<1>4. loaded[r] \in Renderers
  BY <1>2, <1>3 DEF WordsType
<1>5. half \in Bands /\ half.level = selected[r].level + 1 /\ half.by = loaded[r]
  BY <1>2, <1>3, <1>4, HalfIs
<1>6. depth[r] + 1 \in 0 .. MaxDepth /\ depth[r] + 1 = half.level
  BY <1>2, <1>5 DEF Bands
<1> HIDE DEF half
<1>7. /\ pc' = [pc EXCEPT ![r] = "look"]
      /\ fallback' = [fallback EXCEPT ![r] = Words(selected[r]).minimum]
      /\ depth' = [depth EXCEPT ![r] = @ + 1]
      /\ selected' = [selected EXCEPT ![r] = half]
      /\ loaded' = [loaded EXCEPT ![r] = 0]
      /\ UNCHANGED <<shared, yield, seen, reported>>
  BY DEF Descend, Transition, Load, half
<1>8. LocalsTyped' /\ OthersUntouched(r)
  BY <1>1, <1>3, <1>5, <1>6, <1>7 DEF TypeOk, LocalsTyped, OthersUntouched, Selecting, WordsType
<1>9. Knows(r)'
  <2>1. /\ pc'[r] = "look" /\ yield'[r] \in Yields /\ depth'[r] = selected'[r].level
        /\ selected'[r].by # Nobody
        /\ fallback'[r] > 0 /\ fallback'[r] \in Overheads
  BY <1>1, <1>2, <1>3, <1>5, <1>6, <1>7 DEF TypeOk
  <2> QED
  BY <2>1 DEF Knows, Selecting, Refining
<1>10. /\ UNCHANGED <<children, stats>> /\ buckets' \in Renderers \cup {Nobody}
       /\ reported' \in Nat
       /\ pc[r] \in {"publish", "giveBack"} <=> pc'[r] \in {"publish", "giveBack"}
  BY <1>1, <1>7 DEF TypeOk, shared
<1> QED
  BY <1>8, <1>9, <1>10, Walk

LEMMA ReadStep ==
    ASSUME IInv, NEW r \in Renderers, Read(r)
    PROVE  IInv'
<1>1. TypeOk /\ RefinedHaveMinimum /\ Knows(r) /\ Words(selected[r]) \in WordsType
  BY WordsTyped DEF IInv, KnowsWhereItIs
<1>2. LocalsTyped' /\ OthersUntouched(r)
  BY <1>1 DEF TypeOk, LocalsTyped, OthersUntouched, Read, Load, Transition, Selecting, WordsType
<1>3. Knows(r)'
  BY <1>1 DEF Read, Transition, Selecting, Refining, Knows
<1>4. /\ UNCHANGED <<children, stats>> /\ buckets' \in Renderers \cup {Nobody}
      /\ reported' \in Nat
      /\ pc[r] \in {"publish", "giveBack"} <=> pc'[r] \in {"publish", "giveBack"}
  BY <1>1 DEF TypeOk, Read, Transition, shared
<1> QED
  BY <1>2, <1>3, <1>4, Walk

LEMMA IgnoreStep ==
    ASSUME IInv, NEW r \in Renderers, Ignore(r)
    PROVE  IInv'
<1>1. TypeOk /\ RefinedHaveMinimum /\ Knows(r) /\ Words(selected[r]) \in WordsType
  BY WordsTyped DEF IInv, KnowsWhereItIs
<1>2. LocalsTyped' /\ OthersUntouched(r)
  BY <1>1, LimitsAssumption
     DEF TypeOk, LocalsTyped, OthersUntouched, Ignore, Forget, Transition, NoStats, Band, Bands
<1>3. Knows(r)'
  BY <1>1 DEF TypeOk, Ignore, Forget, Transition, Selecting, Refining, Knows
<1>4. /\ UNCHANGED <<children, stats>> /\ buckets' \in Renderers \cup {Nobody}
      /\ reported' \in Nat
      /\ pc[r] \in {"publish", "giveBack"} <=> pc'[r] \in {"publish", "giveBack"}
  BY <1>1 DEF TypeOk, Ignore, Transition, shared
<1> QED
  BY <1>2, <1>3, <1>4, Walk

\* A reservation is taken.
LEMMA SwapChildrenStep ==
    ASSUME IInv, NEW r \in Renderers, SwapChildren(r)
    PROVE  IInv'
<1>1. TypeOk /\ RefinedHaveMinimum /\ KnowsWhereItIs /\ Knows(r) /\ pc[r] = "casChildren"
  BY DEF IInv, KnowsWhereItIs, SwapChildren, Transition
<1>2. /\ pc' = [pc EXCEPT ![r] = "publish"] /\ children' = children + 2
      /\ children = loaded[r] /\ UNCHANGED <<buckets, stats, locals, reported>>
  BY DEF SwapChildren, Transition
<1>3. StatsTyped' /\ RefinedHaveMinimum' /\ Grown /\ Refined' = Refined
  BY <1>1, <1>2, StatsAlone
<1>4. LocalsTyped' /\ OthersUntouched(r)
  BY <1>1, <1>2 DEF TypeOk, LocalsTyped, OthersUntouched, locals, Selecting
<1>5. children' \in 0 .. MaxChildren
  BY <1>1, <1>2, LimitsAssumption DEF TypeOk, Knows
<1>6. TypeOk'
  BY <1>1, <1>2, <1>3, <1>4, <1>5 DEF TypeOk, StatsTyped, LocalsTyped, WordsType
<1>7. Knows(r)'
  BY <1>1, <1>2 DEF TypeOk, Knows, Words, locals, Selecting, Refining, CanBeSplit
<1>8. KnowsWhereItIs'
  BY <1>1, <1>3, <1>4, <1>7, OthersKnow
<1>9. ChildrenFinite' /\ ChildrenAccounted'
  <2>1. r \notin Reserving /\ Reserving' = Reserving \cup {r}
    BY <1>1, <1>2 DEF TypeOk, Reserving
  <2>2. IsFiniteSet(Reserving) /\ IsFiniteSet(Refined)
    BY DEF IInv, ChildrenFinite
  <2>3. IsFiniteSet(Reserving') /\ Cardinality(Reserving') = Cardinality(Reserving) + 1
    BY <2>1, <2>2, FS_AddElement
  <2>4. Cardinality(Reserving) \in Nat /\ Cardinality(Refined) \in Nat
    BY <2>2, FS_CardinalityType
  <2>5. children = 2 * Cardinality(Refined) + 2 * Cardinality(Reserving)
    BY DEF IInv, ChildrenAccounted, Reserving
  <2>6. children' = 2 * Cardinality(Refined') + 2 * Cardinality(Reserving')
    BY <1>2, <1>3, <2>3, <2>4, <2>5
  <2> QED
    BY <1>3, <2>2, <2>3, <2>6 DEF ChildrenFinite, ChildrenAccounted, Reserving
<1> QED
  BY <1>3, <1>6, <1>8, <1>9 DEF IInv

\* A reservation turns into a refinement.
LEMMA PublishRefinementStep ==
    ASSUME IInv, NEW r \in Renderers, PublishRefinement(r)
    PROVE  IInv' /\ Grown
<1> DEFINE s == selected[r]
           words == [Words(s) EXCEPT !.refinement = r]
<1>1. TypeOk /\ RefinedHaveMinimum /\ KnowsWhereItIs /\ Knows(r) /\ pc[r] = "publish"
  BY DEF IInv, KnowsWhereItIs, PublishRefinement, Transition
<1>2. /\ pc' = [pc EXCEPT ![r] = "descend"] /\ loaded' = [loaded EXCEPT ![r] = r]
      /\ Becomes(s, words) /\ Words(s).refinement = Nobody
      /\ UNCHANGED <<buckets, children, yield, selected, depth, fallback, seen, reported>>
  BY DEF PublishRefinement, Transition, Load, Refinement
<1>3. s \in Bands /\ Words(s) \in WordsType
  BY <1>1, WordsTyped DEF TypeOk
<1>4. /\ words \in WordsType /\ words.refinement = r /\ words.minimum = Words(s).minimum
      /\ words.minimum > 0 /\ words.minimum \in Overheads /\ CanBeSplit(s) /\ s.by # Nobody
  BY <1>1, <1>3, WordsTyped DEF WordsType, Knows, Refining, Selecting
<1> HIDE DEF s, words
<1>5. r # Nobody
  BY NobodyAssumption
<1>6. StatsTyped' /\ RefinedHaveMinimum' /\ Grown /\ Refined' = Refined \cup {s}
  BY <1>1, <1>2, <1>3, <1>4, <1>5, StatsWritten
<1>7. WordsIn(stats', s) = words
  BY <1>2, BecomesChanges
<1>8. LocalsTyped' /\ OthersUntouched(r)
  BY <1>1, <1>2 DEF TypeOk, LocalsTyped, OthersUntouched, Selecting
<1>9. TypeOk'
  BY <1>1, <1>2, <1>6, <1>8 DEF TypeOk, StatsTyped, LocalsTyped, WordsType
<1>10. Words(selected[r])' = words
  BY <1>2, <1>7 DEF Words, s
<1>11. Knows(r)'
  BY <1>1, <1>2, <1>4, <1>5, <1>10 DEF TypeOk, Knows, Selecting, Refining
<1>12. KnowsWhereItIs'
  BY <1>1, <1>6, <1>8, <1>11, OthersKnow
<1>13. ChildrenFinite' /\ ChildrenAccounted'
  <2>1. r \in Reserving /\ Reserving' = Reserving \ {r}
    BY <1>1, <1>2 DEF TypeOk, Reserving
  <2>2. s \notin Refined
    BY <1>2 DEF Refined, Words, WordsIn
  <2>3. IsFiniteSet(Reserving) /\ IsFiniteSet(Refined)
    BY DEF IInv, ChildrenFinite
  <2>4. IsFiniteSet(Reserving') /\ Cardinality(Reserving') = Cardinality(Reserving) - 1
    BY <2>1, <2>3, FS_RemoveElement
  <2>5. IsFiniteSet(Refined') /\ Cardinality(Refined') = Cardinality(Refined) + 1
    BY <1>6, <2>2, <2>3, FS_AddElement
  <2>6. Cardinality(Reserving) \in Nat /\ Cardinality(Refined) \in Nat
    BY <2>3, FS_CardinalityType
  <2>7. children = 2 * Cardinality(Refined) + 2 * Cardinality(Reserving)
    BY DEF IInv, ChildrenAccounted, Reserving
  <2>8. children' = 2 * Cardinality(Refined') + 2 * Cardinality(Reserving')
    BY <1>2, <2>4, <2>5, <2>6, <2>7
  <2> QED
    BY <2>4, <2>5, <2>8 DEF ChildrenFinite, ChildrenAccounted, Reserving
<1> QED
  BY <1>6, <1>9, <1>12, <1>13 DEF IInv

\* A reservation is returned: it was somebody's, so that the counter was at
\* least two.
LEMMA GiveBackStep ==
    ASSUME IInv, NEW r \in Renderers, GiveBack(r)
    PROVE  IInv'
<1>1. TypeOk /\ RefinedHaveMinimum /\ KnowsWhereItIs /\ Knows(r) /\ pc[r] = "giveBack"
  BY DEF IInv, KnowsWhereItIs, GiveBack, Transition
<1>2. /\ pc' = [pc EXCEPT ![r] = "descend"] /\ children' = children - 2
      /\ loaded' = [loaded EXCEPT ![r] = Words(selected[r]).refinement]
      /\ UNCHANGED <<buckets, stats, yield, selected, depth, fallback, seen, reported>>
  BY DEF GiveBack, Transition, Load, Refinement
<1>3. /\ StatsTyped' /\ RefinedHaveMinimum' /\ Grown /\ Refined' = Refined
      /\ Words(selected[r])' = Words(selected[r])
  BY <1>1, <1>2, StatsAlone DEF Words
<1>4. Words(selected[r]) \in WordsType
  BY <1>1, WordsTyped
<1>5. LocalsTyped' /\ OthersUntouched(r)
  BY <1>1, <1>2, <1>4 DEF TypeOk, LocalsTyped, OthersUntouched, Selecting, WordsType
<1>6. Knows(r)'
  BY <1>1, <1>2, <1>3 DEF TypeOk, Knows, Selecting, Refining
<1>7. KnowsWhereItIs'
  BY <1>1, <1>3, <1>5, <1>6, OthersKnow
<1>8. ChildrenFinite' /\ ChildrenAccounted' /\ children' \in 0 .. MaxChildren
  <2>1. r \in Reserving /\ Reserving' = Reserving \ {r}
    BY <1>1, <1>2 DEF TypeOk, Reserving
  <2>2. IsFiniteSet(Reserving) /\ IsFiniteSet(Refined)
    BY DEF IInv, ChildrenFinite
  <2>3. IsFiniteSet(Reserving') /\ Cardinality(Reserving') = Cardinality(Reserving) - 1
    BY <2>1, <2>2, FS_RemoveElement
  <2>4. /\ Cardinality(Reserving) \in Nat /\ Cardinality(Refined) \in Nat
        /\ Cardinality(Reserving') \in Nat
    BY <2>2, <2>3, FS_CardinalityType
  <2>5. children = 2 * Cardinality(Refined) + 2 * Cardinality(Reserving)
    BY DEF IInv, ChildrenAccounted, Reserving
  <2>6. children' = 2 * Cardinality(Refined') + 2 * Cardinality(Reserving')
    BY <1>2, <1>3, <2>3, <2>4, <2>5
  <2>7. children' \in 0 .. MaxChildren
    <3>1. Cardinality(Refined') \in Nat /\ children \in 0 .. MaxChildren
      BY <1>1, <1>3, <2>4 DEF TypeOk
    <3> QED
      BY <1>2, <2>4, <2>6, <3>1, LimitsAssumption
  <2> QED
    BY <1>3, <2>2, <2>3, <2>6, <2>7 DEF ChildrenFinite, ChildrenAccounted, Reserving
<1>9. TypeOk'
  BY <1>1, <1>2, <1>3, <1>5, <1>8 DEF TypeOk, StatsTyped, LocalsTyped, WordsType
<1> QED
  BY <1>3, <1>7, <1>8, <1>9 DEF IInv

\* An observation leaves the refinement of its statistics alone.
LEMMA Report ==
    ASSUME IInv, NEW r \in Renderers, pc[r] \in {"rendering", "count"},
           NEW words \in WordsType, Becomes(selected[r], words),
           words.minimum = 0 \/ words.minimum \in Overheads,
           Words(selected[r]).minimum > 0 => words.minimum > 0,
           words.refinement = Words(selected[r]).refinement,
           UNCHANGED <<buckets, children>>, reported' \in Nat,
           LocalsTyped', OthersUntouched(r), pc'[r] \in {"count", "idle"}, Knows(r)'
    PROVE  IInv' /\ Grown
<1> DEFINE s == selected[r]
<1>1. TypeOk /\ RefinedHaveMinimum /\ KnowsWhereItIs
  BY DEF IInv
<1>2. s \in Bands
  BY <1>1 DEF TypeOk
<1>3. Words(s) \in WordsType /\ (Words(s).refinement # Nobody
        => Words(s).minimum > 0 /\ CanBeSplit(s) /\ s.by # Nobody)
  BY <1>1, WordsTyped
<1>4. s \in Refined <=> Words(s).refinement # Nobody
  BY DEF Refined, Words, WordsIn, Zero
<1> HIDE DEF s
<1>5. Becomes(s, words)
  BY DEF s
<1>6. StatsTyped' /\ RefinedHaveMinimum' /\ Grown
  BY <1>1, <1>2, <1>3, <1>5, StatsWritten DEF s
<1>7. Refined' = Refined
  <2>1. /\ words.refinement # Nobody => Refined' = Refined \cup {s}
        /\ words.refinement = Nobody => Refined' = Refined
    BY <1>1, <1>2, <1>3, <1>5, StatsWritten DEF s
  <2>2. words.refinement # Nobody => s \in Refined
    BY <1>4 DEF s
  <2> QED
    BY <2>1, <2>2
<1>8. TypeOk'
  BY <1>1, <1>6 DEF TypeOk, StatsTyped, LocalsTyped, WordsType
<1>9. KnowsWhereItIs'
  BY <1>1, <1>6, OthersKnow
<1>10. Reserving' = Reserving
  BY <1>1, ReservingKept
<1>11. ChildrenFinite' /\ ChildrenAccounted'
  BY <1>7, <1>10 DEF IInv, ChildrenFinite, ChildrenAccounted, Reserving
<1> QED
  BY <1>6, <1>8, <1>9, <1>11 DEF IInv

LEMMA ObserveStep ==
    ASSUME IInv, NEW r \in Renderers, Observe(r)
    PROVE  IInv' /\ Grown
<1>1. TypeOk /\ RefinedHaveMinimum /\ Knows(r) /\ Words(selected[r]) \in WordsType
  BY WordsTyped DEF IInv, KnowsWhereItIs
<1>2. PICK overhead \in Overheads :
        overhead > 0 /\ Becomes(selected[r], Wider(Words(selected[r]), overhead))
  BY DEF Observe
<1> DEFINE words == Wider(Words(selected[r]), overhead)
<1>3. /\ words \in WordsType /\ words.minimum \in Nat /\ words.minimum > 0
      /\ words.minimum = Words(selected[r]).minimum \/ words.minimum = overhead
      /\ words.refinement = Words(selected[r]).refinement
  <2> DEFINE old == Words(selected[r])
             low == IF old.minimum = 0 \/ overhead < old.minimum THEN overhead ELSE old.minimum
             high == IF overhead > old.maximum THEN overhead ELSE old.maximum
  <2>1. old \in WordsType /\ old.minimum \in Nat /\ old.maximum \in Nat /\ overhead \in Nat
    BY <1>1, <1>2, SizesAssumption DEF WordsType
  <2> HIDE DEF old
  <2>2. low \in Nat /\ low > 0 /\ high \in Nat /\ (low = old.minimum \/ low = overhead)
    BY <1>2, <2>1
  <2>3. words = [old EXCEPT !.minimum = low, !.maximum = high]
    BY <2>1 DEF Wider, WordsType, old
  <2> HIDE DEF words, low, high
  <2>4. words \in WordsType /\ words.minimum = low /\ words.refinement = old.refinement
    BY <2>1, <2>2, <2>3 DEF WordsType
  <2> QED
    BY <2>2, <2>4 DEF old
<1>4. words.minimum \in Overheads
  <2>1. Words(selected[r]).minimum = 0 \/ Words(selected[r]).minimum \in Overheads
    BY <1>1, WordsTyped
  <2> QED
    BY <1>2, <1>3, <2>1
<1> HIDE DEF words
<1>5. /\ pc[r] = "rendering" /\ pc' = [pc EXCEPT ![r] = "count"]
      /\ UNCHANGED <<buckets, children, locals, reported>>
  BY DEF Observe, Transition
<1>6. LocalsTyped' /\ OthersUntouched(r) /\ pc'[r] = "count" /\ reported' \in Nat
  BY <1>1, <1>5 DEF TypeOk, LocalsTyped, OthersUntouched, locals, Selecting
<1>7. Knows(r)'
  BY <1>1, <1>5, <1>6 DEF Knows, locals, Selecting, Refining
<1> QED
  BY <1>2, <1>3, <1>4, <1>5, <1>6, <1>7, Report DEF words

LEMMA CountStep ==
    ASSUME IInv, NEW r \in Renderers, Count(r)
    PROVE  IInv' /\ Grown
<1> DEFINE words == [Words(selected[r]) EXCEPT !.samples = @ + 1]
<1>1. TypeOk /\ RefinedHaveMinimum /\ Knows(r) /\ Words(selected[r]) \in WordsType
  BY WordsTyped DEF IInv, KnowsWhereItIs
<1>2. Words(selected[r]).minimum = 0 \/ Words(selected[r]).minimum \in Overheads
  BY <1>1, WordsTyped
<1>3. /\ words \in WordsType /\ words.minimum = Words(selected[r]).minimum
      /\ words.refinement = Words(selected[r]).refinement
  BY <1>1 DEF WordsType
<1>4. Becomes(selected[r], words)
  BY DEF Count
<1> HIDE DEF words
<1>5. /\ pc[r] = "count" /\ pc' = [pc EXCEPT ![r] = "idle"] /\ reported' = reported + 1
      /\ Forget(r) /\ UNCHANGED <<buckets, children>>
  BY DEF Count, Transition
<1>6. LocalsTyped' /\ OthersUntouched(r) /\ pc'[r] = "idle" /\ reported' \in Nat
  BY <1>1, <1>5, LimitsAssumption
     DEF TypeOk, LocalsTyped, OthersUntouched, Forget, NoStats, Band, Bands
<1>7. Knows(r)'
  BY <1>1, <1>5, <1>6 DEF TypeOk, Knows, Forget, Selecting, Refining
<1> QED
  BY <1>2, <1>3, <1>4, <1>5, <1>6, <1>7, Report

LEMMA InitIInv == Init => IInv
<1> SUFFICES ASSUME Init PROVE IInv
  OBVIOUS
<1>1. DOMAIN stats = {} /\ Refined = {} /\ Reserving = {}
  BY DEF Init, Refined, Reserving
<1>2. TypeOk
  BY <1>1, LimitsAssumption, NobodyAssumption DEF Init, TypeOk, NoStats, Band, Bands, Selecting
<1>3. RefinedHaveMinimum /\ KnowsWhereItIs
  BY <1>1 DEF Init, RefinedHaveMinimum, KnowsWhereItIs, Knows, Selecting, Refining
<1>4. ChildrenFinite /\ ChildrenAccounted
  BY <1>1, FS_EmptySet DEF Init, ChildrenFinite, ChildrenAccounted, Reserving
<1> QED
  BY <1>2, <1>3, <1>4 DEF IInv

LEMMA NextIInv == IInv /\ [Next]_vars => IInv'
<1> SUFFICES ASSUME IInv, [Next]_vars PROVE IInv'
  OBVIOUS
<1>1. CASE UNCHANGED vars
  BY <1>1 DEF vars, shared, locals, IInv, TypeOk, RefinedHaveMinimum, KnowsWhereItIs, Knows,
              Words, CanBeSplit, ChildrenFinite, ChildrenAccounted, Refined, Reserving
<1>2. CASE Next
  <2>1. PICK r \in Renderers :
          Predict(r) \/ LayoutStats(r) \/ Read(r) \/ Ignore(r) \/ Observe(r) \/ Count(r)
    BY <1>2 DEF Next
  <2>2. CASE Predict(r) \/ Read(r) \/ Ignore(r)
    BY <2>2, PredictStep, ReadStep, IgnoreStep
  <2>3. CASE LayoutStats(r)
    <3>1. CASE LayoutBuckets(r)
      BY <3>1, LoadBucketsStep, PublishBucketsStep, FindBucketsStep DEF LayoutBuckets
    <3>2. CASE Look(r) \/ Consider(r) \/ Descend(r)
      BY <3>2, LookStep, ConsiderStep, DescendStep
    <3>3. CASE Refine(r)
      BY <3>3, LookAgainStep, LoadChildrenStep, SwapChildrenStep, RetryChildrenStep,
         PublishRefinementStep, LoseRefinementStep, GiveBackStep DEF Refine, Reserve
    <3> QED
      BY <2>3, <3>1, <3>2, <3>3 DEF LayoutStats
  <2>4. CASE Observe(r) \/ Count(r)
    BY <2>4, ObserveStep, CountStep
  <2> QED
    BY <2>1, <2>2, <2>3, <2>4
<1> QED
  BY <1>1, <1>2

\* The invariant holds in every state.
THEOREM Invariance == Spec => []IInv
BY InitIInv, NextIInv, PTL DEF Spec

\* The words of the profile are counters and sizes, the counter of children
\* stays within its limit, and every goroutine is at a point of a render.
THEOREM TypeCorrect == Spec => []TypeOk
<1>1. IInv => TypeOk
  BY DEF IInv
<1> QED
  BY <1>1, Invariance, PTL

\* refinementChildren is what was published and what is reserved: nothing is
\* lost when a compare-and-swap fails.
THEOREM ChildrenAreAccounted == Spec => []ChildrenAccounted
<1>1. IInv => ChildrenAccounted
  BY DEF IInv
<1> QED
  BY <1>1, Invariance, PTL

\* A render below a refinement has its parent's minimum to fall back on.
THEOREM FallbackIsGrounded == Spec => []FallbackHasMinimum
<1>1. IInv => FallbackHasMinimum
  BY DEF IInv, KnowsWhereItIs, Knows, FallbackHasMinimum, RefinementFallback
<1> QED
  BY <1>1, Invariance, PTL

-----------------------------------------------------------------------------
\* What is found later.

\* Pointers only go from nil to something.
LEMMA NextGrown ==
    ASSUME IInv, [Next]_vars
    PROVE  Grown /\ (buckets # Nobody => buckets' = buckets)
<1>1. TypeOk /\ RefinedHaveMinimum
  BY DEF IInv
<1>2. CASE UNCHANGED vars
  BY <1>1, <1>2, StatsAlone DEF vars, shared
<1>3. ASSUME NEW r \in Renderers, Observe(r) \/ Count(r) \/ PublishRefinement(r)
      PROVE  Grown /\ buckets' = buckets
  <2>1. Grown
    BY <1>3, ObserveStep, CountStep, PublishRefinementStep
  <2>2. buckets' = buckets
    BY <1>3 DEF Observe, Count, PublishRefinement
  <2> QED
    BY <2>1, <2>2
<1>4. ASSUME NEW r \in Renderers,
             \/ Predict(r) \/ Read(r) \/ Ignore(r) \/ LayoutBuckets(r) \/ Look(r)
             \/ Consider(r) \/ Descend(r) \/ LookAgain(r) \/ Reserve(r)
             \/ LoseRefinement(r) \/ GiveBack(r)
      PROVE  Grown /\ (buckets # Nobody => buckets' = buckets)
  <2>1. stats' = stats /\ (buckets # Nobody => buckets' = buckets)
    BY <1>4 DEF Predict, Read, Ignore, LayoutBuckets, LoadBuckets, PublishBuckets, FindBuckets,
                Look, Consider, Descend, LookAgain, Reserve, LoadChildren, SwapChildren,
                RetryChildren, LoseRefinement, GiveBack, shared
  <2> QED
    BY <1>1, <2>1, StatsAlone
<1>5. CASE Next
  <2>1. PICK r \in Renderers :
          Predict(r) \/ LayoutStats(r) \/ Read(r) \/ Ignore(r) \/ Observe(r) \/ Count(r)
    BY <1>5 DEF Next
  <2> QED
    BY <1>3, <1>4, <2>1 DEF LayoutStats, Refine
<1> QED
  BY <1>2, <1>5

\* A refinement that was published is final: the children it was given are
\* the ones that everybody descends to.
THEOREM RefinementsAreFinal == Spec => RefinementsStay
<1>1. IInv /\ [Next]_vars
        => [\A s \in Refined : stats'[s].refinement = stats[s].refinement]_vars
  <2> SUFFICES ASSUME IInv, [Next]_vars, NEW s \in Refined
               PROVE  stats'[s].refinement = stats[s].refinement
    OBVIOUS
  <2>1. Words(s).refinement = stats[s].refinement /\ stats[s].refinement # Nobody
    BY DEF Refined, Words, WordsIn
  <2>2. WordsIn(stats', s).refinement = stats[s].refinement
    BY <2>1, NextGrown DEF Grown
  <2>3. s \in DOMAIN stats'
    BY <2>1, <2>2 DEF WordsIn, Zero
  <2> QED
    BY <2>2, <2>3 DEF WordsIn
<1> QED
  BY <1>1, Invariance, PTL DEF Spec, RefinementsStay

\* Whoever comes to statistics comes to the same ones later, because all the
\* pointers on the way to them are set.
LEMMA FoundStays ==
    ASSUME IInv, Grown, buckets # Nobody => buckets' = buckets,
           NEW size, NEW d \in 0 .. MaxDepth, Found(size, d).by # Nobody
    PROVE  Found(size, d)' = Found(size, d)
<1> DEFINE old(k) == FoundIn(buckets, stats, size, k)
           new(k) == FoundIn(buckets', stats', size, k)
           Lost == {k \in Nat : k <= MaxDepth /\ old(k).by # Nobody /\ new(k) # old(k)}
<1>1. /\ old(0) = Base(Bucket(size), buckets)
      /\ \A k \in Nat : k < MaxDepth =>
            old(k + 1) = Half(old(k), Words(old(k)).refinement, size)
  BY FoundSteps DEF Words
<1>2. /\ new(0) = Base(Bucket(size), buckets')
      /\ \A k \in Nat : k < MaxDepth =>
            new(k + 1) = Half(new(k), WordsIn(stats', new(k)).refinement, size)
  BY FoundSteps
<1>3. Found(size, d) = old(d) /\ Found(size, d)' = new(d)
  BY DEF Found
<1> HIDE DEF old, new
<1>4. SUFFICES ASSUME Lost # {} PROVE FALSE
  <2>1. d \in Nat /\ d <= MaxDepth
    BY LimitsAssumption
  <2> QED
    BY <1>3, <1>4, <2>1
<1>5. PICK m \in Lost : \A k \in Lost : m <= k
  BY <1>4, Smallest
<1>6. CASE m = 0
  BY <1>1, <1>2, <1>5, <1>6 DEF Base, Band
<1>7. CASE m > 0
  <2> DEFINE p == old(m - 1)
  <2>1. m - 1 \in Nat /\ m - 1 < MaxDepth /\ m - 1 <= MaxDepth /\ (m - 1) + 1 = m /\ m - 1 \notin Lost
    BY <1>5, <1>7, LimitsAssumption
  <2>2. old(m) = Half(p, Words(p).refinement, size)
    BY <1>1, <2>1
  <2>3. Words(p).refinement # Nobody
    BY <1>5, <2>2 DEF Half, Band
  <2>4. p.by # Nobody
    BY <2>3, WordsTyped DEF IInv
  <2>5. new(m - 1) = p
    BY <2>1, <2>4
  <2>6. WordsIn(stats', p).refinement = Words(p).refinement
    BY <2>3 DEF Grown
  <2>7. new(m) = old(m)
    BY <1>2, <2>1, <2>2, <2>5, <2>6
  <2> QED
    BY <1>5, <2>7
<1> QED
  BY <1>5, <1>6, <1>7

\* What a goroutine holds is what it would find now, and its yield size is in
\* the range.
Holds(r) ==
    pc[r] \in Selecting =>
        /\ selected[r] = Found(yield[r], depth[r])
        /\ selected[r].lower <= yield[r]
        /\ selected[r].upper = 0 \/ yield[r] <= selected[r].upper

\* Nothing but live statistics was ever written.
StatsLive == DOMAIN stats \subseteq Live

\* The observations in all the statistics that were written.
CountedIn(all) == UNION {{s} \X (1 .. WordsIn(all, s).samples) : s \in DOMAIN all}
StatsBooked == IsFiniteSet(CountedIn(stats)) /\ Cardinality(CountedIn(stats)) = reported

JInv == IInv /\ (\A r \in Renderers : Holds(r)) /\ StatsLive /\ StatsBooked

\* A goroutine that keeps its selection holds it.
LEMMA HoldsOn ==
    ASSUME IInv, [Next]_vars, NEW q \in Renderers, Holds(q),
           yield'[q] = yield[q] /\ selected'[q] = selected[q] /\ depth'[q] = depth[q],
           pc'[q] \in Selecting => pc[q] \in Selecting
    PROVE  Holds(q)'
<1> SUFFICES ASSUME pc'[q] \in Selecting
             PROVE  /\ selected'[q] = Found(yield[q], depth[q])'
                    /\ selected'[q].lower <= yield'[q]
                    /\ selected'[q].upper = 0 \/ yield'[q] <= selected'[q].upper
  BY DEF Holds
<1>1. /\ selected[q] = Found(yield[q], depth[q]) /\ selected[q].lower <= yield[q]
      /\ selected[q].upper = 0 \/ yield[q] <= selected[q].upper
  BY DEF Holds
<1>2. depth[q] \in 0 .. MaxDepth /\ selected[q].by # Nobody
  BY DEF IInv, TypeOk, KnowsWhereItIs, Knows
<1>3. FoundIn(buckets', stats', yield[q], depth[q]) = FoundIn(buckets, stats, yield[q], depth[q])
  BY <1>1, <1>2, NextGrown, FoundStays DEF Found
<1>4. Found(yield[q], depth[q])' = FoundIn(buckets', stats', yield'[q], depth'[q])
  BY DEF Found
<1> QED
  BY <1>1, <1>3, <1>4 DEF Found

\* A goroutine that comes to the base range of its yield size.
LEMMA HoldsBase ==
    ASSUME IInv, NEW r \in Renderers, pc[r] \notin Selecting, yield' = yield, depth' = depth,
           selected'[r] = Base(Bucket(yield[r]), buckets'), buckets' \in Renderers \cup {Nobody}
    PROVE  Holds(r)'
<1>1. yield[r] \in Nat /\ depth[r] = 0
  BY DEF IInv, TypeOk, KnowsWhereItIs, Knows
<1>2. FoundIn(buckets', stats', yield[r], 0) = Base(Bucket(yield[r]), buckets')
  BY FoundSteps
<1>3. Found(yield[r], depth[r])' = selected'[r]
  BY <1>1, <1>2 DEF Found
<1>4. /\ selected'[r].lower <= yield[r]
      /\ selected'[r].upper = 0 \/ yield[r] <= selected'[r].upper
  BY <1>1, BaseIs
<1> QED
  BY <1>3, <1>4 DEF Holds

\* One level down, to the half that everybody with this yield size goes to.
LEMMA HoldsBelow ==
    ASSUME IInv, NEW r \in Renderers, Holds(r), Descend(r)
    PROVE  Holds(r)'
<1> DEFINE half == Half(selected[r], loaded[r], yield[r])
<1>1. TypeOk /\ RefinedHaveMinimum /\ Knows(r) /\ pc[r] = "descend"
  BY DEF IInv, KnowsWhereItIs, Descend, Transition
<1>2. /\ selected[r] \in Bands /\ yield[r] \in Nat /\ depth[r] \in Nat
      /\ loaded[r] = Words(selected[r]).refinement /\ loaded[r] # Nobody
      /\ depth[r] = selected[r].level
  BY <1>1, LimitsAssumption DEF TypeOk, Knows, Selecting
<1>3. CanBeSplit(selected[r]) /\ Words(selected[r]) \in WordsType
  BY <1>1, <1>2, WordsTyped
<1>4. /\ selected[r] = Found(yield[r], depth[r]) /\ selected[r].lower <= yield[r]
      /\ selected[r].upper = 0 \/ yield[r] <= selected[r].upper
  BY <1>1 DEF Holds, Selecting
<1>5. loaded[r] \in Renderers \cup {Nobody}
  BY <1>2, <1>3 DEF WordsType
<1>6. yield[r] <= selected[r].upper
  BY <1>2, <1>3, <1>4, LimitsAssumption DEF CanBeSplit, Bands
<1>7. half.lower <= yield[r] /\ yield[r] <= half.upper
  BY <1>2, <1>3, <1>4, <1>5, <1>6, HalfIs
<1>8. FoundIn(buckets, stats, yield[r], depth[r] + 1) = half
  <2>1. depth[r] < MaxDepth
    BY <1>2, <1>3 DEF CanBeSplit
  <2>2. FoundIn(buckets, stats, yield[r], depth[r]) = selected[r]
    BY <1>4 DEF Found
  <2>3. WordsIn(stats, selected[r]).refinement = loaded[r]
    BY <1>2 DEF Words
  <2>4. FoundIn(buckets, stats, yield[r], depth[r] + 1)
          = Half(FoundIn(buckets, stats, yield[r], depth[r]),
                 WordsIn(stats, FoundIn(buckets, stats, yield[r], depth[r])).refinement, yield[r])
    <3>1. depth[r] \in Nat
      BY <1>2
    <3> QED
      BY <2>1, <3>1, FoundSteps, Zenon
  <2> QED
    BY <2>2, <2>3, <2>4
<1> HIDE DEF half
<1>9. /\ selected'[r] = half /\ depth'[r] = depth[r] + 1
      /\ UNCHANGED <<yield, buckets, stats>>
  BY <1>1 DEF Descend, TypeOk, shared, half
<1>10. Found(yield[r], depth[r])' = half
  BY <1>8, <1>9 DEF Found
<1> QED
  BY <1>7, <1>9, <1>10 DEF Holds

LEMMA OthersKeep ==
    ASSUME TypeOk, NEW r \in Renderers, NEW q \in Renderers, q # r,
           Predict(r) \/ LayoutStats(r) \/ Read(r) \/ Ignore(r) \/ Observe(r) \/ Count(r)
    PROVE  /\ yield'[q] = yield[q] /\ selected'[q] = selected[q] /\ depth'[q] = depth[q]
           /\ pc'[q] = pc[q]
BY DEF TypeOk, LayoutStats, LayoutBuckets, LoadBuckets, PublishBuckets, FindBuckets, Enter,
       Predict, Look, Consider, Refine, LookAgain, Reserve, LoadChildren, SwapChildren,
       RetryChildren, PublishRefinement, LoseRefinement, GiveBack, Descend, Read,
       Ignore, Forget, Observe, Count, Transition, locals

LEMMA HoldsStep ==
    ASSUME IInv, \A r \in Renderers : Holds(r), [Next]_vars
    PROVE  \A r \in Renderers : Holds(r)'
<1>1. TypeOk
  BY DEF IInv
<1>2. CASE UNCHANGED vars
  BY <1>2, HoldsOn DEF vars, locals
<1>3. CASE Next
  <2>1. PICK r \in Renderers :
          Predict(r) \/ LayoutStats(r) \/ Read(r) \/ Ignore(r) \/ Observe(r) \/ Count(r)
    BY <1>3 DEF Next
  <2>2. Holds(r)'
    <3>1. CASE Predict(r) \/ Ignore(r) \/ Count(r)
      <4>1. pc'[r] \notin Selecting
        BY <1>1, <3>1 DEF TypeOk, Predict, Ignore, Count, Transition, Selecting
      <4> QED
        BY <4>1 DEF Holds
    <3>2. CASE LoadBuckets(r) \/ PublishBuckets(r) \/ FindBuckets(r)
      <4>1. pc[r] \notin Selecting /\ yield' = yield /\ depth' = depth
        BY <3>2 DEF LoadBuckets, PublishBuckets, FindBuckets, Transition, Selecting
      <4>2. buckets' \in Renderers \cup {Nobody}
        BY <1>1, <3>2 DEF TypeOk, LoadBuckets, PublishBuckets, FindBuckets, shared
      <4>3. CASE pc'[r] = "newBuckets"
        BY <4>3 DEF Holds, Selecting
      <4>4. CASE pc'[r] # "newBuckets"
        <5>1. selected'[r] = Base(Bucket(yield[r]), buckets')
          BY <1>1, <3>2, <4>4
             DEF TypeOk, LoadBuckets, PublishBuckets, FindBuckets, Enter, Transition, shared
        <5> QED
          BY <4>1, <4>2, <5>1, HoldsBase
      <4> QED
        BY <4>3, <4>4
    <3>3. CASE Descend(r)
      BY <3>3, HoldsBelow
    <3>4. CASE Look(r) \/ Consider(r) \/ Refine(r) \/ Read(r) \/ Observe(r)
      <4>1. pc[r] \in Selecting /\ UNCHANGED <<yield, selected, depth>>
        BY <3>4 DEF Look, Consider, Refine, LookAgain, Reserve, LoadChildren, SwapChildren,
             RetryChildren, PublishRefinement, LoseRefinement, GiveBack, Read, Observe,
             Transition, Selecting, locals
      <4> QED
        BY <4>1, HoldsOn
    <3> QED
      BY <2>1, <3>1, <3>2, <3>3, <3>4 DEF LayoutStats, LayoutBuckets
  <2>3. ASSUME NEW q \in Renderers, q # r
        PROVE  Holds(q)'
    <3>1. /\ yield'[q] = yield[q] /\ selected'[q] = selected[q] /\ depth'[q] = depth[q]
          /\ pc'[q] = pc[q]
      BY <1>1, <2>1, <2>3, OthersKeep
    <3> QED
      BY <3>1, HoldsOn
  <2> QED
    BY <2>2, <2>3
<1> QED
  BY <1>2, <1>3

\* What a goroutine that selects holds is live.
LEMMA HeldIsLive ==
    ASSUME IInv, NEW r \in Renderers, Holds(r), pc[r] \in Selecting
    PROVE  selected[r] \in Live
<1>1. /\ depth[r] \in 0 .. MaxDepth /\ selected[r].by # Nobody /\ yield[r] \in Yields
      /\ selected[r] = Found(yield[r], depth[r])
  BY DEF IInv, TypeOk, KnowsWhereItIs, Knows, Holds, Selecting
<1> QED
  BY <1>1 DEF Live

\* Statistics stay live, and only live ones are written.
LEMMA LiveStep ==
    ASSUME IInv, \A r \in Renderers : Holds(r), StatsLive, [Next]_vars
    PROVE  StatsLive'
<1>1. ASSUME NEW s \in Live PROVE s \in Live'
  <2>1. PICK size \in Yields, d \in 0 .. MaxDepth : s = Found(size, d) /\ s.by # Nobody
    BY DEF Live
  <2>2. Found(size, d)' = s
    BY <2>1, NextGrown, FoundStays
  <2> QED
    BY <2>1, <2>2 DEF Live
<1>2. DOMAIN stats' \subseteq Live
  <2>1. CASE UNCHANGED stats
    BY <2>1 DEF StatsLive
  <2>2. CASE \E r \in Renderers : PublishRefinement(r) \/ Observe(r) \/ Count(r)
    <3>1. PICK r \in Renderers : PublishRefinement(r) \/ Observe(r) \/ Count(r)
      BY <2>2
    <3>2. pc[r] \in Selecting /\ \E words : Becomes(selected[r], words)
      BY <3>1 DEF PublishRefinement, Observe, Count, Transition, Selecting
    <3>3. DOMAIN stats' = DOMAIN stats \cup {selected[r]}
      BY <3>2, BecomesChanges
    <3> QED
      BY <3>2, <3>3, HeldIsLive DEF StatsLive
  <2>3. stats' = stats \/ \E r \in Renderers : PublishRefinement(r) \/ Observe(r) \/ Count(r)
    BY DEF Next, vars, shared, LayoutStats, LayoutBuckets, LoadBuckets, PublishBuckets,
           FindBuckets, Predict, Look, Consider, Refine, LookAgain, Reserve, LoadChildren,
           SwapChildren, RetryChildren, LoseRefinement, GiveBack, Descend, Read, Ignore
  <2> QED
    BY <2>1, <2>2, <2>3
<1> QED
  BY <1>1, <1>2 DEF StatsLive

-----------------------------------------------------------------------------
\* Counting observations.

LEMMA CountedMember ==
    ASSUME NEW all, NEW e
    PROVE  e \in CountedIn(all)
             <=> \E s \in DOMAIN all : \E k \in 1 .. WordsIn(all, s).samples : e = <<s, k>>
BY DEF CountedIn

\* Statistics that nobody wrote have no observations.
LEMMA CountedWritten ==
    ASSUME NEW all, NEW s, NEW k \in 1 .. WordsIn(all, s).samples
    PROVE  s \in DOMAIN all
<1>1. CASE s \notin DOMAIN all
  <2>1. WordsIn(all, s).samples = 0
    BY <1>1 DEF WordsIn, Zero
  <2> QED
    BY <2>1
<1> QED
  BY <1>1

\* The samples of all the statistics decide what is counted.
LEMMA SameSamples ==
    ASSUME NEW old, NEW new, \A s : WordsIn(new, s).samples = WordsIn(old, s).samples
    PROVE  CountedIn(new) = CountedIn(old)
<1>1. ASSUME NEW e PROVE e \in CountedIn(new) <=> e \in CountedIn(old)
  <2>1. ASSUME e \in CountedIn(new) PROVE e \in CountedIn(old)
    <3>1. PICK s \in DOMAIN new : \E k \in 1 .. WordsIn(new, s).samples : e = <<s, k>>
      BY <2>1, CountedMember
    <3>2. PICK k \in 1 .. WordsIn(old, s).samples : e = <<s, k>>
      BY <3>1
    <3> QED
      BY <3>2, CountedMember, CountedWritten
  <2>2. ASSUME e \in CountedIn(old) PROVE e \in CountedIn(new)
    <3>1. PICK s \in DOMAIN old : \E k \in 1 .. WordsIn(old, s).samples : e = <<s, k>>
      BY <2>2, CountedMember
    <3>2. PICK k \in 1 .. WordsIn(new, s).samples : e = <<s, k>>
      BY <3>1
    <3> QED
      BY <3>2, CountedMember, CountedWritten
  <2> QED
    BY <2>1, <2>2
<1> QED
  BY <1>1

\* One sample more is one observation more.
LEMMA OneMore ==
    ASSUME NEW old, NEW new, NEW s, NEW n \in Nat,
           WordsIn(old, s).samples = n, WordsIn(new, s).samples = n + 1,
           \A t : t # s => WordsIn(new, t).samples = WordsIn(old, t).samples
    PROVE  /\ CountedIn(new) = CountedIn(old) \cup {<<s, n + 1>>}
           /\ <<s, n + 1>> \notin CountedIn(old)
<1>1. <<s, n + 1>> \notin CountedIn(old)
  BY CountedMember
<1>2. ASSUME NEW e PROVE e \in CountedIn(new) <=> e \in CountedIn(old) \cup {<<s, n + 1>>}
  <2>1. ASSUME e \in CountedIn(new) PROVE e \in CountedIn(old) \cup {<<s, n + 1>>}
    <3>1. PICK t \in DOMAIN new : \E k \in 1 .. WordsIn(new, t).samples : e = <<t, k>>
      BY <2>1, CountedMember
    <3>2. PICK k \in 1 .. WordsIn(new, t).samples : e = <<t, k>>
      BY <3>1
    <3>3. CASE t = s /\ k = n + 1
      BY <3>2, <3>3
    <3>4. CASE ~ (t = s /\ k = n + 1)
      <4>1. k \in 1 .. WordsIn(old, t).samples
        BY <3>4
      <4> QED
        BY <3>2, <4>1, CountedMember, CountedWritten
    <3> QED
      BY <3>3, <3>4
  <2>2. ASSUME e \in CountedIn(old) PROVE e \in CountedIn(new)
    <3>1. PICK t \in DOMAIN old : \E k \in 1 .. WordsIn(old, t).samples : e = <<t, k>>
      BY <2>2, CountedMember
    <3>2. PICK k \in 1 .. WordsIn(old, t).samples : e = <<t, k>>
      BY <3>1
    <3>3. k \in 1 .. WordsIn(new, t).samples
      BY <3>2
    <3> QED
      BY <3>2, <3>3, CountedMember, CountedWritten
  <2>3. <<s, n + 1>> \in CountedIn(new)
    <3>1. n + 1 \in 1 .. WordsIn(new, s).samples
      OBVIOUS
    <3> QED
      BY <3>1, CountedMember, CountedWritten
  <2> QED
    BY <2>1, <2>2, <2>3
<1> QED
  BY <1>1, <1>2

\* Only three steps write statistics, and only one of them counts.
LEMMA WhoWrites ==
    ASSUME [Next]_vars
    PROVE  \/ UNCHANGED <<stats, reported>>
           \/ \E r \in Renderers : PublishRefinement(r) \/ Observe(r) \/ Count(r)
BY DEF Next, vars, shared, LayoutStats, LayoutBuckets, LoadBuckets, PublishBuckets,
       FindBuckets, Predict, Look, Consider, Refine, LookAgain, Reserve, LoadChildren,
       SwapChildren, RetryChildren, LoseRefinement, GiveBack, Descend, Read, Ignore

LEMMA SamplesKept ==
    ASSUME IInv, NEW r \in Renderers, PublishRefinement(r) \/ Observe(r)
    PROVE  \A t : WordsIn(stats', t).samples = Words(t).samples
<1> DEFINE s == selected[r]
<1>1. Words(s) \in WordsType
  BY WordsTyped DEF IInv
<1>2. PICK words : Becomes(s, words) /\ words.samples = Words(s).samples
  <2>1. CASE PublishRefinement(r)
    <3>1. [Words(s) EXCEPT !.refinement = r].samples = Words(s).samples
      BY <1>1 DEF WordsType
    <3> QED
      BY <2>1, <3>1 DEF PublishRefinement
  <2>2. CASE Observe(r)
    <3>1. PICK overhead \in Overheads : Becomes(s, Wider(Words(s), overhead))
      BY <2>2 DEF Observe
    <3>2. Wider(Words(s), overhead).samples = Words(s).samples
      BY <1>1 DEF Wider, WordsType
    <3> QED
      BY <3>1, <3>2
  <2> QED
    BY <2>1, <2>2
<1> QED
  BY <1>2, BecomesChanges

LEMMA SampleCounted ==
    ASSUME IInv, NEW r \in Renderers, Count(r)
    PROVE  /\ Words(selected[r]).samples \in Nat
           /\ WordsIn(stats', selected[r]).samples = Words(selected[r]).samples + 1
           /\ \A t : t # selected[r] => WordsIn(stats', t).samples = Words(t).samples
<1> DEFINE words == [Words(selected[r]) EXCEPT !.samples = @ + 1]
<1>1. Words(selected[r]) \in WordsType
  BY WordsTyped DEF IInv
<1>2. Words(selected[r]).samples \in Nat /\ words.samples = Words(selected[r]).samples + 1
  BY <1>1 DEF WordsType
<1>3. Becomes(selected[r], words)
  BY DEF Count
<1> HIDE DEF words
<1> QED
  BY <1>2, <1>3, BecomesChanges

LEMMA BookedStep ==
    ASSUME IInv, StatsBooked, [Next]_vars
    PROVE  StatsBooked'
<1>1. CASE UNCHANGED <<stats, reported>>
  BY <1>1 DEF StatsBooked
<1>2. ASSUME NEW r \in Renderers, PublishRefinement(r) \/ Observe(r)
      PROVE  StatsBooked'
  <2>1. CountedIn(stats') = CountedIn(stats)
    BY <1>2, SamplesKept, SameSamples DEF Words
  <2>2. reported' = reported
    BY <1>2 DEF PublishRefinement, Observe
  <2> QED
    BY <2>1, <2>2 DEF StatsBooked
<1>3. ASSUME NEW r \in Renderers, Count(r)
      PROVE  StatsBooked'
  <2> DEFINE s == selected[r]
             n == Words(s).samples
  <2>1. /\ n \in Nat /\ WordsIn(stats, s).samples = n /\ WordsIn(stats', s).samples = n + 1
        /\ \A t : t # s => WordsIn(stats', t).samples = WordsIn(stats, t).samples
    BY <1>3, SampleCounted DEF Words
  <2>2. reported' = reported + 1
    BY <1>3 DEF Count
  <2> HIDE DEF s, n
  <2>3. /\ CountedIn(stats') = CountedIn(stats) \cup {<<s, n + 1>>}
        /\ <<s, n + 1>> \notin CountedIn(stats)
    BY <2>1, OneMore
  <2>4. /\ IsFiniteSet(CountedIn(stats'))
        /\ Cardinality(CountedIn(stats')) = Cardinality(CountedIn(stats)) + 1
    BY <2>3, FS_AddElement DEF StatsBooked
  <2> QED
    BY <2>2, <2>4 DEF StatsBooked
<1> QED
  BY <1>1, <1>2, <1>3, WhoWrites

\* Every observation that counts is in live statistics.
LEMMA LiveCounted ==
    ASSUME StatsLive
    PROVE  Counted(Live) = CountedIn(stats)
<1>1. ASSUME NEW e PROVE e \in Counted(Live) <=> e \in CountedIn(stats)
  <2>1. e \in Counted(Live) <=> \E s \in Live : \E k \in 1 .. WordsIn(stats, s).samples : e = <<s, k>>
    BY DEF Counted, Words
  <2>2. e \in CountedIn(stats)
          <=> \E s \in DOMAIN stats : \E k \in 1 .. WordsIn(stats, s).samples : e = <<s, k>>
    BY CountedMember
  <2> QED
    BY <2>1, <2>2, CountedWritten DEF StatsLive
<1> QED
  BY <1>1

LEMMA InitJInv == Init => JInv
<1> SUFFICES ASSUME Init PROVE JInv
  OBVIOUS
<1>1. IInv
  BY InitIInv
<1>2. DOMAIN stats = {} /\ reported = 0 /\ \A r \in Renderers : pc[r] = "idle"
  BY DEF Init
<1>3. (\A r \in Renderers : Holds(r)) /\ StatsLive
  BY <1>2 DEF Holds, StatsLive, Selecting
<1>4. CountedIn(stats) = {}
  BY <1>2 DEF CountedIn
<1>5. StatsBooked
  BY <1>2, <1>4, FS_EmptySet DEF StatsBooked
<1> QED
  BY <1>1, <1>3, <1>5 DEF JInv

LEMMA NextJInv == JInv /\ [Next]_vars => JInv'
<1> SUFFICES ASSUME JInv, [Next]_vars PROVE JInv'
  OBVIOUS
<1>1. IInv /\ (\A r \in Renderers : Holds(r)) /\ StatsLive /\ StatsBooked
  BY DEF JInv
<1>2. IInv'
  BY <1>1, NextIInv
<1>3. \A r \in Renderers : Holds(r)'
  BY <1>1, HoldsStep
<1>4. StatsLive' /\ StatsBooked'
  BY <1>1, LiveStep, BookedStep
<1> QED
  BY <1>2, <1>3, <1>4 DEF JInv

\* The invariant with what is found and counted.
THEOREM ProfileIsLive == Spec => []JInv
BY InitJInv, NextJInv, PTL DEF Spec

\* What layoutStats returns is what every other render with that yield size
\* comes to at that depth, however the races for the buckets and the
\* refinements ended, and the yield size is in its range.
THEOREM SelectionsAreLive == Spec => []HeldStatsAreLive
<1>1. JInv => HeldStatsAreLive
  <2> SUFFICES ASSUME JInv, NEW r \in Renderers, pc[r] \in Selecting
               PROVE  /\ selected[r] = Found(yield[r], depth[r]) /\ selected[r] \in Live
                      /\ selected[r].lower <= yield[r]
                      /\ selected[r].upper = 0 \/ yield[r] <= selected[r].upper
    BY DEF HeldStatsAreLive
  <2> QED
    BY HeldIsLive DEF JInv, Holds
<1> QED
  BY <1>1, ProfileIsLive, PTL

\* No observation is lost: Observe adds to statistics that are still found,
\* and to nothing else.
THEOREM NothingObservedIsLost == Spec => []ObservationsKept
<1>1. JInv => ObservationsKept
  BY LiveCounted DEF JInv, StatsBooked, ObservationsKept
<1> QED
  BY <1>1, ProfileIsLive, PTL

-----------------------------------------------------------------------------
\* The profile implements SizeTree.

\* Whoever is about to split a range has read enough observations of it.
Earned(r) == pc[r] \in Refining => Words(selected[r]).samples >= MinSamples
KInv == JInv /\ \A r \in Renderers : Earned(r)

LEMMA SamplesGrow ==
    ASSUME IInv, [Next]_vars, NEW s
    PROVE  WordsIn(stats', s).samples >= Words(s).samples
<1>1. Words(s).samples \in Nat
  BY WordsTyped DEF IInv, WordsType
<1>2. CASE UNCHANGED <<stats, reported>>
  BY <1>1, <1>2 DEF Words
<1>3. ASSUME NEW r \in Renderers, PublishRefinement(r) \/ Observe(r)
      PROVE  WordsIn(stats', s).samples >= Words(s).samples
  BY <1>1, <1>3, SamplesKept
<1>4. ASSUME NEW r \in Renderers, Count(r)
      PROVE  WordsIn(stats', s).samples >= Words(s).samples
  BY <1>1, <1>4, SampleCounted
<1> QED
  BY <1>2, <1>3, <1>4, WhoWrites

LEMMA EarnedStep ==
    ASSUME IInv, \A r \in Renderers : Earned(r), [Next]_vars, NEW q \in Renderers
    PROVE  Earned(q)'
<1>1. TypeOk
  BY DEF IInv
<1>2. SUFFICES ASSUME pc'[q] \in Refining
               PROVE  Words(selected[q])'.samples >= MinSamples
  BY DEF Earned
<1>3. CASE pc[q] \in Refining /\ selected'[q] = selected[q]
  <2>1. /\ Words(selected[q]).samples >= MinSamples
        /\ WordsIn(stats', selected[q]).samples >= Words(selected[q]).samples
    BY <1>3, SamplesGrow DEF Earned
  <2>2. Words(selected[q]).samples \in Nat /\ WordsIn(stats', selected[q]).samples \in Nat
    <3>1. IInv'
      BY NextIInv
    <3> QED
      BY <3>1, WordsTyped DEF IInv, TypeOk, WordsType, WordsIn, Words, Zero
  <2> QED
    BY <1>3, <2>1, <2>2, LimitsAssumption DEF Words
<1>4. CASE Consider(q)
  BY <1>1, <1>2, <1>4 DEF TypeOk, Consider, ShouldRefine, Transition, Refining, locals, shared, Words
<1>5. Consider(q) \/ (pc[q] \in Refining /\ selected'[q] = selected[q])
  <2>1. CASE UNCHANGED vars
    BY <1>2, <2>1 DEF vars, locals
  <2>2. ASSUME NEW r \in Renderers, r # q,
               Predict(r) \/ LayoutStats(r) \/ Read(r) \/ Ignore(r) \/ Observe(r) \/ Count(r)
        PROVE  pc[q] \in Refining /\ selected'[q] = selected[q]
    BY <1>1, <1>2, <2>2, OthersKeep
  <2>3. CASE Predict(q) \/ Read(q) \/ Ignore(q) \/ Observe(q) \/ Count(q) \/ LayoutBuckets(q)
             \/ Look(q) \/ Descend(q)
    BY <1>1, <1>2, <2>3
       DEF TypeOk, Predict, Read, Ignore, Observe, Count, LayoutBuckets, LoadBuckets,
           PublishBuckets, FindBuckets, Look, Descend, Transition, Refining
  <2>4. CASE Refine(q)
    BY <2>4
       DEF Refine, LookAgain, Reserve, LoadChildren, SwapChildren, RetryChildren,
           PublishRefinement, LoseRefinement, GiveBack, Transition, Refining, locals
  <2> QED
    BY <2>1, <2>2, <2>3, <2>4 DEF Next, LayoutStats
<1> QED
  BY <1>3, <1>4, <1>5

\* The two functions that stand for the statistics in SizeTree.
SplitIn(all) ==
    [s \in {t \in DOMAIN all : all[t].refinement # Nobody} |-> all[s].refinement]
SamplesIn(all) ==
    [s \in {t \in DOMAIN all : all[t].samples > 0} |-> all[s].samples]

LEMMA SplitMember ==
    ASSUME NEW all, NEW s
    PROVE  /\ s \in DOMAIN SplitIn(all) <=> WordsIn(all, s).refinement # Nobody
           /\ s \in DOMAIN SplitIn(all) => SplitIn(all)[s] = WordsIn(all, s).refinement
BY DEF SplitIn, WordsIn, Zero

LEMMA SampledMember ==
    ASSUME NEW all, NEW s
    PROVE  /\ s \in DOMAIN SamplesIn(all) <=> WordsIn(all, s).samples > 0
           /\ s \in DOMAIN SamplesIn(all) => SamplesIn(all)[s] = WordsIn(all, s).samples
BY DEF SamplesIn, WordsIn, Zero

LEMMA SameSplit ==
    ASSUME NEW old, NEW new, \A t : WordsIn(new, t).refinement = WordsIn(old, t).refinement
    PROVE  SplitIn(new) = SplitIn(old)
<1>1. DOMAIN SplitIn(new) = DOMAIN SplitIn(old)
  BY SplitMember
<1>2. \A s \in DOMAIN SplitIn(old) : SplitIn(new)[s] = SplitIn(old)[s]
  BY <1>1, SplitMember
<1> QED
  BY <1>1, <1>2 DEF SplitIn

LEMMA SameSampled ==
    ASSUME NEW old, NEW new, \A t : WordsIn(new, t).samples = WordsIn(old, t).samples
    PROVE  SamplesIn(new) = SamplesIn(old)
<1>1. DOMAIN SamplesIn(new) = DOMAIN SamplesIn(old)
  BY SampledMember
<1>2. \A s \in DOMAIN SamplesIn(old) : SamplesIn(new)[s] = SamplesIn(old)[s]
  BY <1>1, SampledMember
<1> QED
  BY <1>1, <1>2 DEF SamplesIn

LEMMA MoreSplit ==
    ASSUME NEW old, NEW new, NEW s, NEW by,
           WordsIn(new, s).refinement = by, by # Nobody,
           \A t : t # s => WordsIn(new, t).refinement = WordsIn(old, t).refinement
    PROVE  SplitIn(new) = Tree!With(SplitIn(old), s, by)
<1>1. DOMAIN SplitIn(new) = DOMAIN SplitIn(old) \cup {s}
  BY SplitMember
<1>2. \A t \in DOMAIN SplitIn(new) :
        SplitIn(new)[t] = IF t = s THEN by ELSE SplitIn(old)[t]
  BY <1>1, SplitMember
<1>3. SplitIn(new) = [t \in DOMAIN SplitIn(new) |-> SplitIn(new)[t]]
  BY DEF SplitIn
<1> QED
  BY <1>1, <1>2, <1>3 DEF Tree!With

LEMMA MoreSampled ==
    ASSUME NEW old, NEW new, NEW s, NEW n \in Nat, WordsIn(new, s).samples = n + 1,
           \A t : t # s => WordsIn(new, t).samples = WordsIn(old, t).samples
    PROVE  SamplesIn(new) = Tree!With(SamplesIn(old), s, n + 1)
<1>1. DOMAIN SamplesIn(new) = DOMAIN SamplesIn(old) \cup {s}
  <2>1. s \in DOMAIN SamplesIn(new)
    BY SampledMember
  <2>2. \A t : t # s => (t \in DOMAIN SamplesIn(new) <=> t \in DOMAIN SamplesIn(old))
    BY SampledMember
  <2> QED
    BY <2>1, <2>2
<1>2. \A t \in DOMAIN SamplesIn(new) :
        SamplesIn(new)[t] = IF t = s THEN n + 1 ELSE SamplesIn(old)[t]
  BY <1>1, SampledMember
<1>3. SamplesIn(new) = [t \in DOMAIN SamplesIn(new) |-> SamplesIn(new)[t]]
  BY DEF SamplesIn
<1> QED
  BY <1>1, <1>2, <1>3 DEF Tree!With

LEMMA Mapped ==
    /\ RefinedBy = SplitIn(stats) /\ Sampled = SamplesIn(stats)
    /\ RefinedBy' = SplitIn(stats') /\ Sampled' = SamplesIn(stats')
    /\ Refined = DOMAIN SplitIn(stats) /\ Refined' = DOMAIN SplitIn(stats')
BY DEF RefinedBy, Sampled, Refined, SplitIn, SamplesIn

\* What can be found is in the forest.
LEMMA LiveInForest ==
    ASSUME IInv, NEW s \in Live
    PROVE  s \in Tree!Forest
<1>1. PICK size \in Yields, d \in 0 .. MaxDepth : s = Found(size, d) /\ s.by # Nobody
  BY DEF Live
<1>2. size \in Nat
  BY <1>1, SizesAssumption
<1>3. CASE d = 0
  <2>1. s = Base(Bucket(size), buckets)
    BY <1>1, <1>3, FoundSteps DEF Found
  <2>2. Bucket(size) \in 1 .. 12 /\ buckets # Nobody
    BY <1>1, <1>2, <2>1, BucketRange DEF Base, Band
  <2>3. s \in Tree!Top
    BY <2>1, <2>2 DEF Base, Band, Tree!Top
  <2> QED
    BY <2>2, <2>3 DEF Tree!Forest
<1>4. CASE d # 0
  <2> DEFINE p == Found(size, d - 1)
  <2>1. d - 1 \in Nat /\ d - 1 < MaxDepth /\ (d - 1) + 1 = d
    BY <1>4, LimitsAssumption
  <2>2. s = Half(p, Words(p).refinement, size)
    BY <1>1, <2>1, FoundSteps DEF Found, Words
  <2> HIDE DEF p
  <2>3. Words(p).refinement # Nobody
    BY <1>1, <2>2 DEF Half, Band
  <2>4. p \in DOMAIN SplitIn(stats) /\ SplitIn(stats)[p] = Words(p).refinement
    BY <2>3, SplitMember DEF Words
  <2>5. s \in Tree!Halves(p, SplitIn(stats)[p])
    BY <2>2, <2>4 DEF Half, Band, Midpoint, Tree!Halves
  <2> QED
    BY <2>4, <2>5, Mapped DEF Tree!Forest
<1> QED
  BY <1>3, <1>4

\* What leaves the pointers and the numbers of samples alone changes nothing
\* in the forest.
LEMMA Stutters ==
    ASSUME buckets' = buckets,
           \A t : /\ WordsIn(stats', t).refinement = Words(t).refinement
                  /\ WordsIn(stats', t).samples = Words(t).samples
    PROVE  UNCHANGED Tree!vars
<1>1. SplitIn(stats') = SplitIn(stats) /\ SamplesIn(stats') = SamplesIn(stats)
  BY SameSplit, SameSampled DEF Words
<1> QED
  BY <1>1, Mapped DEF Tree!vars

LEMMA PublishBucketsPlants ==
    ASSUME NEW r \in Renderers, PublishBuckets(r)
    PROVE  Tree!Plant
<1>1. buckets = Nobody /\ buckets' = r /\ stats' = stats
  BY DEF PublishBuckets
<1> QED
  BY <1>1, Mapped DEF Tree!Plant

LEMMA PublishRefinementSplits ==
    ASSUME KInv, NEW r \in Renderers, PublishRefinement(r)
    PROVE  \E s \in Tree!Forest : Tree!Split(s)
<1>1. PICK s : s = selected[r]
  OBVIOUS
<1> DEFINE words == [Words(s) EXCEPT !.refinement = r]
<1>2. IInv /\ TypeOk /\ Knows(r) /\ Holds(r) /\ Earned(r) /\ pc[r] = "publish"
  BY DEF KInv, JInv, IInv, KnowsWhereItIs, PublishRefinement, Transition
<1>3. Becomes(s, words) /\ Words(s).refinement = Nobody /\ buckets' = buckets
  BY <1>1 DEF PublishRefinement, Refinement
<1>4. Words(s) \in WordsType
  BY <1>2, WordsTyped DEF IInv
<1>5. words.refinement = r /\ words.samples = Words(s).samples /\ r # Nobody
  BY <1>4, NobodyAssumption DEF WordsType
<1>6. s \in Tree!Forest
  BY <1>1, <1>2, HeldIsLive, LiveInForest DEF Selecting
<1>7. s.level < MaxDepth /\ s.upper - s.lower >= 2 * MinWidth /\ Words(s).samples >= MinSamples
  BY <1>1, <1>2 DEF Knows, Earned, Refining, CanBeSplit
<1> HIDE DEF words
<1>8. SplitIn(stats') = Tree!With(SplitIn(stats), s, r)
  <2>1. /\ WordsIn(stats', s).refinement = r
        /\ \A t : t # s => WordsIn(stats', t).refinement = WordsIn(stats, t).refinement
    BY <1>3, <1>5, BecomesChanges DEF Words
  <2> QED
    BY <1>5, <2>1, MoreSplit
<1>9. SamplesIn(stats') = SamplesIn(stats)
  <2>1. \A t : WordsIn(stats', t).samples = WordsIn(stats, t).samples
    BY <1>3, <1>5, BecomesChanges DEF Words
  <2> QED
    BY <2>1, SameSampled
<1>10. s \notin DOMAIN SplitIn(stats) /\ DOMAIN SplitIn(stats) = Refined
  BY <1>3, SplitMember DEF Words, SplitIn, Refined
<1>11. Tree!Samples(s) >= MinSamples
  <2>1. s \in DOMAIN SamplesIn(stats) /\ SamplesIn(stats)[s] = Words(s).samples
    BY <1>4, <1>7, LimitsAssumption, SampledMember DEF Words, WordsType
  <2> QED
    BY <1>7, <2>1, Mapped DEF Tree!Samples
<1>12. 2 * Cardinality(Refined) + 2 <= MaxChildren
  <2>1. IsFiniteSet(Reserving) /\ IsFiniteSet(Refined) /\ r \in Reserving
    BY <1>2 DEF IInv, ChildrenFinite, Reserving
  <2>2. Cardinality(Reserving) \in Nat /\ Cardinality(Refined) \in Nat
    BY <2>1, FS_CardinalityType
  <2>3. Cardinality(Reserving) # 0
    BY <2>1, FS_EmptySet
  <2>4. children = 2 * Cardinality(Refined) + 2 * Cardinality(Reserving)
    BY <1>2 DEF IInv, ChildrenAccounted, Reserving
  <2>5. children <= MaxChildren
    BY <1>2, LimitsAssumption DEF TypeOk
  <2> QED
    BY <2>2, <2>3, <2>4, <2>5, LimitsAssumption
<1>13. Cardinality(Refined') = Cardinality(Refined) + 1
  <2>1. Refined' = Refined \cup {s} /\ s \notin Refined
    BY <1>8, <1>10, Mapped DEF Tree!With
  <2>2. IsFiniteSet(Refined)
    BY <1>2 DEF IInv, ChildrenFinite
  <2> QED
    BY <2>1, <2>2, FS_AddElement
<1>14. Tree!Split(s)
  BY <1>3, <1>7, <1>8, <1>9, <1>10, <1>11, <1>12, <1>13, Mapped
     DEF Tree!Split
<1> QED
  BY <1>6, <1>14

LEMMA CountRecords ==
    ASSUME KInv, NEW r \in Renderers, Count(r)
    PROVE  \E s \in Tree!Forest : Tree!Record(s)
<1>1. PICK s : s = selected[r]
  OBVIOUS
<1> DEFINE n == Words(s).samples
           words == [Words(s) EXCEPT !.samples = @ + 1]
<1>2. IInv /\ Holds(r) /\ pc[r] = "count"
  BY DEF KInv, JInv, Count, Transition
<1>3. s \in Tree!Forest
  BY <1>1, <1>2, HeldIsLive, LiveInForest DEF Selecting
<1>4. Becomes(s, words) /\ buckets' = buckets
  BY <1>1 DEF Count
<1>5. Words(s) \in WordsType
  BY <1>2, WordsTyped DEF IInv
<1>6. words.refinement = Words(s).refinement
  BY <1>5 DEF WordsType
<1>7. /\ n \in Nat /\ WordsIn(stats', s).samples = n + 1
      /\ \A t : t # s => WordsIn(stats', t).samples = WordsIn(stats, t).samples
  BY <1>1, SampleCounted, <1>2 DEF Words
<1> HIDE DEF n, words
<1>8. SamplesIn(stats') = Tree!With(SamplesIn(stats), s, n + 1)
  BY <1>7, MoreSampled
<1>9. SplitIn(stats') = SplitIn(stats)
  <2>1. \A t : WordsIn(stats', t).refinement = WordsIn(stats, t).refinement
    BY <1>4, <1>6, BecomesChanges DEF Words
  <2> QED
    BY <2>1, SameSplit
<1>10. Tree!Samples(s) = n
  <2>1. /\ s \in DOMAIN SamplesIn(stats) <=> n > 0
        /\ s \in DOMAIN SamplesIn(stats) => SamplesIn(stats)[s] = n
    BY SampledMember DEF Words, n
  <2> QED
    BY <1>7, <2>1, Mapped DEF Tree!Samples
<1>11. Tree!Record(s)
  <2>1. Refined' = Refined
    BY <1>9, Mapped
  <2> QED
    BY <1>4, <1>8, <1>9, <1>10, <2>1, Mapped DEF Tree!Record
<1> QED
  BY <1>3, <1>11

\* An observation of the range of sizes does not count yet.
LEMMA ObserveStutters ==
    ASSUME IInv, NEW r \in Renderers, Observe(r)
    PROVE  UNCHANGED Tree!vars
<1>1. \A t : WordsIn(stats', t).samples = Words(t).samples
  BY SamplesKept
<1>2. Words(selected[r]) \in WordsType
  BY WordsTyped DEF IInv
<1>3. PICK overhead \in Overheads : Becomes(selected[r], Wider(Words(selected[r]), overhead))
  BY DEF Observe
<1>4. Wider(Words(selected[r]), overhead).refinement = Words(selected[r]).refinement
  BY <1>2 DEF Wider, WordsType
<1>5. \A t : WordsIn(stats', t).refinement = Words(t).refinement
  BY <1>3, <1>4, BecomesChanges
<1>6. buckets' = buckets
  BY DEF Observe
<1> QED
  BY <1>1, <1>5, <1>6, Stutters

LEMMA NextRefines ==
    ASSUME KInv, [Next]_vars
    PROVE  [Tree!Next]_Tree!vars
<1>1. IInv
  BY DEF KInv, JInv
<1>2. CASE UNCHANGED <<buckets, stats>>
  BY <1>2, Stutters DEF Words
<1>3. ASSUME NEW r \in Renderers, PublishBuckets(r) PROVE Tree!Next
  BY <1>3, PublishBucketsPlants DEF Tree!Next
<1>4. ASSUME NEW r \in Renderers, PublishRefinement(r) PROVE Tree!Next
  BY <1>4, PublishRefinementSplits DEF Tree!Next
<1>5. ASSUME NEW r \in Renderers, Count(r) PROVE Tree!Next
  BY <1>5, CountRecords DEF Tree!Next
<1>6. ASSUME NEW r \in Renderers, Observe(r) PROVE UNCHANGED Tree!vars
  BY <1>1, <1>6, ObserveStutters
<1>7. \/ UNCHANGED <<buckets, stats>>
      \/ \E r \in Renderers :
            PublishBuckets(r) \/ PublishRefinement(r) \/ Count(r) \/ Observe(r)
  BY DEF Next, vars, shared, LayoutStats, LayoutBuckets, LoadBuckets, FindBuckets, Predict, Look,
         Consider, Refine, LookAgain, Reserve, LoadChildren, SwapChildren, RetryChildren,
         LoseRefinement, GiveBack, Descend, Read, Ignore
<1> QED
  BY <1>2, <1>3, <1>4, <1>5, <1>6, <1>7

LEMMA InitRefines == Init => Tree!Init
<1> SUFFICES ASSUME Init PROVE Tree!Init
  OBVIOUS
<1>1. DOMAIN stats = {} /\ buckets = Nobody /\ Cardinality(Refined) = 0
  BY FS_EmptySet DEF Init, Refined
<1>2. SplitIn(stats) = [s \in {} |-> Nobody] /\ SamplesIn(stats) = [s \in {} |-> 0]
  BY <1>1 DEF SplitIn, SamplesIn
<1> QED
  BY <1>1, <1>2, Mapped DEF Tree!Init

\* The profile is a forest that is planted once; a range of it is split by one
\* goroutine, that has read MinSamples observations of it, into the halves that
\* everybody descends to, and within the limit of children; and every
\* observation that Observe counts is one of a range in the forest.
THEOREM ImplementsSizeTree == Spec => ImplementsTree
<1>1. Init => Tree!Init
  BY InitRefines
<1>2. Init => KInv
  <2>1. Init => \A r \in Renderers : Earned(r)
    BY DEF Init, Earned, Refining
  <2> QED
    BY <2>1, InitJInv DEF KInv
<1>3. KInv /\ [Next]_vars => KInv'
  <2> SUFFICES ASSUME KInv, [Next]_vars PROVE KInv'
    OBVIOUS
  <2>1. JInv /\ IInv /\ \A r \in Renderers : Earned(r)
    BY DEF KInv, JInv
  <2>2. JInv'
    BY <2>1, NextJInv
  <2>3. \A r \in Renderers : Earned(r)'
    BY <2>1, EarnedStep
  <2> QED
    BY <2>2, <2>3 DEF KInv
<1>4. KInv /\ [Next]_vars => [Tree!Next]_Tree!vars
  BY NextRefines
<1> QED
  BY <1>1, <1>2, <1>3, <1>4, PTL DEF Spec, ImplementsTree, Tree!Spec

-----------------------------------------------------------------------------
(* Why predictions end.  A prediction goes down, level by level, and on each level
   towards its end; the one step back is the retry of a reservation.            *)
Distance(point) ==
    CASE point = "buckets"      -> 10
      [] point = "newBuckets"   -> 9
      [] point = "look"         -> 8
      [] point = "consider"     -> 7
      [] point = "refine"       -> 6
      [] point = "reserve"      -> 5
      [] point = "casChildren"  -> 4
      [] point = "publish"      -> 3
      [] point = "giveBack"     -> 2
      [] point \in {"descend", "read"} -> 1
      [] OTHER                  -> 0
StepsFrom(point, level) == Distance(point) + 8 * (MaxDepth - level)
Remaining(r) == StepsFrom(pc[r], depth[r])

Predicting == Refining \cup {"buckets", "newBuckets", "look", "consider", "descend", "read"}
PredictionStep(r) == LayoutStats(r) \/ Read(r)

PredictionAdvances(r) ==
    pc[r] \in Predicting =>
        /\ Remaining(r) \in 0 .. 10 + 8 * MaxDepth
        /\ IF PredictionStep(r) THEN Remaining(r)' < Remaining(r) \/ RetryChildren(r)
                             ELSE Remaining(r)' = Remaining(r)
PredictionsAdvance == [][\A r \in Renderers : PredictionAdvances(r)]_vars

LEMMA DistanceType == ASSUME NEW point PROVE Distance(point) \in 0 .. 10
BY DEF Distance

LEMMA RemainingType ==
    ASSUME IInv, NEW r \in Renderers PROVE Remaining(r) \in 0 .. 10 + 8 * MaxDepth
<1>1. Distance(pc[r]) \in 0 .. 10 /\ depth[r] \in 0 .. MaxDepth /\ MaxDepth \in Nat
  BY DistanceType, LimitsAssumption DEF IInv, TypeOk
<1> QED
  BY <1>1 DEF Remaining, StepsFrom

\* On a level, each step but the retry goes on.
LEMMA NearerByPoint ==
    ASSUME IInv, NEW r \in Renderers, NEW to, Distance(to) < Distance(pc[r]),
           pc' = [pc EXCEPT ![r] = to], depth' = depth
    PROVE  Remaining(r)' < Remaining(r)
<1>1. (pc[r])' = to /\ (depth[r])' = depth[r]
  BY DEF IInv, TypeOk
<1>2. /\ Distance(to) \in Nat /\ Distance(pc[r]) \in Nat
      /\ depth[r] \in 0 .. MaxDepth /\ MaxDepth \in Nat
  BY DistanceType, LimitsAssumption DEF IInv, TypeOk
<1> QED
  BY <1>1, <1>2 DEF Remaining, StepsFrom

LEMMA PredictStepAdvances ==
    ASSUME IInv, NEW r \in Renderers, PredictionStep(r), ~RetryChildren(r)
    PROVE  Remaining(r)' < Remaining(r)
<1> USE DEF Transition
<1>1. CASE LayoutBuckets(r)
  BY <1>1, NearerByPoint DEF LayoutBuckets, LoadBuckets, PublishBuckets, FindBuckets, Distance
<1>2. CASE Look(r) \/ LookAgain(r)
  BY <1>2, NearerByPoint DEF Look, LookAgain, Distance
<1>3. CASE Consider(r)
  <2>1. /\ pc[r] = "consider" /\ depth' = depth
        /\ \E to \in {"refine", "read"} : pc' = [pc EXCEPT ![r] = to]
    BY <1>3 DEF Consider, locals
  <2>2. PICK to \in {"refine", "read"} : pc' = [pc EXCEPT ![r] = to]
    BY <2>1
  <2>3. Distance(to) < Distance(pc[r])
    BY <2>1 DEF Distance
  <2> QED
    BY <2>1, <2>2, <2>3, NearerByPoint
<1>4. CASE LoadChildren(r) \/ SwapChildren(r)
  BY <1>4, NearerByPoint DEF LoadChildren, SwapChildren, locals, Distance
<1>5. CASE PublishRefinement(r) \/ LoseRefinement(r) \/ GiveBack(r)
  BY <1>5, NearerByPoint DEF PublishRefinement, LoseRefinement, GiveBack, locals, Distance
<1>6. CASE Read(r)
  <2>1. /\ pc[r] = "read" /\ pc' = [pc EXCEPT ![r] = "rendering"] /\ depth' = depth
    BY <1>6 DEF Read
  <2>2. Distance("rendering") < Distance(pc[r])
    BY <2>1 DEF Distance
  <2> QED
    BY <2>1, <2>2, NearerByPoint
<1>7. CASE Descend(r)
  <2>1. /\ pc[r] = "descend" /\ (pc[r])' = "look" /\ (depth[r])' = depth[r] + 1
        /\ depth[r] \in Nat /\ MaxDepth \in Nat
    BY <1>7, LimitsAssumption DEF Descend, IInv, TypeOk
  <2>2. Distance("look") = 8 /\ Distance("descend") = 1
    BY DEF Distance
  <2> QED
    BY <2>1, <2>2 DEF Remaining, StepsFrom
<1> QED
  BY <1>1, <1>2, <1>3, <1>4, <1>5, <1>6, <1>7 DEF PredictionStep, LayoutStats, Refine, Reserve

LEMMA OthersKeepRemaining ==
    ASSUME IInv, [Next]_vars, NEW r \in Renderers, pc[r] \in Predicting, ~PredictionStep(r)
    PROVE  Remaining(r)' = Remaining(r)
<1> SUFFICES (pc[r])' = pc[r] /\ (depth[r])' = depth[r]
  BY DEF Remaining
<1> USE DEF Transition, IInv, TypeOk
<1>1. ASSUME NEW q \in Renderers, Predict(q) \/ Ignore(q) \/ Observe(q) \/ Count(q)
      PROVE  (pc[r])' = pc[r] /\ (depth[r])' = depth[r]
  <2>1. q # r
    BY <1>1 DEF Predict, Ignore, Observe, Count, Predicting, Refining
  <2> QED
    BY <1>1, <2>1 DEF Predict, Ignore, Observe, Count, Forget, locals
<1>2. ASSUME NEW q \in Renderers, PredictionStep(q)
      PROVE  (pc[r])' = pc[r] /\ (depth[r])' = depth[r]
  <2>1. q # r
    BY <1>2
  <2>2. CASE LayoutBuckets(q) \/ Look(q) \/ Consider(q) \/ Descend(q) \/ Read(q)
    BY <2>1, <2>2 DEF LayoutBuckets, LoadBuckets, PublishBuckets, FindBuckets, Look, Consider,
      Descend, Read, locals
  <2>3. CASE Refine(q)
    BY <2>1, <2>3 DEF Refine, Reserve, LookAgain, LoadChildren, SwapChildren, RetryChildren,
      PublishRefinement, LoseRefinement, GiveBack, locals
  <2> QED
    BY <1>2, <2>2, <2>3 DEF PredictionStep, LayoutStats
<1>3. CASE UNCHANGED vars
  BY <1>3 DEF vars, locals
<1> QED
  BY <1>1, <1>2, <1>3 DEF Next, PredictionStep

\* Every step of a prediction brings it nearer to its end, whatever others refine
\* and publish meanwhile, except when the swap of a reservation fails.
THEOREM PredictionsWindDown == Spec => PredictionsAdvance
<1>1. ASSUME IInv, [Next]_vars, NEW r \in Renderers PROVE PredictionAdvances(r)
  BY <1>1, RemainingType, PredictStepAdvances, OthersKeepRemaining DEF PredictionAdvances
<1>2. IInv /\ [Next]_vars => [\A r \in Renderers : PredictionAdvances(r)]_vars
  BY <1>1
<1> QED
  BY <1>2, Invariance, PTL DEF Spec, PredictionsAdvance

=============================================================================
