--------------------------- MODULE HolePoolProofs ---------------------------
(***************************************************************************)
(* Proofs about HolePool, for any number of renders and holes, any limits, *)
(* which may change at any time, and any budget.                           *)
(*                                                                         *)
(* The argument: a render works on a slice of its own from the moment it   *)
(* has taken the holes until it has answered (OwnSlice), so that nobody    *)
(* else writes there.  Of the holes it has sent, those no worker has in    *)
(* hand have been rendered once, and with its own context, the others not  *)
(* at all (HoleProgress).  A worker is waiting, has one hole in hand, or   *)
(* has left (PoolBounded), so when none waits and none has a hole, all of  *)
(* the holes are done.                                                     *)
(*                                                                         *)
(* The last sections prove that the pool implements PageHoles, that        *)
(* sender, workers and the waiting render never all wait for each other    *)
(* (NeverStuck), and that each of their steps lessens what is left to do   *)
(* (PoolWorkShrinks).                                                      *)
(***************************************************************************)
EXTENDS HolePool, FiniteSetTheorems, TLAPS

\* A render never works on the cached slice, nor on another render's.
OwnSlice == \A r \in Renders : slice[r] = r

\* Nobody sets the err field of a hole.
NoHoleFails == \A s \in Slices : \A k \in Indexes : ~slices[s][k].err

\* A render that has not started its pool, or has seen it end, has no workers.
AtRest == {"idle", "start", "store", "done"}

PoolBounded ==
    \A r \in Renders :
        /\ IsFiniteSet(rendering[r])
        /\ Cardinality(rendering[r]) + waiting[r] <= workers[r]
        /\ pc[r] \in AtRest => waiting[r] = 0 /\ rendering[r] = {}

\* How far each hole of a render has come.
Finished(r, k) == k < next[r] /\ k \notin rendering[r]

HoleProgress ==
    \A r \in Renders :
        /\ pc[r] \in {"idle", "start"} => \A k \in Indexes : rendered[r][k] = 0
        /\ pc[r] \in {"send", "wait"} => \A k \in Indexes :
             /\ k \in rendering[r] => k < next[r]
             /\ rendered[r][k] = IF Finished(r, k) THEN 1 ELSE 0
             /\ Finished(r, k) => slices[r][k].by = r
        /\ pc[r] = "wait" => next[r] = Holes + 1

\* What a render is about to answer, or has answered.
Answered ==
    \A r \in Renders : pc[r] \in {"store", "done"} =>
        \A k \in Indexes : answer[r].text[k].by = r /\ rendered[r][k] = 1

IInv == /\ TypeOk /\ OwnSlice /\ NoHoleFails /\ CachedHolesPristine
        /\ PoolBounded /\ HoleProgress /\ Answered

-----------------------------------------------------------------------------
\* A number of workers between one and the number of holes, for any limit.
LEMMA WorkersInRange ==
    ASSUME NEW bound \in Int PROVE WorkerCount(bound) \in 0 .. Holes
BY HolesAssumption DEF WorkerCount

\* The copy of any holes is blank, if none of them has an error.
LEMMA CopiesAreBlank ==
    ASSUME NEW holes \in [Indexes -> Markers], \A k \in Indexes : ~holes[k].err
    PROVE  HolesCopy(holes) = BlankSlice
<1>1. ASSUME NEW k \in Indexes
      PROVE  [holes[k] EXCEPT !.by = Nobody, !.error = FALSE, !.err = FALSE] = BlankMarker
  <2> DEFINE copy == [holes[k] EXCEPT !.by = Nobody, !.error = FALSE, !.err = FALSE]
  <2>1. holes[k] \in Markers
    OBVIOUS
  <2>2. copy \in Markers /\ copy.by = Nobody /\ copy.error = FALSE /\ copy.err = FALSE
    BY <2>1 DEF Markers
  <2> HIDE DEF copy
  <2>3. copy = BlankMarker
    BY <2>2 DEF Markers, BlankMarker
  <2> QED
    BY <2>3 DEF copy
<1> QED
  BY <1>1 DEF HolesCopy, BlankSlice

LEMMA BlankSliceType ==
    BlankSlice \in [Indexes -> Markers] /\ \A k \in Indexes : ~BlankSlice[k].err
BY DEF BlankSlice, BlankMarker, Markers

LEMMA InitIInv == Init => IInv
<1> SUFFICES ASSUME Init PROVE IInv
  OBVIOUS
<1> USE DEF Init
<1>1. TypeOk
  <2>1. slices \in [Slices -> [Indexes -> Markers]]
    BY BlankSliceType
  <2>2. answer \in [Renders -> [failed : BOOLEAN, text : [Indexes -> Markers]]]
    BY BlankSliceType DEF NoText
  <2>3. executed \in [Renders -> BOOLEAN] /\ stored \in BOOLEAN
    OBVIOUS
  <2>4. rendered \in [Renders -> [Indexes -> Nat]]
    OBVIOUS
  <2> QED
    BY <2>1, <2>2, <2>3, <2>4, HolesAssumption DEF TypeOk, Slices
<1>2. PoolBounded
  BY FS_EmptySet DEF PoolBounded, AtRest
<1>3. OwnSlice /\ CachedHolesPristine
  BY DEF OwnSlice, CachedHolesPristine, Slices
<1>4. NoHoleFails
  BY BlankSliceType DEF NoHoleFails
<1>5. HoleProgress /\ Answered
  BY DEF HoleProgress, Answered
<1> QED
  BY <1>1, <1>2, <1>3, <1>4, <1>5 DEF IInv

-----------------------------------------------------------------------------
\* What the invariant says of a render, and of its slice, which is not the
\* cached one.
LEMMA RenderFacts ==
    ASSUME IInv, NEW r \in Renders
    PROVE  /\ slice[r] = r /\ r \in Slices /\ r # CachedSlice /\ CachedSlice \in Slices
           /\ next[r] \in Int /\ waiting[r] \in Nat /\ workers[r] \in 0 .. Holes
           /\ rendering[r] \subseteq Indexes /\ IsFiniteSet(rendering[r])
           /\ Cardinality(rendering[r]) \in Nat
           /\ Cardinality(rendering[r]) + waiting[r] <= workers[r]
BY SlicesAssumption, HolesAssumption, FS_CardinalityType
DEF IInv, TypeOk, OwnSlice, PoolBounded, Slices

\* A render takes its holes: it has a blank slice of its own.
LEMMA TakeStep ==
    ASSUME IInv, NEW r \in Renders, TakeSkeleton(r) \/ Execute(r) PROVE IInv'
<1> USE DEF Goto
<1>1. /\ slices' = [slices EXCEPT ![r] = BlankSlice]
      /\ slice' = [slice EXCEPT ![r] = r]
      /\ pc[r] = "idle" /\ pc' = [pc EXCEPT ![r] = "start"]
      /\ UNCHANGED <<limit, stored, workers, next, waiting, rendering, spent, answer, rendered>>
  <2>1. HolesCopy(slices[CachedSlice]) = BlankSlice
    BY CopiesAreBlank DEF IInv, TypeOk, NoHoleFails, Slices
  <2> QED
    BY <2>1 DEF TakeSkeleton, Execute
<1>2. executed' \in [Renders -> BOOLEAN]
  BY DEF IInv, TypeOk, TakeSkeleton, Execute
<1>3. TypeOk'
  BY <1>1, <1>2, BlankSliceType DEF IInv, TypeOk, Slices
<1>4. OwnSlice' /\ NoHoleFails' /\ CachedHolesPristine'
  BY <1>1, BlankSliceType, RenderFacts
  DEF IInv, TypeOk, OwnSlice, NoHoleFails, CachedHolesPristine
<1>5. PoolBounded'
  BY <1>1 DEF IInv, TypeOk, PoolBounded, AtRest
<1>6. HoleProgress' /\ Answered'
  BY <1>1 DEF IInv, TypeOk, HoleProgress, Finished, Answered, Slices
<1> QED
  BY <1>3, <1>4, <1>5, <1>6 DEF IInv

LEMMA StartStep == ASSUME IInv, NEW r \in Renders, Start(r) PROVE IInv'
<1> USE DEF Goto, Start
<1>1. WorkerCount(limit) \in 0 .. Holes
  BY WorkersInRange, HolesAssumption DEF IInv, TypeOk
<1>2. TypeOk'
  BY <1>1, HolesAssumption DEF IInv, TypeOk, shared
<1>3. OwnSlice' /\ NoHoleFails' /\ CachedHolesPristine' /\ Answered'
  BY DEF IInv, TypeOk, OwnSlice, NoHoleFails, CachedHolesPristine, Answered, shared
<1>4. PoolBounded'
  <2>1. rendering[r] = {}
    BY DEF IInv, PoolBounded, AtRest
  <2>2. Cardinality(rendering[r]) + WorkerCount(limit) <= WorkerCount(limit)
    BY <1>1, <2>1, FS_EmptySet, HolesAssumption
  <2>3. (waiting[r])' = WorkerCount(limit) /\ (workers[r])' = WorkerCount(limit)
    BY DEF IInv, TypeOk
  <2> QED
    BY <2>2, <2>3 DEF IInv, TypeOk, PoolBounded, AtRest
<1>5. HoleProgress'
  <2>1. \A k \in Indexes : rendered[r][k] = 0 /\ ~(k < 1)
    BY HolesAssumption DEF IInv, HoleProgress, Indexes
  <2>2. rendering[r] = {}
    BY DEF IInv, PoolBounded, AtRest
  <2> QED
    BY <2>1, <2>2 DEF IInv, TypeOk, HoleProgress, Finished, shared
<1> QED
  BY <1>2, <1>3, <1>4, <1>5 DEF IInv

LEMMA SendStep == ASSUME IInv, NEW r \in Renders, Send(r) PROVE IInv'
<1> USE DEF Send
<1>1. /\ next[r] \in Indexes /\ next[r] \notin rendering[r]
      /\ waiting[r] \in Nat /\ waiting[r] > 0
  BY HolesAssumption DEF IInv, TypeOk, HoleProgress, Indexes
<1>2. TypeOk'
  <2>1. next[r] + 1 \in 1 .. Holes + 1 /\ waiting[r] - 1 \in 0 .. Holes
    BY <1>1, RenderFacts, HolesAssumption DEF Indexes
  <2>2. rendering[r] \cup {next[r]} \in SUBSET Indexes
    BY <1>1, RenderFacts
  <2> QED
    BY <2>1, <2>2 DEF IInv, TypeOk, shared
<1>3. OwnSlice' /\ NoHoleFails' /\ CachedHolesPristine' /\ Answered'
  BY DEF IInv, OwnSlice, NoHoleFails, CachedHolesPristine, Answered, shared
<1>4. PoolBounded'
  <2>1. /\ IsFiniteSet(rendering[r] \cup {next[r]})
        /\ Cardinality(rendering[r] \cup {next[r]}) = Cardinality(rendering[r]) + 1
    BY <1>1, RenderFacts, FS_AddElement
  <2> QED
    BY <1>1, <2>1, RenderFacts DEF IInv, TypeOk, PoolBounded, AtRest
<1>5. HoleProgress'
  <2>1. ASSUME NEW k \in Indexes
        PROVE  /\ Finished(r, k)' <=> Finished(r, k)
               /\ (k \in rendering[r])' => (k < next[r])'
    BY <1>1, HolesAssumption DEF IInv, TypeOk, HoleProgress, Finished, Indexes
  <2>2. \A q \in Renders \ {r} : \A k \in Indexes : Finished(q, k)' <=> Finished(q, k)
    BY DEF IInv, TypeOk, Finished
  <2> QED
    BY <2>1, <2>2 DEF IInv, TypeOk, HoleProgress, shared
<1> QED
  BY <1>2, <1>3, <1>4, <1>5 DEF IInv

LEMMA CloseStep == ASSUME IInv, NEW r \in Renders, Close(r) PROVE IInv'
<1> USE DEF Close, Goto
<1>1. TypeOk'
  BY DEF IInv, TypeOk, shared
<1>2. OwnSlice' /\ NoHoleFails' /\ CachedHolesPristine' /\ Answered' /\ PoolBounded'
  BY DEF IInv, TypeOk, OwnSlice, NoHoleFails, CachedHolesPristine, Answered, PoolBounded, AtRest,
     shared
<1>3. HoleProgress'
  <2>1. next[r] = Holes + 1
    <3>1. next[r] \in 1 .. Holes + 1 /\ next[r] > Holes
      BY DEF IInv, TypeOk
    <3> QED
      BY <3>1, HolesAssumption
  <2> QED
    BY <2>1 DEF IInv, TypeOk, HoleProgress, Finished, shared
<1> QED
  BY <1>1, <1>2, <1>3 DEF IInv

\* A worker renders one hole of its render's slice.
LEMMA RenderHoleStep ==
    ASSUME IInv, NEW r \in Renders, NEW k \in Indexes, RenderHole(r, k) PROVE IInv'
<1> DEFINE Filled(fails) == [slices[r][k] EXCEPT !.by = r, !.error = fails]
<1>0. slices \in [Slices -> [Indexes -> Markers]] /\ slices[r][k] \in Markers
  BY RenderFacts DEF IInv, TypeOk
<1>1. PICK fails \in BOOLEAN :
        slices' = [slices EXCEPT ![r] = [slices[r] EXCEPT ![k] = Filled(fails)]]
  BY <1>0, RenderFacts DEF RenderHole
<1>2. Filled(fails) \in Markers /\ Filled(fails).by = r /\ ~Filled(fails).err
  <2>1. ~slices[r][k].err
    BY RenderFacts DEF IInv, NoHoleFails
  <2> QED
    BY <1>0, <2>1 DEF Markers
<1> HIDE DEF Filled
<1>3. /\ k \in rendering[r] /\ pc[r] \in {"send", "wait"} /\ k < next[r]
      /\ rendered[r][k] = 0
  <2>1. k \in rendering[r]
    BY DEF RenderHole
  <2>2. pc[r] \in {"send", "wait"}
    BY <2>1 DEF IInv, TypeOk, PoolBounded, AtRest
  <2> QED
    BY <2>1, <2>2 DEF IInv, HoleProgress, Finished
<1>4. /\ rendered' = [rendered EXCEPT ![r] = [rendered[r] EXCEPT ![k] = 1]]
      /\ spent' = [spent EXCEPT ![r] = spent[r] + 1]
      /\ rendering' = [rendering EXCEPT ![r] = rendering[r] \ {k}]
      /\ waiting' = [waiting EXCEPT ![r] = waiting[r] + 1]
      /\ UNCHANGED <<limit, stored, pc, slice, executed, workers, next, answer>>
  BY <1>3 DEF RenderHole, IInv, TypeOk
<1>5. /\ IsFiniteSet(rendering[r] \ {k})
      /\ Cardinality(rendering[r] \ {k}) + 1 = Cardinality(rendering[r])
  <2>1. IsFiniteSet(rendering[r]) /\ Cardinality(rendering[r]) \in Nat
    BY RenderFacts
  <2>2. /\ IsFiniteSet(rendering[r] \ {k})
        /\ Cardinality(rendering[r] \ {k}) = Cardinality(rendering[r]) - 1
    BY <1>3, <2>1, FS_RemoveElement
  <2> QED
    BY <2>1, <2>2
<1>6. TypeOk'
  <2>1. waiting[r] + 1 \in 0 .. Holes
    <3>1. Cardinality(rendering[r] \ {k}) \in Nat
      BY <1>5, FS_CardinalityType
    <3> QED
      BY <1>5, <3>1, RenderFacts, HolesAssumption
  <2>2. slices' \in [Slices -> [Indexes -> Markers]]
    BY <1>0, <1>1, <1>2, RenderFacts
  <2>3. rendered' \in [Renders -> [Indexes -> Nat]]
    BY <1>4 DEF IInv, TypeOk
  <2>4. rendering' \in [Renders -> SUBSET Indexes] /\ waiting' \in [Renders -> 0 .. Holes]
    BY <1>4, <2>1 DEF IInv, TypeOk
  <2>5. spent' \in [Renders -> Nat]
    BY <1>4 DEF IInv, TypeOk
  <2> QED
    BY <1>4, <2>2, <2>3, <2>4, <2>5 DEF IInv, TypeOk
<1>7. OwnSlice'
  BY <1>4 DEF IInv, OwnSlice
<1>8. NoHoleFails' /\ CachedHolesPristine'
  BY <1>0, <1>1, <1>2, RenderFacts DEF IInv, NoHoleFails, CachedHolesPristine
<1>9. PoolBounded'
  <2>1. /\ Cardinality(rendering[r] \ {k}) \in Nat
        /\ Cardinality(rendering[r] \ {k}) + (waiting[r] + 1) <= workers[r]
    BY <1>5, FS_CardinalityType, RenderFacts
  <2>2. /\ (rendering[r])' = rendering[r] \ {k} /\ (waiting[r])' = waiting[r] + 1
        /\ \A q \in Renders \ {r} : UNCHANGED <<rendering[q], waiting[q]>>
    BY <1>4 DEF IInv, TypeOk
  <2> QED
    BY <1>3, <1>4, <1>5, <2>1, <2>2 DEF IInv, PoolBounded, AtRest
<1>10. HoleProgress'
  <2>1. ASSUME NEW j \in Indexes
        PROVE  /\ (j \in rendering[r])' => (j < next[r])'
               /\ (rendered[r][j])' = IF Finished(r, j)' THEN 1 ELSE 0
               /\ Finished(r, j)' => (slices[r][j].by)' = r
    <3>1. CASE j = k
      <4>1. Finished(r, j)' /\ (rendered[r][j])' = 1
        BY <1>3, <1>4, <3>1 DEF IInv, TypeOk, Finished
      <4>2. (slices[r][j].by)' = r
        BY <1>0, <1>1, <1>2, <3>1, RenderFacts
      <4> QED
        BY <1>4, <4>1, <4>2 DEF IInv, TypeOk, Finished
    <3>2. CASE j # k
      <4>1. (Finished(r, j)' <=> Finished(r, j)) /\ (rendered[r][j])' = rendered[r][j]
        BY <1>4, <3>2 DEF IInv, TypeOk, Finished
      <4>2. (slices[r][j])' = slices[r][j]
        BY <1>0, <1>1, <3>2, RenderFacts
      <4> QED
        BY <1>3, <1>4, <4>1, <4>2 DEF IInv, TypeOk, HoleProgress
    <3> QED
      BY <3>1, <3>2
  <2>2. ASSUME NEW q \in Renders \ {r}
        PROVE  /\ UNCHANGED <<rendering[q], rendered[q], next[q], pc[q], slices[q]>>
               /\ \A j \in Indexes : Finished(q, j)' <=> Finished(q, j)
    BY <1>0, <1>1, <1>4 DEF IInv, TypeOk, Finished, Slices
  <2>3. pc[r] = "wait" => (next[r])' = Holes + 1
    BY <1>4 DEF IInv, HoleProgress
  <2> QED
    BY <1>3, <1>4, <2>1, <2>2, <2>3 DEF IInv, HoleProgress
<1>11. Answered'
  BY <1>3, <1>4 DEF IInv, TypeOk, Answered
<1> QED
  BY <1>6, <1>7, <1>8, <1>9, <1>10, <1>11 DEF IInv

\* A worker leaves.
LEMMA LeaveStep == ASSUME IInv, NEW r \in Renders, Leave(r) PROVE IInv'
<1> USE DEF Leave
<1>1. waiting[r] \in Nat /\ waiting[r] - 1 \in 0 .. Holes
  BY RenderFacts, HolesAssumption DEF IInv, TypeOk
<1>2. TypeOk'
  BY <1>1 DEF IInv, TypeOk, shared
<1>3. OwnSlice' /\ NoHoleFails' /\ CachedHolesPristine' /\ Answered'
  BY DEF IInv, OwnSlice, NoHoleFails, CachedHolesPristine, Answered, shared
<1>4. PoolBounded'
  BY <1>1, RenderFacts DEF IInv, TypeOk, PoolBounded, AtRest
<1>5. HoleProgress'
  BY DEF IInv, HoleProgress, Finished, shared
<1> QED
  BY <1>2, <1>3, <1>4, <1>5 DEF IInv

\* No worker is left: every hole has been rendered for this render.
LEMMA FillStep == ASSUME IInv, NEW r \in Renders, Fill(r) PROVE IInv'
<1> USE DEF Fill, Goto
<1> DEFINE holes == slices[slice[r]]
<1>1. holes = slices[r] /\ slices[r] \in [Indexes -> Markers]
  BY RenderFacts DEF IInv, TypeOk
<1>2. ~ \E k \in Indexes : holes[k].err
  BY RenderFacts DEF IInv, NoHoleFails
<1>3. answer' = [answer EXCEPT ![r] = [failed |-> FALSE, text |-> slices[r]]]
  BY <1>1, <1>2
<1>4. \A k \in Indexes : slices[r][k].by = r /\ rendered[r][k] = 1
  <2>1. \A k \in Indexes : Finished(r, k)
    BY HolesAssumption DEF IInv, HoleProgress, Finished, Indexes
  <2> QED
    BY <2>1 DEF IInv, HoleProgress
<1>5. TypeOk'
  <2>1. answer' \in [Renders -> [failed : BOOLEAN, text : [Indexes -> Markers]]]
    BY <1>1, <1>3 DEF IInv, TypeOk
  <2>2. pc' \in [Renders -> {"idle", "start", "send", "wait", "store", "done"}]
    BY DEF IInv, TypeOk
  <2> QED
    BY <2>1, <2>2 DEF IInv, TypeOk, shared
<1>6. OwnSlice' /\ NoHoleFails' /\ CachedHolesPristine'
  BY DEF IInv, OwnSlice, NoHoleFails, CachedHolesPristine, shared
<1>7. PoolBounded'
  BY DEF IInv, TypeOk, PoolBounded, AtRest
<1>8. HoleProgress'
  BY DEF IInv, TypeOk, HoleProgress, Finished, shared
<1>9. Answered'
  BY <1>3, <1>4 DEF IInv, TypeOk, Answered
<1> QED
  BY <1>5, <1>6, <1>7, <1>8, <1>9 DEF IInv

\* What is stored is blank again.
LEMMA StoreStep == ASSUME IInv, NEW r \in Renders, StoreSkeleton(r) PROVE IInv'
<1> USE DEF StoreSkeleton, Goto
<1>1. slices' = [slices EXCEPT ![CachedSlice] = BlankSlice]
  <2>1. HolesCopy(slices[slice[r]]) = BlankSlice
    BY RenderFacts, CopiesAreBlank DEF IInv, TypeOk, NoHoleFails
  <2> QED
    BY <2>1
<1>2. TypeOk'
  BY <1>1, BlankSliceType, RenderFacts DEF IInv, TypeOk
<1>3. OwnSlice' /\ NoHoleFails' /\ CachedHolesPristine'
  BY <1>1, BlankSliceType, RenderFacts
  DEF IInv, TypeOk, OwnSlice, NoHoleFails, CachedHolesPristine
<1>4. PoolBounded' /\ Answered'
  BY DEF IInv, TypeOk, PoolBounded, AtRest, Answered
<1>5. HoleProgress'
  <2>1. \A q \in Renders : UNCHANGED slices[q]
    BY <1>1, SlicesAssumption DEF IInv, TypeOk, Slices
  <2> QED
    BY <2>1 DEF IInv, TypeOk, HoleProgress, Finished
<1> QED
  BY <1>2, <1>3, <1>4, <1>5 DEF IInv

LEMMA FinishStep == ASSUME IInv, NEW r \in Renders, Finish(r) PROVE IInv'
<1> USE DEF Finish, Goto
<1>1. TypeOk'
  <2>1. answer' \in [Renders -> [failed : BOOLEAN, text : [Indexes -> Markers]]]
    BY BlankSliceType DEF IInv, TypeOk, NoText
  <2>2. slices' \in [Slices -> [Indexes -> Markers]]
    BY BlankSliceType DEF IInv, TypeOk
  <2>3. rendered' \in [Renders -> [Indexes -> Nat]] /\ spent' \in [Renders -> Nat]
    BY DEF IInv, TypeOk
  <2>4. workers' \in [Renders -> 0 .. Holes] /\ next' \in [Renders -> 1 .. Holes + 1]
    BY HolesAssumption DEF IInv, TypeOk
  <2> QED
    BY <2>1, <2>2, <2>3, <2>4 DEF IInv, TypeOk
<1>2. OwnSlice' /\ NoHoleFails' /\ CachedHolesPristine'
  BY BlankSliceType, RenderFacts DEF IInv, TypeOk, OwnSlice, NoHoleFails, CachedHolesPristine
<1>3. PoolBounded'
  <2>1. waiting[r] = 0 /\ rendering[r] = {} /\ Cardinality(rendering[r]) + 0 <= 0
    BY FS_EmptySet DEF IInv, PoolBounded, AtRest
  <2> QED
    BY <2>1 DEF IInv, TypeOk, PoolBounded, AtRest
<1>4. HoleProgress' /\ Answered'
  BY DEF IInv, TypeOk, HoleProgress, Finished, Answered, Slices
<1> QED
  BY <1>1, <1>2, <1>3, <1>4 DEF IInv

LEMMA IInvStep == IInv /\ [Next]_vars => IInv'
<1> SUFFICES ASSUME IInv, [Next]_vars PROVE IInv'
  OBVIOUS
<1>1. CASE SetLimit
  BY <1>1 DEF SetLimit, callVars, IInv, TypeOk, OwnSlice, NoHoleFails, CachedHolesPristine,
     PoolBounded, HoleProgress, Finished, Answered
<1>2. ASSUME NEW r \in Renders, TakeSkeleton(r) \/ Execute(r) \/ PoolStep(r) \/ Finish(r)
      PROVE  IInv'
  BY <1>2, TakeStep, StartStep, SendStep, CloseStep, RenderHoleStep, LeaveStep, FillStep,
     StoreStep, FinishStep DEF PoolStep
<1>3. CASE UNCHANGED vars
  BY <1>3 DEF vars, shared, callVars, IInv, TypeOk, OwnSlice, NoHoleFails,
     CachedHolesPristine, PoolBounded, HoleProgress, Finished, Answered
<1> QED
  BY <1>1, <1>2, <1>3 DEF Next

-----------------------------------------------------------------------------
\* The invariant holds in every reachable state.
THEOREM Invariance == Spec => []IInv
  BY InitIInv, IInvStep, PTL DEF Spec

\* Every render, worker and hole is at a point of the code.
THEOREM TypeCorrect == Spec => []TypeOk
<1>1. IInv => TypeOk
  BY DEF IInv
<1> QED
  BY <1>1, Invariance, PTL

\* Whatever renders share the cached holes, and however their workers
\* interleave: an answer has all contents, rendered once, in its own context.
THEOREM OwnHoles == Spec => []AnswersOwnHoles
<1>1. IInv => AnswersOwnHoles
  BY DEF IInv, Answered, AnswersOwnHoles
<1> QED
  BY <1>1, Invariance, PTL

\* No content of a request ever gets into the cache.
THEOREM CacheStaysPristine == Spec => []CachedHolesPristine
<1>1. IInv => CachedHolesPristine
  BY DEF IInv
<1> QED
  BY <1>1, Invariance, PTL

\* The limit that a render started with bounds its pool, and no worker
\* outlives the render.
THEOREM PoolIsBounded == Spec => []PoolWithinBounds
<1>1. IInv => PoolWithinBounds
  BY DEF IInv, PoolBounded, AtRest, PoolWithinBounds
<1> QED
  BY <1>1, Invariance, PTL

-----------------------------------------------------------------------------
(* The refinement of PageHoles.  What it needs beyond IInv: a hole that has not
   been rendered yet is empty, so that no hole is filled twice.               *)
Untouched ==
    \A r \in Renders :
        /\ pc[r] \in {"idle", "start"} => slices[r] = BlankSlice
        /\ pc[r] \in {"send", "wait"} => \A k \in Indexes :
             ~Finished(r, k) => slices[r][k] = BlankMarker
        /\ pc[r] = "idle" => spent[r] = 0 /\ answer[r] = NoText

\* What a worker that renders a hole changes.
LEMMA RenderHoleFacts ==
    ASSUME IInv, NEW r \in Renders, NEW k \in Indexes, RenderHole(r, k)
    PROVE  /\ k \in rendering[r] /\ pc[r] \in {"send", "wait"} /\ ~Finished(r, k)
           /\ \E fails \in BOOLEAN :
                /\ spent[r] + 1 > BudgetLimit => fails
                /\ slices' = [slices EXCEPT ![r] = [slices[r] EXCEPT
                                ![k] = [slices[r][k] EXCEPT !.by = r, !.error = fails]]]
           /\ spent' = [spent EXCEPT ![r] = spent[r] + 1]
           /\ rendering' = [rendering EXCEPT ![r] = rendering[r] \ {k}]
           /\ Cardinality(rendering[r] \ {k}) = Cardinality(rendering[r]) - 1
           /\ waiting' = [waiting EXCEPT ![r] = waiting[r] + 1]
           /\ UNCHANGED <<limit, stored, pc, slice, executed, workers, next, answer>>
<1>1. k \in rendering[r]
  BY DEF RenderHole
<1>2. pc[r] \in {"send", "wait"}
  BY <1>1 DEF IInv, TypeOk, PoolBounded, AtRest
<1>3. Cardinality(rendering[r] \ {k}) = Cardinality(rendering[r]) - 1
  BY <1>1, RenderFacts, FS_RemoveElement
<1>4. PICK fails \in BOOLEAN :
        /\ spent[r] + 1 > BudgetLimit => fails
        /\ slices' = [slices EXCEPT ![r] = [slices[r] EXCEPT
                        ![k] = [slices[r][k] EXCEPT !.by = r, !.error = fails]]]
  BY RenderFacts DEF RenderHole
<1>5. /\ spent' = [spent EXCEPT ![r] = spent[r] + 1]
      /\ rendering' = [rendering EXCEPT ![r] = rendering[r] \ {k}]
      /\ waiting' = [waiting EXCEPT ![r] = waiting[r] + 1]
      /\ UNCHANGED <<limit, stored, pc, slice, executed, workers, next, answer>>
  BY DEF RenderHole, IInv, TypeOk
<1> QED
  BY <1>1, <1>2, <1>3, <1>4, <1>5 DEF Finished

\* The hole that a worker has in hand is empty, and is then the render's own.
LEMMA HoleGetsFilled ==
    ASSUME IInv, Untouched, NEW r \in Renders, NEW k \in Indexes, RenderHole(r, k)
    PROVE  /\ slices[r][k] = BlankMarker
           /\ \E fails \in BOOLEAN :
                /\ spent[r] + 1 > BudgetLimit => fails
                /\ slices' = [slices EXCEPT ![r] = [slices[r] EXCEPT
                                ![k] = [by |-> r, error |-> fails, err |-> FALSE]]]
<1>1. slices[r][k] = BlankMarker
  BY RenderHoleFacts DEF Untouched
<1>2. PICK fails \in BOOLEAN :
        /\ spent[r] + 1 > BudgetLimit => fails
        /\ slices' = [slices EXCEPT ![r] = [slices[r] EXCEPT
                        ![k] = [slices[r][k] EXCEPT !.by = r, !.error = fails]]]
  BY RenderHoleFacts
<1> DEFINE filled == [slices[r][k] EXCEPT !.by = r, !.error = fails]
<1>3. filled = [by |-> r, error |-> fails, err |-> FALSE]
  <2>1. slices[r][k] \in Markers /\ slices[r][k].err = FALSE
    BY <1>1, RenderFacts DEF BlankMarker, IInv, TypeOk
  <2>2. filled \in Markers /\ filled.by = r /\ filled.error = fails /\ filled.err = FALSE
    BY <2>1 DEF Markers
  <2> HIDE DEF filled
  <2> QED
    BY <2>2 DEF Markers
<1> QED
  BY <1>1, <1>2, <1>3

LEMMA UntouchedInit == Init => Untouched
BY DEF Init, Untouched, Slices

\* Only its own render's workers touch a hole.
LEMMA UntouchedStep == IInv /\ Untouched /\ [Next]_vars => Untouched'
<1> SUFFICES ASSUME IInv, Untouched, [Next]_vars PROVE Untouched'
  OBVIOUS
<1> USE DEF Goto
<1>1. CASE SetLimit \/ UNCHANGED vars
  BY <1>1 DEF SetLimit, vars, shared, callVars, Untouched, Finished
<1>2. ASSUME NEW r \in Renders, TakeSkeleton(r) \/ Execute(r) PROVE Untouched'
  <2>1. HolesCopy(slices[CachedSlice]) = BlankSlice
    BY CopiesAreBlank DEF IInv, TypeOk, NoHoleFails, Slices
  <2>2. /\ slices' = [slices EXCEPT ![r] = BlankSlice]
        /\ pc' = [pc EXCEPT ![r] = "start"]
        /\ UNCHANGED <<next, rendering, spent, answer>>
    BY <1>2, <2>1 DEF TakeSkeleton, Execute
  <2> QED
    BY <2>2 DEF IInv, TypeOk, Untouched, Finished, Slices
<1>3. ASSUME NEW r \in Renders, Start(r) PROVE Untouched'
  <2>1. \A k \in Indexes : slices[r][k] = BlankMarker
    BY <1>3 DEF Start, Untouched, BlankSlice
  <2> QED
    BY <1>3, <2>1 DEF Start, shared, IInv, TypeOk, Untouched, Finished
<1>4. ASSUME NEW r \in Renders, Send(r) PROVE Untouched'
  <2>1. ASSUME NEW k \in Indexes, ~Finished(r, k)' PROVE ~Finished(r, k)
    <3>1. next[r] \in Int /\ k \in Int
      BY RenderFacts, HolesAssumption DEF Indexes
    <3> QED
      BY <1>4, <2>1, <3>1 DEF Send, IInv, TypeOk, Finished
  <2>2. \A q \in Renders \ {r} : \A k \in Indexes : Finished(q, k)' <=> Finished(q, k)
    BY <1>4 DEF Send, IInv, TypeOk, Finished
  <2> QED
    BY <1>4, <2>1, <2>2 DEF Send, shared, IInv, TypeOk, Untouched
<1>5. ASSUME NEW r \in Renders, Close(r) \/ Leave(r) \/ Fill(r) PROVE Untouched'
  BY <1>5 DEF Close, Leave, Fill, shared, IInv, TypeOk, Untouched, Finished
<1>6. ASSUME NEW r \in Renders, NEW k \in Indexes, RenderHole(r, k) PROVE Untouched'
  <2>1. PICK fails \in BOOLEAN :
          slices' = [slices EXCEPT ![r] = [slices[r] EXCEPT
                       ![k] = [by |-> r, error |-> fails, err |-> FALSE]]]
    BY <1>6, HoleGetsFilled
  <2>2. /\ rendering' = [rendering EXCEPT ![r] = rendering[r] \ {k}]
        /\ pc[r] \in {"send", "wait"} /\ k \in rendering[r] /\ k < next[r]
        /\ spent' = [spent EXCEPT ![r] = spent[r] + 1]
        /\ UNCHANGED <<pc, next, answer>>
    BY <1>6, RenderHoleFacts DEF IInv, HoleProgress
  <2>3. ASSUME NEW j \in Indexes, ~Finished(r, j)' PROVE (slices[r][j])' = BlankMarker
    <3>1. j # k /\ ~Finished(r, j)
      BY <2>2, <2>3 DEF IInv, TypeOk, Finished
    <3>2. (slices[r][j])' = slices[r][j]
      BY <2>1, <3>1, RenderFacts DEF IInv, TypeOk
    <3> QED
      BY <2>2, <3>1, <3>2 DEF Untouched
  <2>4. ASSUME NEW q \in Renders \ {r}
        PROVE  /\ UNCHANGED <<slices[q], rendering[q], spent[q]>>
               /\ \A j \in Indexes : Finished(q, j)' <=> Finished(q, j)
    BY <2>1, <2>2 DEF IInv, TypeOk, Finished, Slices
  <2> QED
    BY <2>2, <2>3, <2>4 DEF Untouched
<1>7. ASSUME NEW r \in Renders, StoreSkeleton(r) PROVE Untouched'
  <2>1. \A q \in Renders : UNCHANGED slices[q]
    BY <1>7, SlicesAssumption DEF StoreSkeleton, IInv, TypeOk, Slices
  <2> QED
    BY <1>7, <2>1 DEF StoreSkeleton, IInv, TypeOk, Untouched, Finished
<1>8. ASSUME NEW r \in Renders, Finish(r) PROVE Untouched'
  BY <1>8 DEF Finish, IInv, TypeOk, Untouched, Finished, Slices
<1> QED
  BY <1>1, <1>2, <1>3, <1>4, <1>5, <1>6, <1>7, <1>8 DEF Next, PoolStep

\* A hole is empty until its own render has rendered it.
THEOREM UntouchedInvariance == Spec => [](IInv /\ Untouched)
BY InitIInv, IInvStep, UntouchedInit, UntouchedStep, PTL DEF Spec

\* The abstract state, in the terms of the invariant.
LEMMA HolesAreOwn ==
    ASSUME IInv PROVE HolesOf = [r \in Renders |-> slices[r]]
BY DEF IInv, OwnSlice, HolesOf

LEMMA PhaseMoves ==
    ASSUME TypeOk, NEW r \in Renders, NEW to, pc' = [pc EXCEPT ![r] = to]
    PROVE  /\ Phase[r] = PhaseAt(pc[r])
           /\ Phase' = [Phase EXCEPT ![r] = PhaseAt(to)]
BY DEF TypeOk, Phase

LEMMA EmptyIsBlank == Page!Empty = BlankSlice /\ Page!NoPage = NoText
BY DEF Page!Empty, Page!NoPage, BlankSlice, BlankMarker, NoText

LEMMA InitRefines == Init => Page!Init
<1> SUFFICES ASSUME Init PROVE Page!Init
  OBVIOUS
<1>1. Phase = [r \in Renders |-> "idle"]
  BY DEF Init, Phase, PhaseAt
<1>2. HolesOf = [r \in Renders |-> BlankSlice] /\ slices[CachedSlice] = BlankSlice
  BY DEF Init, HolesOf, Slices
<1> QED
  BY <1>1, <1>2, EmptyIsBlank DEF Init, Page!Init

\* A render begins, with empty holes.
LEMMA TakeRefines ==
    ASSUME IInv, Untouched, IInv', NEW r \in Renders, TakeSkeleton(r) \/ Execute(r)
    PROVE  \E execute \in BOOLEAN : Page!Begin(r, execute)
<1>1. HolesCopy(slices[CachedSlice]) = BlankSlice
  BY CopiesAreBlank DEF IInv, TypeOk, NoHoleFails, Slices
<1>2. PICK execute \in BOOLEAN :
        /\ execute \/ stored
        /\ executed' = [executed EXCEPT ![r] = execute]
        /\ slices' = [slices EXCEPT ![r] = BlankSlice]
        /\ pc[r] = "idle" /\ pc' = [pc EXCEPT ![r] = "start"]
        /\ UNCHANGED <<stored, spent, answer>>
  BY <1>1 DEF TakeSkeleton, Execute, Goto
<1>3. Phase[r] = "idle" /\ Phase' = [Phase EXCEPT ![r] = "filling"]
  BY <1>2, PhaseMoves DEF IInv, PhaseAt
<1>4. slices[r] = BlankSlice
  BY <1>2 DEF Untouched
<1>5. slices' = slices
  BY <1>2, <1>4 DEF IInv, TypeOk
<1>6. HolesOf' = HolesOf
  BY <1>5, HolesAreOwn DEF HolesOf, IInv, OwnSlice
<1> QED
  BY <1>2, <1>3, <1>5, <1>6 DEF Page!Begin, Page!Enter

\* A worker fills an empty hole of its render.
LEMMA RenderHoleRefines ==
    ASSUME IInv, Untouched, IInv', NEW r \in Renders, NEW k \in Indexes, RenderHole(r, k)
    PROVE  Page!Fill(r, k)
<1>1. PICK fails \in BOOLEAN :
        /\ spent[r] + 1 > BudgetLimit => fails
        /\ slices' = [slices EXCEPT ![r] = [slices[r] EXCEPT
                        ![k] = [by |-> r, error |-> fails, err |-> FALSE]]]
  BY HoleGetsFilled
<1>2. /\ pc[r] \in {"send", "wait"} /\ spent' = [spent EXCEPT ![r] = spent[r] + 1]
      /\ UNCHANGED <<pc, executed, answer, stored>>
  BY RenderHoleFacts
<1>3. Phase[r] = "filling" /\ Phase' = Phase
  BY <1>2 DEF Phase, PhaseAt
<1>4. HolesOf[r] = slices[r] /\ HolesOf[r][k].by = Nobody
  BY HoleGetsFilled, HolesAreOwn DEF BlankMarker
<1>5. HolesOf' = [HolesOf EXCEPT ![r] = [HolesOf[r] EXCEPT
                     ![k] = [by |-> r, error |-> fails, err |-> FALSE]]]
  <2>1. HolesOf' = [q \in Renders |-> slices'[q]]
    BY DEF IInv, OwnSlice, HolesOf
  <2>2. slices'[r] = [slices[r] EXCEPT ![k] = [by |-> r, error |-> fails, err |-> FALSE]]
    BY <1>1, RenderFacts DEF IInv, TypeOk
  <2>3. \A q \in Renders \ {r} : slices'[q] = slices[q]
    BY <1>1 DEF IInv, TypeOk, Slices
  <2> QED
    BY <2>1, <2>2, <2>3, HolesAreOwn
<1>6. slices'[CachedSlice] = slices[CachedSlice]
  BY <1>1, RenderFacts DEF IInv, TypeOk
<1> QED
  BY <1>1, <1>2, <1>3, <1>4, <1>5, <1>6 DEF Page!Fill

\* When no worker is left, all holes are the render's own.
LEMMA FillRefines ==
    ASSUME IInv, IInv', NEW r \in Renders, Fill(r) PROVE Page!Answer(r)
<1>1. HolesOf = [q \in Renders |-> slices[q]] /\ slice[r] = r
  BY HolesAreOwn, RenderFacts
<1>2. /\ pc[r] = "wait" /\ pc' = [pc EXCEPT ![r] = IF executed[r] THEN "store" ELSE "done"]
      /\ UNCHANGED <<slices, slice, executed, spent, stored>>
  BY DEF Fill, Goto, shared
<1>3. answer' = [answer EXCEPT ![r] = [failed |-> FALSE, text |-> slices[r]]]
  BY <1>1, RenderFacts DEF Fill, IInv, NoHoleFails
<1>4. \A k \in Indexes : slices[r][k].by = r
  <2>1. \A k \in Indexes : Finished(r, k)
    BY HolesAssumption DEF Fill, Goto, IInv, HoleProgress, Finished, Indexes
  <2> QED
    BY <1>2, <2>1 DEF IInv, HoleProgress
<1>5. /\ Phase[r] = "filling"
      /\ Phase' = [Phase EXCEPT ![r] = IF executed[r] THEN "storing" ELSE "answered"]
  BY <1>2, PhaseMoves DEF IInv, PhaseAt
<1>6. HolesOf' = HolesOf
  BY <1>2 DEF HolesOf
<1> QED
  BY <1>1, <1>2, <1>3, <1>4, <1>5, <1>6 DEF Page!Answer, Page!Enter

\* The skeleton that is stored has empty holes.
LEMMA StoreRefines ==
    ASSUME IInv, IInv', NEW r \in Renders, StoreSkeleton(r) PROVE Page!Store(r)
<1>1. HolesCopy(slices[slice[r]]) = BlankSlice
  BY RenderFacts, CopiesAreBlank DEF IInv, TypeOk, NoHoleFails
<1>2. /\ slices' = [slices EXCEPT ![CachedSlice] = BlankSlice] /\ stored' = TRUE
      /\ pc[r] = "store" /\ pc' = [pc EXCEPT ![r] = "done"]
      /\ UNCHANGED <<slice, executed, spent, answer>>
  BY <1>1 DEF StoreSkeleton, Goto
<1>3. Phase[r] = "storing" /\ Phase' = [Phase EXCEPT ![r] = "answered"]
  BY <1>2, PhaseMoves DEF IInv, PhaseAt
<1>4. HolesOf' = HolesOf
  <2>1. \A q \in Renders : slices'[q] = slices[q]
    BY <1>2, SlicesAssumption DEF IInv, TypeOk, Slices
  <2> QED
    BY <2>1, HolesAreOwn DEF HolesOf, IInv, OwnSlice
<1>5. slices'[CachedSlice] = BlankSlice
  BY <1>2, RenderFacts DEF IInv, TypeOk
<1> QED
  BY <1>2, <1>3, <1>4, <1>5, EmptyIsBlank DEF Page!Store, Page!Enter

LEMMA FinishRefines ==
    ASSUME IInv, IInv', NEW r \in Renders, Finish(r) PROVE Page!Forget(r)
<1>1. /\ pc[r] = "done" /\ pc' = [pc EXCEPT ![r] = "idle"]
      /\ slices' = [slices EXCEPT ![r] = BlankSlice]
      /\ executed' = [executed EXCEPT ![r] = FALSE]
      /\ spent' = [spent EXCEPT ![r] = 0] /\ answer' = [answer EXCEPT ![r] = NoText]
      /\ UNCHANGED <<stored, slice>>
  BY DEF Finish, Goto
<1>2. Phase[r] = "answered" /\ Phase' = [Phase EXCEPT ![r] = "idle"]
  BY <1>1, PhaseMoves DEF IInv, PhaseAt
<1>3. HolesOf' = [HolesOf EXCEPT ![r] = BlankSlice]
  <2>1. HolesOf' = [q \in Renders |-> slices'[q]]
    BY DEF IInv, OwnSlice, HolesOf
  <2> QED
    BY <1>1, <2>1, HolesAreOwn DEF IInv, TypeOk, Slices
<1>4. slices'[CachedSlice] = slices[CachedSlice]
  BY <1>1, RenderFacts DEF IInv, TypeOk
<1> QED
  BY <1>1, <1>2, <1>3, <1>4, EmptyIsBlank DEF Page!Forget, Page!Enter

\* The pool itself does not show.
LEMMA PoolStutters ==
    ASSUME IInv, NEW r \in Renders,
           Start(r) \/ Send(r) \/ Close(r) \/ Leave(r) \/ SetLimit \/ UNCHANGED vars
    PROVE  UNCHANGED Page!vars
<1>1. UNCHANGED <<slices, slice, executed, spent, answer, stored>>
  BY DEF Start, Send, Close, Leave, SetLimit, vars, shared, callVars
<1>2. Phase' = Phase
  <2>0. ASSUME NEW to, pc' = [pc EXCEPT ![r] = to], PhaseAt(to) = PhaseAt(pc[r])
        PROVE  Phase' = Phase
    BY <2>0 DEF IInv, TypeOk, Phase
  <2>1. CASE Start(r)
    BY <2>0, <2>1 DEF Start, Goto, PhaseAt
  <2>2. CASE Close(r)
    BY <2>0, <2>2 DEF Close, Goto, PhaseAt
  <2>3. CASE UNCHANGED pc
    BY <2>3 DEF Phase
  <2> QED
    BY <2>1, <2>2, <2>3 DEF Send, Leave, SetLimit, vars, callVars
<1> QED
  BY <1>1, <1>2 DEF Page!vars, HolesOf

LEMMA StepRefines ==
    ASSUME IInv, Untouched, IInv', [Next]_vars PROVE [Page!Next]_Page!vars
<1>1. CASE UNCHANGED vars \/ SetLimit
  BY <1>1 DEF vars, shared, callVars, SetLimit, Page!vars, Phase, HolesOf
<1>2. ASSUME NEW r \in Renders, TakeSkeleton(r) \/ Execute(r) PROVE Page!Next
  BY <1>2, TakeRefines DEF Page!Next
<1>3. ASSUME NEW r \in Renders, Start(r) \/ Send(r) \/ Close(r) \/ Leave(r)
      PROVE  UNCHANGED Page!vars
  BY <1>3, PoolStutters
<1>4. ASSUME NEW r \in Renders, NEW k \in Indexes, RenderHole(r, k) PROVE Page!Next
  BY <1>4, RenderHoleRefines DEF Page!Next
<1>5. ASSUME NEW r \in Renders, Fill(r) \/ StoreSkeleton(r) \/ Finish(r) PROVE Page!Next
  BY <1>5, FillRefines, StoreRefines, FinishRefines DEF Page!Next
<1> QED
  BY <1>1, <1>2, <1>3, <1>4, <1>5 DEF Next, PoolStep

\* A pool of workers on shared slices does what PageHoles promises: every hole of
\* every page is filled once, for its own request and from its own budget.
THEOREM ImplementsPageHoles == Spec => ImplementsPage
<1>1. IInv /\ Untouched /\ (IInv /\ Untouched)' /\ [Next]_vars => [Page!Next]_Page!vars
  BY StepRefines
<1> QED
  BY <1>1, InitRefines, UntouchedInvariance, PTL DEF Spec, ImplementsPage, Page!Spec

-----------------------------------------------------------------------------
(* Why a pool ends.  Some step of a render that has started is always possible,
   and every such step leaves less to do, whatever the other renders do and
   however the limit changes.                                                *)
Pooling == {"start", "send", "wait", "store"}

\* While it hands out holes, a worker waits or has a hole: there is at least one.
Staffed ==
    \A r \in Renders : pc[r] = "send" =>
        /\ Cardinality(rendering[r]) + waiting[r] = workers[r]
        /\ workers[r] > 0

\* The guards of PoolStep, one by one.
CanSend(r)  == pc[r] = "send" /\ next[r] <= Holes /\ waiting[r] > 0
CanClose(r) == pc[r] = "send" /\ next[r] > Holes
CanLeave(r) == pc[r] = "wait" /\ waiting[r] > 0
CanFill(r)  == pc[r] = "wait" /\ waiting[r] = 0 /\ rendering[r] = {}
CanStep(r)  ==
    \/ pc[r] \in {"start", "store"} \/ rendering[r] # {}
    \/ CanSend(r) \/ CanClose(r) \/ CanLeave(r) \/ CanFill(r)

NeverStuck == \A r \in Renders : pc[r] \in Pooling => CanStep(r)

\* What a render has still to do: two for every hole that has not been sent or is
\* in hand, one for every worker that waits, and the rest of the function.
Rest(point) ==
    CASE point = "start" -> Holes + 4
      [] point = "send"  -> 3
      [] point = "wait"  -> 2
      [] point = "store" -> 1
      [] OTHER           -> 0
Unsent(r) == IF pc[r] = "start" THEN Holes ELSE Holes + 1 - next[r]
Work(r)   == 2 * Unsent(r) + 2 * Cardinality(rendering[r]) + waiting[r] + Rest(pc[r])

PoolWorkShrinks ==
    [][\A r \in Renders : pc[r] \in Pooling =>
          /\ Work(r) \in Nat
          /\ IF PoolStep(r) THEN Work(r)' < Work(r) ELSE Work(r)' = Work(r)]_vars

\* A pool has a worker, whatever the limit.
LEMMA PoolHasWorkers ==
    ASSUME NEW bound \in Int PROVE WorkerCount(bound) > 0
BY HolesAssumption DEF WorkerCount

LEMMA StaffedInit == Init => Staffed
BY DEF Init, Staffed

LEMMA StaffedStep == IInv /\ Staffed /\ [Next]_vars => Staffed'
<1> SUFFICES ASSUME IInv, Staffed, [Next]_vars PROVE Staffed'
  OBVIOUS
<1> USE DEF Goto
<1>1. CASE SetLimit \/ UNCHANGED vars
  BY <1>1 DEF SetLimit, vars, callVars, Staffed
<1>2. ASSUME NEW r \in Renders, TakeSkeleton(r) \/ Execute(r) \/ StoreSkeleton(r) \/ Finish(r)
      PROVE  Staffed'
  BY <1>2 DEF TakeSkeleton, Execute, StoreSkeleton, Finish, IInv, TypeOk, Staffed
<1>3. ASSUME NEW r \in Renders, Start(r) PROVE Staffed'
  <2>1. WorkerCount(limit) > 0 /\ WorkerCount(limit) \in Nat
    BY PoolHasWorkers, WorkersInRange, HolesAssumption DEF IInv, TypeOk
  <2>2. Cardinality(rendering[r]) = 0
    BY <1>3, FS_EmptySet DEF Start, IInv, PoolBounded, AtRest
  <2> QED
    BY <1>3, <2>1, <2>2 DEF Start, IInv, TypeOk, Staffed
<1>4. ASSUME NEW r \in Renders, Send(r) PROVE Staffed'
  <2>1. next[r] \notin rendering[r]
    BY <1>4, HolesAssumption DEF Send, IInv, TypeOk, HoleProgress, Indexes
  <2>2. Cardinality(rendering[r] \cup {next[r]}) = Cardinality(rendering[r]) + 1
    BY <2>1, RenderFacts, FS_AddElement
  <2> QED
    BY <1>4, <2>2, RenderFacts DEF Send, IInv, TypeOk, Staffed
<1>5. ASSUME NEW r \in Renders, Close(r) \/ Leave(r) \/ Fill(r) PROVE Staffed'
  BY <1>5 DEF Close, Leave, Fill, IInv, TypeOk, Staffed
<1>6. ASSUME NEW r \in Renders, NEW k \in Indexes, RenderHole(r, k) PROVE Staffed'
  <2>1. /\ rendering' = [rendering EXCEPT ![r] = rendering[r] \ {k}]
        /\ Cardinality(rendering[r] \ {k}) = Cardinality(rendering[r]) - 1
        /\ waiting' = [waiting EXCEPT ![r] = waiting[r] + 1]
        /\ UNCHANGED <<pc, workers>>
    BY <1>6, RenderHoleFacts
  <2> QED
    BY <2>1, RenderFacts DEF IInv, TypeOk, Staffed
<1> QED
  BY <1>1, <1>2, <1>3, <1>4, <1>5, <1>6 DEF Next, PoolStep

\* A render that has started to fill its holes, or one of its workers, has always
\* a step to take: sender, workers and the waiting render do not block each other.
THEOREM SomeoneCanStep == Spec => []NeverStuck
<1>1. IInv /\ Staffed => NeverStuck
  <2> SUFFICES ASSUME IInv, Staffed, NEW r \in Renders, pc[r] \in Pooling PROVE CanStep(r)
    BY DEF NeverStuck
  <2> USE DEF CanStep, CanSend, CanClose, CanLeave, CanFill, Pooling
  <2>1. CASE pc[r] = "send"
    <3>1. CASE rendering[r] = {}
      <4>1. waiting[r] > 0
        BY <2>1, <3>1, FS_EmptySet, RenderFacts DEF Staffed
      <4> QED
        BY <2>1, <4>1, HolesAssumption, RenderFacts
    <3> QED
      BY <3>1
  <2>2. CASE pc[r] = "wait"
    BY <2>2, RenderFacts
  <2> QED
    BY <2>1, <2>2
<1>2. IInv /\ Staffed /\ [Next]_vars => (IInv /\ Staffed)'
  BY IInvStep, StaffedStep
<1> QED
  BY <1>1, <1>2, InitIInv, StaffedInit, PTL DEF Spec

-----------------------------------------------------------------------------
\* What a render has to do is a number.
LEMMA WorkType ==
    ASSUME IInv, NEW r \in Renders
    PROVE  Unsent(r) \in Nat /\ Rest(pc[r]) \in Nat /\ Work(r) \in Nat
<1>1. Unsent(r) \in Nat
  BY HolesAssumption DEF IInv, TypeOk, Unsent
<1>2. Rest(pc[r]) \in Nat
  BY HolesAssumption DEF Rest
<1> QED
  BY <1>1, <1>2, RenderFacts DEF Work

\* The work depends on four variables of its render, so others do not change it.
LEMMA OthersWorkStays ==
    ASSUME NEW r \in Renders, UNCHANGED <<pc[r], next[r], rendering[r], waiting[r]>>
    PROVE  Work(r)' = Work(r)
BY DEF Work, Unsent

LEMMA PoolStepWorks ==
    ASSUME IInv, NEW r \in Renders, PoolStep(r) PROVE Work(r)' < Work(r)
<1> USE DEF Goto
<1>0. Work(r) \in Nat /\ Unsent(r) \in Nat
  BY WorkType
<1>1. CASE Start(r)
  <2>1. rendering[r] = {} /\ waiting[r] = 0 /\ pc[r] = "start"
    BY <1>1 DEF Start, IInv, PoolBounded, AtRest
  <2>2. Work(r) = 2 * Holes + 0 + 0 + (Holes + 4)
    BY <2>1, FS_EmptySet, HolesAssumption DEF Work, Unsent, Rest
  <2>3. WorkerCount(limit) \in 0 .. Holes
    BY WorkersInRange, HolesAssumption DEF IInv, TypeOk
  <2>4. /\ (pc[r])' = "send" /\ (next[r])' = 1 /\ (rendering[r])' = {}
        /\ (waiting[r])' = WorkerCount(limit)
    BY <1>1, <2>1 DEF Start, IInv, TypeOk
  <2>5. Work(r)' = 2 * (Holes + 1 - 1) + 0 + WorkerCount(limit) + 3
    BY <2>4, FS_EmptySet, HolesAssumption DEF Work, Unsent, Rest
  <2> QED
    BY <2>2, <2>3, <2>5, HolesAssumption
<1>2. CASE Send(r)
  <2>1. next[r] \notin rendering[r]
    BY <1>2, HolesAssumption DEF Send, IInv, TypeOk, HoleProgress, Indexes
  <2>2. Cardinality(rendering[r] \cup {next[r]}) = Cardinality(rendering[r]) + 1
    BY <2>1, RenderFacts, FS_AddElement
  <2>3. /\ (pc[r])' = "send" /\ pc[r] = "send" /\ (next[r])' = next[r] + 1
        /\ (rendering[r])' = rendering[r] \cup {next[r]} /\ (waiting[r])' = waiting[r] - 1
    BY <1>2 DEF Send, IInv, TypeOk
  <2>4. Work(r) = 2 * (Holes + 1 - next[r]) + 2 * Cardinality(rendering[r]) + waiting[r] + 3
    BY <2>3 DEF Work, Unsent, Rest
  <2>5. Work(r)' = 2 * (Holes + 1 - (next[r] + 1)) + 2 * (Cardinality(rendering[r]) + 1)
                     + (waiting[r] - 1) + 3
    BY <2>2, <2>3 DEF Work, Unsent, Rest
  <2> QED
    BY <2>4, <2>5, RenderFacts, HolesAssumption
<1>3. CASE Close(r)
  <2>1. (pc[r])' = "wait" /\ pc[r] = "send" /\ UNCHANGED <<next[r], rendering[r], waiting[r]>>
    BY <1>3 DEF Close, IInv, TypeOk
  <2> QED
    BY <2>1, RenderFacts, HolesAssumption DEF Work, Unsent, Rest
<1>4. CASE Leave(r)
  <2>1. /\ (waiting[r])' = waiting[r] - 1 /\ UNCHANGED <<pc[r], next[r], rendering[r]>>
        /\ pc[r] = "wait"
    BY <1>4 DEF Leave, IInv, TypeOk
  <2> QED
    BY <2>1, RenderFacts, HolesAssumption DEF Work, Unsent, Rest
<1>5. CASE Fill(r)
  <2>1. /\ pc[r] = "wait" /\ (pc[r])' \in {"store", "done"}
        /\ UNCHANGED <<next[r], rendering[r], waiting[r]>>
    BY <1>5 DEF Fill, IInv, TypeOk
  <2> QED
    BY <2>1, RenderFacts, HolesAssumption DEF Work, Unsent, Rest
<1>6. CASE StoreSkeleton(r)
  <2>1. pc[r] = "store" /\ (pc[r])' = "done" /\ UNCHANGED <<next[r], rendering[r], waiting[r]>>
    BY <1>6 DEF StoreSkeleton, IInv, TypeOk
  <2> QED
    BY <2>1, RenderFacts, HolesAssumption DEF Work, Unsent, Rest
<1>7. ASSUME NEW k \in Indexes, RenderHole(r, k) PROVE Work(r)' < Work(r)
  <2>1. /\ pc[r] \in {"send", "wait"}
        /\ rendering' = [rendering EXCEPT ![r] = rendering[r] \ {k}]
        /\ Cardinality(rendering[r] \ {k}) = Cardinality(rendering[r]) - 1
        /\ waiting' = [waiting EXCEPT ![r] = waiting[r] + 1]
        /\ UNCHANGED <<pc, next>>
    BY <1>7, RenderHoleFacts
  <2>2. (rendering[r])' = rendering[r] \ {k} /\ (waiting[r])' = waiting[r] + 1
    BY <2>1 DEF IInv, TypeOk
  <2>3. Unsent(r)' = Unsent(r) /\ Rest(pc[r])' = Rest(pc[r]) /\ Rest(pc[r]) \in Nat
    BY <2>1, WorkType DEF Unsent
  <2>4. Work(r)' = 2 * Unsent(r) + 2 * (Cardinality(rendering[r]) - 1) + (waiting[r] + 1)
                     + Rest(pc[r])
    BY <2>1, <2>2, <2>3 DEF Work
  <2> QED
    BY <1>0, <2>3, <2>4, RenderFacts DEF Work
<1> QED
  BY <1>1, <1>2, <1>3, <1>4, <1>5, <1>6, <1>7 DEF PoolStep

\* A step of another goroutine, or of the configuration, leaves a render's work.
LEMMA OtherStepsKeepWork ==
    ASSUME IInv, NEW r \in Renders, pc[r] \in Pooling, [Next]_vars, ~PoolStep(r)
    PROVE  Work(r)' = Work(r)
<1> SUFFICES UNCHANGED <<pc[r], next[r], rendering[r], waiting[r]>>
  BY OthersWorkStays
<1>1. CASE SetLimit \/ UNCHANGED vars
  BY <1>1 DEF SetLimit, vars, callVars
<1>2. ASSUME NEW q \in Renders, TakeSkeleton(q) \/ Execute(q) \/ Finish(q)
      PROVE  UNCHANGED <<pc[r], next[r], rendering[r], waiting[r]>>
  <2>1. pc[q] \in {"idle", "done"} /\ q # r
    BY <1>2 DEF TakeSkeleton, Execute, Finish, Goto, Pooling
  <2> QED
    BY <1>2, <2>1 DEF TakeSkeleton, Execute, Finish, Goto, IInv, TypeOk
<1>3. ASSUME NEW q \in Renders, PoolStep(q)
      PROVE  UNCHANGED <<pc[r], next[r], rendering[r], waiting[r]>>
  <2>1. q # r
    BY <1>3
  <2> QED
    BY <1>3, <2>1 DEF PoolStep, Start, Send, Close, Leave, Fill, StoreSkeleton, RenderHole,
       Goto, IInv, TypeOk
<1> QED
  BY <1>1, <1>2, <1>3 DEF Next

\* Every step of a render that has started leaves it less to do, and no step of
\* another one gives it more: with SomeoneCanStep, why HolesGetFilled holds.
THEOREM PoolsWindDown == Spec => PoolWorkShrinks
<1>1. IInv /\ [Next]_vars =>
        [\A r \in Renders : pc[r] \in Pooling =>
           /\ Work(r) \in Nat
           /\ IF PoolStep(r) THEN Work(r)' < Work(r) ELSE Work(r)' = Work(r)]_vars
  BY WorkType, PoolStepWorks, OtherStepsKeepWork
<1> QED
  BY <1>1, Invariance, PTL DEF Spec, PoolWorkShrinks

=============================================================================
