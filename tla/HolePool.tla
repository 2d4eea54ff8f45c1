------------------------------ MODULE HolePool ------------------------------
(***************************************************************************)
(* Rendering the punch holes of a page (plush.go: renderHolesConcurrently, *)
(* fillHoles, and the copies of renderFromCache and renderInterpreter).    *)
(*                                                                         *)
(* A render has the holes of the template it has just executed, or a copy  *)
(* of those of the cached skeleton, which several renders may take at      *)
(* once.  It starts a pool of workers, hands the holes to them over an     *)
(* unbuffered channel, waits for all workers, puts the contents into the   *)
(* skeleton, and stores a new skeleton with a copy of its holes.  The      *)
(* workers of a render write to different elements of its slice without a  *)
(* lock, and spend from the one budget of the render's context.            *)
(***************************************************************************)
EXTENDS Integers, FiniteSets

CONSTANTS
    Renders,        \* goroutines that render the page
    Holes,          \* number of holes of the skeleton
    Limits,         \* values punchHoleConcurrencyLimit may have
    BudgetLimit,    \* units of a render's budget
    CachedSlice,    \* the PunchHole slice of the cached template
    Nobody          \* of a hole that has no content

ASSUME HolesAssumption == Holes \in Nat \ {0} /\ Limits \subseteq Int /\ Limits # {}
ASSUME BudgetAssumption == BudgetLimit \in Nat
ASSUME SlicesAssumption == CachedSlice \notin Renders /\ Nobody \notin Renders

\* A slice is named by the render that made it, but for the cached one.
Slices  == Renders \cup {CachedSlice}
Indexes == 1 .. Holes

VARIABLES
    limit,          \* punchHoleConcurrencyLimit
    slices,         \* the hole slices: who filled each hole, and how
    stored,         \* there is a skeleton in the cache
    pc,             \* where each render is
    slice,          \* the slice each render works on
    executed,       \* it has executed the template itself
    workers,        \* its workerCount
    next,           \* the next index it sends
    waiting,        \* how many of its workers wait for a job
    rendering,      \* the indexes its other workers have in hand
    spent,          \* the counter of its context's budget
    answer,         \* what it returned
    rendered        \* history: how often each hole was rendered for it

callVars == <<pc, slice, executed, workers, next, waiting, rendering, spent, answer, rendered>>
shared   == <<limit, slices, stored>>
vars     == <<shared, callVars>>

\* HoleMarker: whose context its content was rendered in, whether that is the
\* text of an error, and its err field.
Markers     == [by : Renders \cup {Nobody}, error : BOOLEAN, err : BOOLEAN]
BlankMarker == [by |-> Nobody, error |-> FALSE, err |-> FALSE]
BlankSlice  == [k \in Indexes |-> BlankMarker]

NoText == [failed |-> FALSE, text |-> BlankSlice]

Init ==
    /\ limit \in Limits
    /\ slices = [s \in Slices |-> BlankSlice]
    /\ stored = FALSE
    /\ executed = [r \in Renders |-> FALSE]
    /\ pc = [r \in Renders |-> "idle"]
    /\ slice = [r \in Renders |-> r]
    /\ workers = [r \in Renders |-> 0]
    /\ next = [r \in Renders |-> 1]
    /\ waiting = [r \in Renders |-> 0]
    /\ rendering = [r \in Renders |-> {}]
    /\ spent = [r \in Renders |-> 0]
    /\ answer = [r \in Renders |-> NoText]
    /\ rendered = [r \in Renders |-> [k \in Indexes |-> 0]]

Goto(r, from, to) ==
    /\ pc[r] = from
    /\ pc' = [pc EXCEPT ![r] = to]

-----------------------------------------------------------------------------
\* SetPunchHoleConcurrencyLimit, at any time.
SetLimit ==
    /\ limit' \in Limits \ {limit}
    /\ UNCHANGED <<slices, stored, callVars>>

\* holesCopy: the same holes without their contents.
HolesCopy(holes) ==
    [k \in Indexes |-> [holes[k] EXCEPT !.by = Nobody, !.error = FALSE, !.err = FALSE]]

\* Mutant: the cached slice is used as it is.
TakeSkeletonUncopied(r) ==
    /\ stored
    /\ Goto(r, "idle", "start")
    /\ slice' = [slice EXCEPT ![r] = CachedSlice]
    /\ executed' = [executed EXCEPT ![r] = FALSE]
    /\ UNCHANGED <<shared, workers, next, waiting, rendering, spent, answer, rendered>>

\* renderFromCache has found the skeleton.
TakeSkeleton(r) ==
    /\ stored
    /\ Goto(r, "idle", "start")
    /\ slices' = [slices EXCEPT ![r] = HolesCopy(slices[CachedSlice])]
    /\ slice' = [slice EXCEPT ![r] = r]
    /\ executed' = [executed EXCEPT ![r] = FALSE]
    /\ UNCHANGED <<limit, stored, workers, next, waiting, rendering, spent, answer, rendered>>

\* The template was executed, and has left new holes.
Execute(r) ==
    /\ Goto(r, "idle", "start")
    /\ slices' = [slices EXCEPT ![r] = BlankSlice]
    /\ slice' = [slice EXCEPT ![r] = r]
    /\ executed' = [executed EXCEPT ![r] = TRUE]
    /\ UNCHANGED <<limit, stored, workers, next, waiting, rendering, spent, answer, rendered>>

\* Mutant: no worker for a limit that is not positive.
WorkerCountUnchecked(bound) == IF bound > Holes THEN Holes ELSE bound

\* A limit that is not positive, or above the number of holes, is no limit.
WorkerCount(bound) == IF bound <= 0 \/ bound > Holes THEN Holes ELSE bound

Start(r) ==
    /\ Goto(r, "start", "send")
    /\ workers' = [workers EXCEPT ![r] = WorkerCount(limit)]
    /\ waiting' = [waiting EXCEPT ![r] = WorkerCount(limit)]
    /\ next' = [next EXCEPT ![r] = 1]
    /\ UNCHANGED <<shared, slice, executed, rendering, spent, answer, rendered>>

\* jobs <- k, received by one of the waiting workers in the same step.
Send(r) ==
    /\ pc[r] = "send"
    /\ next[r] <= Holes
    /\ waiting[r] > 0
    /\ waiting' = [waiting EXCEPT ![r] = @ - 1]
    /\ rendering' = [rendering EXCEPT ![r] = @ \cup {next[r]}]
    /\ next' = [next EXCEPT ![r] = @ + 1]
    /\ UNCHANGED <<shared, pc, slice, executed, workers, spent, answer, rendered>>

\* close(jobs).
Close(r) ==
    /\ next[r] > Holes
    /\ Goto(r, "send", "wait")
    /\ UNCHANGED <<shared, slice, executed, workers, next, waiting, rendering, spent, answer,
                   rendered>>

\* renderer(holes[k].input, childCtx): the hole costs a unit of the budget,
\* and may fail for reasons of its own; the error becomes the content.
RenderHole(r, k) ==
    /\ k \in rendering[r]
    /\ \E fails \in BOOLEAN :
         /\ spent[r] + 1 > BudgetLimit => fails
         /\ slices' = [slices EXCEPT ![slice[r]][k] = [@ EXCEPT !.by = r, !.error = fails]]
    /\ rendered' = [rendered EXCEPT ![r][k] = @ + 1]
    /\ spent' = [spent EXCEPT ![r] = @ + 1]
    /\ rendering' = [rendering EXCEPT ![r] = @ \ {k}]
    /\ waiting' = [waiting EXCEPT ![r] = @ + 1]
    /\ UNCHANGED <<limit, stored, pc, slice, executed, workers, next, answer>>

\* The range over the closed channel ends, and so does the worker.
Leave(r) ==
    /\ pc[r] = "wait"
    /\ waiting[r] > 0
    /\ waiting' = [waiting EXCEPT ![r] = @ - 1]
    /\ UNCHANGED <<shared, pc, slice, executed, workers, next, rendering, spent, answer, rendered>>

\* Mutant: the render waits for the idle workers only.
FillEarly(r) ==
    /\ waiting[r] = 0
    /\ Goto(r, "wait", IF executed[r] THEN "store" ELSE "done")
    /\ answer' = [answer EXCEPT ![r] = [failed |-> FALSE, text |-> slices[slice[r]]]]
    /\ UNCHANGED <<shared, slice, executed, workers, next, waiting, rendering, spent, rendered>>

\* wg.Wait() returns, and fillHoles builds the answer.
Fill(r) ==
    /\ waiting[r] = 0 /\ rendering[r] = {}
    /\ Goto(r, "wait", IF executed[r] THEN "store" ELSE "done")
    /\ LET holes  == slices[slice[r]]
           failed == \E k \in Indexes : holes[k].err
       IN  answer' = [answer EXCEPT ![r] =
             [failed |-> failed, text |-> IF failed THEN BlankSlice ELSE holes]]
    /\ UNCHANGED <<shared, slice, executed, workers, next, waiting, rendering, spent, rendered>>

\* Mutant: the filled slice itself is stored.
StoreSkeletonFilled(r) ==
    /\ Goto(r, "store", "done")
    /\ slices' = [slices EXCEPT ![CachedSlice] = slices[slice[r]]]
    /\ stored' = TRUE
    /\ UNCHANGED <<limit, slice, executed, workers, next, waiting, rendering, spent, answer,
                   rendered>>

\* The deferred function of renderInterpreter: t.PunchHole is the slice that
\* the workers have filled.
StoreSkeleton(r) ==
    /\ Goto(r, "store", "done")
    /\ slices' = [slices EXCEPT ![CachedSlice] = HolesCopy(slices[slice[r]])]
    /\ stored' = TRUE
    /\ UNCHANGED <<limit, slice, executed, workers, next, waiting, rendering, spent, answer,
                   rendered>>

\* The answer has been used; the goroutine serves another request, which has
\* a budget of its own.
Finish(r) ==
    /\ Goto(r, "done", "idle")
    /\ workers' = [workers EXCEPT ![r] = 0]
    /\ slices' = [slices EXCEPT ![r] = BlankSlice]
    /\ next' = [next EXCEPT ![r] = 1]
    /\ spent' = [spent EXCEPT ![r] = 0]
    /\ executed' = [executed EXCEPT ![r] = FALSE]
    /\ answer' = [answer EXCEPT ![r] = NoText]
    /\ rendered' = [rendered EXCEPT ![r] = [k \in Indexes |-> 0]]
    /\ UNCHANGED <<limit, stored, slice, waiting, rendering>>

-----------------------------------------------------------------------------
PoolStep(r) ==
    \/ Start(r) \/ Send(r) \/ Close(r) \/ Leave(r) \/ Fill(r) \/ StoreSkeleton(r)
    \/ \E k \in Indexes : RenderHole(r, k)

Next ==
    \/ SetLimit
    \/ \E r \in Renders : TakeSkeleton(r) \/ Execute(r) \/ PoolStep(r) \/ Finish(r)

\* The goroutines of a render that has started keep running; helpers that the
\* holes call return.
Fairness == \A r \in Renders : WF_vars(PoolStep(r))

Spec == Init /\ [][Next]_vars /\ Fairness

-----------------------------------------------------------------------------
\* Every render and every worker is at a point of the function.
TypeOk ==
    /\ limit \in Limits
    /\ slices \in [Slices -> [Indexes -> Markers]]
    /\ pc \in [Renders -> {"idle", "start", "send", "wait", "store", "done"}]
    /\ stored \in BOOLEAN
    /\ slice \in [Renders -> Slices]
    /\ executed \in [Renders -> BOOLEAN]
    /\ workers \in [Renders -> 0 .. Holes]
    /\ next \in [Renders -> 1 .. Holes + 1]
    /\ waiting \in [Renders -> 0 .. Holes]
    /\ rendering \in [Renders -> SUBSET Indexes]
    /\ spent \in [Renders -> Nat]
    /\ answer \in [Renders -> [failed : BOOLEAN, text : [Indexes -> Markers]]]
    /\ rendered \in [Renders -> [Indexes -> Nat]]

\* An answer has the contents that were rendered for it, in the context of its
\* own request, each of them and each once, although renders share the cached
\* holes and workers share the slice.
AnswersOwnHoles ==
    \A r \in Renders : pc[r] = "done" /\ ~answer[r].failed =>
        \A k \in Indexes : answer[r].text[k].by = r /\ rendered[r][k] = 1

\* The holes in the cache, which others are copying, never have contents: no
\* worker writes to them, and no answer is stored with its contents.
CachedHolesPristine == slices[CachedSlice] = BlankSlice

\* A render never has more holes in hand than the limit it started with, and
\* no worker outlives it, to write into a slice that has been used.
PoolWithinBounds ==
    \A r \in Renders :
        /\ Cardinality(rendering[r]) + waiting[r] <= workers[r]
        /\ pc[r] \in {"idle", "start", "store", "done"} => waiting[r] = 0 /\ rendering[r] = {}

\* Every render gets its holes filled: sender, workers and the waiting render
\* do not block each other, for any limit and whenever that changes.
HolesGetFilled == \A r \in Renders : pc[r] = "start" ~> pc[r] = "done"

\* "Returns ErrBudgetExceeded if the template exhausts the budget": a render
\* whose holes have exhausted its budget returns an error.
ExhaustionIsReported ==
    \A r \in Renders : pc[r] = "done" /\ spent[r] > BudgetLimit => answer[r].failed

\* The phase of each render, and the holes it works on.
PhaseAt(point) ==
    CASE point = "idle"                       -> "idle"
      [] point \in {"start", "send", "wait"} -> "filling"
      [] point = "store"                      -> "storing"
      [] point = "done"                       -> "answered"
Phase   == [r \in Renders |-> PhaseAt(pc[r])]
HolesOf == [r \in Renders |-> slices[slice[r]]]

\* Whatever the pool and the sharing of slices do: a render fills each hole once,
\* for a unit of its budget, answers when all are filled, and leaves a skeleton
\* with empty holes.
Page == INSTANCE PageHoles WITH
    phase    <- Phase,
    holes    <- HolesOf,
    page     <- answer,
    cached   <- stored,
    skeleton <- slices[CachedSlice]
ImplementsPage == Page!Spec

=============================================================================
