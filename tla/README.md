# Plush: a TLA+ model of the render machinery

Plush renders templates: HTML text with `<%= … %>` tags.  It has two engines, a
tree-walking interpreter and a bytecode VM with fast render plans, a cache of
parsed and compiled templates that the application supplies, *punch holes*
(parts of a page that are rendered anew for every request while the rest of the
page comes from the cache), work budgets, and lock-free statistics by which the
VM sizes its output buffers.  One process renders many pages at once, on one
template cache, one helper map and one set of statistics; the holes of a single
page are rendered by several goroutines on one context and one budget.

This directory holds the model: modules, TLC configurations, and proofs.

## 1. Inventory

| Component | Code | State it keeps | Operations | Hard behaviour |
|---|---|---|---|---|
| Template cache and pipelines | `plush.go`, `template_cache.go`, `source_hash.go`, `vm/vm/runtime.go` | entries by key: program, bytecode, source hash; skeletons per URL | `Render`, `Parse`, `RenderTrustedBytecodeCache`, `cacheVMBytecodeWithKey`, `CachePunchHoleSkeletonWithSource`, `ClearTemplateCache` | each render makes up to nine cache calls with no lock between them; entries expire, are deleted, and are replaced by renders of other texts |
| Punch holes | `plush.go`, `punch_hole.go` | a slice of markers per render, one in the cache, the concurrency limit | `renderHolesConcurrently`, `fillHoles`, `holesCopy` | worker pool over an unbuffered channel, writes without lock into a shared slice |
| Budget | `budget.go`, `budget_config.go` | counter, seven statistics, a map per name | `Spend*`, `Stats` | lock-free decision, snapshot that is not atomic, int64 overflow |
| Helper map and root scope | `helpers/map.go`, `helper_scope.go` | helpers and version; cached scope and its version | `Add`, `AddMany`, `Snapshot`, `cachedHelperScope` | double-checked locking with a version that is read without a lock |
| Output-size statistics | `vm/compiler/output_size_stats.go` | five atomic words per template | `Observe`, `ObserveWithHeadroom`, `Unstable`, `GrowHint` | three compare-and-swap loops |
| Layout profile | `vm/compiler/layout_output_size_profile.go` | buckets, each a tree of refinements | `layoutStats`, `refine`, `reserveRefinementChildren` | publication by compare-and-swap, a bounded number of children |
| Size planning | `vm/vm/output_size.go`, `loop_size.go` | none of its own | grow hints per render kind | which statistics a render may learn from |
| Cache keys | `generate_cache_key.go` | none | file and URL to key | two files or URLs with one key |
| Source bytecode and partial caches | `vm/vm/source_cache.go`, `partial_cache.go` | a FIFO of 1024 texts; plans per partial | `Get`, `Set` | eviction, colliding hashes, stale plans |
| Partials and layouts | `partial_helper.go`, `vm/vm/partials.go` | overlay contexts | `partial`, `layout`, `yield` | nesting, fallback to the interpreter, trusted names |
| Context and scopes | `context.go`, `symbol_table.go`, `intern.go` | scope chain, interners | `Set`, `Update`, `Value`, `New` | locks per context, scopes shared by goroutines |
| Interpreter | `compiler.go`, `user_function.go`, `objects.go` | current scope, hole positions | evaluation | control flow, scoping |
| VM | `vm/compiler/*`, `vm/vm/execution.go`, … | stack, frames, bindings | one action per opcode | equivalence with the interpreter |
| Fast plans | `vm/compiler/fast_plan_*.go`, `vm/vm/fast_*.go` | scratch output | plan variants that may decline | a declined plan must leave no effect |
| Lexer, parser, trim tags | `lexer`, `parser`, `trim_tags.go` | position, tag state | tokens, syntax tree | nesting of tags, preprocessing twice |
| Diagnostics | `render_diagnostics.go` | a recorder per context | updates | none that rendering depends on |
| Render mode registry | `render_mode.go` | atomic settings | get and set | settings that change during a render |
| Helpers | `helpers/…` | none, or the context | formatting, iterators, `contentFor` | `contentFor` with holes |

The components meet in a few places.  `Render` reads the global mode and calls
the interpreter or the VM; the VM may hand a template to the interpreter
(`VMGenericFallbackEnabled`); both read and write the same cache entries, so the
interpreter profits from the VM's program and the reverse.  Both end in
`renderHolesConcurrently`, which calls `Render` again for every hole with child
contexts.  The budget hangs off the context and is inherited by children.  Every
new context starts from `cachedHelperScope`.

What makes each of them correct is listed with its properties below; everything
that is hard to test is listed, at its line, under `hazards` in `PROJECT.json`.

## 2. Modules

| Module | Models | Run modules |
|---|---|---|
| `HelperScope` | `HelperMap`, `cachedHelperScope` | `MCHelperScope` |
| `Budget` | `Budget` | `MCBudget` |
| `OutputSizeStats` | `OutputSizeStats` | `MCOutputSizeStats` |
| `AtomicSizeStats` | what the statistics promise, abstractly | as a property of `MCOutputSizeStats` |
| `LayoutProfile` | `LayoutOutputSizeProfile` | `MCLayoutProfile` |
| `SizeTree` | what the layout profile promises, abstractly | as a property of `MCLayoutProfile` |
| `RenderCache` | the render pipelines over the template cache | `MCRenderCache` |
| `SkeletonShelf` | what the cache promises, abstractly | as a property of `MCRenderCache` |
| `HolePool` | hole rendering | `MCHolePool` |
| `PageHoles` | what the holes of a page promise, abstractly | as a property of `MCHolePool` |
| `LayoutPrediction` | the predictors of one range of the layout profile | `MCLayoutPrediction` |
| `Numeric` | comparison and arithmetic of signed and unsigned numbers | `MCEngines` |
| `Language`, `Interpreter` | values, contexts and scopes; the tree-walking engine as a function | `MCEngines` |
| `Bytecode`, `Machine` | the VM's compiler as a function; the machine, an instruction per step | `MCEngines` |
| `FastPlan`, `FastRender` | the planner and the renderer of fast plans, as functions | `MCEngines` |
| `Engines` | the interpreter and the VM on the same template | `MCEngines` |
| `HelperScopeProofs`, `BudgetProofs`, `OutputSizeStatsProofs`, `LayoutProfileProofs`, `LayoutPredictionProofs`, `NumericProofs`, `RenderCacheProofs`, `HolePoolProofs` | theorems | checked by TLAPS |

Operators whose comment begins with *Mutant* are not part of the model: they are
plausible mistakes, kept beside the operator they change, that show that a
property can fail.

### HelperScope

A step is a section that the code executes under one lock, or one atomic
access: `AddLock`, `AddWrite`, `AddPublish`, `AddUnlock` for `Add`;
`LoadVersion`, the section under `RLock` (`FastHit`, `FastMiss`), `Lock`, the
second comparison, `Snapshot`, and the third comparison with the store.  A
helper is the serial number of its registration, so "newer" can be stated.

* `FreshScope`: a scope that is returned has every helper whose registration
  had returned when the call began.
* `ScopeNeverRegresses`: builders that finish out of order never replace the
  scope by an older one.
* `CallsReturn`: no early return keeps a lock and the two locks form no cycle.

### Budget

One action per atomic add: category, name, counter.  `Stats` is nine loads.
Integers wrap as int64 does, with `MaxInt` for the largest one.

* `GrantedWithinLimitUnlessWrapped`, `ExhaustionIsFinal`: the limit without a lock.
* `SnapshotAccountsForTotal`: a snapshot's categories add up to its total at least,
  because each charge adds to its category first and `Stats` loads the total first.
* `QuiescentStatsAgree`: the statistics equal the counter when no call is active.

All are stated until the counter has overflowed: a function priced near the largest
int64 (to forbid it) makes the next charge wrap to a negative counter, and an
exhausted budget lets work through again.  `SnapshotAccountsForTotal` is stated until
the calls in progress are bound to overflow it (`Overflowing`): a call adds to its
category first, so a category can be negative while the counter is still right.
`MaxInt` is 7 in `MCBudget`, so that all of this happens.

### OutputSizeStats

One action per load and per compare-and-swap.  The integer operators
`NextEstimate` and `NextHeadroom` are those of the code, with its two limits as
constants.  `RangeIsExact` is about lost updates, `EstimateWithinRange` about the
order of samples and estimate, `UnstableHasWitnesses` about a reader whose three
loads are apart, `ObservationsEnd` about the loops.  `ImplementsAtomicStats`: the loops
refine `AtomicSizeStats`, where an observation moves each word in one indivisible step
and a planner is told of unstable sizes only when they are unstable.  The headroom, which no
invariant is about, goes up there to what was missing, within its limit, and down otherwise.  (`RangeOnlyWidens`,
that the bounds only move outwards, is part of it and proved by itself.)

### LayoutProfile

One action per atomic access of `layoutStats`, `refine` and
`reserveRefinementChildren`; `Samples` and `Unstable` are one step because neither
goes back.  The table of ranges is the code's, in KiB.  Statistics are named by
range, level and allocating goroutine: a candidate that lost its compare-and-swap is
not the published one.  `Observe` takes the observation of a range as one step, of
which `OutputSizeStats` has the details.

* `HeldStatsAreLive`: a render holds the statistics that every other render with its
  yield size finds at that depth, for a range that contains the size.
* `ObservationsKept`: no observation is lost to statistics that nobody reads: there are
  as many in the statistics that can be found as were reported.
* `ChildrenAccounted`: the counter is two per refinement and reservation; with the
  limit in `TypeOk`, at most sixteen children.
* `FallbackHasMinimum`: a cold half always has a minimum of its parent to use.
* `ImplementsTree`: the profile refines `SizeTree`, a forest of ranges without goroutines:
  it is planted once, a range is split once, after `MinSamples` observations of it and
  within the limit, and every observation that counts is one of a range in the forest.
  (`RefinementsStay`, that a refinement is final, is part of it and proved by itself.)
* `PredictionsEnd`: the loops end although they repeat what others have changed.

### LayoutPrediction

`predict` is five loads in the code's order, `observePrediction` a load and a
compare-and-swap for each of the two errors and the ratio, and `output.Observe`
comes last.  The integer operators (`NextRatio`, `NextError`, `RatioOverhead`,
`PredictionError`) are the code's, their four limits constants.  The first range,
whose yields may be empty and which then has no ratio, is left out; the estimate of
the absolute overhead is any of `Estimates`, since `OutputSizeStats` has the details.

* `LearnedWithinRange`: although each step is weighted with a number of samples that is
  out of date, and concurrent first renders replace what the others learned, the
  ratio stays between the smallest and the largest ratio seen, and no error exceeds
  the largest seen.
* `PredictionIsGrounded`: a render that has seen a sample has a ratio within those
  reported, and prefers it only if an absolute prediction had been that wrong, although
  it read the five words at five times.

A render may prefer the ratio before any prediction by the ratio was scored: it can
read the errors between the two loops, when the second is still 0.  The code
makes no other promise.

### RenderCache and SkeletonShelf

A render is a sequence of steps with at most one call of the cache backend in
each.  `ast[file]` is the entry under `GenerateASTKey`, `full[file, url]` the one
under `generateFullKeyFromCleanFilename`.  A program, a bytecode and a skeleton are
named by the text they were made from, so "the right answer" can be stated
without modelling any text: `AnswersOwnSource`.  The four modes are the
interpreter, the VM, the VM with generic fallback, and trusted rendering
(`BuffaloRendererFromTrustedBytecodeCache`), which looks up bytecode by file name
before it has read the file.

* `AnswersOwnSource`: whatever happens between its lookups, a render that brings
  its source answers from that source.
* `CacheCoherent`: an entry is of one text only and knows whether that text writes
  to the context, although it is put together from several lookups.
* `WritesAlwaysExecute`: a template with `let` or assignments is never answered
  from a skeleton.
* `RendersReturn`: neither the fallback nor deletions make a render loop.
* `ImplementsShelf`: the pipelines refine `SkeletonShelf`, in which a render executes its
  source or serves a skeleton made of it by an earlier render of the same file
  and URL.

Texts are meant after `preprocessTrimTags`.  File names are those of `.plush`
files.  Trusted rendering is modelled without generic fallback.  An execution
may fail, and may come by its holes or not; that a fast plan never has holes is
an assumption (`SourcesAssumption`), as in `tryRenderFastBytecodeWithOptions`.

### HolePool

Slices of markers are named by the render that made them, or `CachedSlice`.
Sending over the unbuffered channel is one step with the receive.  A hole costs
a unit of its render's budget and may fail; the error becomes its content.

* `AnswersOwnHoles`: every hole of an answer was rendered for that request, once.
* `PoolWithinBounds`: at most the limit at a time, and no worker survives its render.
* `ImplementsPage`: the pool refines `PageHoles`, in which there are no workers and no
  shared slices: each render fills holes of its own, once each and in any order,
  answers when all are filled, and puts empty ones into the cache.
  (`CachedHolesPristine`, that the slice in the cache never has contents, is part of it
  and proved by itself.)
* `HolesGetFilled`: nobody waits for ever.

### Language, Interpreter, Bytecode, Machine, FastPlan, FastRender, Engines

The two engines on a small syntax: HTML, `let`, assignments to names, elements
and keys, literals, names, properties, prefix and infix operators, calls with and
without a block, functions, `if` with `else if`, `for`, `break`, `continue`, `return`
and punch holes.  A text is a sequence of atoms of which one, `"<"`, is escaped.  A
state has the scopes of all contexts, the memory behind arrays, hashes and
captured variables, the holes, and the number of calls of Go helpers.

`Interpreter` is a recursive function of statements and states, operator by operator
the code's: control flow, truthiness, the scopes of blocks, user functions, the
context that a helper gets, what is written and escaped, when a hole is numbered.

`Bytecode` translates a template into instructions as the compiler does: symbol
tables with free, local and inline names, jumps that are patched later, fused
instructions and the moves of jumps that fusing causes, names that are recorded
for synchronisation.  `Machine` executes one instruction per step: operands and
frames, closures, child machines for loops and the blocks of helpers, and the
copying of names between slots, captured variables and contexts after each of them.
A template's own helpers are six Go functions that echo a value, run their block
once, twice or not at all, read a variable, or fail, and one that changes a variable.

`FastPlan` says which templates have a fast plan, and what it is; `FastRender` how
segments are rendered (simple and mixed plans, locals and contexts, loops and
nested loops, helpers' blocks with plans of their own, partials, assignments that are
copied back, and giving up in favour of the machine, which starts on whatever the plan has
done to the context).

`Numeric` is what both engines' copies of `numeric.go` do with integers: which pairs
are compared and calculated as signed words, which as unsigned ones, when the result
wraps around and when it is an error.  The engines go on from a result in different
ways: the VM makes an unsigned number that fits signed (`Narrowed`).  A word has six
bits here, its largest signed value `MaxInt` being 31: `engines` compares and adds up
the limits of both kinds of words, and two operators in a row.

`Partials` gives the names and the statements of the application's partials.
`PartialHelper` of the interpreter, and `VmPartialHelper`, render one in a context over
the caller's, in which the data is declared, and then its layout with the text as `yield`.  A plan has segments for partials: one whose own plan calls nothing
(`DirectPartialCanRender`) is rendered where it stands, its data as locals; another
in a context over the caller's (`RenderOverlayPartial`), and one with a layout by the
helper.  `CallVmPartial` is the machine's call: it has no block to run, so it is one
step; a partial without data goes the way of a plan's segment.  Afterwards the
locals of the plan and the slots of the frames take over what the partial assigned.

* `EnginesAgree`: the VM renders what the interpreter renders, calls helpers as often,
  puts holes in the same places, and fails where it fails.
* `OperandsAvailable`: no instruction finds fewer operands than it takes, on any path.
* `MarkersInPlace`: the markers of the finished text are where `fillHoles` cuts it.
* `Advances`: no machine executes an instruction twice for one iteration: nothing
  jumps backwards, so every render ends.

What is abstracted: floats, the widths of Go's shorter integers, structs beyond properties of one object, iterators, and the
conversion of arguments; constant pools, stack sizes, pools of machines;
inline caches and the specialised invokers of fast plans, loops over fields of structs
or over string keys, segments that hand part of a template to the machine, and the
budget's charges.  Of partials: how names become files, links and caches, trusted
partials and those from source, the escape for JavaScript, partials that have holes or
no fast plan, and the fallback to the interpreter (a model that met one of the last
two would end with `"unmodelled"`, which `TypeOk` excludes).

## 3. Runs

| Run | Bounds | Shows |
|---|---|---|
| `helper_scope` | 2 adders, 2 readers, 2 names, few registrations | a scope can be overtaken by adders and by a builder, which takes two of each |
| `budget` | 2 spenders, 1 observer, 3 calls, every kind of call | the limit lies two or three charges away, so that both spenders race for the last unit |
| `output_size_stats` | 2 renderers, 1 planner, 3 sizes | sizes 4 apart and above the cap; two swaps can collide in every loop |
| `layout_profile` | 2 renders, 2 yield sizes, 2 overheads, 7 observations, limits 2 (samples), 2 (depth), 4 (children) | enough to refine one range twice, to race for a refinement, and to be refused children by a reservation of the other render |
| `layout_prediction` | 3 renders, 2 yields, 2 overheads, 3 estimates, 3 reports, small scales | three first renders at a time, and a third render that prefers the ratio after two |
| `render_cache` | 2 renders (interpreter, VM, VM with fallback), 1 file, 1 URL, 3 texts | every race between lookups, stores, expiry and deletion |
| `render_modes` | 1 render at a time, all four modes, 4 texts | what one mode leaves behind for another; termination |
| `hole_pool` | 2 renders, 3 holes, limit 2 or none | more holes than workers, both renders on one cached skeleton |
| `engines` | some four thousand templates, half of which have a fast plan | the limits of words under every operator, every statement in every kind of block, blocks in blocks in functions and helpers, failures in each, partials in and after one another, data that is shared, and helpers that change what was read |
| `partial_scope`, `hole_order` | the templates of one disagreement | see below |
| `hole_budget` | the instance of `hole_pool`, with little budget | see below |

Two renders suffice for the races of the cache since a conflict is between one
lookup and one store; keys of different files or URLs do not interact except
through `Clear`.  The templates of `engines` are generated in `MCEngines`: what a
template can go wrong with is the combination of two statements in one block, or of
one block in another, so all pairs are there, in each kind of block.  `budget` and others
are checked without deadlock: the bounded number of calls is used up, a render ends.

`MaxAdds`, `MaxSpends`, `MaxObserves`, `MaxReports` are the only bounds in the models;
they limit histories and counters, not the code.

Fairness is weak fairness of each goroutine that has started a call (the Go
scheduler runs every runnable goroutine), and strong fairness of taking a mutex
(Go's mutexes switch to first-in-first-out when a waiter starves).  Nothing
forces a call to be started, a file to be changed, or an entry to expire.
`Advances` needs no fairness: it is a measure that every step increases.

### Disagreements

Three runs have `expect: violation`; each disagrees with a sentence of the code or its
documentation, which `findings` quotes.

* `partial_scope`: a partial that is rendered where it stands leaves its declarations in
  its caller's context, and an assignment to one of its data changes the caller's
  variable of that name; partial data is said to be scoped to the partial.
* `hole_order`: a loop with a helper's block that has a hole, followed by another
  hole, gives markers out of order, and `fillHoles` cuts out of range.
* `hole_budget`: an exhausted budget becomes text of the page.

More of them came up than there are runs.  The models state them:

* A name nobody has set, printed in a loop, ends the iteration without an error under a
  fast plan (`vm/vm/fast_loops.go:319`), although fast plans are to "match normal
  template behavior exactly, or step aside" (`vm/FAST_PATHS.md:3`): `RenderFastPart`.
* `ByFunction` may exceed `FunctionCalls` in a snapshot of the budget, whose comment
  calls it its breakdown (`Budget`: the two maps are read at different times).
* A file that became empty is answered from its old skeleton: the empty text has no
  hash, and a lookup without a hash takes any entry.  This is why three
  theorems of `RenderCacheProofs` have the hypothesis `AllHashed`.
* An old bytecode may be stored after the key was deleted, and be what trusted
  renders are answered from (`TrustedAnswersCurrent`); the old skeleton of another URL
  survives the deletion as well (`TrustedSkeletonCurrent`).
* A `let` in a block hides a variable of the template; if a helper that takes a
  context runs in that block, the machine copies the block's value, by name, to the
  outer variable.

### Templates on which the engines differ

`engines` leaves out the templates below, on which the VM and the interpreter are
known to differ; they were met while the templates were chosen.  With a fast plan:

* a block's call in a block's call, both assigning the same variable, loses the inner
  assignment; `let x` in a helper's block overwrites the `x` of the template;
* a helper's block in an `if` of a plan declines after the earlier effects of the plan, and
  the machine then repeats them; so does a loop over what is no collection;
* a helper's block that assigns a variable declared by `let` changes the local only,
  and a later helper reads the old value from the context; in a loop, a helper in a
  value does not see the loop's variables;
* the size of the output is estimated by evaluating what a loop iterates over, so a
  helper called there is called twice;
* a name that a plan or an `if` has read stays as it was when a helper that
  changes the context runs before it is used again; in a loop a helper's changes are
  lost, and in a condition they go to the template's context instead of the block's;
  so do the assignments of a partial with a layout, which is called like a helper;
* a partial that declares variables or assigns its data (`partial_scope`).

Without one:

* a second `let` of a variable takes a new slot, while a function compiled before it
  goes on using the first;
* a variable read from a stale slot: after a loop or a function whose helper wrote the
  context, when a closure is called from another frame, and when arrays in
  globals are replaced through a context;
* fusing a null with the instruction that drops it, where a jump leads to the second;
* a function that ends with `return`, printed in a block, ends that block early;
  `let` in a loop outlives the iteration; a top-level `return` in an `if`;
  `<` evaluates its operands in the opposite order; a missing name compared with `>`;
* the negation of an unsigned or short Go integer, which the VM can do (with or
  without a plan) and the interpreter cannot (`compiler.go:264`);
* nested loops that use the same variable with a call between them;
* a call in `<% %>`, within a block, of a helper or a partial that returns HTML: the
  interpreter prints the HTML, the VM, with or without a plan, does not.

## 4. Proofs

`HelperScopeProofs` proves `TypeOk`, `FreshScope` and `ScopeNeverRegresses` for any
goroutines, names and bound.  None of them is inductive.  The invariant that is
relates the version to the serial number of the last registration, every
version to the content of the map at that time (a copy with a version at least
as large is at least as new), and what each goroutine has loaded to what it was
promised.  `NoLockCycle`: whoever waits for a lock waits for a holder that can go on, since
the scope's lock is taken before the map's and never the other way round.
`CallsWindDown`: each step of a call brings it nearer to its end (five steps at most,
three for `Add`).

`BudgetProofs` proves `TypeOk`, `GrantedWithinLimitUnlessWrapped` and
`ExhaustionIsFinal` from the invariant that the counter, until it wraps, is at
least the sum of the granted units.  `SnapshotAccountsForTotal` and
`QuiescentStatsAgree` need books (`SInv`): until `Overflowing`, the categories add up
to the counter and the units in flight (`Ledger`), a name's part of the function
category to no more than that category without the calls that have not come to the
name (`NameLedger`), and what an observer has loaded to no more than what it has
still to load (`Snapshots`).  The units in flight are counted as the elements of a
set of pairs (`Charged`), one per call and unit, since a sum over goroutines
would need an induction; a step adds or removes the pairs of one call.

`OutputSizeStatsProofs` proves `TypeOk`, `EstimateWithinRange`, `RangeIsExact`,
`UnstableHasWitnesses`, `PlannedRangeIsOrdered`, `RangeOnlyWidens` and
`ImplementsAtomicStats`.  Its invariant
says that a swap is tried only with a value that moves the bound outwards
(`SwapsWiden`), that a renderer past one of the loops has its size inside that bound
(`PastLoopsInside`), that an observed size is inside the range or its renderer on the
way to put it there (`Covered`), that both ends of the range are observed sizes and
the estimate lies between them (`Grounded`), and what a planner has loaded is to the
range now (`PlansOrdered`, `PlansCurrent`).  In `ImplementsAtomic` a successful swap is the
indivisible step, failed ones are stutters, and the last load of a planner is its
answer: the words it has loaded are out of date, but a minimum that was low enough
still is, and a maximum that was high enough too.  The specification lets a planner say no
at any time; `InstabilityIsNoticed` adds that one that loads the minimum of a range that
is unstable already says yes, and `InstabilityIsFinal` that unstable sizes stay so,
which is why `LayoutProfile` may ask in one step.

`LayoutPredictionProofs` proves `TypeOk`, `LearnedWithinRange` and `PredictionIsGrounded`
for any renderers, yields, overheads, estimates and scales.  Lemmas say that the next
ratio lies between the present and the reported one and that the next error is not
above both, whatever count of samples is passed in.  The invariant adds that
there is a ratio within the range as soon as a sample is counted or somebody is about
to count one, which a reader that loads the samples before the ratio relies on
(`SampledHasRatio`), and that an error that was read had been seen (`ErrorsWereSeen`);
what has been learned only grows, so what was read stays grounded.

`LayoutProfileProofs` proves all safety properties of `layout_profile`, for any
goroutines, sizes, overheads, depths and limits.  `IInv` says that a refined range has
a positive minimum, is above the last level and wide enough to halve
(`RefinedHaveMinimum`: the decision took two samples far apart, and neither a minimum
nor a refinement goes away again), what each goroutine knows at its point
of the loop (`Knows`), and that `refinementChildren` is two per refinement and
reservation; `GiveBack` cannot make it negative because its own reservation is in it.
`FoundStays` is about following pointers: statistics that can be found now are found
later at the same place, since every pointer on the way is set, and a pointer
that is set stays.  It needs an induction over the levels, which is done by taking the
smallest level at which it fails (`Smallest`, from `WFMin` of the library).  `JInv`
adds that each goroutine holds what it would find (`Holds`), that nothing but live
statistics was ever written (`StatsLive`), and that the observations in them, counted
as pairs of statistics and number, are those reported (`StatsBooked`).
`HeldStatsAreLive` and `ObservationsKept` follow.  `KInv` adds that whoever is about to split
a range has read `MinSamples` observations of it, and samples only grow (`Earned`).
With it `ImplementsSizeTree` proves `ImplementsTree`: `PublishBuckets` plants,
`PublishRefinement` splits, `Count` records, and all other steps change nothing there.
What can be found is in the forest of `SizeTree` because each level of `Found` is a half of
a refined range (`LiveInForest`).  `PredictionsWindDown`: each step of a prediction lessens
what it has still to do, at most `10 + 8 * MaxDepth` steps, except `RetryChildren`.

`NumericProofs` is about words of any width.  `ComparisonsAreExact`: mixed numbers
compare as the integers they stand for, none being converted to a word that cannot
hold it.  `NarrowingIsInvisible`: whether an operand has been made signed changes
neither a comparison nor, up to that same difference, a result; with it the
engines, which differ in this only, agree on nested operators step by step.
`ArithmeticIsExactOrWraps`: a result that is not exact, and no error, comes from two
operands that fit in signed words, even if an unsigned word could hold the exact
one: the sum of two unsigned numbers may be negative.

`RenderCacheProofs` is about any number of renders, files, URLs and texts.  `TInv`
says of every point of the pipelines what a render has at hand there, and gives
`TypeOk` without further hypothesis.  `OInv` needs the hypothesis `AllHashed`, that the
empty text is no template (section 3 says why): then a render's key
is the hash of its source, its program, bytecode and answer are of that source,
an entry it has built is coherent before it is stored, and a skeleton it is about
to store is of a text without context writes.  `AnswersOwnSource`, `CacheCoherent`
and `WritesAlwaysExecute` follow.  With the further hypothesis that no mode is
trusted (section 3 says why), `Refinement` proves `ImplementsShelf`:
`Ask`, `Exec`, `SkeletonHit`, `StoreFull` and `StoreDeferred`, `Return` and `Clear` are
steps of `SkeletonShelf`, and all other steps change nothing there.  `RendersWindDown` needs
neither hypothesis: whatever other renders store, and whatever expires or is deleted
under it, a render in any mode is over after 21 steps of its own.  `render_modes` has one
render at a time, the theorem any number.

`HolePoolProofs` proves `TypeOk`, `AnswersOwnHoles`, `CachedHolesPristine`,
`PoolWithinBounds` and `ImplementsPage` for any renders, holes, limits and budgets.  The invariant says that
a render works on its own slice as soon as it may write (`OwnSlice`), how far a hole
has come by where its render and its workers are, so that no two workers have the
same hole and none is left out (`HoleProgress`), and that workers that wait and holes in
hand are no more than the workers that were started (`PoolBounded`).  For `ImplementsPage`
a hole of an idle render must be known to be empty (`Untouched`); a worker that writes
its hole fills it, and sending, receiving, waiting and leaving are stutters.
`SomeoneCanStep` is the absence of deadlock in a pool: while there are
holes to send a worker waits or has one in hand, since `WorkerCount` is positive for every
limit, also zero and below.  `PoolsWindDown` counts what is left: two for each hole that is
not sent or is in hand, one for each waiting worker, and the rest of the function; each
step of the render or its workers lessens it, nobody else's changes it.

The theorems rest on the assumptions named in the modules, which TLC evaluates.
Those of `RenderCache` say that the sets of texts are sets of texts, that fast plans
have no holes, and that the values that stand for "nothing" are none of the
things they stand for the absence of.  Liveness (`CallsReturn`, `ObservationsEnd`, `PredictionsEnd`,
`RendersReturn`, `HolesGetFilled`) is left to TLC, as is whatever needs `ENABLED`.  Proved
is what makes it true: that steps lessen a measure (`CallsWindDown`, `RendersWindDown`,
`PredictionsWindDown`, `PoolsWindDown`) and that somebody can step (`NoLockCycle`,
`SomeoneCanStep`); `CanStep` and `CanRead` there are the guards of the actions, written
out.  The conclusion from fairness to the end is not.  Nor is there a measure
for the retries of the lock-free loops (`ObservationsEnd`, `RetryChildren`), which end only
because others' observations do.  Induction over data is left to TLC too
(induction over numbers is possible, by a smallest counterexample),
and so are the engines: `Interpreter`, `Bytecode`, `FastPlan` and `FastRender` are recursive operators over
syntax trees, and what they compute for every template is out of the provers'
reach; only their operators on numbers are proved about.

## 5. Not modelled, and the plan

What is modelled only in part is listed with its reason under `components`.  What
could follow, in this order:

1. *Partials* with holes and without plans, the caches of links and plans, and the
   ownership of pooled machines and contexts.
2. *Scopes under concurrency*: the locks of contexts and symbol tables while holes run.
3. *Caches of the VM*: the source cache's queue; cache keys and `preprocessTrimTags` as
   functions over bounded texts.

Left out for good: wording of errors, HTML formatting, reflection on Go values,
time, the file system, what user-supplied helpers do, and diagnostics.
`fastBlockStatementsAllowScopedAssignments` and what only it calls
(`vm/compiler/fast_plan_ast.go`) is reached from nowhere and has no counterpart.
