------------------------------- MODULE Budget -------------------------------
(***************************************************************************)
(* The render budget (budget.go): a work-unit counter that every goroutine *)
(* of a render spends from without a lock, per-category statistics beside  *)
(* it, a mutex-protected map of units per function name, and Stats, which  *)
(* reads all of them one after the other while others spend.               *)
(***************************************************************************)
EXTENDS Integers, FiniteSets

CONSTANTS
    Spenders,       \* goroutines that evaluate template code
    Observers,      \* goroutines that call Stats
    Names,          \* function names
    NoName,         \* of a charge that is not made through SpendFunctionCall
    Costs,          \* BudgetCosts: category -> units
    FunctionCosts,  \* BudgetCosts.FunctionCosts: name -> units
    Segments,       \* lengths of dotted paths that templates traverse
    Limit,          \* Budget.limit
    MaxInt,         \* largest int64
    MaxSpends       \* bound on the number of Spend* calls of a behaviour

Categories == {"loop", "function", "filter", "subRender", "condition",
               "assign", "traversal"}

\* One charge is a non-negative int64.
Units == 0 .. MaxInt

ASSUME LimitAssumption == Limit \in Nat /\ MaxInt \in Nat /\ MaxSpends \in Nat
ASSUME CostsAssumption ==
    /\ Costs \in [Categories -> Units]
    /\ DOMAIN FunctionCosts \subseteq Names
    /\ \A n \in DOMAIN FunctionCosts : FunctionCosts[n] \in Units
    /\ Segments \subseteq Nat
    /\ \A s \in Segments : Costs["traversal"] * s \in Units
ASSUME NoNameAssumption == NoName \notin Names

VARIABLES
    counter,        \* Budget.counter
    stat,           \* the seven stat* counters, by category
    byFunction,     \* statFuncsMap: name -> units, 0 if absent
    pc,             \* where each spender is
    loads,          \* how many of its loads each observer has done
    op,             \* the Spend* call each spender is in
    outcome,        \* what the last Spend* call returned: "ok" or "exceeded"
    report,         \* the BudgetStats an observer is assembling
    spends,         \* history: Spend* calls started
    granted,        \* history: units of the calls that returned nil
    wrapped         \* history: the counter has left the range of int64

budgetVars == <<counter, stat, byFunction>>
spendVars  == <<op, outcome, spends, granted, wrapped>>
vars       == <<budgetVars, spendVars, pc, loads, report>>

\* int64 addition.
Wrap(n) == ((n + MaxInt + 1) % (2 * (MaxInt + 1))) - (MaxInt + 1)

\* A Spend* call: the category it is charged to, its units, the function name.
Ops == [category : Categories, units : Units, name : Names \cup {NoName}]

\* The Spend* methods; SpendFunctionCall is the one that knows a name, and
\* SpendHelperCall charges the same category without one.
Plain(c)          == [category |-> c, units |-> Costs[c], name |-> NoName]
FunctionCall(n)   ==
    [category |-> "function",
     units |-> IF n \in DOMAIN FunctionCosts THEN FunctionCosts[n] ELSE Costs["function"],
     name |-> n]
ObjectTraversal(s) ==
    [category |-> "traversal", units |-> Costs["traversal"] * s, name |-> NoName]

Calls == {Plain(c) : c \in Categories \ {"traversal"}}
            \cup {FunctionCall(n) : n \in Names}
            \cup {ObjectTraversal(s) : s \in Segments}

NoReport == [total |-> 0, stat |-> [c \in Categories |-> 0],
             byFunction |-> [n \in Names |-> 0]]

Init ==
    /\ counter = 0
    /\ stat = [c \in Categories |-> 0]
    /\ byFunction = [n \in Names |-> 0]
    /\ pc = [p \in Spenders |-> "idle"]
    /\ loads = [q \in Observers |-> 0]
    /\ op = [p \in Spenders |-> Plain("loop")]
    /\ outcome = [p \in Spenders |-> "ok"]
    /\ report = [q \in Observers |-> NoReport]
    /\ spends = 0
    /\ granted = 0
    /\ wrapped = FALSE

Transition(p, from, to) ==
    /\ pc[p] = from
    /\ pc' = [pc EXCEPT ![p] = to]

-----------------------------------------------------------------------------
\* A goroutine calls one of the Spend* methods.
Spend(p) ==
    /\ spends < MaxSpends
    /\ Transition(p, "idle", "stat")
    /\ \E call \in Calls : op' = [op EXCEPT ![p] = call]
    /\ spends' = spends + 1
    /\ UNCHANGED <<budgetVars, outcome, granted, wrapped, loads, report>>

\* Mutants: every charge is looked up by name, and calls are counted, not units.
AddStatAlwaysNamed(p) ==
    /\ Transition(p, "stat", "name")
    /\ stat' = [stat EXCEPT ![op[p].category] = Wrap(@ + op[p].units)]
    /\ UNCHANGED <<counter, byFunction, spendVars, loads, report>>

AddStatPerCall(p) ==
    /\ Transition(p, "stat", IF op[p].name = NoName THEN "counter" ELSE "name")
    /\ stat' = [stat EXCEPT ![op[p].category] = Wrap(@ + 1)]
    /\ UNCHANGED <<counter, byFunction, spendVars, loads, report>>

\* b.stat<Category>.Add(units).
AddStat(p) ==
    /\ Transition(p, "stat", IF op[p].name = NoName THEN "counter" ELSE "name")
    /\ stat' = [stat EXCEPT ![op[p].category] = Wrap(@ + op[p].units)]
    /\ UNCHANGED <<counter, byFunction, spendVars, loads, report>>

\* b.statFuncsMap[name] += cost under statFuncsMu.
AddName(p) ==
    /\ Transition(p, "name", "counter")
    /\ byFunction' = [byFunction EXCEPT ![op[p].name] = Wrap(@ + op[p].units)]
    /\ UNCHANGED <<counter, stat, spendVars, loads, report>>

\* spend: a charge of nothing succeeds without looking at the counter.
SpendNothing(p) ==
    /\ op[p].units = 0
    /\ Transition(p, "counter", "idle")
    /\ outcome' = [outcome EXCEPT ![p] = "ok"]
    /\ UNCHANGED <<budgetVars, op, spends, granted, wrapped, loads, report>>

\* Mutants: the decision is made on the counter before the add, or on the
\* units of this call alone.
SpendUnitsIf(p, ok) ==
    /\ op[p].units # 0
    /\ Transition(p, "counter", "idle")
    /\ LET sum == counter + op[p].units
       IN  /\ counter' = Wrap(sum)
           /\ outcome' = [outcome EXCEPT ![p] = IF ok THEN "ok" ELSE "exceeded"]
           /\ granted' = IF ok THEN granted + op[p].units ELSE granted
           /\ wrapped' = (wrapped \/ Wrap(sum) # sum)
    /\ UNCHANGED <<stat, byFunction, op, spends, loads, report>>

SpendUnitsBefore(p) == SpendUnitsIf(p, counter <= Limit)

SpendUnitsAlone(p) == SpendUnitsIf(p, op[p].units <= Limit)

\* spend: one atomic add, whose result decides.
SpendUnits(p) ==
    /\ op[p].units # 0
    /\ Transition(p, "counter", "idle")
    /\ LET sum == counter + op[p].units
           ok  == Wrap(sum) <= Limit
       IN  /\ counter' = Wrap(sum)
           /\ outcome' = [outcome EXCEPT ![p] = IF ok THEN "ok" ELSE "exceeded"]
           /\ granted' = IF ok THEN granted + op[p].units ELSE granted
           /\ wrapped' = (wrapped \/ Wrap(sum) # sum)
    /\ UNCHANGED <<stat, byFunction, op, spends, loads, report>>

-----------------------------------------------------------------------------
\* Stats evaluates its eight atomic loads in the order of the composite
\* literal, then copies the map under the mutex.
LoadOrder == <<"loop", "function", "filter", "subRender", "condition",
               "assign", "traversal">>

LoadTotal(q) ==
    /\ loads[q] = 0
    /\ loads' = [loads EXCEPT ![q] = 1]
    /\ report' = [report EXCEPT ![q] = [NoReport EXCEPT !.total = counter]]
    /\ UNCHANGED <<budgetVars, spendVars, pc>>

LoadCategory(q) ==
    /\ loads[q] \in 1 .. 7
    /\ loads' = [loads EXCEPT ![q] = @ + 1]
    /\ LET c == LoadOrder[loads[q]]
       IN  report' = [report EXCEPT ![q].stat[c] = stat[c]]
    /\ UNCHANGED <<budgetVars, spendVars, pc>>

\* Mutant: the total is loaded last.
CopyByFunctionAndTotal(q) ==
    /\ loads[q] = 8
    /\ loads' = [loads EXCEPT ![q] = 9]
    /\ report' = [report EXCEPT ![q].byFunction = byFunction, ![q].total = counter]
    /\ UNCHANGED <<budgetVars, spendVars, pc>>

CopyByFunction(q) ==
    /\ loads[q] = 8
    /\ loads' = [loads EXCEPT ![q] = 9]
    /\ report' = [report EXCEPT ![q].byFunction = byFunction]
    /\ UNCHANGED <<budgetVars, spendVars, pc>>

\* The snapshot is complete.
Reported(q) == loads[q] = 9

\* The caller has used the snapshot, and may ask for another one.
Discard(q) ==
    /\ Reported(q)
    /\ loads' = [loads EXCEPT ![q] = 0]
    /\ report' = [report EXCEPT ![q] = NoReport]
    /\ UNCHANGED <<budgetVars, spendVars, pc>>

-----------------------------------------------------------------------------
SpendStep(p) == AddStat(p) \/ AddName(p) \/ SpendNothing(p) \/ SpendUnits(p)

Stats(q) == LoadTotal(q) \/ LoadCategory(q) \/ CopyByFunction(q)

Next ==
    \/ \E p \in Spenders : Spend(p) \/ SpendStep(p)
    \/ \E q \in Observers : Stats(q) \/ Discard(q)

Spec == Init /\ [][Next]_vars

-----------------------------------------------------------------------------
Total(s) == s["loop"] + s["function"] + s["filter"] + s["subRender"]
            + s["condition"] + s["assign"] + s["traversal"]

Int64 == -(MaxInt + 1) .. MaxInt

\* Every counter is an int64, every goroutine is inside Spend* or Stats.
TypeOk ==
    /\ counter \in Int64
    /\ stat \in [Categories -> Int64]
    /\ byFunction \in [Names -> Int64]
    /\ pc \in [Spenders -> {"idle", "stat", "name", "counter"}]
    /\ loads \in [Observers -> 0 .. 9]
    /\ op \in [Spenders -> Ops]
    /\ \A p \in Spenders : pc[p] = "name" => op[p].name \in Names
    /\ outcome \in [Spenders -> {"ok", "exceeded"}]
    /\ report \in [Observers -> [total : Int64, stat : [Categories -> Int64],
                                 byFunction : [Names -> Int64]]]
    /\ spends \in Nat
    /\ granted \in Int
    /\ wrapped \in BOOLEAN

\* The work that was let through never exceeds the limit, however the adds of
\* concurrent spenders interleave: each one decides on the value its own
\* atomic add returned.
GrantedWithinLimit == granted <= Limit

\* The same for as long as the counter has not overflowed.
GrantedWithinLimitUnlessWrapped == ~wrapped => GrantedWithinLimit

\* Once the limit is passed the budget stays exhausted: nothing that costs
\* anything is let through any more.
ExhaustionIsFinal ==
    [][ counter > Limit /\ ~wrapped' => granted' = granted ]_vars

\* The units that some spenders are being charged, one by one, and how many
\* there are that have been added to a category, but not to the counter yet.
Charged(S, calls) == UNION {{p} \X (1 .. calls[p].units) : p \in S}
Charging == {p \in Spenders : pc[p] \in {"name", "counter"}}
InFlight == Cardinality(Charged(Charging, op))

\* The counter has overflowed, or will when the calls in progress have reached
\* it; until then a category may be ahead of it, and overflow alone.
Overflowing == wrapped \/ counter + InFlight > MaxInt

\* A snapshot taken while others spend accounts for its total: a Spend* call
\* adds to its category before it adds to the counter, and Stats loads the
\* counter before the categories.
SnapshotAccountsForTotal ==
    ~Overflowing => \A q \in Observers :
        Reported(q) => report[q].total <= Total(report[q].stat)

\* When no Spend* call is in progress the categories add up to the counter,
\* and the named calls account for no more than the function category.
QuiescentStatsAgree ==
    (~wrapped /\ \A p \in Spenders : pc[p] = "idle") =>
        /\ Total(stat) = counter
        /\ \A n \in Names : byFunction[n] <= stat["function"]

=============================================================================
