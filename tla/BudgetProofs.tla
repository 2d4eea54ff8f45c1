---------------------------- MODULE BudgetProofs ----------------------------
(***************************************************************************)
(* Proofs about Budget, for any number of spenders and observers, any      *)
(* costs, any limit and any width of the counter.                          *)
(*                                                                         *)
(* The argument: as long as the counter has not wrapped it is at least the *)
(* work that was let through, because every spend adds to the counter and  *)
(* only some of them to granted.  A spend is let through only when the     *)
(* counter, its own units included, is within the limit.                   *)
(*                                                                         *)
(* For the statistics: the categories are ahead of the counter by what is  *)
(* in flight (Ledger), and the categories an observer has not loaded yet   *)
(* can only grow, so that those it has loaded together with the present    *)
(* values of the others always account for the total it loaded first       *)
(* (Snapshots).                                                            *)
(***************************************************************************)
EXTENDS Budget, FiniteSetTheorems, TLAPS

\* The counter bounds what was granted.
CounterInv == ~wrapped => granted <= counter

GrantInv == ~wrapped => granted <= Limit

IInv == TypeOk /\ CounterInv /\ GrantInv

-----------------------------------------------------------------------------
\* int64 addition stays in int64.
LEMMA WrapInt64 == ASSUME NEW n \in Int PROVE Wrap(n) \in Int64
<1> DEFINE m == 2 * (MaxInt + 1)
<1>1. m \in Nat /\ m > 0
  BY LimitAssumption
<1>2. (n + MaxInt + 1) % m \in 0 .. (m - 1)
  BY <1>1, LimitAssumption
<1> QED
  BY <1>2, LimitAssumption DEF Wrap, Int64

\* Every Spend* call charges a category with a non-negative int64.
LEMMA CallsAreOps == Calls \subseteq Ops
BY CostsAssumption, LimitAssumption
DEF Calls, Ops, Plain, FunctionCall, ObjectTraversal, Categories, Units

LEMMA InitIInv == Init => IInv
<1> SUFFICES ASSUME Init PROVE IInv
  OBVIOUS
<1>1. Plain("loop") \in Ops
  BY CallsAreOps DEF Calls, Categories
<1>2. TypeOk
  <2>1. 0 \in Int64
    BY LimitAssumption DEF Int64
  <2>2. NoReport \in [total : Int64, stat : [Categories -> Int64],
                      byFunction : [Names -> Int64]]
    BY <2>1 DEF NoReport
  <2>3. op \in [Spenders -> Ops]
    BY <1>1 DEF Init
  <2>4. report \in [Observers -> [total : Int64, stat : [Categories -> Int64],
                                  byFunction : [Names -> Int64]]]
    BY <2>2 DEF Init
  <2>5. wrapped \in BOOLEAN
    BY Zenon DEF Init
  <2>6. /\ counter \in Int64 /\ granted \in Int /\ spends \in Nat
        /\ loads \in [Observers -> 0 .. 9]
    BY <2>1 DEF Init
  <2>7. /\ pc \in [Spenders -> {"idle", "stat", "name", "counter"}]
        /\ \A p \in Spenders : pc[p] = "name" => op[p].name \in Names
        /\ outcome \in [Spenders -> {"ok", "exceeded"}]
    BY DEF Init
  <2>8. stat \in [Categories -> Int64] /\ byFunction \in [Names -> Int64]
    BY <2>1 DEF Init
  <2> QED
    BY <2>3, <2>4, <2>5, <2>6, <2>7, <2>8 DEF TypeOk
<1> QED
  BY <1>2, LimitAssumption DEF Init, IInv, CounterInv, GrantInv

\* A step of a spender keeps the types.
LEMMA SpenderTypeOk ==
    ASSUME TypeOk, NEW p \in Spenders, Spend(p) \/ SpendStep(p) PROVE TypeOk'
<1> USE DEF TypeOk, Transition, budgetVars, spendVars
<1>1. CASE Spend(p)
  BY <1>1, CallsAreOps DEF Spend
<1>2. CASE AddStat(p)
  <2>1. op[p].category \in Categories /\ op[p].units \in Int /\ op[p].name \in Names \cup {NoName}
    BY LimitAssumption DEF Ops, Units
  <2>2. Wrap(stat[op[p].category] + op[p].units) \in Int64
    BY <2>1, WrapInt64, LimitAssumption DEF Int64
  <2>3. stat' \in [Categories -> Int64]
    BY <1>2, <2>1, <2>2 DEF AddStat
  <2> QED
    BY <1>2, <2>1, <2>3 DEF AddStat
<1>3. CASE AddName(p)
  <2>1. op[p].units \in Int /\ op[p].name \in Names
    BY <1>3, LimitAssumption DEF AddName, Ops, Units
  <2>2. Wrap(byFunction[op[p].name] + op[p].units) \in Int64
    BY <2>1, WrapInt64, LimitAssumption DEF Int64
  <2>3. byFunction' \in [Names -> Int64]
    BY <1>3, <2>1, <2>2 DEF AddName
  <2> QED
    BY <1>3, <2>3 DEF AddName
<1>4. CASE SpendNothing(p)
  BY <1>4 DEF SpendNothing
<1>5. CASE SpendUnits(p)
  <2>1. op[p].units \in Int /\ counter \in Int
    BY LimitAssumption DEF Ops, Units, Int64
  <2>2. Wrap(counter + op[p].units) \in Int64
    BY <2>1, WrapInt64
  <2> QED
    BY <1>5, <2>1, <2>2 DEF SpendUnits
<1> QED
  BY <1>1, <1>2, <1>3, <1>4, <1>5 DEF SpendStep

\* A step of an observer keeps the types.
LEMMA ObserverTypeOk ==
    ASSUME TypeOk, NEW q \in Observers, Stats(q) \/ Discard(q) PROVE TypeOk'
<1> USE DEF TypeOk, budgetVars, spendVars
<1> DEFINE Reports == [total : Int64, stat : [Categories -> Int64],
                       byFunction : [Names -> Int64]]
<1>0. 0 \in Int64
  BY LimitAssumption DEF Int64
<1>1. CASE LoadTotal(q)
  <2>1. [NoReport EXCEPT !.total = counter] \in Reports
    BY <1>0 DEF NoReport
  <2>2. report' \in [Observers -> Reports]
    BY <1>1, <2>1 DEF LoadTotal
  <2>3. loads' \in [Observers -> 0 .. 9]
    BY <1>1 DEF LoadTotal
  <2> QED
    BY <1>1, <2>2, <2>3 DEF LoadTotal
<1>2. CASE LoadCategory(q)
  <2>1. LoadOrder[loads[q]] \in Categories
    BY <1>2 DEF LoadCategory, LoadOrder, Categories
  <2>2. report' \in [Observers -> Reports]
    BY <1>2, <2>1 DEF LoadCategory
  <2>3. loads' \in [Observers -> 0 .. 9]
    BY <1>2 DEF LoadCategory
  <2> QED
    BY <1>2, <2>2, <2>3 DEF LoadCategory
<1>3. CASE CopyByFunction(q)
  <2>1. report' \in [Observers -> Reports]
    BY <1>3 DEF CopyByFunction
  <2>2. loads' \in [Observers -> 0 .. 9]
    BY <1>3 DEF CopyByFunction
  <2> QED
    BY <1>3, <2>1, <2>2 DEF CopyByFunction
<1>4. CASE Discard(q)
  <2>1. NoReport \in Reports
    BY <1>0 DEF NoReport
  <2>2. report' \in [Observers -> Reports]
    BY <1>4, <2>1 DEF Discard
  <2>3. loads' \in [Observers -> 0 .. 9]
    BY <1>4 DEF Discard
  <2> QED
    BY <1>4, <2>2, <2>3 DEF Discard
<1> QED
  BY <1>1, <1>2, <1>3, <1>4 DEF Stats

\* Only SpendUnits moves the counter and what was granted.
LEMMA SpendUnitsStep ==
    ASSUME IInv, NEW p \in Spenders, SpendUnits(p)
    PROVE  CounterInv' /\ GrantInv' /\ (counter > Limit /\ ~wrapped' => granted' = granted)
<1>1. op[p].units \in Nat /\ counter \in Int /\ granted \in Int /\ wrapped \in BOOLEAN
  BY LimitAssumption DEF IInv, TypeOk, Ops, Units, Int64
<1>2. CASE wrapped'
  BY <1>2 DEF CounterInv, GrantInv
<1>3. CASE ~wrapped'
  <2>1. Wrap(counter + op[p].units) = counter + op[p].units /\ ~wrapped
    BY <1>1, <1>3 DEF SpendUnits
  <2>2. counter' = counter + op[p].units
    BY <2>1 DEF SpendUnits
  <2>3. granted' = IF counter' <= Limit THEN granted + op[p].units ELSE granted
    BY <2>1, <2>2 DEF SpendUnits
  <2> QED
    BY <1>1, <1>3, <2>1, <2>2, <2>3, LimitAssumption DEF IInv, CounterInv, GrantInv
<1> QED
  BY <1>1, <1>2, <1>3 DEF SpendUnits

LEMMA IInvStep == IInv /\ [Next]_vars => IInv'
<1> SUFFICES ASSUME IInv, [Next]_vars PROVE IInv'
  OBVIOUS
<1>1. ASSUME NEW p \in Spenders, Spend(p) \/ SpendStep(p) PROVE IInv'
  <2>1. TypeOk'
    BY <1>1, SpenderTypeOk DEF IInv
  <2>2. CASE SpendUnits(p)
    BY <2>1, <2>2, SpendUnitsStep DEF IInv
  <2>3. CASE Spend(p) \/ AddStat(p) \/ AddName(p) \/ SpendNothing(p)
    BY <2>1, <2>3 DEF IInv, CounterInv, GrantInv, Spend, AddStat, AddName,
       SpendNothing, budgetVars, spendVars
  <2> QED
    BY <1>1, <2>2, <2>3 DEF SpendStep
<1>2. ASSUME NEW q \in Observers, Stats(q) \/ Discard(q) PROVE IInv'
  <2>1. TypeOk'
    BY <1>2, ObserverTypeOk DEF IInv
  <2> QED
    BY <1>2, <2>1 DEF IInv, CounterInv, GrantInv, Stats, LoadTotal, LoadCategory,
       CopyByFunction, Discard, budgetVars, spendVars
<1>3. CASE UNCHANGED vars
  BY <1>3 DEF vars, budgetVars, spendVars, IInv, TypeOk, CounterInv, GrantInv
<1> QED
  BY <1>1, <1>2, <1>3 DEF Next

\* The invariant holds in every reachable state.
THEOREM Invariance == Spec => []IInv
  BY InitIInv, IInvStep, PTL DEF Spec

\* Type correctness of the budget's counters.
THEOREM TypeCorrect == Spec => []TypeOk
<1>1. IInv => TypeOk
  BY DEF IInv
<1> QED
  BY <1>1, Invariance, PTL

\* What concurrent goroutines are let through never exceeds the limit, until
\* the 64-bit counter overflows.
THEOREM LimitRespected == Spec => []GrantedWithinLimitUnlessWrapped
<1>1. IInv => GrantedWithinLimitUnlessWrapped
  BY DEF IInv, GrantInv, GrantedWithinLimitUnlessWrapped, GrantedWithinLimit
<1> QED
  BY <1>1, Invariance, PTL

\* An exhausted budget lets nothing through again.
THEOREM ExhaustedForGood == Spec => ExhaustionIsFinal
<1> DEFINE Final == counter > Limit /\ ~wrapped' => granted' = granted
<1>1. ASSUME IInv, [Next]_vars PROVE Final
  <2>1. ASSUME NEW p \in Spenders, Spend(p) \/ SpendStep(p) PROVE Final
    BY <1>1, <2>1, SpendUnitsStep
    DEF SpendStep, Spend, AddStat, AddName, SpendNothing, budgetVars, spendVars
  <2>2. ASSUME NEW q \in Observers, Stats(q) \/ Discard(q) PROVE Final
    BY <2>2 DEF Stats, LoadTotal, LoadCategory, CopyByFunction, Discard, spendVars
  <2> QED
    BY <1>1, <2>1, <2>2 DEF Next, vars, spendVars
<1>2. IInv /\ [Next]_vars => [Final]_vars
  BY <1>1
<1> QED
  BY <1>2, Invariance, PTL DEF Spec, ExhaustionIsFinal

-----------------------------------------------------------------------------
\* The statistics.

\* Spenders that have still to add their units to a name's.
Naming(n) == {p \in Spenders : pc[p] = "name" /\ op[p].name = n}
InFlightFor(n) == Cardinality(Charged(Naming(n), op))

\* Only the function category has named calls.
NamedAreFunctions ==
    \A p \in Spenders : op[p].name \in Names => op[p].category = "function"

\* The categories account for the counter and what is in flight.
Ledger ==
    /\ IsFiniteSet(Charged(Charging, op))
    /\ ~Overflowing =>
         /\ counter >= 0
         /\ \A c \in Categories : stat[c] >= 0
         /\ Total(stat) = counter + InFlight

\* What is charged by name has been charged to the function category before.
NameLedger ==
    \A n \in Names :
        /\ IsFiniteSet(Charged(Naming(n), op))
        /\ ~Overflowing =>
             byFunction[n] >= 0 /\ byFunction[n] + InFlightFor(n) <= stat["function"]

\* What an observer would report if it loaded the rest of the categories now.
IsLoaded(q, c) == \E i \in 1 .. 7 : i < loads[q] /\ LoadOrder[i] = c
View(q) == [c \in Categories |-> IF IsLoaded(q, c) THEN report[q].stat[c] ELSE stat[c]]
Snapshots ==
    ~Overflowing => \A q \in Observers : loads[q] >= 1 => report[q].total <= Total(View(q))

SInv == TypeOk /\ NamedAreFunctions /\ Ledger /\ NameLedger /\ Snapshots

\* One spender's units, one by one.
LEMMA OneCharge ==
    ASSUME NEW p, NEW u \in Nat
    PROVE  IsFiniteSet({p} \X (1 .. u)) /\ Cardinality({p} \X (1 .. u)) = u
<1>1. IsFiniteSet(1 .. u) /\ Cardinality(1 .. u) = u
  BY FS_Interval
<1>2. IsFiniteSet({p}) /\ Cardinality({p}) = 1
  BY FS_Singleton
<1> QED
  BY <1>1, <1>2, FS_Product

\* A spender that enters the set of those being charged adds its units.
LEMMA ChargeEnters ==
    ASSUME NEW S, NEW calls, NEW p, p \notin S, calls[p].units \in Nat,
           IsFiniteSet(Charged(S, calls))
    PROVE  /\ IsFiniteSet(Charged(S \cup {p}, calls))
           /\ Cardinality(Charged(S \cup {p}, calls))
                = Cardinality(Charged(S, calls)) + calls[p].units
<1> DEFINE own == {p} \X (1 .. calls[p].units)
<1>1. Charged(S \cup {p}, calls) = Charged(S, calls) \cup own
  BY DEF Charged
<1>2. Charged(S, calls) \cap own = {}
  BY DEF Charged
<1>3. IsFiniteSet(own) /\ Cardinality(own) = calls[p].units
  BY OneCharge
<1>4. Cardinality(Charged(S, calls)) \in Nat
  BY FS_CardinalityType
<1> HIDE DEF own
<1>5. /\ IsFiniteSet(Charged(S, calls) \cup own)
      /\ Cardinality(Charged(S, calls) \cup own)
           = Cardinality(Charged(S, calls)) + Cardinality(own) - Cardinality({})
  BY <1>2, <1>3, FS_Union
<1>6. Cardinality({}) = 0
  BY FS_EmptySet
<1>7. Cardinality(Charged(S, calls)) + Cardinality(own) - 0
        = Cardinality(Charged(S, calls)) + calls[p].units
  BY <1>3, <1>4
<1> QED
  BY <1>1, <1>5, <1>6, <1>7

\* One that leaves takes its units away.
LEMMA ChargeLeaves ==
    ASSUME NEW S, NEW calls, NEW p \in S, calls[p].units \in Nat,
           IsFiniteSet(Charged(S, calls))
    PROVE  /\ IsFiniteSet(Charged(S \ {p}, calls))
           /\ Cardinality(Charged(S, calls))
                = Cardinality(Charged(S \ {p}, calls)) + calls[p].units
<1>1. Charged(S \ {p}, calls) \subseteq Charged(S, calls)
  BY DEF Charged
<1>2. IsFiniteSet(Charged(S \ {p}, calls))
  BY <1>1, FS_Subset
<1>3. S = (S \ {p}) \cup {p}
  OBVIOUS
<1> QED
  BY <1>2, <1>3, ChargeEnters

\* Those who are charged the same calls are charged the same.
LEMMA SameCharge ==
    ASSUME NEW S, NEW calls, NEW others, \A p \in S : calls[p] = others[p]
    PROVE  Charged(S, calls) = Charged(S, others)
BY DEF Charged

\* A charge to one category is one to their total.
LEMMA TotalGrows ==
    ASSUME NEW s \in [Categories -> Int], NEW c \in Categories, NEW u \in Int
    PROVE  Total([s EXCEPT ![c] = s[c] + u]) = Total(s) + u
BY DEF Total, Categories

\* No category has more than all of them together.
LEMMA CategoryWithinTotal ==
    ASSUME NEW s \in [Categories -> Int], \A c \in Categories : s[c] >= 0,
           NEW c \in Categories
    PROVE  s[c] <= Total(s)
BY DEF Total, Categories

LEMMA TotalMonotone ==
    ASSUME NEW s \in [Categories -> Int], NEW t \in [Categories -> Int],
           \A c \in Categories : s[c] <= t[c]
    PROVE  Total(s) <= Total(t)
BY DEF Total, Categories

\* An integer of 64 bits is not changed by going around.
LEMMA WrapIsIdentity == ASSUME NEW n \in Int64 PROVE Wrap(n) = n
BY LimitAssumption DEF Wrap, Int64

\* The types of what a spender works with.
LEMMA SpenderFacts ==
    ASSUME TypeOk, NEW p \in Spenders
    PROVE  /\ op[p].category \in Categories /\ op[p].units \in Nat
           /\ op[p].name \in Names \cup {NoName}
           /\ counter \in Int /\ stat \in [Categories -> Int] /\ byFunction \in [Names -> Int]
           /\ wrapped \in BOOLEAN /\ Total(stat) \in Int /\ "function" \in Categories
           /\ MaxInt \in Nat
<1>1. stat \in [Categories -> Int] /\ byFunction \in [Names -> Int] /\ counter \in Int
  BY LimitAssumption DEF TypeOk, Int64
<1>2. Total(stat) \in Int
  BY <1>1 DEF Total, Categories
<1>3. op[p] \in Ops /\ Units \subseteq Nat
  BY LimitAssumption DEF TypeOk, Units
<1> QED
  BY <1>1, <1>2, <1>3, LimitAssumption DEF TypeOk, Ops, Categories

\* A step that moves no number, and after which the same units are in flight.
LEMMA NothingFlows ==
    ASSUME SInv, UNCHANGED <<budgetVars, wrapped, loads, report>>,
           Charged(Charging, op)' = Charged(Charging, op),
           \A n \in Names : Charged(Naming(n), op)' = Charged(Naming(n), op)
    PROVE  Ledger' /\ NameLedger' /\ Snapshots'
<1>1. InFlight' = InFlight /\ \A n \in Names : InFlightFor(n)' = InFlightFor(n)
  BY DEF InFlight, InFlightFor
<1>2. (Overflowing' <=> Overflowing) /\ \A q \in Observers : View(q)' = View(q)
  BY <1>1 DEF Overflowing, budgetVars, View, IsLoaded
<1> QED
  BY <1>1, <1>2 DEF SInv, Ledger, NameLedger, Snapshots, budgetVars

LEMMA SpendKeepsBooks ==
    ASSUME SInv, NEW p \in Spenders, Spend(p)
    PROVE  NamedAreFunctions' /\ Ledger' /\ NameLedger' /\ Snapshots'
<1> USE DEF Spend, Transition
<1>1. PICK call \in Calls : op' = [op EXCEPT ![p] = call]
  OBVIOUS
<1>2. NamedAreFunctions'
  <2>1. call.name \in Names => call.category = "function"
    BY NoNameAssumption DEF Calls, Plain, FunctionCall, ObjectTraversal
  <2> QED
    BY <1>1, <2>1 DEF SInv, TypeOk, NamedAreFunctions
<1>3. pc[p] = "idle" /\ pc' = [pc EXCEPT ![p] = "stat"]
  OBVIOUS
<1>4. Charged(Charging, op)' = Charged(Charging, op)
  <2>1. Charging' = Charging /\ \A q \in Charging : op[q] = op'[q]
    BY <1>1, <1>3 DEF SInv, TypeOk, Charging
  <2> QED
    BY <2>1, SameCharge
<1>5. ASSUME NEW n \in Names PROVE Charged(Naming(n), op)' = Charged(Naming(n), op)
  <2>1. Naming(n)' = Naming(n) /\ \A q \in Naming(n) : op[q] = op'[q]
    BY <1>1, <1>3 DEF SInv, TypeOk, Naming
  <2> QED
    BY <2>1, SameCharge
<1> QED
  BY <1>2, <1>4, <1>5, NothingFlows

LEMMA SpendNothingKeepsBooks ==
    ASSUME SInv, NEW p \in Spenders, SpendNothing(p)
    PROVE  NamedAreFunctions' /\ Ledger' /\ NameLedger' /\ Snapshots'
<1> USE DEF SpendNothing, Transition
<1>1. NamedAreFunctions'
  BY DEF SInv, NamedAreFunctions
<1>2. pc[p] = "counter" /\ pc' = [pc EXCEPT ![p] = "idle"] /\ op' = op /\ op[p].units = 0
  OBVIOUS
<1>3. Charged(Charging, op)' = Charged(Charging, op)
  <2>1. Charging' = Charging \ {p}
    BY <1>2 DEF SInv, TypeOk, Charging
  <2>2. {p} \X (1 .. op[p].units) = {}
    BY <1>2
  <2> QED
    BY <1>2, <2>1, <2>2 DEF Charged
<1>4. ASSUME NEW n \in Names PROVE Charged(Naming(n), op)' = Charged(Naming(n), op)
  <2>1. Naming(n)' = Naming(n)
    BY <1>2 DEF SInv, TypeOk, Naming
  <2> QED
    BY <1>2, <2>1
<1> QED
  BY <1>1, <1>3, <1>4, NothingFlows

LEMMA AddStatKeepsBooks ==
    ASSUME SInv, NEW p \in Spenders, AddStat(p)
    PROVE  NamedAreFunctions' /\ Ledger' /\ NameLedger' /\ Snapshots'
<1> USE SpenderFacts DEF AddStat, Transition
<1> DEFINE u == op[p].units
           c == op[p].category
<1>0. TypeOk
  BY DEF SInv
<1>1. NamedAreFunctions'
  BY DEF SInv, NamedAreFunctions, spendVars
<1>2. /\ pc[p] = "stat" /\ pc' = [pc EXCEPT ![p] = IF op[p].name = NoName THEN "counter" ELSE "name"]
      /\ stat' = [stat EXCEPT ![c] = Wrap(stat[c] + u)]
      /\ UNCHANGED <<op, counter, byFunction, wrapped, loads, report>>
  BY DEF spendVars
<1>3. /\ IsFiniteSet(Charged(Charging, op)')
      /\ InFlight' = InFlight + u /\ InFlight \in Nat
  <2>1. Charging' = Charging \cup {p} /\ p \notin Charging
    BY <1>0, <1>2 DEF TypeOk, Charging
  <2>2. IsFiniteSet(Charged(Charging, op))
    BY DEF SInv, Ledger
  <2>3. op[p].units \in Nat
    BY <1>0
  <2>4. /\ IsFiniteSet(Charged(Charging \cup {p}, op))
        /\ Cardinality(Charged(Charging \cup {p}, op)) = InFlight + u
    BY <2>1, <2>2, <2>3, ChargeEnters DEF InFlight
  <2>5. Charged(Charging, op)' = Charged(Charging \cup {p}, op)
    BY <1>2, <2>1
  <2> QED
    BY <2>2, <2>4, <2>5, FS_CardinalityType DEF InFlight
<1>4. ASSUME ~Overflowing'
      PROVE  /\ ~Overflowing /\ stat' = [stat EXCEPT ![c] = stat[c] + u] /\ stat[c] + u >= 0
             /\ Total(stat') = Total(stat) + u
  <2>1. ~Overflowing
    BY <1>0, <1>2, <1>3, <1>4 DEF Overflowing
  <2>2. stat[c] <= Total(stat) /\ stat[c] >= 0 /\ Total(stat) = counter + InFlight
    BY <1>0, <2>1, CategoryWithinTotal DEF SInv, Ledger
  <2>3. counter + InFlight + u <= MaxInt
    BY <1>0, <1>2, <1>3, <1>4 DEF Overflowing
  <2>4. stat[c] + u \in Int64
    BY <1>0, <1>3, <2>2, <2>3 DEF Int64
  <2>5. Wrap(stat[c] + u) = stat[c] + u
    BY <2>4, WrapIsIdentity
  <2>6. stat' = [stat EXCEPT ![c] = stat[c] + u]
    BY <1>2, <2>5
  <2>7. stat \in [Categories -> Int] /\ c \in Categories /\ u \in Int
    BY <1>0
  <2>8. Total([stat EXCEPT ![c] = stat[c] + u]) = Total(stat) + u
    BY <2>7, TotalGrows
  <2>9. stat[c] + u >= 0
    BY <2>2, <2>4, SpenderFacts, <1>0 DEF Int64
  <2> QED
    BY <2>1, <2>6, <2>8, <2>9
<1>5. Ledger'
  BY <1>0, <1>2, <1>3, <1>4 DEF SInv, Ledger
<1>6. NameLedger'
  <2> SUFFICES ASSUME NEW n \in Names
               PROVE  /\ IsFiniteSet(Charged(Naming(n), op))'
                      /\ ~Overflowing' =>
                           byFunction'[n] >= 0 /\ byFunction'[n] + InFlightFor(n)' <= stat'["function"]
    BY DEF NameLedger
  <2>1. /\ IsFiniteSet(Charged(Naming(n), op)) /\ InFlightFor(n) \in Nat
        /\ ~Overflowing => byFunction[n] >= 0 /\ byFunction[n] + InFlightFor(n) <= stat["function"]
    BY FS_CardinalityType DEF SInv, NameLedger, InFlightFor
  <2>2. CASE op[p].name = n
    <3>1. Naming(n)' = Naming(n) \cup {p} /\ p \notin Naming(n)
      BY <1>0, <1>2, <2>2, NoNameAssumption DEF TypeOk, Naming
    <3>2. IsFiniteSet(Charged(Naming(n), op))' /\ InFlightFor(n)' = InFlightFor(n) + u
      BY <1>0, <1>2, <2>1, <3>1, ChargeEnters DEF InFlightFor
    <3>3. c = "function"
      BY <2>2 DEF SInv, NamedAreFunctions
    <3> QED
      BY <1>0, <1>2, <1>4, <2>1, <3>2, <3>3
  <2>3. CASE op[p].name # n
    <3>1. Naming(n)' = Naming(n)
      BY <1>0, <1>2, <2>3 DEF TypeOk, Naming
    <3>2. Charged(Naming(n), op)' = Charged(Naming(n), op)
      BY <1>2, <3>1
    <3>3. ~Overflowing' => stat'["function"] >= stat["function"]
      BY <1>0, <1>4
    <3> QED
      BY <1>0, <1>2, <1>4, <2>1, <3>2, <3>3 DEF InFlightFor
  <2> QED
    BY <2>2, <2>3
<1>7. Snapshots'
  <2> SUFFICES ASSUME ~Overflowing', NEW q \in Observers, loads'[q] >= 1
               PROVE  report'[q].total <= Total(View(q)')
    BY DEF Snapshots
  <2>1. report[q].total <= Total(View(q)) /\ report[q].total \in Int
    BY <1>0, <1>2, <1>4 DEF SInv, Snapshots, TypeOk, Int64
  <2>2. View(q) \in [Categories -> Int] /\ View(q)' \in [Categories -> Int]
    <3>1. \A d \in Categories : stat'[d] \in Int /\ stat[d] \in Int /\ report[q].stat[d] \in Int
      BY <1>0, <1>4 DEF TypeOk, Int64
    <3> QED
      BY <1>2, <3>1 DEF View, IsLoaded
  <2>3. \A d \in Categories : View(q)[d] <= View(q)'[d]
    <3>1. \A d \in Categories : stat[d] <= stat'[d] /\ stat[d] \in Int
      BY <1>0, <1>4
    <3> QED
      BY <1>0, <1>2, <2>2, <3>1 DEF View, IsLoaded
  <2>4. Total(View(q)) <= Total(View(q)')
    BY <2>2, <2>3, TotalMonotone
  <2>5. Total(View(q)) \in Int /\ Total(View(q)') \in Int
    BY <2>2 DEF Total, Categories
  <2> QED
    BY <1>2, <2>1, <2>4, <2>5
<1> QED
  BY <1>1, <1>5, <1>6, <1>7

LEMMA AddNameKeepsBooks ==
    ASSUME SInv, NEW p \in Spenders, AddName(p)
    PROVE  NamedAreFunctions' /\ Ledger' /\ NameLedger' /\ Snapshots'
<1> USE SpenderFacts DEF AddName, Transition
<1> DEFINE u == op[p].units
           m == op[p].name
<1>0. TypeOk
  BY DEF SInv
<1>1. NamedAreFunctions'
  BY DEF SInv, NamedAreFunctions, spendVars
<1>2. /\ pc[p] = "name" /\ pc' = [pc EXCEPT ![p] = "counter"] /\ m \in Names
      /\ byFunction' = [byFunction EXCEPT ![m] = Wrap(byFunction[m] + u)]
      /\ UNCHANGED <<op, counter, stat, wrapped, loads, report>>
  BY <1>0 DEF spendVars, TypeOk
<1>3. Charging' = Charging /\ Charged(Charging, op)' = Charged(Charging, op) /\ InFlight' = InFlight
  <2>1. Charging' = Charging
    BY <1>0, <1>2 DEF TypeOk, Charging
  <2> QED
    BY <1>2, <2>1 DEF InFlight
<1>4. Overflowing' <=> Overflowing
  BY <1>2, <1>3 DEF Overflowing
<1>5. Ledger' /\ Snapshots'
  BY <1>2, <1>3, <1>4 DEF SInv, Ledger, Snapshots, View, IsLoaded
<1>6. NameLedger'
  <2> SUFFICES ASSUME NEW n \in Names
               PROVE  /\ IsFiniteSet(Charged(Naming(n), op))'
                      /\ ~Overflowing' =>
                           byFunction'[n] >= 0 /\ byFunction'[n] + InFlightFor(n)' <= stat'["function"]
    BY DEF NameLedger
  <2>1. /\ IsFiniteSet(Charged(Naming(n), op)) /\ InFlightFor(n) \in Nat
        /\ ~Overflowing => byFunction[n] >= 0 /\ byFunction[n] + InFlightFor(n) <= stat["function"]
    BY FS_CardinalityType DEF SInv, NameLedger, InFlightFor
  <2>2. CASE m = n
    <3>1. Naming(n)' = Naming(n) \ {p} /\ p \in Naming(n)
      BY <1>0, <1>2, <2>2 DEF TypeOk, Naming
    <3>2. /\ IsFiniteSet(Charged(Naming(n) \ {p}, op))
          /\ InFlightFor(n) = Cardinality(Charged(Naming(n) \ {p}, op)) + u
      BY <1>0, <2>1, <3>1, ChargeLeaves DEF InFlightFor
    <3>3. Charged(Naming(n), op)' = Charged(Naming(n) \ {p}, op)
      BY <1>2, <3>1
    <3>4. InFlightFor(n) = InFlightFor(n)' + u /\ InFlightFor(n)' \in Nat
      BY <3>2, <3>3, FS_CardinalityType DEF InFlightFor
    <3>5. ASSUME ~Overflowing PROVE Wrap(byFunction[n] + u) = byFunction[n] + u
      <4>1. byFunction[n] + u <= stat["function"] /\ byFunction[n] \in Int /\ byFunction[n] >= 0
        BY <1>0, <2>1, <3>4, <3>5
      <4>2. stat["function"] <= MaxInt
        BY <1>0 DEF TypeOk, Int64
      <4>3. byFunction[n] + u \in Int64
        BY <1>0, <4>1, <4>2 DEF Int64
      <4> QED
        BY <4>3, WrapIsIdentity
    <3>6. ~Overflowing => byFunction'[n] = byFunction[n] + u
      BY <1>0, <1>2, <2>2, <3>5
    <3> QED
      BY <1>0, <1>2, <1>4, <2>1, <3>2, <3>3, <3>4, <3>6
  <2>3. CASE m # n
    <3>1. Naming(n)' = Naming(n)
      BY <1>0, <1>2, <2>3 DEF TypeOk, Naming
    <3>2. Charged(Naming(n), op)' = Charged(Naming(n), op) /\ InFlightFor(n)' = InFlightFor(n)
      BY <1>2, <3>1 DEF InFlightFor
    <3> QED
      BY <1>0, <1>2, <1>4, <2>1, <2>3, <3>2
  <2> QED
    BY <2>2, <2>3
<1> QED
  BY <1>1, <1>5, <1>6

LEMMA SpendUnitsKeepsBooks ==
    ASSUME SInv, NEW p \in Spenders, SpendUnits(p)
    PROVE  NamedAreFunctions' /\ Ledger' /\ NameLedger' /\ Snapshots'
<1> USE SpenderFacts DEF SpendUnits, Transition
<1> DEFINE u == op[p].units
<1>0. TypeOk
  BY DEF SInv
<1>1. NamedAreFunctions'
  BY DEF SInv, NamedAreFunctions
<1>2. /\ pc[p] = "counter" /\ pc' = [pc EXCEPT ![p] = "idle"]
      /\ counter' = Wrap(counter + u)
      /\ wrapped' <=> (wrapped \/ Wrap(counter + u) # counter + u)
      /\ UNCHANGED <<op, stat, byFunction, loads, report>>
  OBVIOUS
<1>3. /\ IsFiniteSet(Charged(Charging, op)')
      /\ InFlight = InFlight' + u /\ InFlight' \in Nat
  <2>1. Charging' = Charging \ {p} /\ p \in Charging
    BY <1>0, <1>2 DEF TypeOk, Charging
  <2>2. IsFiniteSet(Charged(Charging, op)) /\ op[p].units \in Nat
    BY <1>0 DEF SInv, Ledger
  <2>3. /\ IsFiniteSet(Charged(Charging \ {p}, op))
        /\ InFlight = Cardinality(Charged(Charging \ {p}, op)) + u
    BY <2>1, <2>2, ChargeLeaves DEF InFlight
  <2>4. Charged(Charging, op)' = Charged(Charging \ {p}, op)
    BY <1>2, <2>1
  <2> QED
    BY <2>3, <2>4, FS_CardinalityType DEF InFlight
<1>4. ASSUME ~Overflowing' PROVE ~Overflowing /\ counter' = counter + u
  <2>1. ~wrapped /\ counter' = counter + u
    BY <1>2, <1>4 DEF Overflowing
  <2> QED
    BY <1>0, <1>3, <1>4, <2>1 DEF Overflowing
<1>5. Ledger'
  BY <1>0, <1>2, <1>3, <1>4 DEF SInv, Ledger
<1>6. NameLedger'
  <2>1. ASSUME NEW n \in Names
        PROVE  Charged(Naming(n), op)' = Charged(Naming(n), op) /\ InFlightFor(n)' = InFlightFor(n)
    <3>1. Naming(n)' = Naming(n)
      BY <1>0, <1>2 DEF TypeOk, Naming
    <3> QED
      BY <1>2, <3>1 DEF InFlightFor
  <2> QED
    BY <1>2, <1>4, <2>1 DEF SInv, NameLedger
<1>7. Snapshots'
  BY <1>2, <1>4 DEF SInv, Snapshots, View, IsLoaded
<1> QED
  BY <1>1, <1>5, <1>6, <1>7

\* The steps of an observer: loading a category leaves its view as it was.
LEMMA ObserverKeepsBooks ==
    ASSUME SInv, NEW q \in Observers, Stats(q) \/ Discard(q)
    PROVE  NamedAreFunctions' /\ Ledger' /\ NameLedger' /\ Snapshots'
<1>0. TypeOk /\ UNCHANGED <<budgetVars, spendVars, pc>>
  BY DEF SInv, Stats, LoadTotal, LoadCategory, CopyByFunction, Discard
<1>1. NamedAreFunctions'
  BY <1>0 DEF SInv, NamedAreFunctions, spendVars
<1>2. /\ Charging' = Charging /\ Charged(Charging, op)' = Charged(Charging, op)
      /\ InFlight' = InFlight /\ (Overflowing' <=> Overflowing)
  BY <1>0 DEF Charging, InFlight, Overflowing, spendVars, budgetVars
<1>3. Ledger'
  BY <1>0, <1>2 DEF SInv, Ledger, budgetVars
<1>4. NameLedger'
  <2>1. ASSUME NEW n \in Names
        PROVE  Charged(Naming(n), op)' = Charged(Naming(n), op) /\ InFlightFor(n)' = InFlightFor(n)
    BY <1>0 DEF Naming, InFlightFor, spendVars
  <2> QED
    BY <1>0, <1>2, <2>1 DEF SInv, NameLedger, budgetVars
<1>5. ASSUME NEW o \in Observers, o # q PROVE UNCHANGED <<loads[o], report[o], View(o)>>
  BY <1>0, <1>5 DEF Stats, LoadTotal, LoadCategory, CopyByFunction, Discard, View, IsLoaded, TypeOk,
     budgetVars
<1>6. ASSUME ~Overflowing, loads'[q] >= 1 PROVE report'[q].total <= Total(View(q)')
  <2>1. CASE LoadTotal(q)
    <3>1. loads'[q] = 1 /\ report'[q].total = counter /\ stat' = stat
      BY <1>0, <2>1 DEF LoadTotal, TypeOk, NoReport, budgetVars
    <3>2. View(q)' = [c \in Categories |-> stat[c]]
      BY <3>1 DEF View, IsLoaded
    <3>3. Total(View(q)') = Total(stat)
      BY <3>2 DEF Total, Categories
    <3>4. counter <= Total(stat)
      BY <1>0, <1>6, FS_CardinalityType DEF SInv, Ledger, InFlight, TypeOk, Int64
    <3> QED
      BY <3>1, <3>3, <3>4
  <2>2. CASE LoadCategory(q)
    <3> DEFINE c == LoadOrder[loads[q]]
    <3>1. /\ loads[q] \in 1 .. 7 /\ loads'[q] = loads[q] + 1 /\ c \in Categories /\ stat' = stat
          /\ report'[q] = [report[q] EXCEPT !.stat = [report[q].stat EXCEPT ![c] = stat[c]]]
      BY <1>0, <2>2 DEF LoadCategory, LoadOrder, Categories, TypeOk, budgetVars
    <3>2. \A d \in Categories : IsLoaded(q, d)' <=> IsLoaded(q, d) \/ d = c
      BY <3>1 DEF IsLoaded
    <3>3. /\ report'[q].total = report[q].total /\ report'[q].stat[c] = stat[c]
          /\ \A d \in Categories \ {c} : report'[q].stat[d] = report[q].stat[d]
      BY <1>0, <3>1 DEF TypeOk
    <3>4. ~IsLoaded(q, c)
      BY <3>1 DEF LoadOrder, IsLoaded
    <3>5. View(q)' = View(q)
      BY <3>1, <3>2, <3>3, <3>4 DEF View, IsLoaded
    <3> QED
      BY <1>6, <3>1, <3>3, <3>5 DEF SInv, Snapshots
  <2>3. CASE CopyByFunction(q)
    <3>1. /\ loads[q] = 8 /\ loads'[q] = 9 /\ stat' = stat
          /\ report'[q].total = report[q].total /\ report'[q].stat = report[q].stat
      BY <1>0, <2>3 DEF CopyByFunction, TypeOk, budgetVars
    <3>2. View(q)' = View(q)
      BY <3>1 DEF View, IsLoaded
    <3> QED
      BY <1>6, <3>1, <3>2 DEF SInv, Snapshots
  <2>4. CASE Discard(q)
    BY <1>0, <1>6, <2>4 DEF Discard, TypeOk
  <2> QED
    BY <2>1, <2>2, <2>3, <2>4 DEF Stats
<1>7. Snapshots'
  BY <1>2, <1>5, <1>6 DEF SInv, Snapshots
<1> QED
  BY <1>1, <1>3, <1>4, <1>7

LEMMA InitSInv == Init => SInv
<1> SUFFICES ASSUME Init PROVE SInv
  OBVIOUS
<1>1. TypeOk
  BY InitIInv DEF IInv
<1>2. /\ Charging = {} /\ Charged(Charging, op) = {}
      /\ \A n \in Names : Naming(n) = {} /\ Charged(Naming(n), op) = {}
  BY DEF Init, Charging, Naming, Charged
<1>3. NamedAreFunctions /\ Snapshots
  BY NoNameAssumption DEF Init, NamedAreFunctions, Snapshots, Plain
<1>4. Ledger
  <2>1. Total(stat) = 0
    BY DEF Init, Total, Categories
  <2> QED
    BY <1>2, <2>1, FS_EmptySet DEF Init, Ledger, InFlight
<1>5. NameLedger
  BY <1>2, FS_EmptySet DEF Init, NameLedger, InFlightFor, Categories
<1> QED
  BY <1>1, <1>3, <1>4, <1>5 DEF SInv

LEMMA SInvStep == SInv /\ [Next]_vars => SInv'
<1> SUFFICES ASSUME SInv, [Next]_vars PROVE SInv'
  OBVIOUS
<1>1. ASSUME NEW p \in Spenders, Spend(p) \/ SpendStep(p) PROVE SInv'
  <2>1. TypeOk'
    BY <1>1, SpenderTypeOk DEF SInv
  <2> QED
    BY <1>1, <2>1, SpendKeepsBooks, AddStatKeepsBooks, AddNameKeepsBooks,
       SpendNothingKeepsBooks, SpendUnitsKeepsBooks DEF SpendStep, SInv
<1>2. ASSUME NEW q \in Observers, Stats(q) \/ Discard(q) PROVE SInv'
  <2>1. TypeOk'
    BY <1>2, ObserverTypeOk DEF SInv
  <2> QED
    BY <1>2, <2>1, ObserverKeepsBooks DEF SInv
<1>3. CASE UNCHANGED vars
  <2>1. TypeOk' /\ NamedAreFunctions'
    BY <1>3 DEF vars, budgetVars, spendVars, SInv, TypeOk, NamedAreFunctions
  <2>2. /\ UNCHANGED <<budgetVars, wrapped, loads, report>>
        /\ Charged(Charging, op)' = Charged(Charging, op)
        /\ \A n \in Names : Charged(Naming(n), op)' = Charged(Naming(n), op)
    BY <1>3 DEF vars, spendVars, Charging, Naming
  <2> QED
    BY <2>1, <2>2, NothingFlows DEF SInv
<1> QED
  BY <1>1, <1>2, <1>3 DEF Next

THEOREM BooksAreKept == Spec => []SInv
  BY InitSInv, SInvStep, PTL DEF Spec

\* A snapshot accounts for its total, whatever is spent while it is taken,
\* as long as the counter does not overflow.
THEOREM SnapshotsAccount == Spec => []SnapshotAccountsForTotal
<1>1. SInv => SnapshotAccountsForTotal
  <2> SUFFICES ASSUME SInv, ~Overflowing, NEW q \in Observers, loads[q] = 9
               PROVE  report[q].total <= Total(report[q].stat)
    BY DEF SnapshotAccountsForTotal, Reported
  <2>1. \A c \in Categories : IsLoaded(q, c)
    BY DEF IsLoaded, LoadOrder, Categories
  <2>2. Total(View(q)) = Total(report[q].stat)
    BY <2>1 DEF View, Total, Categories
  <2> QED
    BY <2>2 DEF SInv, Snapshots
<1> QED
  BY <1>1, BooksAreKept, PTL

\* When nobody is spending, the categories add up to the counter, and no name
\* has more than all functions, as long as the counter has not overflowed.
THEOREM StatsAgreeAtRest == Spec => []QuiescentStatsAgree
<1>1. SInv => QuiescentStatsAgree
  <2> SUFFICES ASSUME SInv, ~wrapped, \A p \in Spenders : pc[p] = "idle"
               PROVE  /\ Total(stat) = counter
                      /\ \A n \in Names : byFunction[n] <= stat["function"]
    BY DEF QuiescentStatsAgree
  <2>1. /\ Charging = {} /\ Charged(Charging, op) = {}
        /\ \A n \in Names : Naming(n) = {} /\ Charged(Naming(n), op) = {}
    BY DEF Charging, Naming, Charged
  <2>2. InFlight = 0 /\ \A n \in Names : InFlightFor(n) = 0
    BY <2>1, FS_EmptySet DEF InFlight, InFlightFor
  <2>3. counter \in Int /\ counter <= MaxInt /\ byFunction \in [Names -> Int]
    BY LimitAssumption DEF SInv, TypeOk, Int64
  <2>4. ~Overflowing
    BY <2>2, <2>3, LimitAssumption DEF Overflowing
  <2> QED
    BY <2>2, <2>3, <2>4 DEF SInv, Ledger, NameLedger
<1> QED
  BY <1>1, BooksAreKept, PTL

=============================================================================
