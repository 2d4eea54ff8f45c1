----------------------------- MODULE PageHoles -----------------------------
(***************************************************************************)
(* What rendering the punch holes of a page promises, without pools,       *)
(* workers and slices that are shared.                                     *)
(*                                                                         *)
(* A render starts with empty holes, be it from the skeleton in the cache  *)
(* or by executing the template.  It fills each hole once, in any order,   *)
(* in the context of its own request and for a unit of its own budget; a   *)
(* hole for which nothing is left has an error for its content.  It        *)
(* answers when all of them are filled, and not before.  Only a render     *)
(* that has executed the template puts a skeleton into the cache, and the  *)
(* holes of that one are empty.                                            *)
(***************************************************************************)
EXTENDS Integers

CONSTANTS
    Renders,        \* who renders the page
    Indexes,        \* the holes of the page
    BudgetLimit,    \* units of a render's budget
    Nobody          \* has filled an empty hole

VARIABLES
    phase,          \* what each render is doing
    executed,       \* it has executed the template
    holes,          \* its holes
    spent,          \* of its budget
    page,           \* what it has answered
    cached,         \* there is a skeleton in the cache
    skeleton        \* the holes of that one

vars == <<phase, executed, holes, spent, page, cached, skeleton>>

Empty   == [k \in Indexes |-> [by |-> Nobody, error |-> FALSE, err |-> FALSE]]
NoPage  == [failed |-> FALSE, text |-> Empty]

Init ==
    /\ phase = [r \in Renders |-> "idle"]
    /\ executed = [r \in Renders |-> FALSE]
    /\ holes = [r \in Renders |-> Empty]
    /\ spent = [r \in Renders |-> 0]
    /\ page = [r \in Renders |-> NoPage]
    /\ cached = FALSE
    /\ skeleton = Empty

Enter(r, from, to) ==
    /\ phase[r] = from
    /\ phase' = [phase EXCEPT ![r] = to]

\* From the cached skeleton, or by executing the template.
Begin(r, execute) ==
    /\ execute \/ cached
    /\ Enter(r, "idle", "filling")
    /\ executed' = [executed EXCEPT ![r] = execute]
    /\ UNCHANGED <<holes, spent, page, cached, skeleton>>

Fill(r, k) ==
    /\ phase[r] = "filling"
    /\ holes[r][k].by = Nobody
    /\ \E error \in BOOLEAN :
         /\ spent[r] + 1 > BudgetLimit => error
         /\ holes' = [holes EXCEPT ![r][k] = [by |-> r, error |-> error, err |-> FALSE]]
    /\ spent' = [spent EXCEPT ![r] = @ + 1]
    /\ UNCHANGED <<phase, executed, page, cached, skeleton>>

Answer(r) ==
    /\ \A k \in Indexes : holes[r][k].by = r
    /\ Enter(r, "filling", IF executed[r] THEN "storing" ELSE "answered")
    /\ page' = [page EXCEPT ![r] = [failed |-> FALSE, text |-> holes[r]]]
    /\ UNCHANGED <<executed, holes, spent, cached, skeleton>>

Store(r) ==
    /\ Enter(r, "storing", "answered")
    /\ cached' = TRUE
    /\ skeleton' = Empty
    /\ UNCHANGED <<executed, holes, spent, page>>

\* The next request of this goroutine has holes and a budget of its own.
Forget(r) ==
    /\ Enter(r, "answered", "idle")
    /\ executed' = [executed EXCEPT ![r] = FALSE]
    /\ holes' = [holes EXCEPT ![r] = Empty]
    /\ spent' = [spent EXCEPT ![r] = 0]
    /\ page' = [page EXCEPT ![r] = NoPage]
    /\ UNCHANGED <<cached, skeleton>>

Next == \E r \in Renders :
    \/ \E execute \in BOOLEAN : Begin(r, execute)
    \/ \E k \in Indexes : Fill(r, k)
    \/ Answer(r) \/ Store(r) \/ Forget(r)

Spec == Init /\ [][Next]_vars

=============================================================================
