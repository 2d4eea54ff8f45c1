--------------------------- MODULE SkeletonShelf ---------------------------
(***************************************************************************)
(* What the template cache promises to a render that brings its source     *)
(* along, without saying how entries are looked up, built and stored.      *)
(*                                                                         *)
(* There is a shelf with at most one skeleton for each file and URL.  A    *)
(* render answers either by executing its own source, or from a skeleton   *)
(* that lies on the shelf and was made from the same source for the same   *)
(* file and URL; a source with context writes is always executed.  Only a  *)
(* render that has executed a source with holes puts a skeleton there, and *)
(* skeletons may vanish at any time.                                       *)
(***************************************************************************)
CONSTANTS
    Renders, Files, Urls, Sources,
    SkeletalSources,    \* those with holes and without context writes
    NoRequest, NoAnswer

VARIABLES
    asked,          \* the request each render is serving
    chosen,         \* what it answers, and where that comes from
    shelf           \* the skeletons

vars == <<asked, chosen, shelf>>

Requests == [file : Files, url : Urls, source : Sources]

Init ==
    /\ asked = [r \in Renders |-> NoRequest]
    /\ chosen = [r \in Renders |-> NoAnswer]
    /\ shelf = {}

Ask(r) ==
    /\ asked[r] = NoRequest
    /\ \E request \in Requests : asked' = [asked EXCEPT ![r] = request]
    /\ UNCHANGED <<chosen, shelf>>

Answer(r, origin) ==
    /\ asked[r] # NoRequest /\ chosen[r] = NoAnswer
    /\ chosen' = [chosen EXCEPT ![r] = [source |-> asked[r].source, origin |-> origin]]
    /\ UNCHANGED <<asked, shelf>>

Execute(r) == Answer(r, "executed")

Serve(r) == asked[r] \in shelf /\ Answer(r, "served")

SameKey(a, b) == a.file = b.file /\ a.url = b.url

Publish(r) ==
    /\ asked[r] # NoRequest /\ asked[r].source \in SkeletalSources
    /\ chosen[r] # NoAnswer /\ chosen[r].origin = "executed"
    /\ shelf' = {other \in shelf : ~SameKey(other, asked[r])} \cup {asked[r]}
    /\ UNCHANGED <<asked, chosen>>

Withdraw ==
    /\ shelf' \in SUBSET shelf
    /\ UNCHANGED <<asked, chosen>>

\* With an answer, or with an error.
Return(r) ==
    /\ asked[r] # NoRequest
    /\ asked' = [asked EXCEPT ![r] = NoRequest]
    /\ chosen' = [chosen EXCEPT ![r] = NoAnswer]
    /\ UNCHANGED shelf

Next ==
    \/ \E r \in Renders : Ask(r) \/ Execute(r) \/ Serve(r) \/ Publish(r) \/ Return(r)
    \/ Withdraw

Spec == Init /\ [][Next]_vars

=============================================================================
