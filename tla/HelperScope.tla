---------------------------- MODULE HelperScope ----------------------------
(***************************************************************************)
(* The process-wide helper map (helpers/map.go, HelperMap) and the root    *)
(* scope that every new context is built on (helper_scope.go,              *)
(* cachedHelperScope): a copy of the map, rebuilt when the map's version   *)
(* has moved, behind a double-checked read-write lock.                     *)
(*                                                                         *)
(* Goroutines in Adders register helpers (plush.Helpers.Add; AddMany is a  *)
(* loop of Add and takes the lock anew for every helper), goroutines in    *)
(* Readers create contexts.  A helper value is the serial number of the    *)
(* Add that registered it, so "newer" is "greater".                        *)
(***************************************************************************)
EXTENDS Naturals

CONSTANTS
    Adders,         \* goroutines that call HelperMap.Add
    Readers,        \* goroutines that call cachedHelperScope
    Keys,           \* helper names
    MaxAdds,        \* bound on the number of Adds of a behaviour
    NoScope,        \* the nil *SymbolTable
    Nobody          \* no goroutine holds the lock

Contents == [Keys -> Nat]       \* helper name -> registration, 0 if absent

ASSUME MaxAddsAssumption == MaxAdds \in Nat
ASSUME NoScopeAssumption == NoScope \notin Contents
ASSUME NobodyAssumption  == Nobody \notin Adders \cup Readers
ASSUME DisjointAssumption == Adders \cap Readers = {}

VARIABLES
    helpers,        \* HelperMap.helpers
    version,        \* HelperMap.version, written under moot
    latest,         \* HelperMap.latest, read without the lock
    moot,           \* holder of HelperMap.moot
    scope,          \* sharedHelperScope.scope: NoScope or a copy of helpers
    scopeVersion,   \* sharedHelperScope.version
    writer,         \* holder of sharedHelperScope's write lock
    pc,             \* where each goroutine is
    key,            \* the name an Add is registering
    want,           \* the local "version" of cachedHelperScope
    snap,           \* what Helpers.Snapshot returned: content and version
    result,         \* the scope cachedHelperScope returned
    serial,         \* history: number of Adds that have written
    completed,      \* history: the map as of the last Add that returned
    promised        \* history: completed, when this call started

mapVars    == <<helpers, version, latest, moot, key, serial, completed>>
sharedVars == <<scope, scopeVersion, writer>>
callVars   == <<want, snap, result, promised>>
vars       == <<mapVars, sharedVars, callVars, pc>>

Empty == [k \in Keys |-> 0]

\* Every registration of c is in d, or was replaced by a later one.
AtLeast(d, c) == \A k \in Keys : d[k] >= c[k]

Transition(p, from, to) ==
    /\ pc[p] = from
    /\ pc' = [pc EXCEPT ![p] = to]

Init ==
    /\ helpers = Empty
    /\ version = 0
    /\ latest = 0
    /\ moot = Nobody
    /\ scope = NoScope
    /\ scopeVersion = 0
    /\ writer = Nobody
    /\ pc = [p \in Adders \cup Readers |-> "idle"]
    /\ key \in [Adders -> Keys]
    /\ want = [r \in Readers |-> 0]
    /\ snap = [r \in Readers |-> [content |-> Empty, version |-> 0]]
    /\ result = [r \in Readers |-> NoScope]
    /\ serial = 0
    /\ completed = Empty
    /\ promised = [r \in Readers |-> Empty]

-----------------------------------------------------------------------------
\* HelperMap.Add.

AddLock(a) ==
    /\ serial < MaxAdds
    /\ moot = Nobody
    /\ Transition(a, "idle", "write")
    /\ moot' = a
    /\ \E k \in Keys : key' = [key EXCEPT ![a] = k]
    /\ UNCHANGED <<helpers, version, latest, serial, completed, sharedVars, callVars>>

\* h.helpers[key] = helper and h.version++: nobody can see one without the
\* other, both are read under the lock only.
AddWrite(a) ==
    /\ Transition(a, "write", "publish")
    /\ serial' = serial + 1
    /\ helpers' = [helpers EXCEPT ![key[a]] = serial + 1]
    /\ version' = version + 1
    /\ UNCHANGED <<latest, moot, key, completed, sharedVars, callVars>>

\* Mutant: the new version is not published.
AddPublishForgotten(a) ==
    /\ Transition(a, "publish", "unlock")
    /\ UNCHANGED <<latest, helpers, version, moot, key, serial, completed, sharedVars, callVars>>

\* atomic.StoreUint64(&h.latest, h.version).
AddPublish(a) ==
    /\ Transition(a, "publish", "unlock")
    /\ latest' = version
    /\ UNCHANGED <<helpers, version, moot, key, serial, completed, sharedVars, callVars>>

AddUnlock(a) ==
    /\ Transition(a, "unlock", "idle")
    /\ moot' = Nobody
    /\ completed' = helpers
    /\ UNCHANGED <<helpers, version, latest, key, serial, sharedVars, callVars>>

-----------------------------------------------------------------------------
\* cachedHelperScope.

\* Mutant: the version before the latest is asked for.
LoadPreviousVersion(r) ==
    /\ Transition(r, "idle", "fast")
    /\ want' = [want EXCEPT ![r] = latest - 1]
    /\ promised' = [promised EXCEPT ![r] = completed]
    /\ result' = [result EXCEPT ![r] = NoScope]
    /\ UNCHANGED <<snap, mapVars, sharedVars>>

\* version := Helpers.Version(), an atomic load without any lock.
LoadVersion(r) ==
    /\ Transition(r, "idle", "fast")
    /\ want' = [want EXCEPT ![r] = latest]
    /\ promised' = [promised EXCEPT ![r] = completed]
    /\ result' = [result EXCEPT ![r] = NoScope]
    /\ UNCHANGED <<snap, mapVars, sharedVars>>

\* The cached scope is the one built from the version v of the map.
Cached(v) == scope # NoScope /\ scopeVersion = v

\* The section under RLock only reads: it is one step, taken while no one
\* holds the write lock.
FastHit(r) ==
    /\ writer = Nobody
    /\ Cached(want[r])
    /\ Transition(r, "fast", "returned")
    /\ result' = [result EXCEPT ![r] = scope]
    /\ UNCHANGED <<want, snap, promised, mapVars, sharedVars>>

FastMiss(r) ==
    /\ writer = Nobody
    /\ ~Cached(want[r])
    /\ Transition(r, "fast", "lock")
    /\ UNCHANGED <<callVars, mapVars, sharedVars>>

\* Mutant: the lock does not exclude another builder.
LockShared(r) ==
    /\ Transition(r, "lock", "recheck")
    /\ writer' = r
    /\ UNCHANGED <<scope, scopeVersion, callVars, mapVars>>

Lock(r) ==
    /\ writer = Nobody
    /\ Transition(r, "lock", "recheck")
    /\ writer' = r
    /\ UNCHANGED <<scope, scopeVersion, callVars, mapVars>>

\* The deferred Unlock, and the scope that is returned.
UnlockAndReturn(r, value) ==
    /\ writer' = Nobody
    /\ result' = [result EXCEPT ![r] = value]

\* Mutant: an early return that keeps the lock.
RecheckHitLocked(r) ==
    /\ Cached(want[r])
    /\ Transition(r, "recheck", "returned")
    /\ result' = [result EXCEPT ![r] = scope]
    /\ UNCHANGED <<writer, scope, scopeVersion, want, snap, promised, mapVars>>

RecheckHit(r) ==
    /\ Cached(want[r])
    /\ Transition(r, "recheck", "returned")
    /\ UnlockAndReturn(r, scope)
    /\ UNCHANGED <<scope, scopeVersion, want, snap, promised, mapVars>>

RecheckMiss(r) ==
    /\ ~Cached(want[r])
    /\ Transition(r, "recheck", "snapshot")
    /\ UNCHANGED <<callVars, mapVars, sharedVars>>

\* Helpers.Snapshot() copies map and version under the map's own lock.
Snapshot(r) ==
    /\ moot = Nobody
    /\ Transition(r, "snapshot", "store")
    /\ snap' = [snap EXCEPT ![r] = [content |-> helpers, version |-> version]]
    /\ want' = [want EXCEPT ![r] = version]
    /\ UNCHANGED <<result, promised, mapVars, sharedVars>>

SnapshotHit(r) ==
    /\ Cached(snap[r].version)
    /\ Transition(r, "store", "returned")
    /\ UnlockAndReturn(r, scope)
    /\ UNCHANGED <<scope, scopeVersion, want, snap, promised, mapVars>>

\* newRootScopeFromMap and the two assignments, under the write lock.
Store(r) ==
    /\ ~Cached(snap[r].version)
    /\ Transition(r, "store", "returned")
    /\ scope' = snap[r].content
    /\ scopeVersion' = snap[r].version
    /\ UnlockAndReturn(r, snap[r].content)
    /\ UNCHANGED <<want, snap, promised, mapVars>>

\* The context is built; the goroutine may create another one later.
Finish(r) ==
    /\ Transition(r, "returned", "idle")
    /\ UNCHANGED <<mapVars, sharedVars, callVars>>

-----------------------------------------------------------------------------
Add(a) == AddLock(a) \/ AddWrite(a) \/ AddPublish(a) \/ AddUnlock(a)

CachedHelperScope(r) ==
    \/ FastHit(r) \/ FastMiss(r) \/ Lock(r) \/ RecheckHit(r) \/ RecheckMiss(r)
    \/ Snapshot(r) \/ SnapshotHit(r) \/ Store(r)

Next ==
    \/ \E a \in Adders : Add(a)
    \/ \E r \in Readers : LoadVersion(r) \/ CachedHelperScope(r) \/ Finish(r)

\* A started call or Add keeps running; Go's mutexes starve nobody, so a
\* goroutine that waits for one that is free again and again gets it.  No
\* goroutine has to start a call.
Fairness ==
    /\ \A a \in Adders : WF_vars(AddWrite(a) \/ AddPublish(a) \/ AddUnlock(a))
    /\ \A r \in Readers :
        /\ WF_vars(CachedHelperScope(r))
        /\ SF_vars(FastHit(r) \/ FastMiss(r))
        /\ SF_vars(Lock(r))
        /\ SF_vars(Snapshot(r))

Spec == Init /\ [][Next]_vars /\ Fairness

-----------------------------------------------------------------------------
AdderStates  == {"idle", "write", "publish", "unlock"}
ReaderStates == {"idle", "fast", "lock", "recheck", "snapshot", "store", "returned"}

\* Every variable holds a value of its Go type, and every goroutine is at a
\* point of its own function.
TypeOk ==
    /\ helpers \in Contents
    /\ version \in Nat
    /\ latest \in Nat
    /\ moot \in Adders \cup {Nobody}
    /\ scope \in Contents \cup {NoScope}
    /\ scopeVersion \in Nat
    /\ writer \in Readers \cup {Nobody}
    /\ pc \in [Adders \cup Readers -> AdderStates \cup ReaderStates]
    /\ \A a \in Adders : pc[a] \in AdderStates
    /\ \A r \in Readers : pc[r] \in ReaderStates
    /\ key \in [Adders -> Keys]
    /\ want \in [Readers -> Nat]
    /\ snap \in [Readers -> [content : Contents, version : Nat]]
    /\ result \in [Readers -> Contents \cup {NoScope}]
    /\ serial \in Nat
    /\ completed \in Contents
    /\ promised \in [Readers -> Contents]

\* A context never misses a helper that was registered before it was created:
\* the scope cachedHelperScope returns has every registration of the Adds
\* that had returned when the call started, or a later one of the same name.
\* (The fast path compares a version that was read without a lock, and a
\* snapshot may be overtaken by other Adds and other builders.)
FreshScope ==
    \A r \in Readers :
        pc[r] = "returned" => result[r] # NoScope /\ AtLeast(result[r], promised[r])

\* The cached scope never goes back to an older copy of the map, whichever
\* builder comes last.
ScopeNeverRegresses ==
    [][ scope # NoScope =>
          /\ scope' # NoScope
          /\ AtLeast(scope', scope)
          /\ scopeVersion' >= scopeVersion ]_vars

\* Every call of cachedHelperScope returns: neither lock is left held, and
\* the two locks (the scope's, then the map's) are never taken in a cycle.
CallsReturn == \A r \in Readers : (pc[r] = "fast") ~> (pc[r] = "returned")

=============================================================================
