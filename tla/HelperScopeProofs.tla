------------------------- MODULE HelperScopeProofs -------------------------
(***************************************************************************)
(* Proofs about HelperScope, for any number of goroutines, helper names    *)
(* and registrations.                                                      *)
(*                                                                         *)
(* The argument: a copy of the helper map that was taken at version v has  *)
(* every registration of the calls that had returned when the version was  *)
(* v.  Such pairs of content and version are what the cache holds and what *)
(* a builder has snapshotted; Sound says it of one pair, against the map   *)
(* now (completed) and against every call in progress (promised).  The     *)
(* last sections are about the two locks, and how far a call is from its   *)
(* end.                                                                    *)
(***************************************************************************)
EXTENDS HelperScope, TLAPS

Building == {"recheck", "snapshot", "store"}
Calling  == {"fast", "lock"} \cup Building

\* Who is inside Add, and who is building the scope, holds the lock.
LockInv ==
    /\ \A a \in Adders : (pc[a] # "idle") <=> (moot = a)
    /\ \A r \in Readers : (pc[r] \in Building) <=> (writer = r)

\* The map, its two version counters and what completed Adds have written.
MapInv ==
    /\ AtLeast(helpers, completed)
    /\ \A k \in Keys : helpers[k] <= serial
    /\ latest <= version
    /\ moot = Nobody => completed = helpers /\ latest = version
    /\ \A a \in Adders : pc[a] = "unlock" => latest = version
    /\ \A r \in Readers : pc[r] \in Calling =>
          want[r] <= version /\ AtLeast(completed, promised[r])

\* c is a copy of the map that was taken at version v.
Sound(c, v) ==
    /\ v <= version
    /\ \A a \in Adders : pc[a] \in {"publish", "unlock"} => v < version
    /\ AtLeast(helpers, c)
    /\ v >= latest => AtLeast(c, completed)
    /\ \A r \in Readers : pc[r] \in Calling =>
          (v >= want[r] => AtLeast(c, promised[r]))

ScopeInv == scope # NoScope => Sound(scope, scopeVersion)

SnapInv ==
    \A r \in Readers : pc[r] = "store" =>
        /\ Sound(snap[r].content, snap[r].version)
        /\ snap[r].version = want[r]
        /\ scope # NoScope =>
              /\ AtLeast(snap[r].content, scope)
              /\ snap[r].version >= scopeVersion

IInv == TypeOk /\ LockInv /\ MapInv /\ ScopeInv /\ SnapInv /\ FreshScope

-----------------------------------------------------------------------------
\* The initial state satisfies the invariant.
LEMMA InitIInv == Init => IInv
BY NoScopeAssumption, NobodyAssumption, DisjointAssumption
DEF Init, IInv, TypeOk, LockInv, MapInv, ScopeInv, SnapInv, FreshScope, AtLeast,
    Empty, Contents, AdderStates, ReaderStates, Building, Calling

\* Every step keeps the variables within their types.
LEMMA TypeOkStep == ASSUME TypeOk, [Next]_vars PROVE TypeOk'
<1> USE DisjointAssumption DEF TypeOk, Transition, AdderStates, ReaderStates,
        mapVars, sharedVars, callVars, UnlockAndReturn, Cached
<1>1. ASSUME NEW a \in Adders, Add(a) PROVE TypeOk'
  <2>1. CASE AddLock(a)
    BY <2>1 DEF AddLock, Contents
  <2>2. CASE AddWrite(a)
    BY <2>2 DEF AddWrite, Contents
  <2>3. CASE AddPublish(a)
    BY <2>3 DEF AddPublish, Contents
  <2>4. CASE AddUnlock(a)
    BY <2>4 DEF AddUnlock, Contents
  <2> QED
    BY <1>1, <2>1, <2>2, <2>3, <2>4 DEF Add
<1>2. ASSUME NEW r \in Readers, LoadVersion(r) \/ CachedHelperScope(r) \/ Finish(r)
      PROVE TypeOk'
  <2>1. CASE LoadVersion(r)
    BY <2>1 DEF LoadVersion
  <2>2. CASE FastHit(r)
    BY <2>2 DEF FastHit
  <2>3. CASE FastMiss(r)
    BY <2>3 DEF FastMiss
  <2>4. CASE Lock(r)
    BY <2>4 DEF Lock
  <2>5. CASE RecheckHit(r)
    BY <2>5 DEF RecheckHit
  <2>6. CASE RecheckMiss(r)
    BY <2>6 DEF RecheckMiss
  <2>7. CASE Snapshot(r)
    BY <2>7 DEF Snapshot
  <2>8. CASE SnapshotHit(r)
    BY <2>8 DEF SnapshotHit
  <2>9. CASE Store(r)
    BY <2>9 DEF Store
  <2>10. CASE Finish(r)
    BY <2>10 DEF Finish
  <2> QED
    BY <1>2, <2>1, <2>2, <2>3, <2>4, <2>5, <2>6, <2>7, <2>8, <2>9, <2>10
    DEF CachedHelperScope
<1>3. CASE UNCHANGED vars
  BY <1>3 DEF vars
<1> QED
  BY <1>1, <1>2, <1>3 DEF Next

-----------------------------------------------------------------------------
\* A step of Add keeps the invariant.  What matters: a copy of the map is not
\* older than the version it carries, because the map and its version move
\* together and the call returns only after the version was published.
LEMMA AddStep ==
    ASSUME IInv, TypeOk', NEW a \in Adders, Add(a) PROVE IInv'
<1> USE NobodyAssumption, DisjointAssumption
    DEF Transition, sharedVars, callVars, AdderStates, ReaderStates, Building, Calling
<1>1. CASE AddLock(a)
  <2>1. LockInv'
    BY <1>1 DEF AddLock, IInv, LockInv, TypeOk
  <2>2. MapInv' /\ FreshScope'
    BY <1>1 DEF AddLock, IInv, MapInv, FreshScope, AtLeast, TypeOk, LockInv
  <2>3. ScopeInv' /\ SnapInv'
    BY <1>1 DEF AddLock, IInv, ScopeInv, SnapInv, Sound, AtLeast, TypeOk
  <2> QED
    BY <2>1, <2>2, <2>3 DEF IInv
<1>2. CASE AddWrite(a)
  <2>0. AtLeast(helpers', helpers)
    BY <1>2 DEF AddWrite, IInv, MapInv, AtLeast, TypeOk, Contents
  <2>1. LockInv'
    BY <1>2 DEF AddWrite, IInv, LockInv, TypeOk
  <2>2. MapInv' /\ FreshScope'
    BY <1>2, <2>0 DEF AddWrite, IInv, MapInv, FreshScope, AtLeast, TypeOk, LockInv, Contents
  <2>3. ScopeInv' /\ SnapInv'
    BY <1>2, <2>0 DEF AddWrite, IInv, ScopeInv, SnapInv, Sound, AtLeast, TypeOk, Contents
  <2> QED
    BY <2>1, <2>2, <2>3 DEF IInv
<1>3. CASE AddPublish(a)
  <2>1. LockInv'
    BY <1>3 DEF AddPublish, IInv, LockInv, TypeOk
  <2>2. MapInv' /\ FreshScope'
    BY <1>3 DEF AddPublish, IInv, MapInv, FreshScope, AtLeast, TypeOk, LockInv
  <2>3. ScopeInv' /\ SnapInv'
    BY <1>3 DEF AddPublish, IInv, ScopeInv, SnapInv, Sound, AtLeast, TypeOk
  <2> QED
    BY <2>1, <2>2, <2>3 DEF IInv
<1>4. CASE AddUnlock(a)
  <2>1. LockInv'
    BY <1>4 DEF AddUnlock, IInv, LockInv, TypeOk
  <2>2. MapInv' /\ FreshScope'
    BY <1>4 DEF AddUnlock, IInv, MapInv, FreshScope, AtLeast, TypeOk, LockInv, Contents
  <2>3. ScopeInv' /\ SnapInv'
    BY <1>4 DEF AddUnlock, IInv, MapInv, ScopeInv, SnapInv, Sound, AtLeast, TypeOk
  <2> QED
    BY <2>1, <2>2, <2>3 DEF IInv
<1> QED
  BY <1>1, <1>2, <1>3, <1>4 DEF Add

\* A step of a context creator keeps the invariant.
LEMMA ReaderStep ==
    ASSUME IInv, TypeOk', NEW q \in Readers,
           LoadVersion(q) \/ CachedHelperScope(q) \/ Finish(q)
    PROVE  IInv'
<1> USE NobodyAssumption, DisjointAssumption
    DEF Transition, sharedVars, mapVars, callVars, AdderStates, ReaderStates,
        Building, Calling, UnlockAndReturn, Cached
<1>1. CASE LoadVersion(q)
  <2>1. LockInv'
    BY <1>1 DEF LoadVersion, IInv, LockInv, TypeOk
  <2>2. MapInv' /\ FreshScope'
    BY <1>1 DEF LoadVersion, IInv, MapInv, FreshScope, AtLeast, TypeOk, Contents
  <2>3. ScopeInv' /\ SnapInv'
    BY <1>1 DEF LoadVersion, IInv, ScopeInv, SnapInv, Sound, AtLeast, TypeOk
  <2> QED
    BY <2>1, <2>2, <2>3 DEF IInv
<1>2. CASE FastHit(q)
  <2>1. LockInv'
    BY <1>2 DEF FastHit, IInv, LockInv, TypeOk
  <2>2. MapInv' /\ FreshScope'
    BY <1>2 DEF FastHit, IInv, MapInv, FreshScope, ScopeInv, Sound, AtLeast, TypeOk
  <2>3. ScopeInv' /\ SnapInv'
    BY <1>2 DEF FastHit, IInv, ScopeInv, SnapInv, Sound, AtLeast, TypeOk
  <2> QED
    BY <2>1, <2>2, <2>3 DEF IInv
<1>3. CASE FastMiss(q)
  <2>1. LockInv'
    BY <1>3 DEF FastMiss, IInv, LockInv, TypeOk
  <2>2. MapInv'
    BY <1>3 DEF FastMiss, IInv, MapInv, AtLeast, TypeOk
  <2>3. FreshScope'
    BY <1>3 DEF FastMiss, IInv, FreshScope, AtLeast, TypeOk
  <2>4. ScopeInv'
    BY <1>3 DEF FastMiss, IInv, ScopeInv, Sound, AtLeast, TypeOk
  <2>5. SnapInv'
    BY <1>3 DEF FastMiss, IInv, SnapInv, Sound, AtLeast, TypeOk
  <2> QED
    BY <2>1, <2>2, <2>3, <2>4, <2>5 DEF IInv
<1>9. CASE RecheckMiss(q)
  <2>1. LockInv'
    BY <1>9 DEF RecheckMiss, IInv, LockInv, TypeOk
  <2>2. MapInv'
    BY <1>9 DEF RecheckMiss, IInv, MapInv, AtLeast, TypeOk
  <2>3. FreshScope'
    BY <1>9 DEF RecheckMiss, IInv, FreshScope, AtLeast, TypeOk
  <2>4. ScopeInv'
    BY <1>9 DEF RecheckMiss, IInv, ScopeInv, Sound, AtLeast, TypeOk
  <2>5. SnapInv'
    BY <1>9 DEF RecheckMiss, IInv, SnapInv, Sound, AtLeast, TypeOk
  <2> QED
    BY <2>1, <2>2, <2>3, <2>4, <2>5 DEF IInv
<1>4. CASE Lock(q)
  <2>1. LockInv'
    BY <1>4 DEF Lock, IInv, LockInv, TypeOk
  <2>2. MapInv' /\ FreshScope'
    BY <1>4 DEF Lock, IInv, MapInv, FreshScope, AtLeast, TypeOk
  <2>3. ScopeInv' /\ SnapInv'
    BY <1>4 DEF Lock, IInv, ScopeInv, SnapInv, Sound, AtLeast, TypeOk
  <2> QED
    BY <2>1, <2>2, <2>3 DEF IInv
<1>5. CASE RecheckHit(q)
  <2>1. LockInv'
    BY <1>5 DEF RecheckHit, IInv, LockInv, TypeOk
  <2>2. MapInv'
    BY <1>5 DEF RecheckHit, IInv, MapInv, AtLeast, TypeOk
  <2>3. FreshScope'
    BY <1>5 DEF RecheckHit, IInv, FreshScope, ScopeInv, MapInv, Sound, AtLeast, TypeOk
  <2>4. ScopeInv'
    BY <1>5 DEF RecheckHit, IInv, ScopeInv, Sound, AtLeast, TypeOk
  <2>5. SnapInv'
    BY <1>5 DEF RecheckHit, IInv, SnapInv, Sound, AtLeast, TypeOk
  <2> QED
    BY <2>1, <2>2, <2>3, <2>4, <2>5 DEF IInv
<1>10. CASE SnapshotHit(q)
  <2>1. LockInv'
    BY <1>10 DEF SnapshotHit, IInv, LockInv, TypeOk
  <2>2. MapInv'
    BY <1>10 DEF SnapshotHit, IInv, MapInv, AtLeast, TypeOk
  <2>3. FreshScope'
    BY <1>10 DEF SnapshotHit, IInv, FreshScope, ScopeInv, SnapInv, MapInv, Sound, AtLeast, TypeOk
  <2>4. ScopeInv'
    BY <1>10 DEF SnapshotHit, IInv, ScopeInv, Sound, AtLeast, TypeOk
  <2>5. SnapInv'
    BY <1>10 DEF SnapshotHit, IInv, SnapInv, Sound, AtLeast, TypeOk
  <2> QED
    BY <2>1, <2>2, <2>3, <2>4, <2>5 DEF IInv
<1>6. CASE Snapshot(q)
  <2>1. LockInv'
    BY <1>6 DEF Snapshot, IInv, LockInv, TypeOk
  <2>2. MapInv' /\ FreshScope'
    BY <1>6 DEF Snapshot, IInv, MapInv, FreshScope, AtLeast, TypeOk
  <2>3. ScopeInv'
    BY <1>6 DEF Snapshot, IInv, ScopeInv, Sound, AtLeast, TypeOk, MapInv
  <2>4. Sound(helpers, version)
    BY <1>6 DEF Snapshot, IInv, Sound, AtLeast, TypeOk, MapInv, LockInv, Contents
  <2>5. SnapInv'
    BY <1>6, <2>4 DEF Snapshot, IInv, ScopeInv, SnapInv, Sound, AtLeast, TypeOk, MapInv, Contents
  <2> QED
    BY <2>1, <2>2, <2>3, <2>5 DEF IInv
<1>7. CASE Store(q)
  <2>1. LockInv'
    BY <1>7 DEF Store, IInv, LockInv, TypeOk
  <2>2. MapInv' /\ FreshScope'
    BY <1>7, NoScopeAssumption
    DEF Store, IInv, MapInv, FreshScope, SnapInv, Sound, AtLeast, TypeOk
  <2>3. ScopeInv'
    BY <1>7 DEF Store, IInv, SnapInv, ScopeInv, Sound, AtLeast, TypeOk
  <2>4. \A r \in Readers : pc'[r] # "store"
    BY <1>7 DEF Store, IInv, LockInv, TypeOk
  <2> QED
    BY <2>1, <2>2, <2>3, <2>4 DEF IInv, SnapInv
<1>8. CASE Finish(q)
  <2>1. LockInv'
    BY <1>8 DEF Finish, IInv, LockInv, TypeOk
  <2>2. MapInv' /\ FreshScope'
    BY <1>8 DEF Finish, IInv, MapInv, FreshScope, AtLeast, TypeOk
  <2>3. ScopeInv' /\ SnapInv'
    BY <1>8 DEF Finish, IInv, ScopeInv, SnapInv, Sound, AtLeast, TypeOk
  <2> QED
    BY <2>1, <2>2, <2>3 DEF IInv
<1> QED
  BY <1>1, <1>2, <1>3, <1>4, <1>5, <1>6, <1>7, <1>8, <1>9, <1>10 DEF CachedHelperScope

LEMMA IInvStep == IInv /\ [Next]_vars => IInv'
<1> SUFFICES ASSUME IInv, [Next]_vars PROVE IInv'
  OBVIOUS
<1>1. TypeOk'
  BY TypeOkStep DEF IInv
<1>2. CASE UNCHANGED vars
  BY <1>2, <1>1 DEF vars, mapVars, sharedVars, callVars, IInv, LockInv, MapInv,
     ScopeInv, SnapInv, Sound, FreshScope, AtLeast
<1>3. CASE Next
  BY <1>1, <1>3, AddStep, ReaderStep DEF Next
<1> QED
  BY <1>2, <1>3

\* The invariant holds in every reachable state.
THEOREM Invariance == Spec => []IInv
  BY InitIInv, IInvStep, PTL DEF Spec

\* Type correctness of HelperMap and sharedHelperScope.
THEOREM TypeCorrect == Spec => []TypeOk
<1>1. IInv => TypeOk
  BY DEF IInv
<1> QED
  BY <1>1, Invariance, PTL

\* A new context sees every helper whose registration had returned.
THEOREM ScopeIsFresh == Spec => []FreshScope
<1>1. IInv => FreshScope
  BY DEF IInv
<1> QED
  BY <1>1, Invariance, PTL

\* No builder of the shared scope ever replaces it by an older copy.
THEOREM ScopeMonotone == Spec => ScopeNeverRegresses
<1> DEFINE Forward == scope # NoScope =>
              /\ scope' # NoScope
              /\ AtLeast(scope', scope)
              /\ scopeVersion' >= scopeVersion
<1>1. ASSUME IInv, [Next]_vars PROVE Forward
  <2>1. ASSUME scope' = scope, scopeVersion' = scopeVersion PROVE Forward
    BY <1>1, <2>1 DEF IInv, TypeOk, AtLeast, Contents
  <2>2. ASSUME NEW r \in Readers, Store(r) PROVE Forward
    BY <1>1, <2>2, NoScopeAssumption DEF Store, Transition, IInv, SnapInv, TypeOk, AtLeast
  <2>3. ASSUME NEW a \in Adders, Add(a) PROVE Forward
    BY <2>1, <2>3 DEF Add, AddLock, AddWrite, AddPublish, AddUnlock, sharedVars
  <2>4. ASSUME NEW r \in Readers, LoadVersion(r) \/ CachedHelperScope(r) \/ Finish(r)
        PROVE  Forward
    BY <2>1, <2>2, <2>4 DEF LoadVersion, CachedHelperScope, Finish, FastHit, FastMiss,
       Lock, RecheckHit, RecheckMiss, Snapshot, SnapshotHit, sharedVars, UnlockAndReturn
  <2> QED
    BY <1>1, <2>1, <2>3, <2>4 DEF Next, vars, sharedVars
<1>2. IInv /\ [Next]_vars => [Forward]_vars
  BY <1>1
<1> QED
  BY <1>2, Invariance, PTL DEF Spec, ScopeNeverRegresses
-----------------------------------------------------------------------------
(* Why calls end.  Of the goroutines that wait for a lock, the holder can run, or
   it waits for a holder that can; and a call has a bounded number of steps.    *)

\* The guards of cachedHelperScope and of Add, one by one.
CanRead(r) ==
    \/ pc[r] \in {"fast", "lock"} /\ writer = Nobody
    \/ pc[r] = "snapshot" /\ moot = Nobody
    \/ pc[r] \in {"recheck", "store", "returned"}
CanAdd(a) ==
    \/ pc[a] = "idle" /\ moot = Nobody
    \/ pc[a] \in {"write", "publish", "unlock"}

\* Whoever cannot go on waits for a lock whose holder can go on, or waits for the
\* map's lock, whose holder can: the chain has no cycle, and two locks at most.
LocksComeFree ==
    /\ moot # Nobody => moot \in Adders /\ CanAdd(moot)
    /\ writer # Nobody =>
         /\ writer \in Readers
         /\ CanRead(writer) \/ (pc[writer] = "snapshot" /\ moot # Nobody)
    /\ \A r \in Readers : pc[r] \in Calling /\ ~CanRead(r) =>
         writer \notin {Nobody, r} \/ (writer = r /\ moot # Nobody)
    /\ \A a \in Adders : ~CanAdd(a) => moot \notin {Nobody, a}

\* The lock of the scope is taken before that of the map and never the other way
\* round, and nobody waits for a lock of its own.
THEOREM NoLockCycle == Spec => []LocksComeFree
<1>1. IInv => LocksComeFree
  <2> SUFFICES ASSUME IInv PROVE LocksComeFree
    OBVIOUS
  <2> USE DEF IInv, LockInv, Building
  <2>1. moot # Nobody => moot \in Adders /\ CanAdd(moot)
    BY DEF TypeOk, AdderStates, CanAdd
  <2>2. writer # Nobody =>
          /\ writer \in Readers
          /\ CanRead(writer) \/ (pc[writer] = "snapshot" /\ moot # Nobody)
    BY DEF TypeOk, CanRead
  <2>3. \A r \in Readers : pc[r] \in Calling /\ ~CanRead(r) =>
          writer \notin {Nobody, r} \/ (writer = r /\ moot # Nobody)
    BY DEF Calling, CanRead
  <2>4. \A a \in Adders : ~CanAdd(a) => moot \notin {Nobody, a}
    BY DEF TypeOk, AdderStates, CanAdd
  <2> QED
    BY <2>1, <2>2, <2>3, <2>4 DEF LocksComeFree
<1> QED
  BY <1>1, Invariance, PTL

\* The steps that a goroutine has before it at most, until its call has returned.
CallSteps(r) ==
    CASE pc[r] = "fast"     -> 5
      [] pc[r] = "lock"     -> 4
      [] pc[r] = "recheck"  -> 3
      [] pc[r] = "snapshot" -> 2
      [] pc[r] = "store"    -> 1
      [] OTHER              -> 0
AddSteps(a) ==
    CASE pc[a] = "write"   -> 3
      [] pc[a] = "publish" -> 2
      [] pc[a] = "unlock"  -> 1
      [] OTHER             -> 0

\* A call is never sent back: a scope that others have replaced meanwhile does not
\* make a builder start again.
CallAdvances(r) ==
    pc[r] \in Calling => IF CachedHelperScope(r) THEN CallSteps(r)' < CallSteps(r)
                                                 ELSE CallSteps(r)' = CallSteps(r)
AddAdvances(a) ==
    pc[a] # "idle" => IF Add(a) THEN AddSteps(a)' < AddSteps(a)
                                ELSE AddSteps(a)' = AddSteps(a)
CallsAdvance ==
    [][(\A r \in Readers : CallAdvances(r)) /\ (\A a \in Adders : AddAdvances(a))]_vars

\* Every step of a call brings it nearer to its end, and no step of another
\* goroutine takes it back: with NoLockCycle, why CallsReturn holds.
THEOREM CallsWindDown == Spec => CallsAdvance
<1>1. ASSUME IInv, [Next]_vars, NEW p \in Adders \cup Readers, pc'[p] # pc[p]
      PROVE  \/ p \in Adders /\ Add(p)
             \/ p \in Readers /\ (LoadVersion(p) \/ CachedHelperScope(p) \/ Finish(p))
  <2>1. ASSUME NEW a \in Adders, Add(a) PROVE p = a
    BY <1>1, <2>1 DEF Add, AddLock, AddWrite, AddPublish, AddUnlock, Transition, IInv, TypeOk
  <2>2. ASSUME NEW r \in Readers, LoadVersion(r) \/ CachedHelperScope(r) \/ Finish(r)
        PROVE  p = r
    BY <1>1, <2>2 DEF LoadVersion, CachedHelperScope, Finish, FastHit, FastMiss, Lock,
      RecheckHit, RecheckMiss, Snapshot, SnapshotHit, Store, Transition, IInv, TypeOk
  <2> QED
    BY <1>1, <2>1, <2>2 DEF Next, vars
<1>2. ASSUME IInv, [Next]_vars, NEW r \in Readers PROVE CallAdvances(r)
  <2>1. CASE CachedHelperScope(r)
    BY <1>2, <2>1 DEF CachedHelperScope, FastHit, FastMiss, Lock, RecheckHit, RecheckMiss,
      Snapshot, SnapshotHit, Store, Transition, CallSteps, CallAdvances, IInv, TypeOk
  <2>2. CASE pc'[r] = pc[r] /\ ~CachedHelperScope(r)
    BY <2>2 DEF CallSteps, CallAdvances
  <2>3. CASE LoadVersion(r) \/ Finish(r)
    BY <2>3 DEF LoadVersion, Finish, Transition, Calling, Building,
      CallAdvances
  <2> QED
    BY <1>1, <1>2, <2>1, <2>2, <2>3, DisjointAssumption
<1>3. ASSUME IInv, [Next]_vars, NEW a \in Adders PROVE AddAdvances(a)
  <2>1. CASE Add(a)
    BY <1>3, <2>1 DEF Add, AddLock, AddWrite, AddPublish, AddUnlock, Transition, AddSteps, AddAdvances,
      IInv, TypeOk
  <2>2. CASE pc'[a] = pc[a] /\ ~Add(a)
    BY <2>2 DEF AddSteps, AddAdvances
  <2> QED
    BY <1>1, <1>3, <2>1, <2>2, DisjointAssumption
<1>4. IInv /\ [Next]_vars =>
        [(\A r \in Readers : CallAdvances(r)) /\ (\A a \in Adders : AddAdvances(a))]_vars
  BY <1>2, <1>3
<1> QED
  BY <1>4, Invariance, PTL DEF Spec, CallsAdvance

=============================================================================
