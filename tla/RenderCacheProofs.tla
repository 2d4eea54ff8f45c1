-------------------------- MODULE RenderCacheProofs --------------------------
(***************************************************************************)
(* Proofs about RenderCache.  The invariant IInv has two layers: TInv says *)
(* of every step what a render has at hand there, for any set of texts;    *)
(* OInv, where every text has a hash, adds that cache entries are of one   *)
(* text and that a render which brings its text along works on that text   *)
(* at every point of its pipeline.  What a step does to a render is stated *)
(* with Becomes, and the lemmas MoveKeeps, AstKeeps and FullKeeps reduce   *)
(* the preservation of IInv to that one render and the entry it stores.    *)
(* The last sections prove that the pipelines implement SkeletonShelf, and *)
(* that a render has a bounded number of steps, however it falls back.     *)
(***************************************************************************)
EXTENDS Integers, RenderCache, TLAPS

\* Where a render has the program or the bytecode it is about to use.
Loaded == {"cacheGet", "cacheSet", "parseGet", "parseSet", "exec", "checkFull",
           "checkAST", "storeBlank", "storeFull", "deferred"}

\* Where only renders that know their source are.
Compiling == {"lookupAgain", "program", "cacheGet", "cacheSet", "parse", "parseGet",
              "parseSet", "deferred"}

\* Where a skeleton is about to be stored.
Storing == {"checkFull", "checkAST", "storeBlank", "storeFull", "deferred"}

\* Where only the VM is.
VMOnly == {"lookupBytecode", "lookupAgain", "program", "cacheGet", "cacheSet",
           "checkFull", "checkAST", "storeBlank", "storeFull"}

\* Where only the interpreter is.
InterpreterOnly == {"parse", "parseGet", "parseSet", "deferred"}

\* Where no render has an answer.
Unanswered == {"idle", "lookupBytecode", "lookupAST", "lookupFull", "lookupAgain", "program",
               "cacheGet", "cacheSet", "parse", "parseGet", "parseSet", "exec"}

\* One render, by its point p, call k, locals w and answer c.
LocalOk(p, k, w, c) ==
    /\ p \in Points /\ k \in Calls /\ w \in Works /\ c \in Answers \cup {NoAnswer}
    /\ p \in {"idle", "lookupBytecode"} => w = BlankWork
    /\ p \in Unanswered => c = NoAnswer
    /\ p \in Loaded => w.running \in Sources
    /\ p \in Storing => w.running \in HoleSources /\ c.origin = "executed"
    /\ p \in Storing \cup {"fill"} => c \in Answers
    /\ p = "fill" /\ c.origin = "executed" => w.running \in HoleSources
    /\ p \in VMOnly => k.engine # "interpreter"
    /\ p \in InterpreterOnly => k.engine = "interpreter"
    /\ k.trusted => /\ k.key = NoHash /\ k.engine = "vm" /\ p \notin Compiling
                    /\ p \in {"lookupAST", "lookupFull"} => w.running \in Sources

Typed ==
    /\ ast \in [Files -> Entries \cup {NoEntry}]
    /\ full \in [Keys -> Skeletons \cup {NoEntry}]
    /\ current \in [Files -> Sources]
    /\ expected \in [Renders -> Maybe(Sources)]
    /\ pc \in [Renders -> Points]
    /\ call \in [Renders -> Calls]
    /\ work \in [Renders -> Works]
    /\ chosen \in [Renders -> Answers \cup {NoAnswer}]

LocalInv == \A r \in Renders : LocalOk(pc[r], call[r], work[r], chosen[r])

TInv == Typed /\ LocalInv

\* No text is empty.
AllHashed == Blank \notin Sources

\* One render, when every text has a hash.
OwnOk(p, k, w, c) ==
    /\ ~k.trusted => /\ k.key = k.source
                     /\ w.running \in Maybe({k.source}) /\ w.program \in Maybe({k.source})
                     /\ c # NoAnswer => c.source = k.source
    /\ p \in {"cacheSet", "parseSet"} => EntryCoherent(w.entry)
    /\ p \in Storing => Skeletal(w.running)
    /\ (/\ k.engine = "interpreter"
        /\ \/ p \in {"parseGet", "parseSet", "exec"}
           \/ p = "fill" /\ c.origin = "executed")
       => (w.writes <=> w.running \in WriteSources)
    /\ c # NoAnswer /\ c.source \in WriteSources => c.origin = "executed"

OwnInv == \A r \in Renders : OwnOk(pc[r], call[r], work[r], chosen[r])

\* No skeleton of a text with context writes is in the cache.
ShelfClean == \A k \in Keys : full[k] # NoEntry => Skeletal(full[k].skeleton)

OInv == CacheCoherent /\ ShelfClean /\ OwnInv

IInv == TInv /\ (AllHashed => OInv)

\* What a step makes of render r.
Becomes(r, p, k, w, c) ==
    /\ pc' = [pc EXCEPT ![r] = p]
    /\ call' = [call EXCEPT ![r] = k]
    /\ work' = [work EXCEPT ![r] = w]
    /\ chosen' = [chosen EXCEPT ![r] = c]

\* What is known of render r as it takes its next step.
Own(r) ==
    /\ OwnOk(pc[r], call[r], work[r], chosen[r])
    /\ Ast(r) # NoEntry => EntryCoherent(Ast(r))
    /\ Full(r) # NoEntry => /\ Full(r).hash \in {Full(r).skeleton, NoHash}
                            /\ Skeletal(Full(r).skeleton)

-----------------------------------------------------------------------------
\* The invariant at one render.
LEMMA Here ==
    ASSUME IInv, NEW r \in Renders
    PROVE  /\ LocalOk(pc[r], call[r], work[r], chosen[r])
           /\ call[r] \in Calls /\ work[r] \in Works
           /\ call[r].file \in Files /\ FullKey(r) \in Keys
           /\ Source(r) \in Sources /\ Hash(r) \in Sources \cup {NoHash}
           /\ Ast(r) \in Entries \cup {NoEntry} /\ Full(r) \in Skeletons \cup {NoEntry}
           /\ AllHashed => Own(r)
<1>1. /\ LocalOk(pc[r], call[r], work[r], chosen[r])
      /\ call[r] \in Calls /\ work[r] \in Works
      /\ call[r].file \in Files /\ FullKey(r) \in Keys
      /\ Source(r) \in Sources /\ Hash(r) \in Sources \cup {NoHash}
      /\ Ast(r) \in Entries \cup {NoEntry} /\ Full(r) \in Skeletons \cup {NoEntry}
  BY DEF IInv, TInv, Typed, LocalInv, Calls, FullKey, Keys, Source, Hash, Ast, Full
<1>2. AllHashed => Own(r)
  BY <1>1 DEF IInv, OInv, OwnInv, CacheCoherent, ShelfClean, Own, Ast, Full
<1> QED
  BY <1>1, <1>2

\* A step that changes one render keeps the invariant of all of them.
LEMMA LocalFrame ==
    ASSUME IInv, NEW r \in Renders, NEW p, NEW k, NEW w, NEW c,
           Becomes(r, p, k, w, c), LocalOk(p, k, w, c), AllHashed => OwnOk(p, k, w, c)
    PROVE  /\ LocalInv' /\ (AllHashed => OwnInv')
           /\ pc' \in [Renders -> Points] /\ call' \in [Renders -> Calls]
           /\ work' \in [Renders -> Works] /\ chosen' \in [Renders -> Answers \cup {NoAnswer}]
<1>1. /\ p \in Points /\ k \in Calls /\ w \in Works /\ c \in Answers \cup {NoAnswer}
  BY DEF LocalOk
<1>2. ASSUME NEW x \in Renders
      PROVE  /\ LocalOk(pc'[x], call'[x], work'[x], chosen'[x])
             /\ AllHashed => OwnOk(pc'[x], call'[x], work'[x], chosen'[x])
  <2>1. CASE x = r
    BY <2>1 DEF IInv, TInv, Typed, Becomes
  <2>2. CASE x # r
    BY <2>2 DEF IInv, TInv, OInv, Becomes, LocalInv, OwnInv
  <2> QED
    BY <2>1, <2>2
<1>3. LocalInv' /\ (AllHashed => OwnInv')
  BY <1>2 DEF LocalInv, OwnInv
<1> QED
  BY <1>1, <1>3 DEF IInv, TInv, Typed, Becomes

\* A step of one render that stores nothing.
LEMMA MoveKeeps ==
    ASSUME IInv, NEW r \in Renders, NEW p, NEW k, NEW w, NEW c,
           Becomes(r, p, k, w, c), LocalOk(p, k, w, c), AllHashed => OwnOk(p, k, w, c),
           UNCHANGED <<cacheVars, current>>, expected' \in [Renders -> Maybe(Sources)]
    PROVE  IInv'
<1>1. TInv'
  BY LocalFrame DEF IInv, TInv, Typed, cacheVars
<1>2. AllHashed => OInv'
  BY LocalFrame DEF IInv, OInv, CacheCoherent, ShelfClean, cacheVars
<1> QED
  BY <1>1, <1>2 DEF IInv, AllHashed

\* A step that stores entry e under the "ast" key of a render's file.
LEMMA AstKeeps ==
    ASSUME IInv, NEW r \in Renders, NEW p, NEW k, NEW w, NEW c,
           Becomes(r, p, k, w, c), LocalOk(p, k, w, c), AllHashed => OwnOk(p, k, w, c),
           NEW e \in Entries \cup {NoEntry}, AllHashed => EntryCoherent(e),
           ast' = [ast EXCEPT ![call[r].file] = e],
           UNCHANGED <<full, current, expected>>
    PROVE  IInv'
<1>1. TInv'
  BY LocalFrame DEF IInv, TInv, Typed
<1>2. ASSUME AllHashed, NEW f \in Files, ast'[f] # NoEntry PROVE EntryCoherent(ast'[f])
  <2>1. CASE f = call[r].file
    BY <1>2, <2>1 DEF IInv, TInv, Typed
  <2>2. CASE f # call[r].file
    BY <1>2 DEF IInv, OInv, CacheCoherent
  <2> QED
    BY <2>1, <2>2
<1>3. AllHashed => CacheCoherent'
  BY <1>2 DEF IInv, OInv, CacheCoherent
<1>4. AllHashed => OInv'
  BY <1>3, LocalFrame DEF IInv, OInv, ShelfClean
<1> QED
  BY <1>1, <1>4 DEF IInv, AllHashed

\* A step that stores skeleton e under the "full" key of a render's URL.
LEMMA FullKeeps ==
    ASSUME IInv, NEW r \in Renders, NEW p, NEW k, NEW w, NEW c,
           Becomes(r, p, k, w, c), LocalOk(p, k, w, c), AllHashed => OwnOk(p, k, w, c),
           NEW e \in Skeletons,
           AllHashed => e.hash \in {e.skeleton, NoHash} /\ Skeletal(e.skeleton),
           full' = [full EXCEPT ![FullKey(r)] = e],
           UNCHANGED <<ast, current, expected>>
    PROVE  IInv'
<1>1. TInv'
  BY LocalFrame DEF IInv, TInv, Typed
<1>2. ASSUME AllHashed, NEW x \in Keys, full'[x] # NoEntry
      PROVE  full'[x].hash \in {full'[x].skeleton, NoHash} /\ Skeletal(full'[x].skeleton)
  <2>1. CASE x = FullKey(r)
    BY <1>2, <2>1 DEF IInv, TInv, Typed
  <2>2. CASE x # FullKey(r)
    BY <1>2 DEF IInv, OInv, CacheCoherent, ShelfClean
  <2> QED
    BY <2>1, <2>2
<1>3. AllHashed => CacheCoherent' /\ ShelfClean'
  BY <1>2 DEF IInv, OInv, CacheCoherent, ShelfClean
<1>4. AllHashed => OInv'
  BY <1>3, LocalFrame DEF IInv, OInv
<1> QED
  BY <1>1, <1>4 DEF IInv, AllHashed

-----------------------------------------------------------------------------
\* An entry that matches a render that brings its text along is of that text.
LEMMA MatchedAst ==
    ASSUME IInv, AllHashed, NEW r \in Renders, ~call[r].trusted,
           NEW hash \in {Hash(r), SourceHash(Source(r))}, Matches(Ast(r), hash)
    PROVE  /\ Ast(r) \in Entries /\ Ast(r).hash = Source(r)
           /\ Ast(r).program \in {Source(r), NoSource}
           /\ Ast(r).bytecode \in {Source(r), NoSource}
           /\ Ast(r).program = Source(r) \/ Ast(r).bytecode = Source(r)
                => (Ast(r).writes <=> Source(r) \in WriteSources)
           /\ Ast(r).writes => Source(r) \in WriteSources
<1>1. hash = Source(r) /\ hash # NoHash
  BY Here, ValuesAssumption DEF Own, OwnOk, Hash, Source, SourceHash
<1>2. Ast(r) \in Entries /\ Ast(r).hash = Source(r) /\ EntryCoherent(Ast(r))
  BY <1>1, Here DEF Matches, Own
<1>3. Ast(r).writes <=> \E s \in {Ast(r).program, Ast(r).bytecode} : s \in WriteSources
  BY <1>2 DEF EntryCoherent
<1>4. NoSource \notin WriteSources
  BY SourcesAssumption, ValuesAssumption
<1>5. /\ Ast(r).program \in {Source(r), NoSource}
      /\ Ast(r).bytecode \in {Source(r), NoSource}
  BY <1>2 DEF EntryCoherent
<1>6. Ast(r).writes => Source(r) \in WriteSources
  BY <1>3, <1>4, <1>5
<1>7. Ast(r).program = Source(r) \/ Ast(r).bytecode = Source(r)
        => (Ast(r).writes <=> Source(r) \in WriteSources)
  BY <1>3, <1>6
<1> QED
  BY <1>2, <1>5, <1>6, <1>7

\* And so is a skeleton.
LEMMA MatchedFull ==
    ASSUME IInv, AllHashed, NEW r \in Renders, ~call[r].trusted, Matches(Full(r), Hash(r))
    PROVE  Full(r).skeleton = Source(r)
<1>1. Hash(r) = Source(r) /\ Hash(r) # NoHash
  BY Here, ValuesAssumption DEF Own, OwnOk, Hash, Source
<1> QED
  BY <1>1, Here DEF Matches, Own

-----------------------------------------------------------------------------
\* Bytecode that is found is that of the render's own text.
LEMMA BytecodeHitKeeps == ASSUME IInv, NEW r \in Renders, BytecodeHit(r) PROVE IInv'
<1> DEFINE p == IF Skeletal(Ast(r).bytecode) THEN "lookupAST" ELSE "exec"
           w == [work[r] EXCEPT !.running = Ast(r).bytecode]
<1>1. Ast(r).bytecode \in Sources
  BY Here DEF BytecodeHit, HasBytecode, Matches, Entries, Maybe
<1>2. w \in Works
  BY <1>1, Here DEF Works, Maybe
<1>3. LocalOk(p, call[r], w, chosen[r])
  BY <1>1, <1>2, Here
     DEF LocalOk, Points, Compiling, Unanswered, Storing, VMOnly, InterpreterOnly,
         BytecodeHit, Goto
<1>4. ASSUME AllHashed PROVE OwnOk(p, call[r], w, chosen[r])
  BY <1>4, Here, MatchedAst
     DEF Own, OwnOk, LocalOk, Storing, VMOnly, BytecodeHit, Goto, HasBytecode, Maybe, Source
<1>5. Becomes(r, p, call[r], w, chosen[r])
  BY DEF IInv, TInv, Typed, BytecodeHit, Goto, Becomes, callVars
<1>6. UNCHANGED <<cacheVars, current>> /\ expected' \in [Renders -> Maybe(Sources)]
  BY DEF IInv, TInv, Typed, BytecodeHit, callVars
<1> HIDE DEF p, w
<1> QED
  BY <1>3, <1>4, <1>5, <1>6, MoveKeeps

\* The interpreter starts with clean locals.
LEMMA BytecodeFallbackKeeps == ASSUME IInv, NEW r \in Renders, BytecodeFallback(r) PROVE IInv'
<1> DEFINE p == "lookupAST"
           k == [call[r] EXCEPT !.engine = "interpreter"]
           w == BlankWork
<1>1. k \in Calls /\ w \in Works
  BY Here DEF Calls, BlankWork, Works, Maybe
<1>2. k.trusted = FALSE
  BY Here DEF LocalOk, Calls, BytecodeFallback, FallsBack
<1>3. LocalOk(p, k, w, chosen[r])
  BY <1>1, <1>2, Here
     DEF LocalOk, Points, Loaded, Unanswered, Storing, VMOnly, BytecodeFallback, Goto,
         FallBack
<1>4. ASSUME AllHashed PROVE OwnOk(p, k, w, chosen[r])
  BY <1>4, Here DEF Own, OwnOk, Storing, BlankWork, Maybe
<1>5. Becomes(r, p, k, w, chosen[r])
  BY DEF IInv, TInv, Typed, BytecodeFallback, Goto, Becomes, FallBack
<1>6. UNCHANGED <<cacheVars, current>> /\ expected' \in [Renders -> Maybe(Sources)]
  BY DEF IInv, TInv, Typed, BytecodeFallback, FallBack
<1> HIDE DEF p, k, w
<1> QED
  BY <1>3, <1>4, <1>5, <1>6, MoveKeeps

\* A render that finds no bytecode goes on to look for a skeleton.
LEMMA BytecodeMissKeeps == ASSUME IInv, NEW r \in Renders, BytecodeMiss(r) PROVE IInv'
<1> DEFINE p == "lookupAST"
<1>1. LocalOk(p, call[r], work[r], chosen[r])
  BY Here
     DEF LocalOk, Points, Loaded, Unanswered, Storing, VMOnly, InterpreterOnly,
         BytecodeMiss, Goto
<1>2. ASSUME AllHashed PROVE OwnOk(p, call[r], work[r], chosen[r])
  BY <1>2, Here DEF Own, OwnOk, Storing
<1>3. Becomes(r, p, call[r], work[r], chosen[r])
  BY DEF IInv, TInv, Typed, BytecodeMiss, Goto, Becomes, callVars
<1>4. UNCHANGED <<cacheVars, current>> /\ expected' \in [Renders -> Maybe(Sources)]
  BY DEF IInv, TInv, Typed, BytecodeMiss, callVars
<1> HIDE DEF p
<1> QED
  BY <1>1, <1>2, <1>3, <1>4, MoveKeeps

\* A trusted render that misses knows its text from then on.
LEMMA TrustedMissKeeps == ASSUME IInv, NEW r \in Renders, TrustedMiss(r) PROVE IInv'
<1> DEFINE p == "lookupBytecode"
           k == [call[r] EXCEPT !.source = current[call[r].file],
                                !.key = CacheHash(current[call[r].file]), !.trusted = FALSE]
<1>1. CacheHash(current[call[r].file]) \in Sources \cup {NoHash}
  BY Here DEF IInv, TInv, Typed, CacheHash, SourceHash
<1>2. k \in Calls
  BY <1>1, Here DEF Calls, IInv, TInv, Typed
<1>3. LocalOk(p, k, work[r], chosen[r])
  BY <1>2, Here DEF LocalOk, TrustedMiss
<1>4. ASSUME AllHashed PROVE OwnOk(p, k, work[r], chosen[r])
  BY <1>4, <1>1, <1>2, Here
     DEF Own, OwnOk, LocalOk, Unanswered, Storing, VMOnly, InterpreterOnly, Compiling,
         TrustedMiss, Goto, CacheHash, SourceHash, AllHashed, BlankWork, Maybe, Calls, IInv,
         TInv, Typed
<1>5. Becomes(r, p, k, work[r], chosen[r])
  BY DEF IInv, TInv, Typed, TrustedMiss, Becomes
<1>6. UNCHANGED <<cacheVars, current>> /\ expected' \in [Renders -> Maybe(Sources)]
  BY DEF IInv, TInv, Typed, TrustedMiss, callVars
<1> HIDE DEF p, k
<1> QED
  BY <1>3, <1>4, <1>5, <1>6, MoveKeeps

\* Where a render goes on without a skeleton depends on its engine.
LEMMA LookupASTKeeps == ASSUME IInv, NEW r \in Renders, LookupAST(r) PROVE IInv'
<1> DEFINE p == IF AstUsable(r) THEN "lookupFull" ELSE AfterMiss(r)
<1>1. LocalOk(p, call[r], work[r], chosen[r])
  BY Here, ValuesAssumption
     DEF LocalOk, Points, Loaded, Compiling, Unanswered, Storing, VMOnly, InterpreterOnly,
         LookupAST, Goto, AfterMiss, Works, Maybe
<1>2. ASSUME AllHashed PROVE OwnOk(p, call[r], work[r], chosen[r])
  BY <1>2, Here DEF Own, OwnOk, Storing, AfterMiss
<1>3. Becomes(r, p, call[r], work[r], chosen[r])
  BY DEF IInv, TInv, Typed, LookupAST, Goto, Becomes, callVars
<1>4. UNCHANGED <<cacheVars, current>> /\ expected' \in [Renders -> Maybe(Sources)]
  BY DEF IInv, TInv, Typed, LookupAST, callVars
<1> HIDE DEF p
<1> QED
  BY <1>1, <1>2, <1>3, <1>4, MoveKeeps

\* The same, after the second lookup.
LEMMA SkeletonMissKeeps == ASSUME IInv, NEW r \in Renders, SkeletonMiss(r) PROVE IInv'
<1> DEFINE p == AfterMiss(r)
<1>1. LocalOk(p, call[r], work[r], chosen[r])
  BY Here, ValuesAssumption
     DEF LocalOk, Points, Loaded, Compiling, Unanswered, Storing, VMOnly, InterpreterOnly,
         SkeletonMiss, Goto, AfterMiss, Works, Maybe
<1>2. ASSUME AllHashed PROVE OwnOk(p, call[r], work[r], chosen[r])
  BY <1>2, Here DEF Own, OwnOk, Storing, AfterMiss
<1>3. Becomes(r, p, call[r], work[r], chosen[r])
  BY DEF IInv, TInv, Typed, SkeletonMiss, Goto, Becomes, callVars
<1>4. UNCHANGED <<cacheVars, current>> /\ expected' \in [Renders -> Maybe(Sources)]
  BY DEF IInv, TInv, Typed, SkeletonMiss, callVars
<1> HIDE DEF p
<1> QED
  BY <1>1, <1>2, <1>3, <1>4, MoveKeeps

\* An expired skeleton leaves a note to replace it.
LEMMA SkeletonExpiredKeeps == ASSUME IInv, NEW r \in Renders, SkeletonExpired(r) PROVE IInv'
<1> DEFINE p == AfterMiss(r)
           w == [work[r] EXCEPT !.force = TRUE]
<1>1. w \in Works /\ w.running = work[r].running
  BY Here DEF Works
<1>2. LocalOk(p, call[r], w, chosen[r])
  BY <1>1, Here, ValuesAssumption
     DEF LocalOk, Points, Loaded, Compiling, Unanswered, Storing, VMOnly, InterpreterOnly,
         SkeletonExpired, Goto, AfterMiss, Works, Maybe
<1>3. ASSUME AllHashed PROVE OwnOk(p, call[r], w, chosen[r])
  BY <1>3, Here DEF Own, OwnOk, Storing, AfterMiss
<1>4. Becomes(r, p, call[r], w, chosen[r])
  BY DEF IInv, TInv, Typed, SkeletonExpired, Goto, Becomes, callVars
<1>5. UNCHANGED <<cacheVars, current>> /\ expected' \in [Renders -> Maybe(Sources)]
  BY DEF IInv, TInv, Typed, SkeletonExpired, callVars
<1> HIDE DEF p, w
<1> QED
  BY <1>2, <1>3, <1>4, <1>5, MoveKeeps

\* A skeleton that is found is of the render's own text, which has no writes.
LEMMA SkeletonHitKeeps == ASSUME IInv, NEW r \in Renders, SkeletonHit(r) PROVE IInv'
<1> DEFINE p == "fill"
           c == [source |-> Full(r).skeleton, origin |-> "served"]
<1>1. c \in Answers
  BY Here DEF SkeletonHit, Matches, Skeletons, Answers
<1>2. LocalOk(p, call[r], work[r], c)
  BY <1>1, Here
     DEF LocalOk, Points, Loaded, Compiling, Unanswered, Storing, VMOnly, InterpreterOnly
<1>3. ASSUME AllHashed PROVE OwnOk(p, call[r], work[r], c)
  BY <1>3, Here, MatchedFull DEF Own, OwnOk, Storing, SkeletonHit, Matches, Skeletal, Source
<1>4. Becomes(r, p, call[r], work[r], c)
  BY DEF IInv, TInv, Typed, SkeletonHit, Goto, Becomes, callVars, Choose
<1>5. UNCHANGED <<cacheVars, current>> /\ expected' \in [Renders -> Maybe(Sources)]
  BY DEF IInv, TInv, Typed, SkeletonHit, callVars
<1> HIDE DEF p, c
<1> QED
  BY <1>2, <1>3, <1>4, <1>5, MoveKeeps

\* The second lookup of bytecode is like the first.
LEMMA LookupAgainHitKeeps == ASSUME IInv, NEW r \in Renders, LookupAgainHit(r) PROVE IInv'
<1> DEFINE p == "exec"
           w == [work[r] EXCEPT !.running = Ast(r).bytecode]
<1>1. Ast(r).bytecode \in Sources
  BY Here DEF LookupAgainHit, HasBytecode, Matches, Entries, Maybe
<1>2. w \in Works
  BY <1>1, Here DEF Works, Maybe
<1>3. LocalOk(p, call[r], w, chosen[r])
  BY <1>1, <1>2, Here
     DEF LocalOk, Points, Compiling, Unanswered, Storing, VMOnly, InterpreterOnly,
         LookupAgainHit, Goto
<1>4. ASSUME AllHashed PROVE OwnOk(p, call[r], w, chosen[r])
  BY <1>4, Here, MatchedAst
     DEF Own, OwnOk, LocalOk, Storing, VMOnly, LookupAgainHit, Goto, HasBytecode, Maybe,
         Source
<1>5. Becomes(r, p, call[r], w, chosen[r])
  BY DEF IInv, TInv, Typed, LookupAgainHit, Goto, Becomes, callVars
<1>6. UNCHANGED <<cacheVars, current>> /\ expected' \in [Renders -> Maybe(Sources)]
  BY DEF IInv, TInv, Typed, LookupAgainHit, callVars
<1> HIDE DEF p, w
<1> QED
  BY <1>3, <1>4, <1>5, <1>6, MoveKeeps

\* And so is its fallback.
LEMMA LookupAgainFallbackKeeps ==
    ASSUME IInv, NEW r \in Renders, LookupAgainFallback(r) PROVE IInv'
<1> DEFINE p == "lookupAST"
           k == [call[r] EXCEPT !.engine = "interpreter"]
           w == BlankWork
<1>1. k \in Calls /\ w \in Works
  BY Here DEF Calls, BlankWork, Works, Maybe
<1>2. k.trusted = FALSE
  BY Here DEF LocalOk, Calls, LookupAgainFallback, FallsBack
<1>3. LocalOk(p, k, w, chosen[r])
  BY <1>1, <1>2, Here
     DEF LocalOk, Points, Loaded, Unanswered, Storing, VMOnly, LookupAgainFallback, Goto,
         FallBack
<1>4. ASSUME AllHashed PROVE OwnOk(p, k, w, chosen[r])
  BY <1>4, Here DEF Own, OwnOk, Storing, BlankWork, Maybe
<1>5. Becomes(r, p, k, w, chosen[r])
  BY DEF IInv, TInv, Typed, LookupAgainFallback, Goto, Becomes, FallBack
<1>6. UNCHANGED <<cacheVars, current>> /\ expected' \in [Renders -> Maybe(Sources)]
  BY DEF IInv, TInv, Typed, LookupAgainFallback, FallBack
<1> HIDE DEF p, k, w
<1> QED
  BY <1>3, <1>4, <1>5, <1>6, MoveKeeps

\* Without bytecode, the program is next.
LEMMA LookupAgainMissKeeps == ASSUME IInv, NEW r \in Renders, LookupAgainMiss(r) PROVE IInv'
<1> DEFINE p == "program"
<1>1. LocalOk(p, call[r], work[r], chosen[r])
  BY Here
     DEF LocalOk, Points, Loaded, Compiling, Unanswered, Storing, VMOnly, InterpreterOnly,
         LookupAgainMiss, Goto
<1>2. ASSUME AllHashed PROVE OwnOk(p, call[r], work[r], chosen[r])
  BY <1>2, Here DEF Own, OwnOk, Storing
<1>3. Becomes(r, p, call[r], work[r], chosen[r])
  BY DEF IInv, TInv, Typed, LookupAgainMiss, Goto, Becomes, callVars
<1>4. UNCHANGED <<cacheVars, current>> /\ expected' \in [Renders -> Maybe(Sources)]
  BY DEF IInv, TInv, Typed, LookupAgainMiss, callVars
<1> HIDE DEF p
<1> QED
  BY <1>1, <1>2, <1>3, <1>4, MoveKeeps

\* A program that is found is that of the render's own text.
LEMMA ProgramFromCacheKeeps == ASSUME IInv, NEW r \in Renders, ProgramFromCache(r) PROVE IInv'
<1> DEFINE p == "cacheGet"
           w == [work[r] EXCEPT !.running = Ast(r).program, !.program = Ast(r).program]
<1>1. Ast(r).program \in Sources
  BY Here DEF ProgramFromCache, HasProgram, Matches, Entries, Maybe
<1>2. w \in Works /\ w.running \in Sources
  BY <1>1, Here DEF Works, Maybe
<1>3. LocalOk(p, call[r], w, chosen[r])
  BY <1>2, Here
     DEF LocalOk, Points, Compiling, Unanswered, Storing, VMOnly, InterpreterOnly,
         ProgramFromCache, Goto
<1>4. ASSUME AllHashed PROVE OwnOk(p, call[r], w, chosen[r])
  BY <1>4, Here, MatchedAst
     DEF Own, OwnOk, Storing, ProgramFromCache, HasProgram, Maybe, Source
<1>5. Becomes(r, p, call[r], w, chosen[r])
  BY DEF IInv, TInv, Typed, ProgramFromCache, Goto, Becomes, callVars
<1>6. UNCHANGED <<cacheVars, current>> /\ expected' \in [Renders -> Maybe(Sources)]
  BY DEF IInv, TInv, Typed, ProgramFromCache, callVars
<1> HIDE DEF p, w
<1> QED
  BY <1>3, <1>4, <1>5, <1>6, MoveKeeps

\* A text that is parsed is the render's own.
LEMMA ProgramParsedKeeps == ASSUME IInv, NEW r \in Renders, ProgramParsed(r) PROVE IInv'
<1> DEFINE p == IF Source(r) \in BadSources THEN "failed" ELSE "cacheGet"
           w == [work[r] EXCEPT !.running = Source(r)]
<1>1. w \in Works /\ w.running \in Sources
  BY Here DEF Works, Maybe
<1>2. LocalOk(p, call[r], w, chosen[r])
  BY <1>1, Here
     DEF LocalOk, Points, Compiling, Unanswered, Storing, VMOnly, InterpreterOnly,
         ProgramParsed, Goto
<1>3. ASSUME AllHashed PROVE OwnOk(p, call[r], w, chosen[r])
  BY <1>3, Here DEF Own, OwnOk, Storing, Maybe, Source
<1>4. Becomes(r, p, call[r], w, chosen[r])
  BY DEF IInv, TInv, Typed, ProgramParsed, Goto, Becomes, callVars
<1>5. UNCHANGED <<cacheVars, current>> /\ expected' \in [Renders -> Maybe(Sources)]
  BY DEF IInv, TInv, Typed, ProgramParsed, callVars
<1> HIDE DEF p, w
<1> QED
  BY <1>2, <1>3, <1>4, <1>5, MoveKeeps

\* The interpreter takes from an entry whether its text has writes.
LEMMA ParseCachedKeeps == ASSUME IInv, NEW r \in Renders, ParseCached(r) PROVE IInv'
<1> DEFINE p == "exec"
           w == [work[r] EXCEPT !.running = Ast(r).program, !.writes = Ast(r).writes,
                                !.isCache = TRUE]
<1>1. Ast(r).program \in Sources
  BY Here DEF ParseCached, HasProgram, Matches, Entries, Maybe
<1>2. Ast(r).writes \in BOOLEAN
  BY Here DEF ParseCached, HasProgram, Matches, Entries
<1>3. w \in Works /\ w.running \in Sources
  BY <1>1, <1>2, Here DEF Works, Maybe
<1>4. LocalOk(p, call[r], w, chosen[r])
  BY <1>3, Here
     DEF LocalOk, Points, Unanswered, Storing, VMOnly, InterpreterOnly, ParseCached, Goto
<1>5. ASSUME AllHashed PROVE OwnOk(p, call[r], w, chosen[r])
  BY <1>5, Here, MatchedAst
     DEF Own, OwnOk, LocalOk, Unanswered, Storing, VMOnly, InterpreterOnly, Compiling,
         ParseCached, Goto, HasProgram, Maybe, Source
<1>6. Becomes(r, p, call[r], w, chosen[r])
  BY DEF IInv, TInv, Typed, ParseCached, Goto, Becomes, callVars
<1>7. UNCHANGED <<cacheVars, current>> /\ expected' \in [Renders -> Maybe(Sources)]
  BY DEF IInv, TInv, Typed, ParseCached, callVars
<1> HIDE DEF p, w
<1> QED
  BY <1>4, <1>5, <1>6, <1>7, MoveKeeps

\* The interpreter finds out for itself.
LEMMA ParseNewKeeps == ASSUME IInv, NEW r \in Renders, ParseNew(r) PROVE IInv'
<1> DEFINE b == Source(r) \in WriteSources
           p == IF Source(r) \in BadSources THEN "failed" ELSE "parseGet"
           w == [work[r] EXCEPT !.running = Source(r), !.writes = b]
<1>1. b \in BOOLEAN
  OBVIOUS
<1>2. w \in Works /\ w.running \in Sources
  <2> HIDE DEF b
  <2> QED
    BY <1>1, Here DEF Works, Maybe
<1>3. LocalOk(p, call[r], w, chosen[r])
  BY <1>2, Here
     DEF LocalOk, Points, Unanswered, Storing, VMOnly, InterpreterOnly, ParseNew, Goto
<1>4. ASSUME AllHashed PROVE OwnOk(p, call[r], w, chosen[r])
  BY <1>4, <1>2, Here DEF Own, OwnOk, Storing, Works, Maybe, Source
<1>5. Becomes(r, p, call[r], w, chosen[r])
  BY DEF IInv, TInv, Typed, ParseNew, Goto, Becomes, callVars
<1>6. UNCHANGED <<cacheVars, current>> /\ expected' \in [Renders -> Maybe(Sources)]
  BY DEF IInv, TInv, Typed, ParseNew, callVars
<1> HIDE DEF b, p, w
<1> QED
  BY <1>3, <1>4, <1>5, <1>6, MoveKeeps

\* A run that fails leaves no answer.
LEMMA ExecFailsKeeps == ASSUME IInv, NEW r \in Renders, ExecFails(r) PROVE IInv'
<1> DEFINE p == "failed"
<1>1. LocalOk(p, call[r], work[r], chosen[r])
  BY Here
     DEF LocalOk, Points, Loaded, Compiling, Unanswered, Storing, VMOnly, InterpreterOnly
<1>2. ASSUME AllHashed PROVE OwnOk(p, call[r], work[r], chosen[r])
  BY <1>2, Here DEF Own, OwnOk, Storing
<1>3. Becomes(r, p, call[r], work[r], chosen[r])
  BY DEF IInv, TInv, Typed, ExecFails, Goto, Becomes, callVars
<1>4. UNCHANGED <<cacheVars, current>> /\ expected' \in [Renders -> Maybe(Sources)]
  BY DEF IInv, TInv, Typed, ExecFails, callVars
<1> HIDE DEF p
<1> QED
  BY <1>1, <1>2, <1>3, <1>4, MoveKeeps

\* Only a text with holes and, in the VM, without writes goes on to be stored.
LEMMA ExecKeeps == ASSUME IInv, NEW r \in Renders, Exec(r) PROVE IInv'
<1> DEFINE p == pc'[r]
           c == [source |-> work[r].running, origin |-> "executed"]
<1>1. work[r].running \in Sources
  BY Here DEF LocalOk, Loaded, Exec, Goto
<1>2. c \in Answers
  BY <1>1 DEF Answers
<1>3. /\ p \in {"done", "fill", "checkAST", "checkFull"}
      /\ p # "done" => work[r].running \in HoleSources
  BY DEF Exec, Goto, IInv, TInv, Typed
<1>4. p \in {"checkAST", "checkFull"} => Skeletal(work[r].running)
  BY DEF Exec, Goto, Skeletal
<1>5. LocalOk(p, call[r], work[r], c)
  BY <1>1, <1>2, <1>3, Here
     DEF LocalOk, Points, Compiling, Unanswered, Storing, VMOnly, InterpreterOnly, Exec,
         Goto
<1>6. ASSUME AllHashed PROVE OwnOk(p, call[r], work[r], c)
  <2>1. ~call[r].trusted => c.source = call[r].source
    BY <1>6, <1>1, Here, ValuesAssumption DEF Own, OwnOk, Maybe
  <2>2. call[r].engine = "interpreter" => (work[r].writes <=> work[r].running \in WriteSources)
    BY <1>6, Here DEF Own, OwnOk, Exec, Goto
  <2>3. p \in {"done", "fill", "checkAST", "checkFull"} /\ c.origin = "executed"
    BY <1>3
  <2> HIDE DEF p, c
  <2> QED
    BY <1>6, <1>4, <2>1, <2>2, <2>3, Here DEF Own, OwnOk, Storing
<1>7. Becomes(r, p, call[r], work[r], c)
  BY DEF IInv, TInv, Typed, Exec, Goto, Becomes, callVars, Choose
<1>8. UNCHANGED <<cacheVars, current>> /\ expected' \in [Renders -> Maybe(Sources)]
  BY DEF IInv, TInv, Typed, Exec, callVars
<1> HIDE DEF p, c
<1> QED
  BY <1>5, <1>6, <1>7, <1>8, MoveKeeps

\* Before it stores a skeleton, the VM looks whether there is one,
LEMMA CheckFullKeeps == ASSUME IInv, NEW r \in Renders, CheckFull(r) PROVE IInv'
<1> DEFINE p == IF Matches(Full(r), Hash(r)) THEN "fill" ELSE "checkAST"
<1>1. LocalOk(p, call[r], work[r], chosen[r])
  BY Here
     DEF LocalOk, Points, Loaded, Compiling, Unanswered, Storing, VMOnly, InterpreterOnly,
         CheckFull, Goto
<1>2. ASSUME AllHashed PROVE OwnOk(p, call[r], work[r], chosen[r])
  BY <1>2, Here DEF Own, OwnOk, LocalOk, Storing, VMOnly, CheckFull, Goto
<1>3. Becomes(r, p, call[r], work[r], chosen[r])
  BY DEF IInv, TInv, Typed, CheckFull, Goto, Becomes, callVars
<1>4. UNCHANGED <<cacheVars, current>> /\ expected' \in [Renders -> Maybe(Sources)]
  BY DEF IInv, TInv, Typed, CheckFull, callVars
<1> HIDE DEF p
<1> QED
  BY <1>1, <1>2, <1>3, <1>4, MoveKeeps

\* and whether the entry says that the text has writes.
LEMMA CheckASTKeeps == ASSUME IInv, NEW r \in Renders, CheckAST(r) PROVE IInv'
<1> DEFINE p == IF ~Matches(Ast(r), Hash(r)) THEN "storeBlank"
                ELSE IF Ast(r).writes THEN "fill" ELSE "storeFull"
<1>1. LocalOk(p, call[r], work[r], chosen[r])
  BY Here
     DEF LocalOk, Points, Loaded, Compiling, Unanswered, Storing, VMOnly, InterpreterOnly,
         CheckAST, Goto
<1>2. ASSUME AllHashed PROVE OwnOk(p, call[r], work[r], chosen[r])
  BY <1>2, Here DEF Own, OwnOk, LocalOk, Storing, VMOnly, CheckAST, Goto
<1>3. Becomes(r, p, call[r], work[r], chosen[r])
  BY DEF IInv, TInv, Typed, CheckAST, Goto, Becomes, callVars
<1>4. UNCHANGED <<cacheVars, current>> /\ expected' \in [Renders -> Maybe(Sources)]
  BY DEF IInv, TInv, Typed, CheckAST, callVars
<1> HIDE DEF p
<1> QED
  BY <1>1, <1>2, <1>3, <1>4, MoveKeeps

\* The interpreter goes on to store what it has executed and has no writes.
LEMMA FillKeeps == ASSUME IInv, NEW r \in Renders, Fill(r) PROVE IInv'
<1> DEFINE p == IF Stores(r) THEN "deferred" ELSE "done"
<1>1. LocalOk(p, call[r], work[r], chosen[r])
  BY Here, SourcesAssumption
     DEF LocalOk, Points, Loaded, Compiling, Unanswered, Storing, VMOnly, InterpreterOnly,
         Fill, Goto, Stores
<1>2. ASSUME AllHashed PROVE OwnOk(p, call[r], work[r], chosen[r])
  BY <1>2, Here DEF Own, OwnOk, LocalOk, Storing, Fill, Goto, Stores, Skeletal
<1>3. Becomes(r, p, call[r], work[r], chosen[r])
  BY DEF IInv, TInv, Typed, Fill, Goto, Becomes, callVars
<1>4. UNCHANGED <<cacheVars, current>> /\ expected' \in [Renders -> Maybe(Sources)]
  BY DEF IInv, TInv, Typed, Fill, callVars
<1> HIDE DEF p
<1> QED
  BY <1>1, <1>2, <1>3, <1>4, MoveKeeps

\* The entry that the VM builds is coherent: it is extended only if it is of the
\* same text.
LEMMA CacheGetKeeps == ASSUME IInv, NEW r \in Renders, CacheGet(r) PROVE IInv'
<1> DEFINE base == IF Matches(Ast(r), Hash(r)) THEN Ast(r) ELSE BlankEntry(NoHash)
           program == work[r].program
           writes == IF program # NoSource THEN program \in WriteSources ELSE base.writes
           marked == writes \/ work[r].running \in WriteSources
           e == [hash |-> Hash(r),
                 program |-> IF program # NoSource THEN program ELSE base.program,
                 bytecode |-> work[r].running, writes |-> marked]
           w == [work[r] EXCEPT !.entry = e]
<1>1. base \in Entries
  BY Here DEF Matches, BlankEntry, Entries, Maybe
<1>2. marked \in BOOLEAN
  BY Zenon
<1>3. work[r].running \in Sources /\ program \in Maybe(Sources)
  BY Here DEF LocalOk, Loaded, CacheGet, Goto, Works
<1>4. e \in Entries
  <2> HIDE DEF base, marked, program
  <2> QED
    BY <1>1, <1>2, <1>3, Here DEF Entries, Maybe
<1>5. w \in Works /\ w.running = work[r].running
  <2> HIDE DEF e
  <2> QED
    BY <1>4, Here DEF Works
<1>6. Becomes(r, "cacheSet", call[r], w, chosen[r])
  BY DEF IInv, TInv, Typed, CacheGet, Goto, Becomes, callVars
<1>7. LocalOk("cacheSet", call[r], w, chosen[r])
  <2> HIDE DEF w
  <2> QED
    BY <1>3, <1>5, Here
       DEF LocalOk, Points, Compiling, Unanswered, Storing, VMOnly, InterpreterOnly,
           CacheGet, Goto
<1>8. ASSUME AllHashed PROVE OwnOk("cacheSet", call[r], w, chosen[r])
  <2>1. /\ ~call[r].trusted /\ call[r].engine # "interpreter"
        /\ Hash(r) = Source(r) /\ work[r].running = Source(r)
        /\ program \in {Source(r), NoSource}
    BY <1>3, <1>8, Here, ValuesAssumption
       DEF LocalOk, Own, OwnOk, Compiling, VMOnly, CacheGet, Goto, Hash, Source, Maybe
  <2>2. /\ base.program \in {Source(r), NoSource}
        /\ base.writes => Source(r) \in WriteSources
    BY <1>8, <2>1, MatchedAst DEF BlankEntry
  <2>3. writes => Source(r) \in WriteSources
    BY <2>1, <2>2
  <2>4. marked = (Source(r) \in WriteSources)
    BY <2>1, <2>3
  <2>5. (\E s \in {e.program, e.bytecode} : s \in WriteSources) <=> Source(r) \in WriteSources
    <3>1. e.bytecode = Source(r) /\ e.program \in {Source(r), NoSource}
      BY <2>1, <2>2
    <3>2. NoSource \notin WriteSources
      BY SourcesAssumption, ValuesAssumption
    <3> HIDE DEF e
    <3> QED
      BY <3>1, <3>2
  <2>6. EntryCoherent(e)
    BY <2>1, <2>2, <2>4, <2>5 DEF EntryCoherent
  <2>7. w.entry = e /\ w.running = work[r].running /\ w.program = work[r].program
    BY Here DEF Works
  <2> HIDE DEF w, e
  <2> QED
    BY <1>8, <2>6, <2>7, Here DEF Own, OwnOk, Storing
<1>9. UNCHANGED <<cacheVars, current>> /\ expected' \in [Renders -> Maybe(Sources)]
  BY DEF IInv, TInv, Typed, CacheGet, callVars
<1> HIDE DEF w
<1> QED
  BY <1>6, <1>7, <1>8, <1>9, MoveKeeps

\* The entry that the interpreter builds is coherent.
LEMMA ParseGetKeeps == ASSUME IInv, NEW r \in Renders, ParseGet(r) PROVE IInv'
<1> DEFINE same == Matches(Ast(r), SourceHash(Source(r)))
           marked == work[r].writes \/ (same /\ Ast(r).writes)
           e == [hash |-> SourceHash(Source(r)), program |-> work[r].running,
                 bytecode |-> IF same THEN Ast(r).bytecode ELSE NoSource,
                 writes |-> marked]
           w == [work[r] EXCEPT !.entry = e]
<1>1. same => Ast(r) \in Entries
  BY Here DEF Matches
<1>2. marked \in BOOLEAN
  BY Zenon
<1>3. work[r].running \in Sources
  BY Here DEF LocalOk, Loaded, ParseGet, Goto
<1>4. e \in Entries
  <2> HIDE DEF same, marked
  <2> QED
    BY <1>1, <1>2, <1>3, Here DEF Entries, Maybe, SourceHash
<1>5. w \in Works /\ w.running = work[r].running
  <2> HIDE DEF e
  <2> QED
    BY <1>4, Here DEF Works
<1>6. Becomes(r, "parseSet", call[r], w, chosen[r])
  BY DEF IInv, TInv, Typed, ParseGet, Goto, Becomes, callVars
<1>7. LocalOk("parseSet", call[r], w, chosen[r])
  <2> HIDE DEF w
  <2> QED
    BY <1>3, <1>5, Here
       DEF LocalOk, Points, Unanswered, Storing, VMOnly, InterpreterOnly, ParseGet, Goto
<1>8. ASSUME AllHashed PROVE OwnOk("parseSet", call[r], w, chosen[r])
  <2>1. ~call[r].trusted /\ work[r].running = Source(r)
    BY <1>3, <1>8, Here, ValuesAssumption
       DEF LocalOk, Own, OwnOk, Compiling, ParseGet, Goto, Source, Maybe
  <2>2. call[r].engine = "interpreter" /\ (work[r].writes <=> Source(r) \in WriteSources)
    BY <1>8, <2>1, Here DEF LocalOk, Own, OwnOk, InterpreterOnly, ParseGet, Goto
  <2>3. same => /\ Ast(r).bytecode \in {Source(r), NoSource}
                /\ Ast(r).writes => Source(r) \in WriteSources
    BY <1>8, <2>1, MatchedAst
  <2>4. marked <=> Source(r) \in WriteSources
    BY <2>2, <2>3
  <2>5. EntryCoherent(e)
    <3>1. e.program = Source(r) /\ e.hash = Source(r) /\ e.bytecode \in {Source(r), NoSource}
      BY <2>1, <2>3 DEF SourceHash
    <3>2. NoSource \notin WriteSources
      BY SourcesAssumption, ValuesAssumption
    <3>3. e.writes <=> Source(r) \in WriteSources
      BY <2>4
    <3> HIDE DEF e
    <3> QED
      BY <3>1, <3>2, <3>3 DEF EntryCoherent
  <2>6. /\ w.entry = e /\ w.running = work[r].running /\ w.program = work[r].program
        /\ w.writes = work[r].writes
    BY Here DEF Works
  <2> HIDE DEF w, e
  <2> QED
    BY <1>8, <2>5, <2>6, Here DEF Own, OwnOk, Storing, ParseGet, Goto
<1>9. UNCHANGED <<cacheVars, current>> /\ expected' \in [Renders -> Maybe(Sources)]
  BY DEF IInv, TInv, Typed, ParseGet, callVars
<1> HIDE DEF w
<1> QED
  BY <1>6, <1>7, <1>8, <1>9, MoveKeeps

\* Storing the VM's entry keeps the cache coherent.
LEMMA CacheSetKeeps == ASSUME IInv, NEW r \in Renders, CacheSet(r) PROVE IInv'
<1> DEFINE e == work[r].entry
<1>1. e \in Entries \cup {NoEntry}
  BY Here DEF Works
<1>2. AllHashed => EntryCoherent(e)
  BY Here DEF Own, OwnOk, CacheSet
<1>3. UNCHANGED <<full, current, expected>> /\ ast' = [ast EXCEPT ![call[r].file] = e]
  BY DEF CacheSet
<1>4. CASE FallsBack(r, work[r].running)
  <2> DEFINE k == [call[r] EXCEPT !.engine = "interpreter"]
  <2>1. k \in Calls /\ BlankWork \in Works
    BY Here DEF Calls, BlankWork, Works, Maybe
  <2>2. k.trusted = FALSE /\ call[r].trusted = FALSE
    BY <1>4, Here DEF LocalOk, Calls, FallsBack
  <2>3. LocalOk("lookupAST", k, BlankWork, chosen[r])
    BY <2>1, <2>2, Here DEF CacheSet, LocalOk, Points, Loaded, Unanswered, Storing, VMOnly
  <2>4. ASSUME AllHashed PROVE OwnOk("lookupAST", k, BlankWork, chosen[r])
    <3>1. k.key = call[r].key /\ k.source = call[r].source
      BY Here DEF Calls
    <3> HIDE DEF k
    <3> QED
      BY <2>2, <2>4, <3>1, Here DEF Own, OwnOk, Storing, BlankWork, Maybe
  <2>5. Becomes(r, "lookupAST", k, BlankWork, chosen[r])
    BY <1>4 DEF IInv, TInv, Typed, CacheSet, Becomes
  <2> HIDE DEF k, e
  <2> QED
    BY <1>1, <1>2, <1>3, <2>3, <2>4, <2>5, AstKeeps
<1>5. CASE ~FallsBack(r, work[r].running)
  <2>1. LocalOk("exec", call[r], work[r], chosen[r])
    BY Here
       DEF LocalOk, Points, Loaded, Compiling, Unanswered, Storing, VMOnly, InterpreterOnly,
           CacheSet
  <2>2. AllHashed => OwnOk("exec", call[r], work[r], chosen[r])
    BY Here DEF LocalOk, Own, OwnOk, Storing, VMOnly, CacheSet
  <2>3. Becomes(r, "exec", call[r], work[r], chosen[r])
    BY <1>5 DEF IInv, TInv, Typed, CacheSet, Becomes
  <2> HIDE DEF e
  <2> QED
    BY <1>1, <1>2, <1>3, <2>1, <2>2, <2>3, AstKeeps
<1> QED
  BY <1>4, <1>5

\* Storing the interpreter's entry keeps the cache coherent.
LEMMA ParseSetKeeps == ASSUME IInv, NEW r \in Renders, ParseSet(r) PROVE IInv'
<1> DEFINE e == work[r].entry
<1>1. e \in Entries \cup {NoEntry}
  BY Here DEF Works
<1>2. AllHashed => EntryCoherent(e)
  BY Here DEF Own, OwnOk, ParseSet, Goto
<1>3. UNCHANGED <<full, current, expected>> /\ ast' = [ast EXCEPT ![call[r].file] = e]
  BY DEF ParseSet, callVars
<1>4. LocalOk("exec", call[r], work[r], chosen[r])
  BY Here
     DEF LocalOk, Points, Loaded, Unanswered, Storing, VMOnly, InterpreterOnly, ParseSet,
         Goto
<1>5. AllHashed => OwnOk("exec", call[r], work[r], chosen[r])
  BY Here DEF Own, OwnOk, Storing, ParseSet, Goto
<1>6. Becomes(r, "exec", call[r], work[r], chosen[r])
  BY DEF IInv, TInv, Typed, ParseSet, Goto, Becomes, callVars
<1> HIDE DEF e
<1> QED
  BY <1>1, <1>2, <1>3, <1>4, <1>5, <1>6, AstKeeps

\* An entry without program and bytecode is coherent.
LEMMA StoreBlankKeeps == ASSUME IInv, NEW r \in Renders, StoreBlank(r) PROVE IInv'
<1> DEFINE e == BlankEntry(Hash(r))
<1>1. e \in Entries
  BY Here DEF BlankEntry, Entries, Maybe
<1>2. EntryCoherent(e)
  BY SourcesAssumption, ValuesAssumption DEF BlankEntry, EntryCoherent
<1>3. UNCHANGED <<full, current, expected>> /\ ast' = [ast EXCEPT ![call[r].file] = e]
  BY DEF StoreBlank, callVars
<1>4. LocalOk("storeFull", call[r], work[r], chosen[r])
  BY Here
     DEF LocalOk, Points, Loaded, Compiling, Unanswered, Storing, VMOnly, InterpreterOnly,
         StoreBlank, Goto
<1>5. AllHashed => OwnOk("storeFull", call[r], work[r], chosen[r])
  BY Here DEF Own, OwnOk, Storing, StoreBlank, Goto
<1>6. Becomes(r, "storeFull", call[r], work[r], chosen[r])
  BY DEF IInv, TInv, Typed, StoreBlank, Goto, Becomes, callVars
<1> HIDE DEF e
<1> QED
  BY <1>1, <1>2, <1>3, <1>4, <1>5, <1>6, AstKeeps

\* The VM stores a skeleton under its own hash, or under none if it is trusted.
LEMMA StoreFullKeeps == ASSUME IInv, NEW r \in Renders, StoreFull(r) PROVE IInv'
<1> DEFINE e == [hash |-> Hash(r), skeleton |-> work[r].running, fresh |-> TRUE]
<1>1. e \in Skeletons
  BY Here DEF Skeletons, LocalOk, Loaded, StoreFull, Goto
<1>2. ASSUME AllHashed PROVE e.hash \in {e.skeleton, NoHash} /\ Skeletal(e.skeleton)
  BY <1>2, Here, ValuesAssumption
     DEF LocalOk, Loaded, Own, OwnOk, Storing, StoreFull, Goto, Hash, Maybe
<1>3. UNCHANGED <<ast, current, expected>> /\ full' = [full EXCEPT ![FullKey(r)] = e]
  BY DEF StoreFull, callVars
<1>4. LocalOk("fill", call[r], work[r], chosen[r])
  BY Here
     DEF LocalOk, Points, Loaded, Compiling, Unanswered, Storing, VMOnly, InterpreterOnly,
         StoreFull, Goto
<1>5. AllHashed => OwnOk("fill", call[r], work[r], chosen[r])
  BY Here DEF LocalOk, Own, OwnOk, Storing, VMOnly, StoreFull, Goto
<1>6. Becomes(r, "fill", call[r], work[r], chosen[r])
  BY DEF IInv, TInv, Typed, StoreFull, Goto, Becomes, callVars
<1> HIDE DEF e
<1> QED
  BY <1>1, <1>2, <1>3, <1>4, <1>5, <1>6, FullKeeps

\* The interpreter stores a skeleton under its own hash.
LEMMA StoreDeferredKeeps == ASSUME IInv, NEW r \in Renders, StoreDeferred(r) PROVE IInv'
<1> DEFINE e == [hash |-> SourceHash(Source(r)), skeleton |-> work[r].running, fresh |-> TRUE]
<1>1. e \in Skeletons
  BY Here DEF Skeletons, SourceHash, LocalOk, Loaded, StoreDeferred, Goto
<1>2. ASSUME AllHashed PROVE e.hash \in {e.skeleton, NoHash} /\ Skeletal(e.skeleton)
  BY <1>2, Here, ValuesAssumption
     DEF LocalOk, Loaded, Compiling, Own, OwnOk, Storing, StoreDeferred, Goto, Source,
         SourceHash, Maybe
<1>3. UNCHANGED <<ast, current, expected>> /\ full' = [full EXCEPT ![FullKey(r)] = e]
  BY DEF StoreDeferred, callVars
<1>4. LocalOk("done", call[r], work[r], chosen[r])
  BY Here
     DEF LocalOk, Points, Loaded, Unanswered, Storing, VMOnly, InterpreterOnly,
         StoreDeferred, Goto
<1>5. AllHashed => OwnOk("done", call[r], work[r], chosen[r])
  BY Here DEF Own, OwnOk, Storing
<1>6. Becomes(r, "done", call[r], work[r], chosen[r])
  BY DEF IInv, TInv, Typed, StoreDeferred, Goto, Becomes, callVars
<1> HIDE DEF e
<1> QED
  BY <1>1, <1>2, <1>3, <1>4, <1>5, <1>6, FullKeeps

\* A render that returns leaves nothing behind.
LEMMA ReturnKeeps == ASSUME IInv, NEW r \in Renders, Return(r) PROVE IInv'
<1>1. BlankWork \in Works
  BY DEF BlankWork, Works, Maybe
<1>2. LocalOk("idle", call[r], BlankWork, NoAnswer)
  BY <1>1, Here DEF LocalOk, Points, Loaded, Compiling, Storing, VMOnly, InterpreterOnly
<1>3. AllHashed => OwnOk("idle", call[r], BlankWork, NoAnswer)
  BY Here DEF Own, OwnOk, Storing, BlankWork, Maybe
<1>4. Becomes(r, "idle", call[r], BlankWork, NoAnswer)
  BY DEF IInv, TInv, Typed, Return, Becomes
<1>5. UNCHANGED <<cacheVars, current>> /\ expected' \in [Renders -> Maybe(Sources)]
  BY DEF IInv, TInv, Typed, Return, Maybe
<1> QED
  BY <1>2, <1>3, <1>4, <1>5, MoveKeeps

\* The arguments a render starts with.
Asked(f, u, s, mode) ==
    [file |-> f, url |-> u, source |-> s, trusted |-> mode = "trusted",
     key |-> IF mode = "trusted" THEN NoHash ELSE CacheHash(s),
     engine |-> IF mode = "trusted" THEN "vm" ELSE mode]

\* Ask, with the arguments under one name.
LEMMA AskedArguments ==
    ASSUME IInv, NEW r \in Renders, Ask(r)
    PROVE  \E f \in Files, u \in Urls, s \in Sources, mode \in Modes :
             /\ pc[r] = "idle"
             /\ Becomes(r, IF mode = "interpreter" THEN "lookupAST" ELSE "lookupBytecode",
                        Asked(f, u, s, mode), work[r], chosen[r])
             /\ expected' = [expected EXCEPT ![r] = s]
             /\ UNCHANGED <<cacheVars, current>>
<1>1. PICK f \in Files, u \in Urls, s \in Sources, mode \in Modes :
        LET trusted == mode = "trusted"
            source  == IF trusted THEN current[f] ELSE s
        IN  /\ trusted => s = current[f]
            /\ call' = [call EXCEPT ![r] =
                 [file |-> f, url |-> u, source |-> source, trusted |-> trusted,
                  key |-> IF trusted THEN NoHash ELSE CacheHash(source),
                  engine |-> IF trusted THEN "vm" ELSE mode]]
            /\ expected' = [expected EXCEPT ![r] = source]
            /\ pc' = [pc EXCEPT ![r] =
                        IF mode = "interpreter" THEN "lookupAST" ELSE "lookupBytecode"]
  BY DEF Ask
<1>2. (IF mode = "trusted" THEN current[f] ELSE s) = s
  BY <1>1
<1>3. /\ call' = [call EXCEPT ![r] = Asked(f, u, s, mode)]
      /\ expected' = [expected EXCEPT ![r] = s]
  BY <1>1, <1>2 DEF Asked
<1>4. work' = [work EXCEPT ![r] = work[r]] /\ chosen' = [chosen EXCEPT ![r] = chosen[r]]
  BY DEF Ask, IInv, TInv, Typed
<1>5. /\ pc[r] = "idle"
      /\ Becomes(r, IF mode = "interpreter" THEN "lookupAST" ELSE "lookupBytecode",
                 Asked(f, u, s, mode), work[r], chosen[r])
      /\ expected' = [expected EXCEPT ![r] = s]
      /\ UNCHANGED <<cacheVars, current>>
  BY <1>1, <1>3, <1>4 DEF Ask, Becomes
<1> QED
  BY <1>5

\* A render starts at one of the two pipelines, with its key.
LEMMA AskKeeps == ASSUME IInv, NEW r \in Renders, Ask(r) PROVE IInv'
<1>1. PICK f \in Files, u \in Urls, s \in Sources, mode \in Modes :
        /\ pc[r] = "idle"
        /\ Becomes(r, IF mode = "interpreter" THEN "lookupAST" ELSE "lookupBytecode",
                   Asked(f, u, s, mode), work[r], chosen[r])
        /\ expected' = [expected EXCEPT ![r] = s]
        /\ UNCHANGED <<cacheVars, current>>
  BY AskedArguments
<1> DEFINE p == IF mode = "interpreter" THEN "lookupAST" ELSE "lookupBytecode"
           k == Asked(f, u, s, mode)
<1>2. /\ CacheHash(s) \in Sources \cup {NoHash}
      /\ mode \in {"interpreter", "vm", "fallback", "trusted"}
  BY ModesAssumption DEF CacheHash, SourceHash
<1>3. (mode = "trusted") \in BOOLEAN
  OBVIOUS
<1>4. k \in Calls
  BY <1>2, <1>3 DEF Asked, Calls
<1>5. /\ k.trusted => k.key = NoHash /\ k.engine = "vm"
      /\ p \in {"lookupAST", "lookupBytecode"}
      /\ p = "lookupBytecode" => k.engine # "interpreter"
      /\ k.trusted => p = "lookupBytecode"
  BY DEF Asked
<1>6. LocalOk(p, k, work[r], chosen[r])
  <2> HIDE DEF p, k
  <2> QED
    BY <1>1, <1>4, <1>5, Here
       DEF LocalOk, Points, Loaded, Compiling, Unanswered, Storing, VMOnly, InterpreterOnly
<1>7. ASSUME AllHashed PROVE OwnOk(p, k, work[r], chosen[r])
  <2>1. k.source = s /\ (~k.trusted => k.key = s)
    BY <1>7 DEF Asked, AllHashed, CacheHash, SourceHash
  <2>2. work[r].running = NoSource /\ work[r].program = NoSource /\ chosen[r] = NoAnswer
    BY <1>1, Here DEF LocalOk, Unanswered, BlankWork
  <2>3. p \in {"lookupAST", "lookupBytecode"}
    OBVIOUS
  <2> HIDE DEF p, k
  <2> QED
    BY <2>1, <2>2, <2>3 DEF OwnOk, Storing, Maybe
<1>8. UNCHANGED <<cacheVars, current>> /\ expected' \in [Renders -> Maybe(Sources)]
  BY <1>1 DEF IInv, TInv, Typed, Maybe
<1>9. Becomes(r, p, k, work[r], chosen[r])
  BY <1>1
<1> HIDE DEF p, k
<1> QED
  BY <1>6, <1>7, <1>8, <1>9, MoveKeeps

\* The environment deletes entries and lets them grow old, and touches no
\* render but its history.
LEMMA EnvironmentKeeps == ASSUME IInv, Environment PROVE IInv'
<1>1. ASSUME NEW k \in Keys, Expire(k) PROVE IInv'
  <2> DEFINE e == [full[k] EXCEPT !.fresh = FALSE]
  <2>1. /\ e \in Skeletons /\ full[k] # NoEntry
        /\ e.hash = full[k].hash /\ e.skeleton = full[k].skeleton
    BY <1>1 DEF IInv, TInv, Typed, Expire, Skeletons
  <2>2. full' = [full EXCEPT ![k] = e]
    BY <1>1 DEF Expire
  <2> HIDE DEF e
  <2>3. full' \in [Keys -> Skeletons \cup {NoEntry}]
    BY <2>1, <2>2 DEF IInv, TInv, Typed
  <2>4. TInv'
    BY <1>1, <2>3 DEF IInv, TInv, Typed, LocalInv, Expire, callVars
  <2>5. ASSUME AllHashed, NEW x \in Keys, full'[x] # NoEntry
        PROVE  full'[x].hash \in {full'[x].skeleton, NoHash} /\ Skeletal(full'[x].skeleton)
    BY <2>1, <2>2, <2>5 DEF IInv, OInv, CacheCoherent, ShelfClean
  <2>6. AllHashed => OInv'
    BY <1>1 DEF IInv, OInv, CacheCoherent, ShelfClean, OwnInv, Expire, callVars
  <2> QED
    BY <2>4, <2>6 DEF IInv, AllHashed
<1>2. ASSUME Clear PROVE IInv'
  <2>1. TInv'
    BY <1>2 DEF IInv, TInv, Typed, LocalInv, Clear, callVars
  <2>2. AllHashed => OInv'
    BY <1>2 DEF IInv, OInv, CacheCoherent, ShelfClean, OwnInv, Clear, callVars
  <2> QED
    BY <2>1, <2>2 DEF IInv, AllHashed
<1>3. ASSUME NEW f \in Files, ChangeFile(f) PROVE IInv'
  <2>1. TInv'
    BY <1>3 DEF IInv, TInv, Typed, LocalInv, ChangeFile, Maybe
  <2>2. ASSUME AllHashed PROVE CacheCoherent' /\ ShelfClean' /\ OwnInv'
    BY <1>3, <2>2 DEF IInv, OInv, CacheCoherent, ShelfClean, OwnInv, ChangeFile
  <2> QED
    BY <2>1, <2>2 DEF IInv, OInv, AllHashed
<1> QED
  BY <1>1, <1>2, <1>3 DEF Environment

\* The invariant does not depend on anything but the variables.
LEMMA StutterKeeps == ASSUME IInv, UNCHANGED vars PROVE IInv'
BY DEF IInv, AllHashed, TInv, Typed, LocalInv, OInv, CacheCoherent, ShelfClean, OwnInv,
   vars, cacheVars, callVars

\* The invariant holds at the start.
LEMMA InitEstablishes == ASSUME Init PROVE IInv
<1>1. BlankWork \in Works
  BY DEF BlankWork, Works, Maybe
<1>2. PICK f \in Files, u \in Urls, s \in Sources :
        call = [r \in Renders |-> [file |-> f, url |-> u, source |-> s, key |-> CacheHash(s),
                                   engine |-> "vm", trusted |-> FALSE]]
  BY DEF Init
<1>3. [file |-> f, url |-> u, source |-> s, key |-> CacheHash(s),
       engine |-> "vm", trusted |-> FALSE] \in Calls
  BY DEF Calls, CacheHash, SourceHash
<1>4. Typed
  BY <1>1, <1>2, <1>3 DEF Typed, Init, Points, Maybe
<1>5. LocalInv
  BY <1>1, <1>2, <1>3 DEF LocalInv, LocalOk, Init, Points, Loaded, Storing, InterpreterOnly
<1>6. ASSUME AllHashed PROVE OInv
  <2>1. CacheHash(s) = s
    BY <1>6 DEF AllHashed, CacheHash, SourceHash
  <2>2. OwnInv
    BY <1>2, <2>1 DEF OwnInv, OwnOk, Init, Storing, BlankWork, Maybe
  <2> QED
    BY <2>2 DEF OInv, CacheCoherent, ShelfClean, Init
<1> QED
  BY <1>4, <1>5, <1>6 DEF IInv, TInv

\* Every step keeps the invariant.
LEMMA NextKeeps == ASSUME IInv, [Next]_vars PROVE IInv'
<1>1. ASSUME NEW r \in Renders, Ask(r) \/ Return(r) PROVE IInv'
  BY <1>1, AskKeeps, ReturnKeeps
<1>2. ASSUME NEW r \in Renders, Step(r) PROVE IInv'
  <2>1. CASE BytecodeHit(r) \/ BytecodeFallback(r) \/ BytecodeMiss(r) \/ TrustedMiss(r)
    BY <2>1, BytecodeHitKeeps, BytecodeFallbackKeeps, BytecodeMissKeeps, TrustedMissKeeps
  <2>2. CASE RenderFromCache(r)
    BY <2>2, LookupASTKeeps, SkeletonMissKeeps, SkeletonExpiredKeeps, SkeletonHitKeeps
       DEF RenderFromCache
  <2>3. CASE CompileSteps(r)
    BY <2>3, LookupAgainHitKeeps, LookupAgainFallbackKeeps, LookupAgainMissKeeps,
       ProgramFromCacheKeeps, ProgramParsedKeeps, CacheGetKeeps, CacheSetKeeps
       DEF CompileSteps
  <2>4. CASE Parse(r)
    BY <2>4, ParseCachedKeeps, ParseNewKeeps, ParseGetKeeps, ParseSetKeeps DEF Parse
  <2>5. CASE ExecFails(r) \/ Exec(r)
    BY <2>5, ExecFailsKeeps, ExecKeeps
  <2>6. CASE CachePunchHoleSkeleton(r)
    BY <2>6, CheckFullKeeps, CheckASTKeeps, StoreBlankKeeps, StoreFullKeeps
       DEF CachePunchHoleSkeleton
  <2>7. CASE Fill(r) \/ StoreDeferred(r)
    BY <2>7, FillKeeps, StoreDeferredKeeps
  <2> QED
    BY <1>2, <2>1, <2>2, <2>3, <2>4, <2>5, <2>6, <2>7 DEF Step
<1>3. CASE Environment
  BY <1>3, EnvironmentKeeps
<1>4. CASE UNCHANGED vars
  BY <1>4, StutterKeeps
<1> QED
  BY <1>1, <1>2, <1>3, <1>4 DEF Next

-----------------------------------------------------------------------------
\* The invariant of the pipelines.
THEOREM Invariance == Spec => []IInv
BY InitEstablishes, NextKeeps, PTL DEF Spec

\* Every variable keeps its type: in particular no skeleton is stored under an
\* "ast" key and no entry under a "full" key (cacheVMBytecodeWithKey,
\* CachePunchHoleSkeletonWithSource, renderInterpreter).
THEOREM TypeCorrect == Spec => []TypeOk
<1>1. IInv => TypeOk
  BY DEF IInv, TInv, Typed, TypeOk
<1> QED
  BY Invariance, <1>1, PTL

\* Where every text has a hash, a render that brings its text along is answered
\* from that very text, whatever is stored, replaced or deleted between its
\* lookups (Render of plush.go and of vm/vm/runtime.go).
THEOREM OwnSource == ASSUME AllHashed PROVE Spec => []AnswersOwnSource
<1>1. IInv => AnswersOwnSource
  BY DEF IInv, OInv, OwnInv, OwnOk, AnswersOwnSource, Answered, Source
<1> QED
  BY Invariance, <1>1, PTL

\* Where every text has a hash, every cache entry is all of one text and says
\* rightly whether that text has context writes (template_cache.go).
THEOREM Coherence == ASSUME AllHashed PROVE Spec => []CacheCoherent
<1>1. IInv => CacheCoherent
  BY DEF IInv, OInv
<1> QED
  BY Invariance, <1>1, PTL

\* Where every text has a hash, a template with context writes is executed by
\* every render that answers from it (renderFromCache, fullCacheSkeletonCanBeUsed).
THEOREM WritesExecute == ASSUME AllHashed PROVE Spec => []WritesAlwaysExecute
<1>1. IInv => WritesAlwaysExecute
  BY DEF IInv, OInv, OwnInv, OwnOk, WritesAlwaysExecute, Answered
<1> QED
  BY Invariance, <1>1, PTL

-----------------------------------------------------------------------------
\* The refinement: every step of a pipeline is a step of the shelf, or changes
\* nothing that the shelf knows of.

\* No render trusts the bytecode under a file name.
NoTrust == \A r \in Renders : call[r].trusted = FALSE

asked == [r \in Renders |-> Request(r)]
OnShelf(cache, k) == [file |-> k[1], url |-> k[2], source |-> cache[k].skeleton]
shelf == {OnShelf(full, k) : k \in Shelved}

\* Without trusted renders, there is none ever.
LEMMA NoTrustKept ==
    ASSUME "trusted" \notin Modes, IInv, NoTrust, [Next]_vars
    PROVE  NoTrust'
<1>1. ASSUME NEW r \in Renders, Ask(r) PROVE NoTrust'
  <2>1. PICK f \in Files, u \in Urls, s \in Sources, mode \in Modes :
          call' = [call EXCEPT ![r] = Asked(f, u, s, mode)]
    BY <1>1, AskedArguments DEF Becomes
  <2>2. Asked(f, u, s, mode).trusted = FALSE
    BY DEF Asked
  <2> QED
    BY <2>1, <2>2 DEF NoTrust
<1>2. ASSUME NEW r \in Renders, Step(r) PROVE NoTrust'
  <2>1. \/ UNCHANGED call
        \/ call' = [call EXCEPT ![r].engine = "interpreter"]
    BY <1>2
       DEF Step, RenderFromCache, CompileSteps, Parse, CachePunchHoleSkeleton, NoTrust,
           BytecodeHit, BytecodeFallback, BytecodeMiss, TrustedMiss, LookupAST,
           SkeletonMiss, SkeletonExpired, SkeletonHit, LookupAgainHit, LookupAgainFallback,
           LookupAgainMiss, ProgramFromCache, ProgramParsed, CacheGet, CacheSet,
           ParseCached, ParseNew, ParseGet, ParseSet, ExecFails, Exec, CheckFull, CheckAST,
           StoreBlank, StoreFull, Fill, StoreDeferred, FallBack, callVars
  <2> QED
    BY <2>1 DEF NoTrust, IInv, TInv, Typed, Calls
<1>3. CASE \E r \in Renders : Return(r)
  BY <1>3 DEF Return, NoTrust
<1>4. CASE Environment
  BY <1>4 DEF Environment, Expire, Clear, ChangeFile, NoTrust, callVars
<1>5. CASE UNCHANGED vars
  BY <1>5 DEF vars, callVars, NoTrust
<1> QED
  BY <1>1, <1>2, <1>3, <1>4, <1>5 DEF Next

\* What the shelf sees of a step of render r that keeps its request.
LEMMA RequestKept ==
    ASSUME IInv, NEW r \in Renders, NEW p, pc[r] # "idle", p # "idle",
           pc' = [pc EXCEPT ![r] = p],
           \/ UNCHANGED call
           \/ call' = [call EXCEPT ![r].engine = "interpreter"]
    PROVE  asked' = asked
<1>1. ASSUME NEW x \in Renders PROVE Request(x)' = Request(x)
  <2>1. (pc[x] = "idle") <=> (pc'[x] = "idle")
    BY DEF IInv, TInv, Typed
  <2>2. /\ call'[x].file = call[x].file /\ call'[x].url = call[x].url
        /\ call'[x].source = call[x].source
    BY DEF IInv, TInv, Typed, Calls
  <2> QED
    BY <2>1, <2>2 DEF Request, Source
<1> QED
  BY <1>1 DEF asked

\* Without a store or a deletion, the shelf stays as it is.
LEMMA ShelfKept == ASSUME UNCHANGED full PROVE shelf' = shelf
BY DEF shelf, OnShelf, Shelved

\* A render that has started has a request and no answer or a real one.
LEMMA HereAsked ==
    ASSUME IInv, NEW r \in Renders, pc[r] # "idle"
    PROVE  /\ asked[r] = [file |-> call[r].file, url |-> call[r].url, source |-> Source(r)]
           /\ asked[r].file = call[r].file /\ asked[r].url = call[r].url
           /\ asked[r].source = Source(r)
           /\ asked[r] # NoRequest
<1>1. asked[r] = [file |-> call[r].file, url |-> call[r].url, source |-> Source(r)]
  BY DEF asked, Request
<1>2. asked[r] \in [file : Files, url : Urls, source : Sources]
  BY <1>1, Here DEF Calls
<1> QED
  BY <1>1, <1>2, RecordsAssumption

\* Lookups, parsing, compiling and filling are nothing to the shelf.
LEMMA SilentStep ==
    ASSUME IInv, NoTrust, NEW r \in Renders,
           \/ BytecodeHit(r) \/ BytecodeFallback(r) \/ BytecodeMiss(r) \/ TrustedMiss(r)
           \/ LookupAST(r) \/ SkeletonMiss(r) \/ SkeletonExpired(r)
           \/ CompileSteps(r) \/ Parse(r) \/ ExecFails(r)
           \/ CheckFull(r) \/ CheckAST(r) \/ StoreBlank(r) \/ Fill(r)
    PROVE  asked' = asked /\ UNCHANGED <<chosen, full>>
<1>1. UNCHANGED <<chosen, full>>
  BY DEF NoTrust, CompileSteps, Parse, BytecodeHit, BytecodeFallback, BytecodeMiss,
     TrustedMiss, LookupAST, SkeletonMiss, SkeletonExpired, LookupAgainHit,
     LookupAgainFallback, LookupAgainMiss, ProgramFromCache, ProgramParsed, CacheGet,
     CacheSet, ParseCached, ParseNew, ParseGet, ParseSet, ExecFails, CheckFull, CheckAST,
     StoreBlank, Fill, FallBack, cacheVars
<1>2. \/ UNCHANGED call
      \/ call' = [call EXCEPT ![r].engine = "interpreter"]
  BY DEF NoTrust, CompileSteps, Parse, BytecodeHit, BytecodeFallback, BytecodeMiss,
     TrustedMiss, LookupAST, SkeletonMiss, SkeletonExpired, LookupAgainHit,
     LookupAgainFallback, LookupAgainMiss, ProgramFromCache, ProgramParsed, CacheGet,
     CacheSet, ParseCached, ParseNew, ParseGet, ParseSet, ExecFails, CheckFull, CheckAST,
     StoreBlank, Fill, FallBack, callVars
<1>3. pc[r] # "idle" /\ \E p : p # "idle" /\ pc' = [pc EXCEPT ![r] = p]
  <2>1. CASE BytecodeHit(r) \/ BytecodeFallback(r) \/ BytecodeMiss(r) \/ TrustedMiss(r)
    BY <2>1
       DEF BytecodeHit, BytecodeFallback, BytecodeMiss, TrustedMiss, FallBack, Goto, NoTrust
  <2>2. CASE LookupAST(r) \/ SkeletonMiss(r) \/ SkeletonExpired(r)
    BY <2>2 DEF LookupAST, SkeletonMiss, SkeletonExpired, Goto, AfterMiss
  <2>3. CASE CompileSteps(r)
    BY <2>3
       DEF CompileSteps, LookupAgainHit, LookupAgainFallback, LookupAgainMiss,
           ProgramFromCache, ProgramParsed, CacheGet, CacheSet, FallBack, Goto
  <2>4. CASE Parse(r)
    BY <2>4 DEF Parse, ParseCached, ParseNew, ParseGet, ParseSet, Goto
  <2>5. CASE ExecFails(r) \/ CheckFull(r) \/ CheckAST(r) \/ StoreBlank(r) \/ Fill(r)
    BY <2>5 DEF ExecFails, CheckFull, CheckAST, StoreBlank, Fill, Goto
  <2> QED
    BY <2>1, <2>2, <2>3, <2>4, <2>5
<1> QED
  BY <1>1, <1>2, <1>3, RequestKept

\* Executing a template is an Execute of the shelf.
LEMMA ExecRefines ==
    ASSUME IInv, AllHashed, NoTrust, NEW r \in Renders, Exec(r)
    PROVE  Shelf!Execute(r)
<1>1. pc[r] = "exec" /\ chosen[r] = NoAnswer /\ work[r].running \in Sources
  BY Here DEF Exec, Goto, LocalOk, Unanswered, Loaded
<1>2. work[r].running = Source(r)
  BY <1>1, Here, ValuesAssumption DEF Own, OwnOk, NoTrust, Source, Maybe
<1>3. \E p : p # "idle" /\ pc' = [pc EXCEPT ![r] = p]
  BY DEF Exec, Goto
<1>4. UNCHANGED <<call, full>>
  BY DEF Exec, callVars, cacheVars
<1>5. asked' = asked /\ shelf' = shelf
  BY <1>1, <1>3, <1>4, RequestKept, ShelfKept
<1>6. chosen' = [chosen EXCEPT ![r] = [source |-> asked[r].source, origin |-> "executed"]]
  BY <1>1, <1>2, HereAsked DEF Exec, Choose
<1> QED
  BY <1>1, <1>5, <1>6, HereAsked DEF Shelf!Execute, Shelf!Answer, asked, shelf, OnShelf

\* Taking a skeleton is a Serve.
LEMMA ServeRefines ==
    ASSUME IInv, AllHashed, NoTrust, NEW r \in Renders, SkeletonHit(r)
    PROVE  Shelf!Serve(r)
<1>1. pc[r] = "lookupFull" /\ chosen[r] = NoAnswer
  BY Here DEF SkeletonHit, Goto, LocalOk, Unanswered
<1>2. Full(r).skeleton = Source(r) /\ Full(r) # NoEntry
  BY MatchedFull DEF SkeletonHit, NoTrust, Matches
<1>3. pc' = [pc EXCEPT ![r] = "fill"] /\ UNCHANGED <<call, full>>
  BY DEF SkeletonHit, Goto, callVars, cacheVars
<1>4. asked' = asked /\ shelf' = shelf
  BY <1>1, <1>3, RequestKept, ShelfKept
<1>5. asked[r] \in shelf
  <2>1. FullKey(r) \in Shelved
    BY <1>2, Here DEF Shelved, Full
  <2>2. asked[r] = OnShelf(full, FullKey(r))
    BY <1>1, <1>2, HereAsked DEF OnShelf, FullKey, Full
  <2> QED
    BY <2>1, <2>2 DEF shelf
<1>6. chosen' = [chosen EXCEPT ![r] = [source |-> asked[r].source, origin |-> "served"]]
  BY <1>1, <1>2, HereAsked DEF SkeletonHit, Choose
<1> QED
  BY <1>1, <1>4, <1>5, <1>6, HereAsked DEF Shelf!Serve, Shelf!Answer, asked, shelf, OnShelf

\* What a stored skeleton makes of the shelf.
LEMMA ShelfStored ==
    ASSUME IInv, NEW r \in Renders, NEW e \in Skeletons, pc[r] # "idle",
           e.skeleton = Source(r), full' = [full EXCEPT ![FullKey(r)] = e]
    PROVE  shelf' = {other \in shelf : ~Shelf!SameKey(other, asked[r])} \cup {asked[r]}
<1> DEFINE rest == {other \in shelf : ~Shelf!SameKey(other, asked[r])}
<1>1. Shelved' = Shelved \cup {FullKey(r)}
  BY Here, RecordsAssumption DEF Shelved, Skeletons, IInv, TInv, Typed
<1>2. OnShelf(full', FullKey(r)) = asked[r]
  BY Here, HereAsked DEF OnShelf, FullKey, IInv, TInv, Typed
<1>3. ASSUME NEW k \in Keys, k # FullKey(r)
      PROVE  OnShelf(full', k) = OnShelf(full, k) /\ ~Shelf!SameKey(OnShelf(full, k), asked[r])
  <2>1. OnShelf(full', k) = OnShelf(full, k)
    BY <1>3 DEF OnShelf, IInv, TInv, Typed
  <2>2. k[1] # call[r].file \/ k[2] # call[r].url
    BY <1>3 DEF Keys, FullKey
  <2> QED
    BY <2>1, <2>2, HereAsked DEF Shelf!SameKey, OnShelf
<1>4. Shelf!SameKey(OnShelf(full, FullKey(r)), asked[r])
  BY HereAsked DEF Shelf!SameKey, OnShelf, FullKey
<1>5. ASSUME NEW x \in shelf' PROVE x \in rest \cup {asked[r]}
  <2>1. PICK k \in Shelved' : x = OnShelf(full', k)
    BY DEF shelf
  <2>2. CASE k = FullKey(r)
    BY <1>2, <2>1, <2>2
  <2>3. CASE k # FullKey(r)
    <3>1. k \in Keys /\ k \in Shelved
      BY <1>1, <2>3 DEF Shelved
    <3>2. x = OnShelf(full, k) /\ ~Shelf!SameKey(x, asked[r])
      BY <1>3, <2>1, <2>3, <3>1
    <3> QED
      BY <3>1, <3>2 DEF shelf
  <2> QED
    BY <2>2, <2>3
<1>6. ASSUME NEW x \in rest PROVE x \in shelf'
  <2>1. PICK k \in Shelved : x = OnShelf(full, k)
    BY DEF shelf
  <2>2. k # FullKey(r)
    BY <1>4, <2>1
  <2>3. k \in Shelved' /\ x = OnShelf(full', k)
    BY <1>1, <1>3, <2>1, <2>2 DEF Shelved
  <2> QED
    BY <2>3 DEF shelf
<1>7. asked[r] \in shelf'
  BY <1>1, <1>2 DEF shelf
<1> QED
  BY <1>5, <1>6, <1>7

\* Storing a skeleton is a Publish.
LEMMA StoreRefines ==
    ASSUME IInv, AllHashed, NoTrust, NEW r \in Renders, StoreFull(r) \/ StoreDeferred(r)
    PROVE  Shelf!Publish(r)
<1> DEFINE hash == full'[FullKey(r)].hash
           e == [hash |-> hash, skeleton |-> work[r].running, fresh |-> TRUE]
<1>1. /\ pc[r] \in {"storeFull", "deferred"} /\ work[r].running \in Sources
      /\ chosen[r] \in Answers /\ chosen[r].origin = "executed"
      /\ Skeletal(work[r].running)
  BY Here DEF StoreFull, StoreDeferred, Goto, LocalOk, Storing, Loaded, Own, OwnOk
<1>2. work[r].running = Source(r)
  BY <1>1, Here, ValuesAssumption DEF Own, OwnOk, NoTrust, Source, Maybe
<1>3. full' = [full EXCEPT ![FullKey(r)] = e] /\ e \in Skeletons
  BY <1>1, Here DEF StoreFull, StoreDeferred, IInv, TInv, Typed, Skeletons, SourceHash
<1>4. UNCHANGED <<call, chosen>> /\ \E p : p # "idle" /\ pc' = [pc EXCEPT ![r] = p]
  BY DEF StoreFull, StoreDeferred, Goto, callVars
<1>5. asked' = asked
  BY <1>1, <1>4, RequestKept
<1>6. shelf' = {other \in shelf : ~Shelf!SameKey(other, asked[r])} \cup {asked[r]}
  <2> HIDE DEF e
  <2> QED
    BY <1>1, <1>2, <1>3, ShelfStored DEF e
<1>7. asked[r].source \in HoleSources \ WriteSources
  BY <1>1, <1>2, HereAsked DEF Skeletal
<1>8. chosen[r] # NoAnswer
  BY <1>1, RecordsAssumption DEF Answers
<1> QED
  BY <1>1, <1>4, <1>5, <1>6, <1>7, <1>8, HereAsked DEF Shelf!Publish, asked, shelf, OnShelf

\* Every step of the pipelines is one of the shelf.
LEMMA NextRefines ==
    ASSUME IInv, AllHashed, NoTrust, "trusted" \notin Modes, [Next]_vars
    PROVE  [Shelf!Next]_Shelf!vars
<1>1. ASSUME asked' = asked, UNCHANGED <<chosen, full>> PROVE UNCHANGED Shelf!vars
  BY <1>1, ShelfKept DEF Shelf!vars, asked, shelf, OnShelf
<1>2. ASSUME NEW r \in Renders, Ask(r) PROVE Shelf!Ask(r)
  <2>1. PICK f \in Files, u \in Urls, s \in Sources, mode \in Modes :
          /\ pc[r] = "idle"
          /\ Becomes(r, IF mode = "interpreter" THEN "lookupAST" ELSE "lookupBytecode",
                     Asked(f, u, s, mode), work[r], chosen[r])
          /\ expected' = [expected EXCEPT ![r] = s]
          /\ UNCHANGED <<cacheVars, current>>
    BY <1>2, AskedArguments
  <2> DEFINE request == [file |-> f, url |-> u, source |-> s]
  <2>2. request \in Shelf!Requests
    BY DEF Shelf!Requests
  <2>3. asked' = [asked EXCEPT ![r] = request]
    <3>1. pc'[r] # "idle" /\ call'[r] = Asked(f, u, s, mode)
      BY <2>1 DEF Becomes, IInv, TInv, Typed
    <3>2. Request(r)' = request
      BY <3>1 DEF Request, Source, Asked
    <3>3. ASSUME NEW x \in Renders, x # r PROVE Request(x)' = Request(x)
      BY <2>1, <3>3 DEF Becomes, Request, Source
    <3> HIDE DEF request
    <3> QED
      BY <3>2, <3>3 DEF asked
  <2>4. asked[r] = NoRequest
    BY <2>1 DEF asked, Request
  <2>5. UNCHANGED <<chosen, full>>
    BY <1>2 DEF Ask, cacheVars
  <2>6. shelf' = shelf
    BY <2>5, ShelfKept
  <2> HIDE DEF request
  <2> QED
    BY <2>2, <2>3, <2>4, <2>5, <2>6 DEF Shelf!Ask, asked, shelf, OnShelf
<1>3. ASSUME NEW r \in Renders, Step(r)
      PROVE  Shelf!Execute(r) \/ Shelf!Serve(r) \/ Shelf!Publish(r) \/ UNCHANGED Shelf!vars
  <2>1. CASE Exec(r)
    BY <2>1, ExecRefines
  <2>2. CASE SkeletonHit(r)
    BY <2>2, ServeRefines
  <2>3. CASE StoreFull(r) \/ StoreDeferred(r)
    BY <2>3, StoreRefines
  <2>4. CASE ~(Exec(r) \/ SkeletonHit(r) \/ StoreFull(r) \/ StoreDeferred(r))
    BY <1>1, <1>3, <2>4, SilentStep DEF Step, RenderFromCache, CachePunchHoleSkeleton
  <2> QED
    BY <2>1, <2>2, <2>3, <2>4
<1>4. ASSUME NEW r \in Renders, Return(r) PROVE Shelf!Return(r)
  <2>1. pc[r] # "idle" /\ pc' = [pc EXCEPT ![r] = "idle"] /\ UNCHANGED <<call, full>>
    BY <1>4 DEF Return, cacheVars
  <2>2. asked' = [asked EXCEPT ![r] = NoRequest]
    <3>1. Request(r)' = NoRequest
      BY <2>1 DEF Request, IInv, TInv, Typed
    <3>2. ASSUME NEW x \in Renders, x # r PROVE Request(x)' = Request(x)
      BY <2>1, <3>2 DEF Request, Source
    <3> QED
      BY <3>1, <3>2 DEF asked
  <2>3. shelf' = shelf
    BY <2>1, ShelfKept
  <2>4. chosen' = [chosen EXCEPT ![r] = NoAnswer]
    BY <1>4 DEF Return
  <2> QED
    BY <2>1, <2>2, <2>3, <2>4, HereAsked DEF Shelf!Return, asked, shelf, OnShelf
<1>5. CASE Environment
  <2>1. ASSUME NEW k \in Keys, Expire(k) PROVE UNCHANGED Shelf!vars
    <3>1. UNCHANGED <<pc, call, chosen>>
      BY <2>1 DEF Expire, callVars
    <3>2. asked' = asked
      BY <3>1 DEF asked, Request, Source
    <3>3. /\ [full[k] EXCEPT !.fresh = FALSE] # NoEntry
          /\ [full[k] EXCEPT !.fresh = FALSE].skeleton = full[k].skeleton
      BY <2>1, RecordsAssumption DEF Expire, Skeletons, IInv, TInv, Typed
    <3>4. \A x \in Keys : /\ full'[x] = NoEntry <=> full[x] = NoEntry
                          /\ full[x] # NoEntry => full'[x].skeleton = full[x].skeleton
      BY <2>1, <3>3 DEF Expire
    <3>5. Shelved' = Shelved
      BY <3>4 DEF Shelved
    <3>6. \A x \in Shelved : OnShelf(full', x) = OnShelf(full, x)
      BY <3>4 DEF Shelved, OnShelf
    <3>7. shelf' = shelf
      BY <3>5, <3>6 DEF shelf
    <3> QED
      BY <3>1, <3>2, <3>7 DEF Shelf!vars, asked, shelf, OnShelf
  <2>2. ASSUME Clear PROVE Shelf!Withdraw
    <3>1. UNCHANGED <<pc, call, chosen>>
      BY <2>2 DEF Clear, callVars
    <3>2. asked' = asked
      BY <3>1 DEF asked, Request, Source
    <3>3. shelf' = {}
      BY <2>2 DEF Clear, shelf, Shelved
    <3> QED
      BY <3>1, <3>2, <3>3 DEF Shelf!Withdraw, asked, shelf
  <2>3. ASSUME NEW f \in Files, ChangeFile(f) PROVE UNCHANGED Shelf!vars
    <3>1. UNCHANGED <<pc, call, chosen, full>>
      BY <2>3 DEF ChangeFile
    <3>2. asked' = asked
      BY <3>1 DEF asked, Request, Source
    <3> QED
      BY <1>1, <3>1, <3>2
  <2> QED
    BY <1>5, <2>1, <2>2, <2>3 DEF Environment, Shelf!Next
<1>6. CASE UNCHANGED vars
  <2>1. asked' = asked
    BY <1>6 DEF vars, callVars, asked, Request, Source
  <2> QED
    BY <1>1, <1>6, <2>1 DEF vars, cacheVars
<1> QED
  BY <1>2, <1>3, <1>4, <1>5, <1>6 DEF Next, Shelf!Next

\* At the start the shelf is empty.
LEMMA InitRefines == ASSUME Init PROVE Shelf!Init /\ NoTrust
<1>1. asked = [r \in Renders |-> NoRequest]
  BY DEF Init, asked, Request
<1>2. shelf = {}
  BY DEF Init, shelf, Shelved
<1>3. NoTrust
  BY DEF Init, NoTrust
<1> QED
  BY <1>1, <1>2, <1>3 DEF Init, Shelf!Init, asked, shelf

\* Where every text has a hash and no render trusts a file name, the pipelines
\* implement the shelf: answers come from an execution of the request's own text
\* or from a skeleton of it for the same file and URL, and only a render that
\* executed a text with holes and without context writes leaves a skeleton.
THEOREM Refinement ==
    ASSUME AllHashed, "trusted" \notin Modes
    PROVE  Spec => ImplementsShelf
<1>1. Init => Shelf!Init /\ NoTrust
  BY InitRefines
<1>2. IInv /\ NoTrust /\ [Next]_vars => NoTrust'
  BY NoTrustKept
<1>3. IInv /\ NoTrust /\ [Next]_vars => [Shelf!Next]_Shelf!vars
  BY NextRefines
<1> QED
  BY Invariance, <1>1, <1>2, <1>3, PTL DEF Spec, ImplementsShelf, Shelf!Spec
-----------------------------------------------------------------------------
(* Why renders end.  Each point of a pipeline has a distance to its end, from which
   a step of the render takes something and nobody else's step adds anything.  The
   two ways back, TrustedMiss and the fallback, each use up what allowed them.  *)
Distance(point) ==
    CASE point = "lookupBytecode"         -> 14
      [] point = "lookupAST"              -> 13
      [] point = "lookupFull"             -> 12
      [] point = "lookupAgain"            -> 11
      [] point \in {"program", "parse"}   -> 10
      [] point \in {"cacheGet", "parseGet"} -> 9
      [] point \in {"cacheSet", "parseSet"} -> 8
      [] point = "exec"                   -> 7
      [] point = "checkFull"              -> 6
      [] point = "checkAST"               -> 5
      [] point = "storeBlank"             -> 4
      [] point = "storeFull"              -> 3
      [] point = "fill"                   -> 2
      [] point = "deferred"               -> 1
      [] OTHER                            -> 0

\* The steps that a render with these arguments has before it at most.
StepsFrom(point, arguments) ==
    Distance(point) + (IF arguments.trusted THEN 1 ELSE 0)
                    + (IF arguments.engine = "fallback" THEN 6 ELSE 0)
Remaining(r) == StepsFrom(pc[r], call[r])

Rendering(r) == pc[r] \notin {"idle", "done", "failed"}

RenderAdvances(r) ==
    Rendering(r) =>
        /\ Remaining(r) \in 0 .. 21
        /\ IF Step(r) THEN Remaining(r)' < Remaining(r) ELSE Remaining(r)' = Remaining(r)
RendersAdvance == [][\A r \in Renders : RenderAdvances(r)]_vars

LEMMA DistanceType == ASSUME NEW point PROVE Distance(point) \in 0 .. 14
BY DEF Distance

\* A render that goes on with its arguments comes nearer to its end.
LEMMA NearerByPoint ==
    ASSUME TypeOk, NEW r \in Renders, NEW to, Distance(to) < Distance(pc[r]),
           pc' = [pc EXCEPT ![r] = to], call' = call
    PROVE  Remaining(r)' < Remaining(r)
<1>1. (pc[r])' = to /\ (call[r])' = call[r]
  BY DEF TypeOk
<1>2. Distance(to) \in Nat /\ Distance(pc[r]) \in Nat
  BY DistanceType
<1> QED
  BY <1>1, <1>2 DEF Remaining, StepsFrom

\* A render that falls back does so once, from a point past the first lookup.
LEMMA NearerByFallback ==
    ASSUME TypeOk, NEW r \in Renders, Distance(pc[r]) > 7, call[r].engine = "fallback",
           pc' = [pc EXCEPT ![r] = "lookupAST"],
           call' = [call EXCEPT ![r].engine = "interpreter"]
    PROVE  Remaining(r)' < Remaining(r)
<1>1. /\ (pc[r])' = "lookupAST" /\ (call[r])'.engine = "interpreter"
      /\ (call[r])'.trusted = call[r].trusted
  BY DEF TypeOk, Calls
<1>2. Distance(pc[r]) \in Nat /\ Distance("lookupAST") = 13
  BY DistanceType DEF Distance
<1> QED
  BY <1>1, <1>2 DEF Remaining, StepsFrom

LEMMA StepAdvances ==
    ASSUME IInv, NEW r \in Renders, Step(r) PROVE Remaining(r)' < Remaining(r)
<1>0. TypeOk
  BY DEF IInv, TInv, Typed, TypeOk
<1> USE DEF Goto, callVars
<1>1. CASE BytecodeHit(r) \/ BytecodeMiss(r)
  BY <1>0, <1>1, NearerByPoint DEF BytecodeHit, BytecodeMiss, Distance
<1>2. CASE BytecodeFallback(r) \/ LookupAgainFallback(r)
  BY <1>0, <1>2, NearerByFallback
  DEF BytecodeFallback, LookupAgainFallback, FallBack, FallsBack, Distance
<1>3. CASE TrustedMiss(r)
  <2>1. /\ pc' = pc /\ call[r].trusted /\ (call[r])'.trusted = FALSE
        /\ (call[r])'.engine = call[r].engine
    BY <1>0, <1>3 DEF TrustedMiss, TypeOk, Calls
  <2>2. Distance(pc[r]) \in Nat
    BY DistanceType
  <2> QED
    BY <2>1, <2>2 DEF Remaining, StepsFrom
<1>4. CASE RenderFromCache(r)
  BY <1>0, <1>4, NearerByPoint
  DEF RenderFromCache, LookupAST, SkeletonMiss, SkeletonExpired, SkeletonHit, AfterMiss,
      Distance
<1>5. CASE LookupAgainHit(r) \/ LookupAgainMiss(r) \/ ProgramFromCache(r)
           \/ ProgramParsed(r) \/ CacheGet(r)
  BY <1>0, <1>5, NearerByPoint
  DEF LookupAgainHit, LookupAgainMiss, ProgramFromCache, ProgramParsed, CacheGet, Distance
<1>6. CASE CacheSet(r)
  <2>1. CASE FallsBack(r, work[r].running)
    BY <1>0, <1>6, <2>1, NearerByFallback DEF CacheSet, FallsBack, Distance
  <2>2. CASE ~FallsBack(r, work[r].running)
    BY <1>0, <1>6, <2>2, NearerByPoint DEF CacheSet, Distance
  <2> QED
    BY <2>1, <2>2
<1>7. CASE Parse(r)
  BY <1>0, <1>7, NearerByPoint DEF Parse, ParseCached, ParseNew, ParseGet, ParseSet, Distance
<1>8. CASE ExecFails(r) \/ Exec(r)
  BY <1>0, <1>8, NearerByPoint DEF ExecFails, Exec, Distance
<1>9. CASE CachePunchHoleSkeleton(r) \/ Fill(r) \/ StoreDeferred(r)
  BY <1>0, <1>9, NearerByPoint
  DEF CachePunchHoleSkeleton, CheckFull, CheckAST, StoreBlank, StoreFull, Fill,
      StoreDeferred, Distance
<1> QED
  BY <1>1, <1>2, <1>3, <1>4, <1>5, <1>6, <1>7, <1>8, <1>9 DEF Step, CompileSteps

\* Another render, an expiry, a deletion and a new file leave a render where it is.
LEMMA OthersKeepRemaining ==
    ASSUME IInv, [Next]_vars, NEW r \in Renders, Rendering(r), ~Step(r)
    PROVE  Remaining(r)' = Remaining(r)
<1> SUFFICES (pc[r])' = pc[r] /\ (call[r])' = call[r]
  BY DEF Remaining
<1>0. TypeOk
  BY DEF IInv, TInv, Typed, TypeOk
<1>1. ASSUME NEW q \in Renders, Ask(q) \/ Return(q) PROVE (pc[r])' = pc[r] /\ (call[r])' = call[r]
  <2>1. q # r
    BY <1>1 DEF Ask, Return, Rendering
  <2> QED
    BY <1>0, <1>1, <2>1 DEF Ask, Return, TypeOk
<1>2. ASSUME NEW q \in Renders, Step(q) PROVE (pc[r])' = pc[r] /\ (call[r])' = call[r]
  <2>1. q # r
    BY <1>2
  <2> USE DEF Goto, FallBack, callVars, TypeOk
  <2>2. CASE BytecodeHit(q) \/ BytecodeFallback(q) \/ BytecodeMiss(q) \/ TrustedMiss(q)
    BY <1>0, <2>1, <2>2 DEF BytecodeHit, BytecodeFallback, BytecodeMiss, TrustedMiss
  <2>3. CASE RenderFromCache(q) \/ CachePunchHoleSkeleton(q)
    BY <1>0, <2>1, <2>3 DEF RenderFromCache, LookupAST, SkeletonMiss, SkeletonExpired,
      SkeletonHit, CachePunchHoleSkeleton, CheckFull, CheckAST, StoreBlank, StoreFull
  <2>4. CASE CompileSteps(q)
    BY <1>0, <2>1, <2>4 DEF CompileSteps, LookupAgainHit, LookupAgainFallback,
      LookupAgainMiss, ProgramFromCache, ProgramParsed, CacheGet, CacheSet
  <2>5. CASE Parse(q) \/ ExecFails(q) \/ Exec(q) \/ Fill(q) \/ StoreDeferred(q)
    BY <1>0, <2>1, <2>5 DEF Parse, ParseCached, ParseNew, ParseGet, ParseSet, ExecFails,
      Exec, Fill, StoreDeferred
  <2> QED
    BY <1>2, <2>2, <2>3, <2>4, <2>5 DEF Step
<1>3. CASE Environment \/ UNCHANGED vars
  BY <1>3 DEF Environment, Expire, Clear, ChangeFile, callVars, vars
<1> QED
  BY <1>1, <1>2, <1>3 DEF Next

\* Every render, in every mode, returns after 21 steps of its own at most, however
\* often entries are stored, replaced, expired or deleted by others meanwhile.
THEOREM RendersWindDown == Spec => RendersAdvance
<1>1. ASSUME IInv, [Next]_vars, NEW r \in Renders PROVE RenderAdvances(r)
  <2>1. Remaining(r) \in 0 .. 21
    <3>1. Distance(pc[r]) \in 0 .. 14
      BY DistanceType
    <3> QED
      BY <3>1 DEF Remaining, StepsFrom
  <2> QED
    BY <1>1, <2>1, StepAdvances, OthersKeepRemaining DEF RenderAdvances
<1>2. IInv /\ [Next]_vars => [\A r \in Renders : RenderAdvances(r)]_vars
  BY <1>1
<1> QED
  BY <1>2, Invariance, PTL DEF Spec, RendersAdvance

=============================================================================
