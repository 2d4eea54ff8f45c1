---------------------------- MODULE RenderCache ----------------------------
(***************************************************************************)
(* The render pipelines over the shared template cache: Render and Parse   *)
(* of the interpreter (plush.go), Render and RenderTrustedBytecodeCache of *)
(* the VM (vm/vm/runtime.go), and the functions of template_cache.go they  *)
(* read and write the cache with.                                          *)
(*                                                                         *)
(* A render is a sequence of steps with one call of the cache backend in   *)
(* each; nothing holds a lock from one call to the next, so the steps of   *)
(* concurrent renders interleave freely, and entries expire or are deleted *)
(* in between.  Two cache keys matter for a file: the "ast" key, which     *)
(* holds program and bytecode, and one "full" key per URL, which holds a   *)
(* skeleton: the output with its punch holes still open.                   *)
(*                                                                         *)
(* A source is a template text after preprocessTrimTags.  A program, a     *)
(* bytecode or a skeleton is named by the source it was made from.  The    *)
(* file names are .plush files.  Template.Input is "" in every entry that  *)
(* this code stores and Template.HasContextWrites is false in every        *)
(* skeleton it stores: neither is modelled.                                *)
(***************************************************************************)
EXTENDS FiniteSets

CONSTANTS
    Renders,        \* goroutines that render
    Files, Urls,    \* template files and request URLs
    Sources,        \* template texts
    Blank,          \* the empty text, which may or may not be in Sources
    HoleSources,    \* texts with punch holes
    WriteSources,   \* texts with context writes (let and assignments)
    FastSources,    \* texts whose bytecode is static or has a fast plan
    BadSources,     \* texts that do not parse
    Modes,          \* the ways of rendering in use
    NoHash, NoSource, NoEntry, NoAnswer, NoRequest

ASSUME SourcesAssumption ==
    /\ HoleSources \cup WriteSources \cup FastSources \cup BadSources \subseteq Sources
    /\ FastSources \cap HoleSources = {}     \* no fast plan has holes
ASSUME ModesAssumption == Modes \subseteq {"interpreter", "vm", "fallback", "trusted"}
ASSUME ValuesAssumption ==
    NoHash \notin Sources /\ NoSource \notin Sources /\ Blank # NoHash /\ Blank # NoSource
ASSUME RecordsAssumption ==
    /\ NoAnswer \notin [source : Sources, origin : {"executed", "served"}]
    /\ NoRequest \notin [file : Files, url : Urls, source : Sources]
    /\ NoEntry \notin [hash : Sources \cup {NoHash}, skeleton : Sources, fresh : BOOLEAN]

VARIABLES
    ast,        \* the entry under each file's "ast" key
    full,       \* the entry under each "full" key, by file and URL
    current,    \* the text each file has on disk
    pc,         \* where each render is
    call,       \* its arguments and engine
    work,       \* its local variables
    chosen,     \* what it is going to answer
    expected    \* history: the text of its file, NoSource if that changed

cacheVars == <<ast, full>>
callVars  == <<call, expected>>
vars      == <<cacheVars, current, pc, callVars, work, chosen>>

Maybe(S) == S \cup {NoSource}

Entries   == [hash : Sources \cup {NoHash}, program : Maybe(Sources),
              bytecode : Maybe(Sources), writes : BOOLEAN]
Skeletons == [hash : Sources \cup {NoHash}, skeleton : Sources, fresh : BOOLEAN]
Keys      == Files \X Urls

\* templateSourceHash, which tells any two texts apart.
SourceHash(s) == s

\* templateSourceCacheHash: the empty text has no hash.
CacheHash(s) == IF s = Blank THEN NoHash ELSE SourceHash(s)

\* Mutant: the hash of the source is not compared.
MatchesAny(entry, hash) == entry # NoEntry

\* templateSourceMatches: the entry exists, and a caller without a hash takes
\* whatever it holds.
Matches(entry, hash) == entry # NoEntry /\ (hash = NoHash \/ entry.hash = hash)

\* Bytecode that shouldFallbackGenericBytecode hands to the interpreter.
Generic(s) == s \notin FastSources

\* bytecodeCanUsePunchHoleCache of a bytecode with holes.
Skeletal(s) == s \in HoleSources \ WriteSources

BlankWork == [running |-> NoSource, program |-> NoSource, writes |-> FALSE,
              isCache |-> FALSE, force |-> FALSE, entry |-> NoEntry]

BlankEntry(hash) == [hash |-> hash, program |-> NoSource, bytecode |-> NoSource,
                     writes |-> FALSE]

\* What render r is about, and the entries its keys have now.
Source(r)  == call[r].source
Hash(r)    == call[r].key
Ast(r)     == ast[call[r].file]
FullKey(r) == <<call[r].file, call[r].url>>
Full(r)    == full[FullKey(r)]

Init ==
    /\ ast = [f \in Files |-> NoEntry]
    /\ full = [k \in Keys |-> NoEntry]
    /\ current \in [Files -> Sources]
    /\ pc = [r \in Renders |-> "idle"]
    /\ \E f \in Files, u \in Urls, s \in Sources :
        call = [r \in Renders |-> [file |-> f, url |-> u, source |-> s, key |-> CacheHash(s),
                                   engine |-> "vm", trusted |-> FALSE]]
    /\ work = [r \in Renders |-> BlankWork]
    /\ chosen = [r \in Renders |-> NoAnswer]
    /\ expected = [r \in Renders |-> NoSource]

Goto(r, from, to) ==
    /\ pc[r] = from
    /\ pc' = [pc EXCEPT ![r] = to]

Choose(r, source, origin) ==
    chosen' = [chosen EXCEPT ![r] = [source |-> source, origin |-> origin]]

-----------------------------------------------------------------------------
\* A render starts.  A "trusted" one is BuffaloRendererFromTrustedBytecodeCache:
\* it has no source yet, and looks up its file without a hash.
Ask(r) ==
    /\ pc[r] = "idle"
    /\ \E f \in Files, u \in Urls, s \in Sources, mode \in Modes :
        LET trusted == mode = "trusted"
            source  == IF trusted THEN current[f] ELSE s
        IN  /\ trusted => s = current[f]
            /\ call' = [call EXCEPT ![r] =
                 [file |-> f, url |-> u, source |-> source, trusted |-> trusted,
                  key |-> IF trusted THEN NoHash ELSE CacheHash(source),
                  engine |-> IF trusted THEN "vm" ELSE mode]]
            /\ expected' = [expected EXCEPT ![r] = source]
            /\ pc' = [pc EXCEPT ![r] =
                        IF mode = "interpreter" THEN "lookupAST" ELSE "lookupBytecode"]
    /\ UNCHANGED <<cacheVars, current, work, chosen>>

\* Mutant: the fallback calls Render, which is the VM's again.
FallBackToRender(r, from) ==
    /\ Goto(r, from, "lookupBytecode")
    /\ work' = [work EXCEPT ![r] = BlankWork]
    /\ UNCHANGED <<cacheVars, current, call, chosen, expected>>

\* The interpreter takes over: RenderInterpreter(input, ctx).
FallBack(r, from) ==
    /\ Goto(r, from, "lookupAST")
    /\ call' = [call EXCEPT ![r].engine = "interpreter"]
    /\ work' = [work EXCEPT ![r] = BlankWork]
    /\ UNCHANGED <<cacheVars, current, chosen, expected>>

FallsBack(r, bytecode) == call[r].engine = "fallback" /\ Generic(bytecode)

\* CachedVMBytecodeForCleanFilenameWithSource.
HasBytecode(r) == Matches(Ast(r), Hash(r)) /\ Ast(r).bytecode # NoSource

-----------------------------------------------------------------------------
\* The first lookup of Render and RenderTrustedBytecodeCache.  Bytecode with
\* holes is run only if there is no skeleton.
BytecodeHit(r) ==
    /\ HasBytecode(r)
    /\ ~FallsBack(r, Ast(r).bytecode)
    /\ Goto(r, "lookupBytecode", IF Skeletal(Ast(r).bytecode) THEN "lookupAST" ELSE "exec")
    /\ work' = [work EXCEPT ![r].running = Ast(r).bytecode]
    /\ UNCHANGED <<cacheVars, current, callVars, chosen>>

BytecodeFallback(r) ==
    /\ HasBytecode(r)
    /\ FallsBack(r, Ast(r).bytecode)
    /\ FallBack(r, "lookupBytecode")

BytecodeMiss(r) ==
    /\ ~HasBytecode(r)
    /\ ~call[r].trusted
    /\ Goto(r, "lookupBytecode", "lookupAST")
    /\ UNCHANGED <<cacheVars, current, callVars, work, chosen>>

\* Mutant: the text that was read is not hashed.
TrustedMissUnhashed(r) ==
    /\ ~HasBytecode(r)
    /\ call[r].trusted
    /\ pc[r] = "lookupBytecode"
    /\ call' = [call EXCEPT ![r].source = current[call[r].file], ![r].trusted = FALSE]
    /\ UNCHANGED <<cacheVars, current, pc, work, chosen, expected>>

\* hit = false: the caller reads the file and renders its text normally.
TrustedMiss(r) ==
    /\ ~HasBytecode(r)
    /\ call[r].trusted
    /\ pc[r] = "lookupBytecode"
    /\ LET source == current[call[r].file]
       IN  call' = [call EXCEPT ![r].source = source, ![r].key = CacheHash(source),
                                ![r].trusted = FALSE]
    /\ UNCHANGED <<cacheVars, current, pc, work, chosen, expected>>

-----------------------------------------------------------------------------
\* renderFromCache, and where a render goes on without a skeleton.
AfterMiss(r) ==
    IF call[r].engine = "interpreter" THEN "parse"
    ELSE IF work[r].running # NoSource THEN "exec" ELSE "lookupAgain"

AstUsable(r) == Matches(Ast(r), Hash(r)) /\ ~Ast(r).writes

LookupAST(r) ==
    /\ Goto(r, "lookupAST", IF AstUsable(r) THEN "lookupFull" ELSE AfterMiss(r))
    /\ UNCHANGED <<cacheVars, current, callVars, work, chosen>>

SkeletonMiss(r) ==
    /\ ~Matches(Full(r), Hash(r))
    /\ Goto(r, "lookupFull", AfterMiss(r))
    /\ UNCHANGED <<cacheVars, current, callVars, work, chosen>>

\* errClearCache: the skeleton is too old, and is to be replaced.
SkeletonExpired(r) ==
    /\ Matches(Full(r), Hash(r)) /\ ~Full(r).fresh
    /\ Goto(r, "lookupFull", AfterMiss(r))
    /\ work' = [work EXCEPT ![r].force = TRUE]
    /\ UNCHANGED <<cacheVars, current, callVars, chosen>>

SkeletonHit(r) ==
    /\ Matches(Full(r), Hash(r)) /\ Full(r).fresh
    /\ Goto(r, "lookupFull", "fill")
    /\ Choose(r, Full(r).skeleton, "served")
    /\ UNCHANGED <<cacheVars, current, callVars, work>>

-----------------------------------------------------------------------------
\* The VM without bytecode: the second lookup, parseProgram and Compile,
\* then cacheVMBytecodeWithKey.
LookupAgainHit(r) ==
    /\ HasBytecode(r)
    /\ ~FallsBack(r, Ast(r).bytecode)
    /\ Goto(r, "lookupAgain", "exec")
    /\ work' = [work EXCEPT ![r].running = Ast(r).bytecode]
    /\ UNCHANGED <<cacheVars, current, callVars, chosen>>

LookupAgainFallback(r) ==
    /\ HasBytecode(r)
    /\ FallsBack(r, Ast(r).bytecode)
    /\ FallBack(r, "lookupAgain")

LookupAgainMiss(r) ==
    /\ ~HasBytecode(r)
    /\ Goto(r, "lookupAgain", "program")
    /\ UNCHANGED <<cacheVars, current, callVars, work, chosen>>

\* CachedASTProgramWithSource.
HasProgram(r, hash) == Matches(Ast(r), hash) /\ Ast(r).program # NoSource

ProgramFromCache(r) ==
    /\ HasProgram(r, Hash(r))
    /\ Goto(r, "program", "cacheGet")
    /\ work' = [work EXCEPT ![r].running = Ast(r).program, ![r].program = Ast(r).program]
    /\ UNCHANGED <<cacheVars, current, callVars, chosen>>

ProgramParsed(r) ==
    /\ ~HasProgram(r, Hash(r))
    /\ Goto(r, "program", IF Source(r) \in BadSources THEN "failed" ELSE "cacheGet")
    /\ work' = [work EXCEPT ![r].running = Source(r)]
    /\ UNCHANGED <<cacheVars, current, callVars, chosen>>

\* Mutant: the entry that is there is taken over whatever its source.
CacheGetAny(r) ==
    /\ Goto(r, "cacheGet", "cacheSet")
    /\ LET base == IF Ast(r) # NoEntry THEN Ast(r) ELSE BlankEntry(NoHash)
       IN  work' = [work EXCEPT ![r].entry =
             [base EXCEPT !.hash = Hash(r), !.bytecode = work[r].running]]
    /\ UNCHANGED <<cacheVars, current, callVars, chosen>>

\* The entry is built from the one that is there now, if that is of the same
\* source, ...
CacheGet(r) ==
    /\ Goto(r, "cacheGet", "cacheSet")
    /\ LET base    == IF Matches(Ast(r), Hash(r)) THEN Ast(r) ELSE BlankEntry(NoHash)
           program == work[r].program
           writes  == IF program # NoSource THEN program \in WriteSources ELSE base.writes
       IN  work' = [work EXCEPT ![r].entry =
             [hash |-> Hash(r),
              program |-> IF program # NoSource THEN program ELSE base.program,
              bytecode |-> work[r].running,
              writes |-> writes \/ work[r].running \in WriteSources]]
    /\ UNCHANGED <<cacheVars, current, callVars, chosen>>

\* ... and replaces whatever is there when it is stored.
CacheSet(r) ==
    /\ pc[r] = "cacheSet"
    /\ ast' = [ast EXCEPT ![call[r].file] = work[r].entry]
    /\ IF FallsBack(r, work[r].running)
       THEN /\ pc' = [pc EXCEPT ![r] = "lookupAST"]
            /\ call' = [call EXCEPT ![r].engine = "interpreter"]
            /\ work' = [work EXCEPT ![r] = BlankWork]
       ELSE /\ pc' = [pc EXCEPT ![r] = "exec"]
            /\ UNCHANGED <<call, work>>
    /\ UNCHANGED <<full, current, chosen, expected>>

-----------------------------------------------------------------------------
\* Parse of the interpreter.
ParseCached(r) ==
    /\ HasProgram(r, SourceHash(Source(r)))
    /\ Goto(r, "parse", "exec")
    /\ work' = [work EXCEPT ![r].running = Ast(r).program, ![r].writes = Ast(r).writes,
                            ![r].isCache = TRUE]
    /\ UNCHANGED <<cacheVars, current, callVars, chosen>>

ParseNew(r) ==
    /\ ~HasProgram(r, SourceHash(Source(r)))
    /\ Goto(r, "parse", IF Source(r) \in BadSources THEN "failed" ELSE "parseGet")
    /\ work' = [work EXCEPT ![r].running = Source(r),
                            ![r].writes = Source(r) \in WriteSources]
    /\ UNCHANGED <<cacheVars, current, callVars, chosen>>

\* Mutant: bytecode is carried over whatever its source.
ParseGetAny(r) ==
    /\ Goto(r, "parseGet", "parseSet")
    /\ LET any == Ast(r) # NoEntry
       IN  work' = [work EXCEPT ![r].entry =
             [hash |-> SourceHash(Source(r)), program |-> work[r].running,
              bytecode |-> IF any THEN Ast(r).bytecode ELSE NoSource,
              writes |-> work[r].writes]]
    /\ UNCHANGED <<cacheVars, current, callVars, chosen>>

\* Bytecode of the same source is carried over into the new entry.
ParseGet(r) ==
    /\ Goto(r, "parseGet", "parseSet")
    /\ LET same == Matches(Ast(r), SourceHash(Source(r)))
       IN  work' = [work EXCEPT ![r].entry =
             [hash |-> SourceHash(Source(r)), program |-> work[r].running,
              bytecode |-> IF same THEN Ast(r).bytecode ELSE NoSource,
              writes |-> work[r].writes \/ (same /\ Ast(r).writes)]]
    /\ UNCHANGED <<cacheVars, current, callVars, chosen>>

ParseSet(r) ==
    /\ Goto(r, "parseSet", "exec")
    /\ ast' = [ast EXCEPT ![call[r].file] = work[r].entry]
    /\ UNCHANGED <<full, current, callVars, work, chosen>>

-----------------------------------------------------------------------------
\* Mutant: the skeleton of a run that has failed is stored.
ExecFailsStored(r) ==
    /\ Goto(r, "exec", "storeFull")
    /\ UNCHANGED <<cacheVars, current, callVars, work, chosen>>

\* The template is executed, which may fail, and may not come by its holes.
\* The VM stores the skeleton of a template with open holes before it fills
\* them, the interpreter afterwards.
ExecFails(r) ==
    /\ Goto(r, "exec", "failed")
    /\ UNCHANGED <<cacheVars, current, callVars, work, chosen>>

\* Mutant: the VM stores skeletons of templates with context writes.
ExecKeepingWrites(r) ==
    /\ \E open \in BOOLEAN : LET s == work[r].running IN
           /\ open => s \in HoleSources
           /\ Goto(r, "exec",
                IF ~open THEN "done"
                ELSE IF call[r].engine = "interpreter" THEN "fill"
                ELSE IF work[r].force THEN "checkAST" ELSE "checkFull")
           /\ Choose(r, s, "executed")
    /\ UNCHANGED <<cacheVars, current, callVars, work>>

Exec(r) ==
    /\ \E open \in BOOLEAN : LET s == work[r].running IN
           /\ open => s \in HoleSources
           /\ Goto(r, "exec",
                IF ~open THEN "done"
                ELSE IF call[r].engine = "interpreter" \/ s \in WriteSources THEN "fill"
                ELSE IF work[r].force THEN "checkAST" ELSE "checkFull")
           /\ Choose(r, s, "executed")
    /\ UNCHANGED <<cacheVars, current, callVars, work>>

\* CachePunchHoleSkeletonWithSource.
CheckFull(r) ==
    /\ Goto(r, "checkFull", IF Matches(Full(r), Hash(r)) THEN "fill" ELSE "checkAST")
    /\ UNCHANGED <<cacheVars, current, callVars, work, chosen>>

CheckAST(r) ==
    /\ Goto(r, "checkAST", IF ~Matches(Ast(r), Hash(r)) THEN "storeBlank"
                           ELSE IF Ast(r).writes THEN "fill" ELSE "storeFull")
    /\ UNCHANGED <<cacheVars, current, callVars, work, chosen>>

StoreBlank(r) ==
    /\ Goto(r, "storeBlank", "storeFull")
    /\ ast' = [ast EXCEPT ![call[r].file] = BlankEntry(Hash(r))]
    /\ UNCHANGED <<full, current, callVars, work, chosen>>

StoreFull(r) ==
    /\ Goto(r, "storeFull", "fill")
    /\ full' = [full EXCEPT ![FullKey(r)] =
         [hash |-> Hash(r), skeleton |-> work[r].running, fresh |-> TRUE]]
    /\ UNCHANGED <<ast, current, callVars, work, chosen>>

\* The interpreter stores the skeleton of a template that it has just parsed,
\* or whose skeleton has expired.
Stores(r) ==
    /\ call[r].engine = "interpreter"
    /\ chosen[r].origin = "executed"
    /\ ~work[r].isCache \/ work[r].force
    /\ ~work[r].writes

\* renderHolesConcurrently and fillHoles.
Fill(r) ==
    /\ Goto(r, "fill", IF Stores(r) THEN "deferred" ELSE "done")
    /\ UNCHANGED <<cacheVars, current, callVars, work, chosen>>

\* Mutant: the skeleton is stored under the "ast" key.
StoreDeferredAsAST(r) ==
    /\ Goto(r, "deferred", "done")
    /\ ast' = [ast EXCEPT ![call[r].file] =
         [hash |-> SourceHash(Source(r)), skeleton |-> work[r].running, fresh |-> TRUE]]
    /\ UNCHANGED <<full, current, callVars, work, chosen>>

\* The deferred function of renderInterpreter.
StoreDeferred(r) ==
    /\ Goto(r, "deferred", "done")
    /\ full' = [full EXCEPT ![FullKey(r)] =
         [hash |-> SourceHash(Source(r)), skeleton |-> work[r].running, fresh |-> TRUE]]
    /\ UNCHANGED <<ast, current, callVars, work, chosen>>

\* The answer or the error has been returned.
Return(r) ==
    /\ pc[r] \in {"done", "failed"}
    /\ pc' = [pc EXCEPT ![r] = "idle"]
    /\ work' = [work EXCEPT ![r] = BlankWork]
    /\ chosen' = [chosen EXCEPT ![r] = NoAnswer]
    /\ expected' = [expected EXCEPT ![r] = NoSource]
    /\ UNCHANGED <<cacheVars, current, call>>

-----------------------------------------------------------------------------
\* PunchHoleCacheLifetime passes for a skeleton.
Expire(k) ==
    /\ full[k] # NoEntry /\ full[k].fresh
    /\ full' = [full EXCEPT ![k].fresh = FALSE]
    /\ UNCHANGED <<ast, current, pc, callVars, work, chosen>>

\* ClearTemplateCache.
Clear ==
    /\ ast' = [f \in Files |-> NoEntry]
    /\ full' = [k \in Keys |-> NoEntry]
    /\ UNCHANGED <<current, pc, callVars, work, chosen>>

\* The application changes a file and deletes its key, as the README asks:
\* cache.Delete(plush.GenerateASTKey(physicalFilename)).
ChangeFile(f) ==
    /\ \E s \in Sources \ {current[f]} : current' = [current EXCEPT ![f] = s]
    /\ ast' = [ast EXCEPT ![f] = NoEntry]
    /\ expected' = [r \in Renders |-> IF call[r].file = f THEN NoSource ELSE expected[r]]
    /\ UNCHANGED <<full, pc, call, work, chosen>>

-----------------------------------------------------------------------------
RenderFromCache(r) == LookupAST(r) \/ SkeletonMiss(r) \/ SkeletonExpired(r) \/ SkeletonHit(r)

CompileSteps(r) ==
    \/ LookupAgainHit(r) \/ LookupAgainFallback(r) \/ LookupAgainMiss(r)
    \/ ProgramFromCache(r) \/ ProgramParsed(r) \/ CacheGet(r) \/ CacheSet(r)

Parse(r) == ParseCached(r) \/ ParseNew(r) \/ ParseGet(r) \/ ParseSet(r)

CachePunchHoleSkeleton(r) ==
    CheckFull(r) \/ CheckAST(r) \/ StoreBlank(r) \/ StoreFull(r)

Step(r) ==
    \/ BytecodeHit(r) \/ BytecodeFallback(r) \/ BytecodeMiss(r) \/ TrustedMiss(r)
    \/ RenderFromCache(r)
    \/ CompileSteps(r)
    \/ Parse(r)
    \/ ExecFails(r) \/ Exec(r)
    \/ CachePunchHoleSkeleton(r)
    \/ Fill(r) \/ StoreDeferred(r)

Environment ==
    \/ \E k \in Keys : Expire(k)
    \/ Clear
    \/ \E f \in Files : ChangeFile(f)

Next ==
    \/ \E r \in Renders : Ask(r) \/ Step(r) \/ Return(r)
    \/ Environment

\* A render that has started keeps running, whatever happens to the cache.
Fairness == \A r \in Renders : WF_vars(Step(r))

Spec == Init /\ [][Next]_vars /\ Fairness

-----------------------------------------------------------------------------
Points == {"idle", "lookupBytecode", "lookupAST", "lookupFull", "lookupAgain", "program",
           "cacheGet", "cacheSet", "parse", "parseGet", "parseSet", "exec", "checkFull",
           "checkAST", "storeBlank", "storeFull", "fill", "deferred", "done", "failed"}

Calls   == [file : Files, url : Urls, source : Sources, key : Sources \cup {NoHash},
            engine : {"interpreter", "vm", "fallback"}, trusted : BOOLEAN]
Works   == [running : Maybe(Sources), program : Maybe(Sources), writes : BOOLEAN,
            isCache : BOOLEAN, force : BOOLEAN, entry : Entries \cup {NoEntry}]
Answers == [source : Sources, origin : {"executed", "served"}]

\* Keys hold entries of their own kind, and every render is at a point of its
\* pipeline.
TypeOk ==
    /\ ast \in [Files -> Entries \cup {NoEntry}]
    /\ full \in [Keys -> Skeletons \cup {NoEntry}]
    /\ current \in [Files -> Sources]
    /\ pc \in [Renders -> Points]
    /\ call \in [Renders -> Calls]
    /\ work \in [Renders -> Works]
    /\ chosen \in [Renders -> Answers \cup {NoAnswer}]
    /\ expected \in [Renders -> Maybe(Sources)]

Answered(r) == chosen[r] # NoAnswer

\* A render that brings its source along answers from that very source: no
\* program, bytecode or skeleton of another text of the same file is taken
\* for it, whatever is stored, replaced or deleted between its lookups.
AnswersOwnSource ==
    \A r \in Renders : Answered(r) /\ ~call[r].trusted => chosen[r].source = Source(r)

\* An entry is all of one text, the one whose hash it has, although it is put
\* together from a lookup, a parse and a compilation at different times; and
\* it says of itself whether that text has context writes.
EntryCoherent(entry) ==
    /\ entry.program \in {entry.hash, NoSource}
    /\ entry.bytecode \in {entry.hash, NoSource}
    /\ entry.writes <=> \E s \in {entry.program, entry.bytecode} : s \in WriteSources

CacheCoherent ==
    /\ \A f \in Files : ast[f] # NoEntry => EntryCoherent(ast[f])
    /\ \A k \in Keys : full[k] # NoEntry => full[k].hash \in {full[k].skeleton, NoHash}

\* A template with context writes runs every time: its writes would be lost
\* in an answer from a skeleton.
WritesAlwaysExecute ==
    \A r \in Renders : Answered(r) /\ chosen[r].source \in WriteSources =>
        chosen[r].origin = "executed"

\* Every render returns: the fallback to the interpreter does not lead back
\* to the VM, and a missing or deleted entry never makes a render start over
\* more than once.
RendersReturn ==
    \A r \in Renders : pc[r] # "idle" ~> pc[r] \in {"done", "failed"}

\* "The next request will miss, read the selected source, compile it": a
\* trusted render that starts after its file was changed and its key deleted
\* does not answer from the old text.
TrustedAnswersCurrent ==
    \A r \in Renders : Answered(r) /\ expected[r] # NoSource => chosen[r].source = expected[r]

\* The same of an answer from a skeleton, once the present text of the file has
\* been compiled and cached again.
TrustedSkeletonCurrent ==
    \A r \in Renders :
        (Answered(r) /\ chosen[r].origin = "served" /\ expected[r] # NoSource
         /\ Ast(r) # NoEntry /\ Ast(r).bytecode = expected[r])
            => chosen[r].source = expected[r]

-----------------------------------------------------------------------------
\* The pipelines implement the shelf: a cached skeleton is one on the shelf,
\* its expiry no more than a reason not to use it.
Request(r) ==
    IF pc[r] = "idle" THEN NoRequest
    ELSE [file |-> call[r].file, url |-> call[r].url, source |-> Source(r)]

Shelved == {k \in Keys : full[k] # NoEntry}

Shelf == INSTANCE SkeletonShelf WITH
    SkeletalSources <- HoleSources \ WriteSources,
    asked    <- [r \in Renders |-> Request(r)],
    shelf    <- {[file |-> k[1], url |-> k[2], source |-> full[k].skeleton] : k \in Shelved}

\* Every answer is given as SkeletonShelf allows it, and every skeleton is put
\* there by a render that has executed it (for callers that bring a source).
ImplementsShelf == Shelf!Spec

=============================================================================
