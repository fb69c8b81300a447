----------------------------- MODULE ScriptModules -----------------------------
(***************************************************************************)
(* The module loader of a script context.  main.js is evaluated by the     *)
(* bootstrap of the context, again for the next request if it threw; the   *)
(* functions it defined run later.  All of them, and the files they        *)
(* require, load files with require, which keeps what a file exports in a  *)
(* cache from before the file is evaluated, and for good.                  *)
(*                                                                         *)
(* A path is a sequence of segments.  What a script does between two calls *)
(* of the loader is left open: it may require any file, replace what it    *)
(* exports, return or throw, and may catch what a require throws.          *)
(***************************************************************************)
EXTENDS RuntimeCalls

CONSTANTS
    File,          \* the files of the repository, but for the JSON files
    Id,            \* the paths that scripts pass to require
    MaxArguments,  \* bound on the arguments of a call and the segments of a path
    MaxAttempts,   \* bound on the bootstraps
    MaxCalls,      \* bound on the calls of functions
    MaxLoads       \* bound on the evaluations of files

ASSUME ModulesAssumption ==
    /\ \A f \in File : f # <<>>
    /\ MaxArguments \in Nat /\ MaxAttempts \in Nat
    /\ MaxCalls \in Nat /\ MaxLoads \in Nat

VARIABLES
    needsBootstrap, \* the context's flag
    caller,        \* what the engine runs in the context: main.js, a function, nothing
    attempts,      \* bootstraps begun
    calls,         \* functions called
    loads,         \* the evaluations of files, one record each
    cache,         \* Require.cache: the load that wrote f's entry last, or 0
    partial,       \* <<i, j>>: load i got load j's exports before j was done
    throwing,      \* an exception has left what the code on top has required
    failures       \* how exceptions ended: "bootstrap", "call" or "caught"

vars == <<needsBootstrap, caller, attempts, calls, loads, cache, partial, throwing,
          failures>>

TypeOK ==
    /\ needsBootstrap \in BOOLEAN
    /\ caller \in {"none", "main", "function"}
    /\ attempts \in 0..MaxAttempts
    /\ calls \in 0..MaxCalls
    /\ loads \in Seq([file : File, by : Nat, state : {"running", "done", "threw"},
                      falsy : BOOLEAN, wasFalsy : BOOLEAN])
    /\ cache \in [File -> 0..Len(loads)]
    /\ partial \subseteq (0..Len(loads)) \X (1..Len(loads))
    /\ throwing \in BOOLEAN
    /\ failures \subseteq {"bootstrap", "call", "caught"}

Init ==
    /\ needsBootstrap = TRUE
    /\ caller = "none"
    /\ attempts = 0
    /\ calls = 0
    /\ loads = <<>>
    /\ cache = [f \in File |-> 0]
    /\ partial = {}
    /\ throwing = FALSE
    /\ failures = {}
-----------------------------------------------------------------------------
(* The directory of the module that requires, the root for main.js.        *)
FindRoot(parent) ==
    IF parent = 0 THEN <<>> ELSE Front(loads[parent].file)

Resolve(id, parent) == ResolveAsFile(id, FindRoot(parent))

(* The frames of the script engine: whoever called it, then the loads that *)
(* are running, the latest of which is on top.                             *)
Running == {i \in DOMAIN loads : loads[i].state = "running"}

(* Mutant: while a file is evaluated who required it goes on.              *)
MutantIsTop(i) == caller # "none" /\ (i = 0 \/ i \in Running)

IsTop(i) ==
    /\ caller # "none"
    /\ \A j \in Running : j <= i
    /\ i = 0 \/ i \in Running

(* Whose require the code on top calls: its own, or for a function, that   *)
(* of the file the function is written in.                                 *)
Parents(top) ==
    IF top = 0 /\ caller = "function" THEN {0} \cup DOMAIN loads ELSE {top}

Cached(f) == cache[f] # 0 /\ ~loads[cache[f]].falsy
-----------------------------------------------------------------------------
Bootstrap ==
    /\ caller = "none"
    /\ needsBootstrap
    /\ attempts < MaxAttempts
    /\ caller' = "main"
    /\ attempts' = attempts + 1
    /\ UNCHANGED <<needsBootstrap, calls, loads, cache, partial, throwing, failures>>

CallFunction ==
    /\ caller = "none"
    /\ ~needsBootstrap
    /\ calls < MaxCalls
    /\ caller' = "function"
    /\ calls' = calls + 1
    /\ UNCHANGED <<needsBootstrap, attempts, loads, cache, partial, throwing, failures>>

(* Require of a file that is in the cache, whole or not.                   *)
RequireCached(top, f) ==
    /\ Cached(f)
    /\ partial' = IF loads[cache[f]].state = "done" THEN partial
                  ELSE partial \cup {<<top, cache[f]>>}
    /\ UNCHANGED <<loads, cache>>

(* Mutant: the constructor leaves the cache alone until exports are set.   *)
MutantLoadModule(top, f) ==
    /\ ~Cached(f)
    /\ Len(loads) < MaxLoads
    /\ loads' = Append(loads, [file |-> f, by |-> top, state |-> "running",
                               falsy |-> FALSE, wasFalsy |-> FALSE])
    /\ UNCHANGED <<cache, partial>>

(* loadModule, up to the first statement of the file: the constructor has  *)
(* put the empty exports into the cache.                                   *)
LoadModule(top, f) ==
    /\ ~Cached(f)
    /\ Len(loads) < MaxLoads
    /\ loads' = Append(loads, [file |-> f, by |-> top, state |-> "running",
                               falsy |-> FALSE, wasFalsy |-> FALSE])
    /\ cache' = [cache EXCEPT ![f] = Len(loads')]
    /\ UNCHANGED partial

(* The code on top calls require.  For a path that is no file it throws:   *)
(* see ModuleThrows, CallerThrows.  A JSON file is parsed anew each time   *)
(* and leaves nothing in the cache.                                        *)
Require(top) ==
    /\ \E parent \in Parents(top), id \in Id :
           LET f == Resolve(id, parent)
           IN  /\ f \in File
               /\ RequireCached(top, f) \/ LoadModule(top, f)
    /\ UNCHANGED <<needsBootstrap, caller, attempts, calls, throwing, failures>>

(* module.exports = value, written through to the cache.  Which truthy     *)
(* value it is makes no difference to the loader.                          *)
SetExports(top, falsy) ==
    /\ top # 0
    /\ falsy # loads[top].falsy
    /\ falsy => ~loads[top].wasFalsy
    /\ loads' = [loads EXCEPT ![top].falsy = falsy,
                              ![top].wasFalsy = @ \/ falsy]
    /\ cache' = [cache EXCEPT ![loads[top].file] = top]
    /\ UNCHANGED <<needsBootstrap, caller, attempts, calls, partial, throwing, failures>>

(* The file on top has been evaluated, and its require returns.            *)
ModuleReturns(top) ==
    /\ top # 0
    /\ loads' = [loads EXCEPT ![top].state = "done"]
    /\ UNCHANGED <<needsBootstrap, caller, attempts, calls, cache, partial, throwing,
                   failures>>

(* main.js ends, or a function: only then is the bootstrap not needed.     *)
CallerReturns(top) ==
    /\ top = 0
    /\ caller' = "none"
    /\ needsBootstrap' = (needsBootstrap /\ caller # "main")
    /\ UNCHANGED <<attempts, calls, loads, cache, partial, throwing, failures>>

(* Mutant: require swallows the exception.                                 *)
MutantModuleThrows(top) ==
    /\ top # 0
    /\ loads' = [loads EXCEPT ![top].state = "threw"]
    /\ UNCHANGED <<needsBootstrap, caller, attempts, calls, cache, partial, throwing,
                   failures>>

(* The file on top throws, of itself, because it cannot be parsed, or      *)
(* because what it required has.                                           *)
ModuleThrows(top) ==
    /\ top # 0
    /\ loads' = [loads EXCEPT ![top].state = "threw"]
    /\ throwing' = TRUE
    /\ UNCHANGED <<needsBootstrap, caller, attempts, calls, cache, partial, failures>>

(* main.js or the function throws: the bootstrap or the request has failed. *)
CallerThrows(top) ==
    /\ top = 0
    /\ caller' = "none"
    /\ throwing' = FALSE
    /\ failures' = failures \cup {IF caller = "main" THEN "bootstrap" ELSE "call"}
    /\ UNCHANGED <<needsBootstrap, attempts, calls, loads, cache, partial>>

(* The code on top catches what the file it required has thrown.           *)
Catch ==
    /\ throwing
    /\ throwing' = FALSE
    /\ failures' = failures \cup {"caught"}
    /\ UNCHANGED <<needsBootstrap, caller, attempts, calls, loads, cache, partial>>

Runs(top) ==
    \/ Require(top)
    \/ \E falsy \in BOOLEAN : SetExports(top, falsy)
    \/ ModuleReturns(top)
    \/ CallerReturns(top)

Next ==
    \/ Bootstrap
    \/ CallFunction
    \/ Catch
    \/ \E top \in 0..Len(loads) :
           /\ IsTop(top)
           /\ ModuleThrows(top) \/ CallerThrows(top) \/ (~throwing /\ Runs(top))

Spec == Init /\ [][Next]_vars
-----------------------------------------------------------------------------
FileOf(i) == loads[i].file

EverFalsy(f) == \E i \in DOMAIN loads : FileOf(i) = f /\ loads[i].wasFalsy

(* A file's statements run once in a context, however many scripts require *)
(* it and whatever the retries of the bootstrap, so that it neither        *)
(* defines its routes nor initialises its data twice; but for one that has *)
(* exported a falsy value, which the cache takes for no entry.             *)
EvaluatedOnce ==
    \A i, j \in DOMAIN loads :
        i # j /\ FileOf(i) = FileOf(j) => EverFalsy(FileOf(i))

(* The frames below a frame, with itself.                                  *)
Below[i \in 0..MaxLoads] ==
    {i} \cup IF i \in DOMAIN loads THEN Below[loads[i].by] ELSE {}

(* require never returns a module that is not whole, but in a cycle, where *)
(* the module itself waits for who requires it, and for a module that has  *)
(* thrown before: that one stays in the cache as it was.                   *)
PartialOnlyInCycleOrAfterThrow ==
    \A p \in partial : p[2] \in Below[p[1]] \/ loads[p[2]].state = "threw"

(* A module that has thrown is passed on as if it were whole only after    *)
(* the failure was seen: by who caught the exception, by the client of a   *)
(* request, or by that of the request whose bootstrap failed.  A context   *)
(* that bootstraps at once, catches nothing and fails no request serves    *)
(* whole modules only.                                                     *)
HalfLoadedWasReported ==
    (\E p \in partial : p[2] \notin Below[p[1]]) => failures # {}

(* A script's require names the file that its path names from the script's *)
(* directory, as everywhere else, and .js may be left out.                 *)
ResolvesAsPath ==
    \A path \in UNION {[1..n -> Up \cup Skipped \cup DOMAIN Script] : n \in 0..MaxArguments} :
        ResolveAsFile(path, <<>>) = NormalizeName(Remaining(path))

(* define takes its arguments as its comment says: see DefinedAsDocumented. *)
DefinesAsDocumented ==
    \A a \in UNION {[1..n -> Types] : n \in 0..MaxArguments} : DefinedAsDocumented(a)

(* What main.js and the functions ask of the runtime is understood as it   *)
(* is written.                                                             *)
CallsUnderstood == caller # "none" => ResolvesAsPath /\ DefinesAsDocumented
=============================================================================
