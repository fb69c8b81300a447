-------------------------- MODULE DefinitionReload --------------------------
(***************************************************************************)
(* The CLI as it runs by default: --watch, and a state service that keeps  *)
(* the state in memory (InMemoryStateService, whose setSandboxState is one *)
(* assignment).  Requests use script contexts, first on the IO pool, to    *)
(* match a route, then on the only engine thread, to run a function; the   *)
(* watcher thread replaces the context whenever a file of the definition   *)
(* has changed on the disk, with the state that the old one has buffered.  *)
(*                                                                         *)
(* matched, ran, notified, missed, mishaps and edits are history           *)
(* variables; no action depends on them but for the bound on edits.        *)
(***************************************************************************)
EXTENDS ScriptContexts

CONSTANTS
    Request,      \* the requests; request r's function may make change r
    Watcher,      \* the thread that watches the definition
    MaxEdits      \* bound on the changes of main.js

ASSUME ReloadAssumption ==
    /\ Watcher \notin Request
    /\ Thread = Request \cup {Watcher}
    /\ MaxEdits \in Nat

VARIABLES
    disk,         \* the version of main.js on the disk, 0 if there is none
    edits,        \* how often it changed
    changed,      \* the watch key is signalled
    overflown,    \* an event without a context has ended the watcher
    place,        \* where a request is
    buffered,     \* the context whose state object is buffered, 0 if none
    state,        \* the state in the state service
    matched,      \* the context whose table matched the request, or 0
    ran,          \* the context whose function it ran, or 0
    notified,     \* the changes that were made and notified
    missed,       \* why the last reload was abandoned, if it was
    mishaps       \* what has happened that may lose a change

serviceVars == <<buffered, state>>
diskVars == <<disk, edits, changed, overflown>>
historyVars == <<matched, ran, notified, missed, mishaps>>
vars == <<contextVars, diskVars, place, serviceVars, historyVars>>

Places == {"idle", "io", "queued", "engine", "output", "failing",
           "answered", "failed"}

Init ==
    /\ ContextsInit
    /\ disk = 1
    /\ edits = 0
    /\ changed = FALSE
    /\ overflown = FALSE
    /\ place = [r \in Request |-> "idle"]
    /\ buffered = 0
    /\ state = {}
    /\ matched = [r \in Request |-> 0]
    /\ ran = [r \in Request |-> 0]
    /\ notified = {}
    /\ missed = "none"
    /\ mishaps = {}

Present == disk # 0
OnEngine(r) == place[r] \in {"engine", "output", "failing"}
EngineIdle == \A r \in Request : ~OnEngine(r)
To(r, p) == place' = [place EXCEPT ![r] = p]
Mishap(what, happened) == mishaps' = mishaps \cup (IF happened THEN {what} ELSE {})
Reloading == ~In(Watcher, "idle")
-----------------------------------------------------------------------------
(* An editor saves main.js: at once, or by way of no main.js at all. *)
Edit ==
    /\ edits < MaxEdits
    /\ edits' = edits + 1
    /\ disk' \in {edits + 2, 0} \ {disk}
    /\ changed' = TRUE
    /\ UNCHANGED <<contextVars, overflown, place, serviceVars, historyVars>>

(* submitRequest: the IO pool begins with the request. *)
Submit(r) ==
    /\ place[r] = "idle"
    /\ To(r, "io")
    /\ UNCHANGED <<contextVars, diskVars, serviceVars, historyVars>>

(* The engine takes the request from its queue. *)
EngineTake(r) ==
    /\ place[r] = "queued"
    /\ EngineIdle
    /\ To(r, "engine")
    /\ UNCHANGED <<contextVars, diskVars, serviceVars, historyVars>>

(* getLoadedScriptContext, or getSandboxScriptContext on the engine. *)
Acquire(r) ==
    /\ place[r] = "io" \/ OnEngine(r)
    /\ GetContext(r) \/ BeginCreate(r, Present)
    /\ UNCHANGED <<diskVars, place, serviceVars, historyVars>>

Acquired(r) ==
    /\ ContextCreated(r, state, "checking") \/ CreateThrows(r)
    /\ UNCHANGED <<diskVars, place, serviceVars, historyVars>>

(* The routing table, once it is there, spares the IO pool the bootstrap. *)
Check(r) ==
    /\ \/ /\ place[r] = "io"
          /\ IF In(r, "checking") /\ Mine(r).table # {}
             THEN /\ Go(r, "matching")
                  /\ UNCHANGED <<ctx, registered, closing, strays>>
             ELSE CheckBootstrap(r, "listing")
       \/ /\ place[r] = "engine"
          /\ CheckBootstrap(r, "finding")
    /\ UNCHANGED <<diskVars, place, serviceVars, historyVars>>

Bootstrap(r) ==
    /\ \/ ReadMain(r, disk)
       \/ Enter(r, "read", "evaluating")
       \/ Evaluated(r, IF place[r] = "io" THEN "listing" ELSE "finding")
       \/ EvaluateThrows(r)
    /\ UNCHANGED <<diskVars, place, serviceVars, historyVars>>

Routes(r) ==
    /\ ListRoutes(r, "matching") \/ IterationThrows(r)
    /\ UNCHANGED <<diskVars, place, serviceVars, historyVars>>

(* A route of the table matches: the request is queued for the engine,     *)
(* which will not be told the context.                                     *)
MatchRoute(r) ==
    /\ In(r, "matching")
    /\ Leave(r)
    /\ matched' = [matched EXCEPT ![r] = use[r].context]
    /\ To(r, "queued")
    /\ UNCHANGED <<ctx, registered, closing, strays, diskVars, serviceVars,
                   ran, notified, missed, mishaps>>

(* getMatchedFunction finds a function of the context to run. *)
FindFunction(r) ==
    /\ In(r, "finding")
    /\ Go(r, "found")
    /\ ran' = [ran EXCEPT ![r] = use[r].context]
    /\ UNCHANGED <<ctx, registered, closing, strays, diskVars, place, serviceVars,
                   matched, notified, missed, mishaps>>

(* It has the context to itself; if it throws it may have made its change. *)
Execute(r) ==
    /\ \/ Enter(r, "found", "executing")
       \/ \E changes \in {{}, {r}}, end \in {"returned", "threw"} :
              FunctionEnds(r, changes, end)
    /\ UNCHANGED <<diskVars, place, serviceVars, historyVars>>

Cancelled(r) ==
    /\ Cancel(r) \/ FindCancelled(r) \/ RemoveCancelled(r)
    /\ Mishap("cancelled", In(r, "evaluating") \/ In(r, "executing"))
    /\ UNCHANGED <<diskVars, place, serviceVars, matched, ran, notified, missed>>

(* Mutant: the change is not notified. *)
MutantNotifyChange(r) ==
    /\ In(r, "returned")
    /\ notified' = notified \cup (Mine(r).state \cap {r})
    /\ Mishap("late", use[r].context # registered \/ Reloading)
    /\ Leave(r)
    /\ To(r, "output")
    /\ UNCHANGED <<ctx, registered, closing, strays, diskVars, serviceVars,
                   matched, ran, missed>>

(* notifyPossibleStateChange buffers the state object of the context that  *)
(* ran the function, whichever is registered by now: too late for a reload *)
(* that has taken what was buffered.                                       *)
NotifyChange(r) ==
    /\ In(r, "returned")
    /\ buffered' = use[r].context
    /\ notified' = notified \cup (Mine(r).state \cap {r})
    /\ Mishap("late", use[r].context # registered \/ Reloading)
    /\ Leave(r)
    /\ To(r, "output")
    /\ UNCHANGED <<ctx, registered, closing, strays, diskVars, state,
                   matched, ran, missed>>

(* The engine takes the console output from the registered context, or     *)
(* fails to, and is done.                                                  *)
TakeOutput(r) ==
    /\ In(r, "checking") \/ In(r, "threw")
    /\ \/ /\ place[r] = "output"
          /\ To(r, IF In(r, "threw") THEN "failing" ELSE "answered")
       \/ /\ place[r] = "failing"
          /\ To(r, "failed")
    /\ Leave(r)
    /\ UNCHANGED <<ctx, registered, closing, strays, diskVars, serviceVars, historyVars>>

(* What was thrown is answered, on the engine after its own attempt to     *)
(* take the output.                                                        *)
Fail(r) ==
    /\ In(r, "threw")
    /\ \/ place[r] = "io" /\ To(r, "failed")
       \/ place[r] = "engine" /\ To(r, "failing")
    /\ Leave(r)
    /\ UNCHANGED <<ctx, registered, closing, strays, diskVars, serviceVars, historyVars>>
-----------------------------------------------------------------------------
(* The watcher takes the signalled key, with all its events: they are one  *)
(* reload, which first takes the buffered item out.                        *)
TakeEvents ==
    /\ changed
    /\ ~overflown
    /\ In(Watcher, "idle")
    /\ changed' = FALSE
    /\ buffered' = 0
    /\ use' = [use EXCEPT ![Watcher] =
                  [NoUse EXCEPT !.context = buffered,
                                !.phase = IF buffered = 0 THEN "flushed" ELSE "flushing"]]
    /\ UNCHANGED <<ctx, registered, closing, strays, disk, edits, overflown,
                   place, state, historyVars>>

(* An event that has no context ends the watcher with a                    *)
(* NullPointerException.                                                   *)
Overflow ==
    /\ changed
    /\ In(Watcher, "idle")
    /\ overflown' = TRUE
    /\ UNCHANGED <<contextVars, disk, edits, changed, place, serviceVars, historyVars>>

(* flush(sandboxId): the supplier serialises the state object of its       *)
(* context, inside it.                                                     *)
Flush ==
    /\ In(Watcher, "flushing")
    /\ ~Entered(use[Watcher].context)
    /\ Mine(Watcher).status = "open"
    /\ state' = Mine(Watcher).state
    /\ Go(Watcher, "flushed")
    /\ UNCHANGED <<ctx, registered, closing, strays, diskVars, place, buffered,
                   historyVars>>

Abandon(why) ==
    /\ Leave(Watcher)
    /\ missed' = why
    /\ UNCHANGED <<ctx, registered, closing, strays, diskVars, place, serviceVars,
                   matched, ran, notified>>

(* The supplier throws, when its context was closed or when the object     *)
(* cannot be serialised: the reload is abandoned, and the item is gone.    *)
FlushThrows ==
    /\ In(Watcher, "flushing")
    /\ \/ Mine(Watcher).status = "closed" /\ Abandon("closed")
       \/ Mine(Watcher).status = "open" /\ Abandon("supplier")
    /\ Mishap("abandoned", TRUE)

Replace ==
    /\ In(Watcher, "flushed")
    /\ BeginReplace(Watcher, Present)
    /\ UNCHANGED <<diskVars, place, serviceVars, historyVars>>

Replaced ==
    /\ ContextCreated(Watcher, state, "idle")
    /\ missed' = "none"
    /\ UNCHANGED <<diskVars, place, serviceVars, matched, ran, notified, mishaps>>

ReplaceThrows ==
    /\ CreateThrows(Watcher)
    /\ UNCHANGED <<diskVars, place, serviceVars, historyVars>>

(* The watcher logs what was thrown and waits for the next event. *)
ReloadFails ==
    /\ In(Watcher, "threw")
    /\ Abandon("create")
    /\ UNCHANGED mishaps

Close ==
    /\ \E c \in closing : CloseContext(c)
    /\ UNCHANGED <<diskVars, place, serviceVars, historyVars>>
-----------------------------------------------------------------------------
Serve(r) ==
    \/ EngineTake(r) \/ Acquire(r) \/ Acquired(r) \/ Check(r) \/ Bootstrap(r)
    \/ Routes(r) \/ MatchRoute(r) \/ FindFunction(r) \/ Execute(r)
    \/ Cancelled(r) \/ NotifyChange(r) \/ TakeOutput(r) \/ Fail(r)

Reload == \/ TakeEvents \/ Flush \/ FlushThrows \/ Replace \/ Replaced
          \/ ReplaceThrows \/ ReloadFails

Next ==
    \/ Edit \/ Overflow \/ Close \/ Reload
    \/ \E r \in Request : Submit(r) \/ Serve(r)

Spec == Init /\ [][Next]_vars

(* The threads run, and what runs inside a context ends, by its statement  *)
(* limit if not before; requests, edits and closures need not come.        *)
FairSpec ==
    /\ Spec
    /\ WF_vars(Reload)
    /\ \A r \in Request : WF_vars(Serve(r))
-----------------------------------------------------------------------------
TypeOK ==
    /\ ContextsTypeOK
    /\ place \in [Request -> Places]
    /\ disk \in 0 .. MaxEdits + 1
    /\ buffered \in 0 .. Len(ctx)
    /\ state \subseteq Request /\ notified \subseteq Request
    /\ \A r \in Request : {matched[r], ran[r]} \subseteq 0 .. Len(ctx)
    /\ missed \in {"none", "closed", "supplier", "create"}
    /\ mishaps \subseteq {"late", "cancelled", "abandoned"}

(* No change of the disk waits for the watcher. *)
Settled == ~changed /\ ~Reloading

(* The registered context has evaluated only what the disk holds. *)
Fresh == registered # 0 => /\ ctx[registered].routes \subseteq {disk}
                           /\ ctx[registered].table \subseteq {disk}

(* "refresh when files on disk change": once the watcher has done with     *)
(* them the routes and the functions are those on the disk, whatever       *)
(* requests were in the middle of a bootstrap, unless the last reload was  *)
(* abandoned.                                                              *)
FreshUnlessAbandoned == Settled /\ missed = "none" => Fresh

(* The registered context is closed, or going to be, only by a reload that *)
(* was abandoned after it had queued it, or by its own cancellation.       *)
RegisteredIsUsable ==
    (~Locked /\ registered # 0)
        => \/ ctx[registered].status = "open" /\ registered \notin closing
           \/ missed # "none" \/ In(Watcher, "threw")
           \/ \E r \in Request : use[r].context = registered
                                 /\ use[r].phase \in {"cancelled", "removing", "threw"}

(* No context is forgotten: one that is open and not registered is going   *)
(* to be closed, unless it was removed in the place of a cancelled one.    *)
NoContextForgotten ==
    \A c \in DOMAIN ctx :
        ctx[c].status = "open" => c = registered \/ c \in closing \/ c \in strays

(* The engine fetches the context anew: it may run a function of a newer   *)
(* context than the one that matched the route, never of an older one.     *)
NeverBackToOldContext ==
    \A r \in Request : ran[r] # 0 => ran[r] >= matched[r]

(* "flush state so its ready for new context load": between reloads every  *)
(* change that was notified is in the registered context's state object,   *)
(* unless it was notified after the reload's flush, a reload was abandoned *)
(* or a context was cancelled.                                             *)
StateCarriedOver ==
    ~Reloading /\ registered # 0 /\ mishaps = {}
        => notified \subseteq ctx[registered].state

(* Whatever the watcher does with the lock, and other requests with the    *)
(* contexts, every request ends.                                           *)
EveryRequestEnds ==
    \A r \in Request : place[r] = "io" ~> place[r] \in {"answered", "failed"}

(* "refresh when files on disk change", as long as main.js is there and    *)
(* can be loaded.  Violated: the item that a function of a replaced        *)
(* context has left behind makes a later reload's flush throw, which       *)
(* abandons the reload.                                                    *)
RefreshedWhenChanged == Settled /\ missed \in {"none", "closed"} => Fresh
=============================================================================
