--------------------------- MODULE ScriptContexts ---------------------------
(***************************************************************************)
(* The script contexts of the worker's one sandbox (ContextFactory,        *)
(* WorkerScriptContext) and what a thread does with one: get or create it  *)
(* under the sandbox's lock, evaluate main.js in it unless that was done   *)
(* (AbstractJSExecutor.bootstrap), list its routes, run a function of it.  *)
(* What runs inside a context holds the context's monitor                  *)
(* (JSContextHelper); everything around it does not.                       *)
(*                                                                         *)
(* A definition is abstracted to its version: the routes of a context are  *)
(* the versions of main.js that have defined any.  A state object is the   *)
(* set of the changes that were made to it.                                *)
(***************************************************************************)
EXTENDS Naturals, Sequences, SequencesExt

CONSTANTS
    Thread,        \* the threads that use contexts
    MaxContexts    \* bound on the contexts created

ASSUME ContextsAssumption == MaxContexts \in Nat \ {0}

VARIABLES
    ctx,           \* the contexts in the order they were begun
    registered,    \* existingContexts.get(sandboxIdentifier), 0 when none is
    use,           \* the context each thread uses, and how far it is
    closing,       \* contexts the cleanup thread will close
    strays         \* contexts that were removed in another's place (history)

contextVars == <<ctx, registered, use, closing, strays>>

NoUse == [context |-> 0, phase |-> "idle", main |-> 0]

(* booted: not needsBootstrap; routes: routes.keySet(); table: those of    *)
(* the routing table, {} when it is null.                                  *)
NewContext == [status |-> "building", booted |-> FALSE,
               routes |-> {}, table |-> {}, state |-> {}]

ContextsInit ==
    /\ ctx = <<>>
    /\ registered = 0
    /\ use = [t \in Thread |-> NoUse]
    /\ closing = {}
    /\ strays = {}

In(t, phase) == use[t].phase = phase
Mine(t) == ctx[use[t].context]
Go(t, phase) == use' = [use EXCEPT ![t].phase = phase]
Leave(t) == use' = [use EXCEPT ![t] = NoUse]

(* Mutant: the lock is not given back when createContext throws. *)
MutantLocked == \/ \E t \in Thread : In(t, "creating")
                \/ \E c \in DOMAIN ctx : ctx[c].status = "abandoned"

(* A thread holds the sandbox's lock while it creates a context ... *)
Locked == \E t \in Thread : In(t, "creating")

(* ... and a context's monitor while it runs inside it. *)
Inside == {"evaluating", "executing", "cancelled", "removing"}
Entered(c) == \E t \in Thread : use[t].context = c /\ use[t].phase \in Inside
-----------------------------------------------------------------------------
(* getOrCreateContext finds a context. *)
GetContext(t) ==
    /\ In(t, "idle")
    /\ ~Locked
    /\ registered # 0
    /\ use' = [use EXCEPT ![t] = [NoUse EXCEPT !.context = registered,
                                               !.phase = "checking"]]
    /\ UNCHANGED <<ctx, registered, closing, strays>>

(* createContext is entered, with the lock; it refuses a repository        *)
(* without a main.js before it builds anything.                            *)
Create(t, present) ==
    /\ Len(ctx) < MaxContexts
    /\ ctx' = IF present THEN Append(ctx, NewContext) ELSE ctx
    /\ use' = [use EXCEPT ![t] =
                  IF present THEN [NoUse EXCEPT !.context = Len(ctx) + 1,
                                                !.phase = "creating"]
                             ELSE [NoUse EXCEPT !.phase = "threw"]]

(* Mutant: the lock is not taken to look the context up. *)
MutantBeginCreate(t, present) ==
    /\ In(t, "idle")
    /\ registered = 0
    /\ Create(t, present)
    /\ UNCHANGED <<registered, closing, strays>>

(* getOrCreateContext finds none. *)
BeginCreate(t, present) ==
    /\ In(t, "idle")
    /\ ~Locked
    /\ registered = 0
    /\ Create(t, present)
    /\ UNCHANGED <<registered, closing, strays>>

(* Mutant: it is the new context that is queued for closure. *)
MutantBeginReplace(t, present) ==
    /\ ~Locked
    /\ Create(t, present)
    /\ closing' = closing \cup (IF present THEN {Len(ctx) + 1} ELSE {})
    /\ UNCHANGED <<registered, strays>>

(* Mutant: the old context is not queued for closure. *)
MutantReplaceOnly(t, present) ==
    /\ ~Locked
    /\ Create(t, present)
    /\ UNCHANGED <<registered, closing, strays>>

(* replaceContext, past its flush: the old context, if there is one, is    *)
(* queued for closure before the new one is there.                         *)
BeginReplace(t, present) ==
    /\ ~Locked
    /\ Create(t, present)
    /\ closing' = closing \cup (IF registered = 0 THEN {} ELSE {registered})
    /\ UNCHANGED <<registered, strays>>

(* The context is complete, with the state that was loaded, and put over   *)
(* whichever is registered.                                                *)
ContextCreated(t, loaded, next) ==
    /\ In(t, "creating")
    /\ ctx' = [ctx EXCEPT ![use[t].context].status = "open",
                          ![use[t].context].state = loaded]
    /\ registered' = use[t].context
    /\ IF next = "idle" THEN Leave(t) ELSE Go(t, next)
    /\ UNCHANGED <<closing, strays>>

(* createContext throws: nobody closes what it has built. *)
CreateThrows(t) ==
    /\ In(t, "creating")
    /\ ctx' = [ctx EXCEPT ![use[t].context].status = "abandoned"]
    /\ Go(t, "threw")
    /\ UNCHANGED <<registered, closing, strays>>
-----------------------------------------------------------------------------
(* bootstrap returns at once unless the context needs it. *)
CheckBootstrap(t, next) ==
    /\ In(t, "checking")
    /\ Go(t, IF Mine(t).booted THEN next ELSE "reading")
    /\ UNCHANGED <<ctx, registered, closing, strays>>

(* Mutant: main.js is taken from a copy made when the worker started. *)
MutantReadMain(t, version) ==
    /\ In(t, "reading")
    /\ use' = [use EXCEPT ![t].main = 1, ![t].phase = "read"]
    /\ UNCHANGED <<ctx, registered, closing, strays>>

(* main.js is read as it is now; version 0 is a file that is not there. *)
ReadMain(t, version) ==
    /\ In(t, "reading")
    /\ use' = [use EXCEPT ![t].main = version,
                          ![t].phase = IF version = 0 THEN "threw" ELSE "read"]
    /\ UNCHANGED <<ctx, registered, closing, strays>>

(* A thread enters its context, once no other is inside; it cannot enter   *)
(* one that was closed.                                                    *)
Enter(t, phase, next) ==
    /\ In(t, phase)
    /\ ~Entered(use[t].context)
    /\ Go(t, IF Mine(t).status = "open" THEN next ELSE "threw")
    /\ UNCHANGED <<ctx, registered, closing, strays>>

(* main.js has called define() for its routes. *)
Evaluated(t, next) ==
    /\ In(t, "evaluating")
    /\ Mine(t).status = "open"
    /\ ctx' = [ctx EXCEPT ![use[t].context].routes = @ \cup {use[t].main},
                          ![use[t].context].booted = TRUE]
    /\ Go(t, next)
    /\ UNCHANGED <<registered, closing, strays>>

(* Mutant: a bootstrap that fails clears the routes. *)
MutantEvaluateThrows(t) ==
    /\ In(t, "evaluating")
    /\ ctx' = [ctx EXCEPT ![use[t].context].routes = {}]
    /\ Go(t, "threw")
    /\ UNCHANGED <<registered, closing, strays>>

(* main.js throws, before or after it has defined routes: an error of its  *)
(* own, or a redeclaration when it was evaluated before.                   *)
EvaluateThrows(t) ==
    /\ In(t, "evaluating")
    /\ \E added \in {{}, {use[t].main}} :
          ctx' = [ctx EXCEPT ![use[t].context].routes = @ \cup added]
    /\ Go(t, "threw")
    /\ UNCHANGED <<registered, closing, strays>>

(* The routes are iterated while another thread defines more of them.      *)
RoutesChanging(t) ==
    \E other \in Thread : /\ other # t
                          /\ In(other, "evaluating")
                          /\ use[other].context = use[t].context

(* The routing table is made of the routes there are ... *)
ListRoutes(t, next) ==
    /\ In(t, "listing")
    /\ ctx' = [ctx EXCEPT ![use[t].context].table = Mine(t).routes]
    /\ Go(t, next)
    /\ UNCHANGED <<registered, closing, strays>>

(* ... or the iteration is a ConcurrentModificationException. *)
IterationThrows(t) ==
    /\ In(t, "listing") \/ In(t, "finding")
    /\ RoutesChanging(t)
    /\ Go(t, "threw")
    /\ UNCHANGED <<ctx, registered, closing, strays>>

(* A function of the context returns, or throws, and may have changed the  *)
(* state object.                                                           *)
FunctionEnds(t, changes, next) ==
    /\ In(t, "executing")
    /\ Mine(t).status = "open"
    /\ ctx' = [ctx EXCEPT ![use[t].context].state = @ \cup changes]
    /\ Go(t, next)
    /\ UNCHANGED <<registered, closing, strays>>

(* What runs inside exceeds its statement limit, which closes the context, *)
(* or is interrupted because the context was closed by force.              *)
Cancel(t) ==
    /\ In(t, "evaluating") \/ In(t, "executing")
    /\ ctx' = [ctx EXCEPT ![use[t].context].status = "closed"]
    /\ Go(t, "cancelled")
    /\ UNCHANGED <<registered, closing, strays>>

(* removeCancelledContextImmediately looks whether it is registered, ... *)
FindCancelled(t) ==
    /\ In(t, "cancelled")
    /\ Go(t, IF registered = use[t].context THEN "removing" ELSE "threw")
    /\ UNCHANGED <<ctx, registered, closing, strays>>

(* ... and removes whichever is registered by then. *)
RemoveCancelled(t) ==
    /\ In(t, "removing")
    /\ registered' = 0
    /\ strays' = strays \cup ({registered} \ {0, use[t].context})
    /\ Go(t, "threw")
    /\ UNCHANGED <<ctx, closing>>

(* The cleanup thread closes a context 20 seconds after its replacement    *)
(* was begun, by force and without its monitor.                            *)
CloseContext(c) ==
    /\ c \in closing
    /\ closing' = closing \ {c}
    /\ ctx' = [ctx EXCEPT ![c].status = "closed"]
    /\ UNCHANGED <<registered, use, strays>>
-----------------------------------------------------------------------------
ContextsTypeOK ==
    /\ Len(ctx) <= MaxContexts
    /\ \A c \in DOMAIN ctx :
          /\ ctx[c].status \in {"building", "open", "closed", "abandoned"}
          /\ ctx[c].booted \in BOOLEAN
          /\ ctx[c].table \subseteq ctx[c].routes
    /\ registered \in 0 .. Len(ctx)
    /\ closing \subseteq 1 .. Len(ctx)
    /\ strays \subseteq 1 .. Len(ctx)
    /\ \A t \in Thread : use[t].context \in 0 .. Len(ctx)
=============================================================================
