----------------------- MODULE DefinitionReload_proofs -----------------------
(***************************************************************************)
(* Theorems about DefinitionReload, for any number of requests, contexts   *)
(* and edits.  They rest on the lock, which one thread holds at a time,    *)
(* while no other can have or register the context that it creates.        *)
(***************************************************************************)
EXTENDS DefinitionReload, TLAPS, SequenceTheorems

Phases ==
    {"idle", "checking", "creating", "reading", "read", "evaluating", "listing",
     "matching", "finding", "found", "executing", "returned", "threw", "cancelled",
     "removing", "flushing", "flushed"}

Context == [status : {"building", "open", "closed", "abandoned"}, booted : BOOLEAN,
            routes : SUBSET Nat, table : SUBSET Nat, state : SUBSET Request]

Use == [context : Nat, phase : Phases, main : Nat]

(* TypeOK, part by part, and what else the definitions take for granted.   *)
CtxTyped ==
    /\ ctx \in Seq(Context)
    /\ Len(ctx) <= MaxContexts
    /\ \A c \in 1 .. Len(ctx) : ctx[c].table \subseteq ctx[c].routes

UseTyped ==
    /\ use \in [Thread -> Use]
    /\ \A t \in Thread : use[t].context <= Len(ctx)

IndexTyped ==
    /\ registered \in 0 .. Len(ctx)
    /\ buffered \in 0 .. Len(ctx)
    /\ closing \subseteq 1 .. Len(ctx)
    /\ strays \subseteq 1 .. Len(ctx)
    /\ matched \in [Request -> Nat] /\ ran \in [Request -> Nat]
    /\ \A r \in Request : matched[r] <= Len(ctx) /\ ran[r] <= Len(ctx)

RestTyped ==
    /\ place \in [Request -> Places]
    /\ edits \in 0 .. MaxEdits
    /\ disk \in 0 .. MaxEdits + 1
    /\ state \subseteq Request /\ notified \subseteq Request
    /\ missed \in {"none", "closed", "supplier", "create"}
    /\ mishaps \subseteq {"late", "cancelled", "abandoned"}

Typed == CtxTyped /\ UseTyped /\ IndexTyped /\ RestTyped

(* Who has no context, and what the watcher does not do.                   *)
PhaseInv ==
    /\ \A t \in Thread :
           use[t].context = 0 => use[t].phase \in {"idle", "threw", "flushed"}
    /\ use[Watcher].phase \in {"idle", "flushing", "flushed", "creating", "threw"}

(* A context that is being created is the newest, nobody else knows of it, *)
(* and the one registered, if any, is being replaced.                      *)
LockInv ==
    \A t \in Thread : In(t, "creating") =>
        /\ use[t].context = Len(ctx)
        /\ registered < Len(ctx) /\ buffered < Len(ctx)
        /\ \A u \in Thread :
               u # t => ~In(u, "creating") /\ use[u].context < Len(ctx)
        /\ \A c \in closing : c < Len(ctx)
        /\ \A r \in Request : matched[r] < Len(ctx)
        /\ registered # 0 =>
               t = Watcher /\ (registered \in closing \/ ctx[registered].status # "open")

(* No request has, or was matched by, a newer context than the registered. *)
NewestInv ==
    registered # 0 =>
        \A r \in Request : matched[r] <= registered /\ use[r].context <= registered

(* A context is removed for its cancellation only when it was cancelled.   *)
CancelledInv ==
    \A t \in Thread : use[t].phase \in {"cancelled", "removing"}
        => ctx[use[t].context].status # "open"

(* Where a request is while it is in a phase, and what it has not done by  *)
(* then.                                                                   *)
PlaceInv ==
    \A r \in Request :
        /\ use[r].phase \in {"reading", "read", "evaluating"} => place[r] \in {"io", "engine"}
        /\ use[r].phase \in {"listing", "matching"} => place[r] = "io"
        /\ use[r].phase = "finding" => place[r] = "engine"
        /\ place[r] \in {"idle", "io"} => ran[r] = 0
        /\ use[r].context # 0 => matched[r] <= use[r].context

UsableInv ==
    registered # 0 /\ missed = "none" /\ use[Watcher].phase \notin {"threw", "creating"}
        => \/ ctx[registered].status = "open" /\ registered \notin closing
           \/ \E r \in Request : /\ use[r].context = registered
                                 /\ use[r].phase \in {"cancelled", "removing"}

IInv ==
    /\ Typed
    /\ PhaseInv
    /\ LockInv
    /\ NewestInv
    /\ CancelledInv
    /\ PlaceInv
    /\ UsableInv
    /\ NoContextForgotten
    /\ NeverBackToOldContext
-----------------------------------------------------------------------------
LEMMA InitIInv == Init => IInv
  BY ReloadAssumption, ContextsAssumption
  DEF Init, ContextsInit, NoUse, IInv, Typed, CtxTyped, UseTyped, IndexTyped, RestTyped,
      PhaseInv, LockInv, NewestInv, CancelledInv, PlaceInv, UsableInv,
      NoContextForgotten, NeverBackToOldContext, Phases, Context, Use, Places, In

(* What a step that changes one context leaves of the others. *)
LEMMA ContextChanged ==
  ASSUME NEW s \in Seq(Context), NEW c \in 1 .. Len(s), NEW e \in Context
  PROVE  LET new == [s EXCEPT ![c] = e]
         IN  /\ new \in Seq(Context)
             /\ Len(new) = Len(s)
             /\ DOMAIN new = 1 .. Len(s) /\ DOMAIN s = 1 .. Len(s)
             /\ new[c] = e
             /\ \A i \in 1 .. Len(s) : i # c => new[i] = s[i]
  OBVIOUS

(* ... and one that begins another. *)
LEMMA ContextAdded ==
  ASSUME NEW s \in Seq(Context), NEW e \in Context
  PROVE  LET new == Append(s, e)
         IN  /\ new \in Seq(Context)
             /\ Len(new) = Len(s) + 1
             /\ DOMAIN new = 1 .. Len(s) + 1 /\ DOMAIN s = 1 .. Len(s)
             /\ new[Len(s) + 1] = e
             /\ \A i \in 1 .. Len(s) : new[i] = s[i]
  OBVIOUS

(* The contexts of the worker when a step changes one of them. *)
LEMMA ContextsKept ==
  ASSUME CtxTyped, NEW c \in 1 .. Len(ctx), NEW e \in Context,
         e.table \subseteq e.routes, ctx' = [ctx EXCEPT ![c] = e]
  PROVE  /\ CtxTyped'
         /\ Len(ctx') = Len(ctx)
         /\ DOMAIN ctx' = 1 .. Len(ctx) /\ DOMAIN ctx = 1 .. Len(ctx)
         /\ ctx'[c] = e
         /\ \A i \in 1 .. Len(ctx) : i # c => ctx'[i] = ctx[i]
  BY ContextChanged DEF CtxTyped

(* A thread goes on to another phase with the context that it has ...      *)
LEMMA Gone ==
  ASSUME CtxTyped, UseTyped, NEW t \in Thread, NEW phase \in Phases, Go(t, phase),
         Len(ctx') = Len(ctx)
  PROVE  /\ UseTyped'
         /\ use'[t].phase = phase /\ use'[t].context = use[t].context
         /\ \A u \in Thread : u # t => use'[u] = use[u]
<1> DEFINE new == [use[t] EXCEPT !.phase = phase]
<1>1. new \in Use /\ new.phase = phase /\ new.context = use[t].context
  BY DEF UseTyped, Use
<1>2. use' = [use EXCEPT ![t] = new]
  BY DEF Go, UseTyped
<1> HIDE DEF new
<1> QED BY <1>1, <1>2 DEF UseTyped

(* ... or with another, or none.                                           *)
LEMMA Used ==
  ASSUME CtxTyped, CtxTyped', UseTyped, NEW t \in Thread, NEW new \in Use,
         new.context <= Len(ctx'), Len(ctx) <= Len(ctx'),
         use' = [use EXCEPT ![t] = new]
  PROVE  /\ UseTyped'
         /\ use'[t] = new
         /\ \A u \in Thread : u # t => use'[u] = use[u]
  BY DEF UseTyped, CtxTyped, Use

(* A thread that has left its context. *)
LEMMA NoUseTyped == NoUse \in Use /\ NoUse.context = 0 /\ NoUse.phase = "idle"
  BY DEF NoUse, Use, Phases

(* What the steps need to know of types. *)
LEMMA Size ==
  ASSUME IInv
  PROVE  /\ Request \subseteq Thread /\ Watcher \in Thread /\ Watcher \notin Request
         /\ Len(ctx) \in Nat /\ DOMAIN ctx = 1 .. Len(ctx)
         /\ \A t \in Thread : use[t].context \in 0 .. Len(ctx)
         /\ \A c \in 1 .. Len(ctx) : /\ ctx[c] \in Context
                                     /\ ctx[c].table \subseteq ctx[c].routes
  BY ReloadAssumption DEF IInv, Typed, CtxTyped, UseTyped, Use

(* A context that one thread has cancelled is not opened by another.       *)
LEMMA CancelledKept ==
  ASSUME IInv, NEW t \in Thread,
         \A u \in Thread : u # t => use'[u] = use[u],
         use'[t].phase \notin {"cancelled", "removing"}
             \/ ctx'[use'[t].context].status # "open",
         \A u \in Thread \ {t} :
             use[u].phase \in {"cancelled", "removing"} /\ ctx[use[u].context].status # "open"
             => ctx'[use[u].context].status # "open"
  PROVE  CancelledInv'
<1> SUFFICES ASSUME NEW u \in Thread, u # t, use'[u].phase \in {"cancelled", "removing"}
    PROVE ctx'[use'[u].context].status # "open"
  BY DEF CancelledInv
<1>1. use'[u] = use[u]
  OBVIOUS
<1>2. use[u].phase \in {"cancelled", "removing"} /\ ctx[use[u].context].status # "open"
  BY <1>1 DEF IInv, CancelledInv
<1> QED BY <1>1, <1>2

(* A request that goes on with its context has one.                        *)
LEMMA PhaseKept ==
  ASSUME IInv, NEW r \in Request,
         use[r].phase \notin {"idle", "threw", "flushed"},
         use'[r].context = use[r].context,
         \A u \in Thread : u # r => use'[u] = use[u]
  PROVE  PhaseInv'
<1>1. use[r].context # 0 /\ use'[r].context # 0
  BY Size DEF IInv, PhaseInv
<1>2. use'[Watcher] = use[Watcher]
  BY Size
<1>3. \A u \in Thread : use'[u].context = 0 => use'[u].phase \in {"idle", "threw", "flushed"}
  BY <1>1 DEF IInv, PhaseInv
<1> QED BY <1>2, <1>3 DEF IInv, PhaseInv

(* The types of the proof are those of the model. *)
LEMMA TypedOK == Typed => TypeOK
<1> SUFFICES ASSUME Typed PROVE TypeOK
  OBVIOUS
<1>1. ContextsTypeOK
  <2>1. DOMAIN ctx = 1 .. Len(ctx) /\ \A c \in 1 .. Len(ctx) : ctx[c] \in Context
    BY DEF Typed, CtxTyped
  <2>2. \A c \in DOMAIN ctx :
          /\ ctx[c].status \in {"building", "open", "closed", "abandoned"}
          /\ ctx[c].booted \in BOOLEAN
          /\ ctx[c].table \subseteq ctx[c].routes
    BY <2>1 DEF Typed, CtxTyped, Context
  <2>3. \A t \in Thread : use[t].context \in 0 .. Len(ctx)
    BY DEF Typed, CtxTyped, UseTyped, Use
  <2> QED BY <2>2, <2>3 DEF ContextsTypeOK, Typed, CtxTyped, IndexTyped
<1>2. \A r \in Request : {matched[r], ran[r]} \subseteq 0 .. Len(ctx)
  BY DEF Typed, CtxTyped, IndexTyped
<1> QED BY <1>1, <1>2 DEF Typed, IndexTyped, RestTyped, TypeOK

-----------------------------------------------------------------------------
(* An edit changes nothing of the contexts. *)
LEMMA EditKeeps ==
  ASSUME IInv, Edit
  PROVE  IInv'
  BY ReloadAssumption, ContextsAssumption, SMTT(30) DEF IInv, Typed,
      CtxTyped, UseTyped, IndexTyped, RestTyped, Context, Use, In, Go, Leave,
      To, NoUse, Mine, contextVars, diskVars, serviceVars, historyVars,
      PhaseInv, LockInv, NewestInv, CancelledInv, PlaceInv, UsableInv,
      NoContextForgotten, NeverBackToOldContext, Phases, Places, Mishap,
      OnEngine, Edit

(* The request is on the IO pool, in no phase yet. *)
LEMMA SubmitKeeps ==
  ASSUME IInv, NEW r \in Request, Submit(r)
  PROVE  IInv'
  BY ReloadAssumption, ContextsAssumption, SMTT(30) DEF IInv, Typed,
      CtxTyped, UseTyped, IndexTyped, RestTyped, Context, Use, In, Go, Leave,
      To, NoUse, Mine, contextVars, diskVars, serviceVars, historyVars,
      PhaseInv, LockInv, NewestInv, CancelledInv, PlaceInv, UsableInv,
      NoContextForgotten, NeverBackToOldContext, Phases, Places, Mishap,
      OnEngine, Submit

(* The engine takes a request, which is in no phase then. *)
LEMMA EngineTakeKeeps ==
  ASSUME IInv, NEW r \in Request, EngineTake(r)
  PROVE  IInv'
  BY ReloadAssumption, ContextsAssumption, SMTT(30) DEF IInv, Typed,
      CtxTyped, UseTyped, IndexTyped, RestTyped, Context, Use, In, Go, Leave,
      To, NoUse, Mine, contextVars, diskVars, serviceVars, historyVars,
      PhaseInv, LockInv, NewestInv, CancelledInv, PlaceInv, UsableInv,
      NoContextForgotten, NeverBackToOldContext, Phases, Places, Mishap,
      OnEngine, EngineTake

(* The registered context is the newest one that is complete. *)
LEMMA GetKeeps ==
  ASSUME IInv, NEW r \in Request, GetContext(r), UNCHANGED <<diskVars, place,
      serviceVars, historyVars>>
  PROVE  IInv'
<1> DEFINE new == [NoUse EXCEPT !.context = registered, !.phase = "checking"]
<1>a. ctx' = ctx /\ use' = [use EXCEPT ![r] = new] /\ r \in Thread /\ Len(ctx) \in Nat
  BY Size DEF GetContext
<1>b. CtxTyped'
  BY <1>a DEF IInv, Typed, CtxTyped
<1>c. new \in Use /\ new.context <= Len(ctx') /\ Len(ctx) <= Len(ctx')
  <2>1. Len(ctx) <= Len(ctx') /\ registered \in Nat /\ registered <= Len(ctx')
    BY <1>a, Size DEF IInv, Typed, IndexTyped
  <2>2. "checking" \in Phases
    BY DEF Phases
  <2> QED BY <2>1, <2>2 DEF NoUse, Use
<1> HIDE DEF new
<1>1. UseTyped'
  BY <1>a, <1>b, <1>c, Used DEF IInv, Typed
<1> USE ReloadAssumption, ContextsAssumption DEF IInv, Typed, CtxTyped,
    UseTyped, IndexTyped, RestTyped, Context, Use, In, Go, Leave, To, NoUse,
    Mine, contextVars, diskVars, serviceVars, historyVars, GetContext, Locked
<1>2. CtxTyped' BY DEF Phases, Places, Mishap, PhaseInv
<1>3. IndexTyped' BY SMTT(30) DEF PhaseInv
<1>4. RestTyped' BY DEF Places, Mishap, PhaseInv, Present
<1>5. PhaseInv' BY SMTT(30) DEF PhaseInv, Phases
<1>6. LockInv' BY SMTT(30) DEF LockInv, PhaseInv
<1>7. NewestInv' BY DEF NewestInv, LockInv
<1>8. CancelledInv' BY SMTT(30) DEF CancelledInv, LockInv, PhaseInv
<1>9. PlaceInv' BY SMTT(30) DEF PlaceInv, NewestInv, LockInv, OnEngine
<1>10. UsableInv' BY DEF UsableInv, LockInv, CancelledInv, PhaseInv
<1>11. NoContextForgotten' BY DEF NoContextForgotten, LockInv, CancelledInv,
    PhaseInv
<1>12. NeverBackToOldContext' BY DEF NeverBackToOldContext, PlaceInv
<1> QED BY <1>1, <1>2, <1>3, <1>4, <1>5, <1>6, <1>7, <1>8, <1>9, <1>10,
    <1>11, <1>12

(* The context begun is newer than any that somebody has. *)
LEMMA BeginCreateKeeps ==
  ASSUME IInv, NEW r \in Request, BeginCreate(r, Present), UNCHANGED
      <<diskVars, place, serviceVars, historyVars>>
  PROVE  IInv'
<1> DEFINE new == IF Present
                     THEN [NoUse EXCEPT !.context = Len(ctx) + 1, !.phase = "creating"]
                     ELSE [NoUse EXCEPT !.phase = "threw"]
<1>a. /\ r \in Thread /\ Len(ctx) \in Nat
      /\ Len(ctx) < MaxContexts
      /\ ctx' = IF Present THEN Append(ctx, NewContext) ELSE ctx
      /\ use' = [use EXCEPT ![r] = new]
      /\ NewContext \in Context /\ NewContext.table \subseteq NewContext.routes
      /\ new \in Use
      /\ new.context = IF Present THEN Len(ctx) + 1 ELSE 0
      /\ new.phase = IF Present THEN "creating" ELSE "threw"
  <2>1. /\ Len(ctx) < MaxContexts
        /\ ctx' = IF Present THEN Append(ctx, NewContext) ELSE ctx
        /\ use' = [use EXCEPT ![r] = new]
    BY DEF BeginCreate, Create
  <2>2. NewContext \in Context /\ NewContext.table \subseteq NewContext.routes
    BY DEF NewContext, Context
  <2>3. Len(ctx) + 1 \in Nat /\ "creating" \in Phases /\ "threw" \in Phases
    BY Size DEF Phases
  <2>4. new \in Use
    BY <2>3 DEF NoUse, Use
  <2>5. new.context = IF Present THEN Len(ctx) + 1 ELSE 0
    BY <2>3 DEF NoUse
  <2>6. new.phase = IF Present THEN "creating" ELSE "threw"
    BY <2>3 DEF NoUse
  <2> HIDE DEF new
  <2> QED BY <2>1, <2>2, <2>4, <2>5, <2>6, Size
<1>b. /\ CtxTyped'
      /\ Len(ctx') = IF Present THEN Len(ctx) + 1 ELSE Len(ctx)
      /\ \A i \in 1 .. Len(ctx) : ctx'[i] = ctx[i]
  <2>1. CASE Present
    <3>1. ctx' = Append(ctx, NewContext)
      BY <1>a, <2>1
    <3> HIDE DEF NewContext
    <3>2. /\ ctx' \in Seq(Context) /\ Len(ctx') = Len(ctx) + 1 /\ ctx'[Len(ctx) + 1] = NewContext
          /\ \A i \in 1 .. Len(ctx) : ctx'[i] = ctx[i]
      BY <1>a, <3>1, ContextAdded DEF IInv, Typed, CtxTyped
    <3>3. \A i \in 1 .. Len(ctx') : ctx'[i].table \subseteq ctx'[i].routes
      <4> TAKE i \in 1 .. Len(ctx')
      <4>1. CASE i = Len(ctx) + 1
        BY <4>1, <1>a, <3>2
      <4>2. CASE i \in 1 .. Len(ctx)
        <5>1. ctx'[i] = ctx[i]
          BY <4>2, <3>2
        <5>2. ctx[i].table \subseteq ctx[i].routes
          BY <4>2, Size
        <5> QED BY <5>1, <5>2
      <4> QED BY <4>1, <4>2, <3>2, <1>a
    <3> QED BY <1>a, <2>1, <3>2, <3>3, ContextsAssumption DEF CtxTyped
  <2>2. CASE ~Present
    BY <1>a, <2>2 DEF IInv, Typed, CtxTyped
  <2> QED BY <2>1, <2>2
<1>c. /\ UseTyped'
      /\ use'[r] = new
      /\ \A u \in Thread : u # r => use'[u] = use[u]
  <2> HIDE DEF new
  <2>1. new.context <= Len(ctx') /\ Len(ctx) <= Len(ctx')
    BY <1>a, <1>b
  <2> QED BY <1>a, <1>b, <2>1, Used DEF IInv, Typed
<1> HIDE DEF new
<1>d. \A u \in Thread : use[u].phase \in {"cancelled", "removing"}
            => use[u].context \in 1 .. Len(ctx)
  BY Size DEF IInv, PhaseInv
<1>1. CtxTyped'
  BY <1>b
<1>2. UseTyped'
  BY <1>c
<1>3. IndexTyped'
  <2>1. Len(ctx) \in Nat /\ Len(ctx') \in Nat /\ Len(ctx) <= Len(ctx')
    BY <1>a, <1>b
  <2>2. UNCHANGED <<registered, buffered, closing, strays, matched, ran>>
    BY DEF BeginCreate, serviceVars, historyVars
  <2> QED BY <2>1, <2>2 DEF IInv, Typed, IndexTyped
<1>4. CancelledInv'
  BY <1>a, <1>b, <1>c, <1>d, CancelledKept
<1> USE ReloadAssumption, ContextsAssumption DEF IInv, Typed, CtxTyped,
    UseTyped, IndexTyped, RestTyped, Context, Use, In, Go, Leave, To, NoUse,
    Mine, contextVars, diskVars, serviceVars, historyVars, BeginCreate,
    Create, NewContext, Locked, Present
<1>5. RestTyped' BY DEF Places, Mishap, PhaseInv, Present
<1>6. PhaseInv' BY SMTT(30) DEF PhaseInv, Phases
<1>7. LockInv' BY SMTT(30) DEF LockInv, PhaseInv
<1>8. NewestInv' BY DEF NewestInv, LockInv
<1>9. PlaceInv' BY SMTT(30) DEF PlaceInv, NewestInv, LockInv, OnEngine
<1>10. UsableInv' BY DEF UsableInv, LockInv, CancelledInv, PhaseInv
<1>11. NoContextForgotten' BY DEF NoContextForgotten, LockInv, CancelledInv,
    PhaseInv
<1>12. NeverBackToOldContext' BY DEF NeverBackToOldContext, PlaceInv
<1> QED BY <1>1, <1>2, <1>3, <1>4, <1>5, <1>6, <1>7, <1>8, <1>9, <1>10,
    <1>11, <1>12

(* It is registered while no other thread is creating one. *)
LEMMA CreatedKeeps ==
  ASSUME IInv, NEW r \in Request, ContextCreated(r, state, "checking"),
      UNCHANGED <<diskVars, place, serviceVars, historyVars>>
  PROVE  IInv'
<1> DEFINE c == use[r].context
           e == [ctx[c] EXCEPT !.status = "open", !.state = state]
<1>a. /\ r \in Thread /\ c \in 1 .. Len(ctx) /\ Len(ctx) \in Nat
      /\ use[r].phase \in {"creating"}
      /\ ctx[c] \in Context /\ ctx[c].table \subseteq ctx[c].routes
  BY Size DEF IInv, PhaseInv, ContextCreated, In
<1>b. /\ CtxTyped'
      /\ Len(ctx') = Len(ctx)
      /\ ctx'[c].status = "open"
      /\ \A i \in 1 .. Len(ctx) : i # c => ctx'[i] = ctx[i]
  <2>1. e \in Context /\ e.table \subseteq e.routes /\ e.status = "open"
    BY <1>a DEF Context, IInv, Typed, RestTyped
  <2>2. ctx' = [ctx EXCEPT ![c] = e]
    BY DEF ContextCreated
  <2> HIDE DEF e
  <2> QED BY <1>a, <2>1, <2>2, ContextsKept DEF IInv, Typed
<1> HIDE DEF e
<1>c. /\ UseTyped'
      /\ use'[r].phase = "checking"
      /\ use'[r].context = use[r].context
      /\ \A u \in Thread : u # r => use'[u] = use[u]
  BY <1>a, <1>b, Gone DEF IInv, Typed, ContextCreated, Phases
<1>d. /\ c = Len(ctx) /\ registered' = c /\ UNCHANGED <<closing, strays, matched, place, ran>>
      /\ \A t \in Thread \ {r} : use[t].phase # "creating" /\ use[t].context < c
  BY <1>a DEF IInv, LockInv, In, ContextCreated, historyVars
<1>e. \A t \in Thread \ {r} : use[t].phase \in {"cancelled", "removing"} => use[t].context # 0
  BY DEF IInv, PhaseInv
<1>1. CtxTyped'
  BY <1>b
<1>2. UseTyped'
  BY <1>c
<1>3. PhaseInv'
  <2>1. \A t \in Thread : use'[t].context = 0 => use'[t].phase \in {"idle", "threw", "flushed"}
    BY <1>a, <1>c DEF IInv, PhaseInv
  <2>2. use'[Watcher] = use[Watcher]
    BY <1>c, Size
  <2> QED BY <2>1, <2>2 DEF IInv, PhaseInv
<1>4. NewestInv'
  <2>1. \A q \in Request : matched[q] <= c
    BY <1>a, <1>d DEF IInv, Typed, IndexTyped
  <2>2. \A q \in Request : use'[q].context <= c
    BY <1>a, <1>c, <1>d, Size
  <2> QED BY <1>d, <2>1, <2>2 DEF NewestInv
<1>5. CancelledInv'
  <2>1. \A u \in Thread \ {r} : use[u].phase \in {"cancelled", "removing"}
            => use[u].context \in 1 .. Len(ctx) /\ use[u].context # c
    BY <1>a, <1>d, <1>e, Size
  <2> QED BY <1>a, <1>b, <1>c, <2>1, CancelledKept
<1>6. PlaceInv'
  <2> SUFFICES ASSUME NEW q \in Request
      PROVE /\ use'[q].phase \in {"reading", "read", "evaluating"} => place[q] \in {"io", "engine"}
            /\ use'[q].phase \in {"listing", "matching"} => place[q] = "io"
            /\ use'[q].phase = "finding" => place[q] = "engine"
            /\ place[q] \in {"idle", "io"} => ran[q] = 0
            /\ use'[q].context # 0 => matched[q] <= use'[q].context
    BY <1>d DEF PlaceInv
  <2>1. CASE q = r
    BY <2>1, <1>a, <1>c, <1>d DEF IInv, Typed, IndexTyped, PlaceInv
  <2>2. CASE q # r
    <3>1. use'[q] = use[q]
      BY <2>2, <1>c, Size
    <3> QED BY <3>1 DEF IInv, PlaceInv
  <2> QED BY <2>1, <2>2
<1> USE ReloadAssumption, ContextsAssumption DEF IInv, Typed, CtxTyped,
    UseTyped, IndexTyped, RestTyped, Context, Use, In, Go, Leave, To, NoUse,
    Mine, contextVars, diskVars, serviceVars, historyVars, ContextCreated
<1>7. IndexTyped' BY SMTT(30) DEF PhaseInv
<1>8. RestTyped' BY DEF Places, Mishap, PhaseInv, Present
<1>9. LockInv' BY SMTT(30) DEF LockInv, PhaseInv
<1>10. UsableInv' BY DEF UsableInv, LockInv, CancelledInv, PhaseInv
<1>11. NoContextForgotten' BY DEF NoContextForgotten, LockInv, CancelledInv,
    PhaseInv
<1>12. NeverBackToOldContext' BY DEF NeverBackToOldContext, PlaceInv
<1> QED BY <1>1, <1>2, <1>3, <1>4, <1>5, <1>6, <1>7, <1>8, <1>9, <1>10,
    <1>11, <1>12

(* It is abandoned, not open: nobody needs to close it. *)
LEMMA CreateThrowsKeeps ==
  ASSUME IInv, NEW r \in Request, CreateThrows(r), UNCHANGED <<diskVars,
      place, serviceVars, historyVars>>
  PROVE  IInv'
<1> DEFINE c == use[r].context
           e == [ctx[c] EXCEPT !.status = "abandoned"]
<1>a. /\ r \in Thread /\ c \in 1 .. Len(ctx) /\ Len(ctx) \in Nat
      /\ use[r].phase \in {"creating"}
      /\ ctx[c] \in Context /\ ctx[c].table \subseteq ctx[c].routes
  BY Size DEF IInv, PhaseInv, CreateThrows, In
<1>b. /\ CtxTyped'
      /\ Len(ctx') = Len(ctx)
      /\ ctx'[c].status = "abandoned"
      /\ \A i \in 1 .. Len(ctx) : i # c => ctx'[i] = ctx[i]
  <2>1. e \in Context /\ e.table \subseteq e.routes /\ e.status = "abandoned"
    BY <1>a DEF Context, IInv, Typed, RestTyped
  <2>2. ctx' = [ctx EXCEPT ![c] = e]
    BY DEF CreateThrows
  <2> HIDE DEF e
  <2> QED BY <1>a, <2>1, <2>2, ContextsKept DEF IInv, Typed
<1> HIDE DEF e
<1>c. /\ UseTyped'
      /\ use'[r].phase = "threw"
      /\ use'[r].context = use[r].context
      /\ \A u \in Thread : u # r => use'[u] = use[u]
  BY <1>a, <1>b, Gone DEF IInv, Typed, CreateThrows, Phases
<1>1. CtxTyped'
  BY <1>b
<1>2. UseTyped'
  BY <1>c
<1>3. PhaseInv'
  BY <1>a, <1>c, PhaseKept
<1>4. CancelledInv'
  <2>1. \A u \in Thread \ {r} : use[u].phase \in {"cancelled", "removing"}
            => use[u].context \in 1 .. Len(ctx)
    BY Size DEF IInv, PhaseInv
  <2> QED BY <1>a, <1>b, <1>c, <2>1, CancelledKept
<1> USE ReloadAssumption, ContextsAssumption DEF IInv, Typed, CtxTyped,
    UseTyped, IndexTyped, RestTyped, Context, Use, In, Go, Leave, To, NoUse,
    Mine, contextVars, diskVars, serviceVars, historyVars, CreateThrows
<1>5. IndexTyped' BY SMTT(30) DEF PhaseInv
<1>6. RestTyped' BY DEF Places, Mishap, PhaseInv, Present
<1>7. LockInv' BY SMTT(30) DEF LockInv, PhaseInv
<1>8. NewestInv' BY DEF NewestInv, LockInv
<1>9. PlaceInv' BY SMTT(30) DEF PlaceInv, NewestInv, LockInv, OnEngine
<1>10. UsableInv' BY DEF UsableInv, LockInv, CancelledInv, PhaseInv
<1>11. NoContextForgotten' BY DEF NoContextForgotten, LockInv, CancelledInv,
    PhaseInv
<1>12. NeverBackToOldContext' BY DEF NeverBackToOldContext, PlaceInv
<1> QED BY <1>1, <1>2, <1>3, <1>4, <1>5, <1>6, <1>7, <1>8, <1>9, <1>10,
    <1>11, <1>12

(* A request on the IO pool goes on to the routes, on the engine to the function. *)
LEMMA CheckKeeps ==
  ASSUME IInv, NEW r \in Request, Check(r)
  PROVE  IInv'
<1>a. PICK phase \in {"matching", "listing", "finding", "reading"} :
        /\ Go(r, phase) /\ use[r].phase = "checking"
        /\ phase \in {"matching", "listing"} => place[r] = "io"
        /\ phase = "finding" => place[r] = "engine"
        /\ place[r] \in {"io", "engine"}
        /\ UNCHANGED <<ctx, registered, closing, strays>>
        /\ UNCHANGED <<diskVars, place, serviceVars, historyVars>>
  BY DEF Check, CheckBootstrap, In, Mine
<1> USE ReloadAssumption, ContextsAssumption DEF IInv, Typed, CtxTyped,
    UseTyped, IndexTyped, RestTyped, Context, Use, In, Go, Leave, To, NoUse,
    Mine, contextVars, diskVars, serviceVars, historyVars
<1>1. CtxTyped' BY <1>a DEF Phases, Places, Mishap, PhaseInv
<1>2. UseTyped' BY <1>a DEF Phases
<1>3. IndexTyped' BY <1>a, SMTT(30) DEF PhaseInv
<1>4. RestTyped' BY <1>a DEF Places, Mishap, PhaseInv, Present
<1>5. PhaseInv' BY <1>a DEF PhaseInv, Phases
<1>6. LockInv' BY <1>a, SMTT(30) DEF LockInv, PhaseInv
<1>7. NewestInv' BY <1>a DEF NewestInv, LockInv
<1>8. CancelledInv' BY <1>a, SMTT(30) DEF CancelledInv, LockInv, PhaseInv
<1>9. PlaceInv' BY <1>a, SMTT(30) DEF PlaceInv, NewestInv, LockInv, OnEngine
<1>10. UsableInv' BY <1>a DEF UsableInv, LockInv, CancelledInv, PhaseInv
<1>11. NoContextForgotten' BY <1>a DEF NoContextForgotten, LockInv,
    CancelledInv, PhaseInv
<1>12. NeverBackToOldContext' BY <1>a DEF NeverBackToOldContext, PlaceInv
<1> QED BY <1>1, <1>2, <1>3, <1>4, <1>5, <1>6, <1>7, <1>8, <1>9, <1>10,
    <1>11, <1>12

(* Reading main.js changes the version that the thread has read. *)
LEMMA ReadMainKeeps ==
  ASSUME IInv, NEW r \in Request, ReadMain(r, disk), UNCHANGED <<diskVars,
      place, serviceVars, historyVars>>
  PROVE  IInv'
<1> DEFINE phase == IF disk = 0 THEN "threw" ELSE "read"
           new == [use[r] EXCEPT !.main = disk, !.phase = phase]
<1>a. /\ r \in Thread /\ Len(ctx) \in Nat /\ use[r] \in Use /\ use[r].context <= Len(ctx)
      /\ disk \in Nat /\ phase \in Phases /\ ctx' = ctx
  BY Size, ReloadAssumption DEF IInv, Typed, UseTyped, RestTyped, Phases, ReadMain
<1>b. new \in Use /\ new.context = use[r].context /\ new.phase = phase
  BY <1>a DEF Use
<1>c. use' = [use EXCEPT ![r] = new]
  BY <1>a DEF ReadMain, IInv, Typed, UseTyped
<1> HIDE DEF new
<1>d. UseTyped' /\ use'[r] = new /\ \A u \in Thread : u # r => use'[u] = use[u]
  <2>1. ctx' = ctx
    BY DEF ReadMain
  <2>2. CtxTyped'
    BY <2>1 DEF IInv, Typed, CtxTyped
  <2>3. new.context <= Len(ctx') /\ Len(ctx) <= Len(ctx')
    BY <1>a, <1>b, <2>1
  <2> QED BY <1>a, <1>b, <1>c, <2>2, <2>3, Used DEF IInv, Typed
<1>1. UseTyped'
  BY <1>d
<1>2. PhaseInv'
  <2>1. use[r].phase = "reading" /\ r # Watcher
    BY ReloadAssumption DEF ReadMain, In
  <2>2. \A t \in Thread : use'[t].context = 0 => use'[t].phase \in {"idle", "threw", "flushed"}
    BY <1>a, <1>b, <1>d, <2>1 DEF IInv, PhaseInv
  <2>3. use'[Watcher] = use[Watcher]
    BY <1>d, <2>1, Size
  <2> QED BY <2>2, <2>3 DEF IInv, PhaseInv
<1>3. CancelledInv'
  BY <1>a, <1>b, <1>d, CancelledKept
<1> USE ReloadAssumption, ContextsAssumption DEF IInv, Typed, CtxTyped,
    UseTyped, IndexTyped, RestTyped, Context, Use, In, Go, Leave, To, NoUse,
    Mine, contextVars, diskVars, serviceVars, historyVars, ReadMain
<1>4. CtxTyped' BY DEF Phases, Places, Mishap, PhaseInv
<1>5. IndexTyped' BY SMTT(30) DEF PhaseInv
<1>6. RestTyped' BY DEF Places, Mishap, PhaseInv, Present
<1>7. LockInv' BY SMTT(30) DEF LockInv, PhaseInv
<1>8. NewestInv' BY DEF NewestInv, LockInv
<1>9. PlaceInv' BY SMTT(30) DEF PlaceInv, NewestInv, LockInv, OnEngine
<1>10. UsableInv' BY DEF UsableInv, LockInv, CancelledInv, PhaseInv
<1>11. NoContextForgotten' BY DEF NoContextForgotten, LockInv, CancelledInv,
    PhaseInv
<1>12. NeverBackToOldContext' BY DEF NeverBackToOldContext, PlaceInv
<1> QED BY <1>1, <1>2, <1>3, <1>4, <1>5, <1>6, <1>7, <1>8, <1>9, <1>10,
    <1>11, <1>12

(* Entering the context, or not, for main.js or for the function. *)
LEMMA EnterKeeps ==
  ASSUME IInv, NEW r \in Request, NEW phase \in {"read", "found"}, NEW next
      \in {"evaluating", "executing"}, (phase = "read") <=> (next =
      "evaluating"), Enter(r, phase, next), UNCHANGED <<diskVars, place,
      serviceVars, historyVars>>
  PROVE  IInv'
<1>a. ctx' = ctx /\ r \in Thread /\ (IF Mine(r).status = "open" THEN next ELSE "threw") \in Phases /\ use[r].phase \in {"read", "found"}
  BY Size DEF Enter, In, Phases
<1>c. /\ UseTyped'
      /\ use'[r].phase = (IF Mine(r).status = "open" THEN next ELSE "threw") /\ use'[r].context = use[r].context
      /\ \A u \in Thread : u # r => use'[u] = use[u]
  <2>1. Go(r, (IF Mine(r).status = "open" THEN next ELSE "threw"))
    BY DEF Enter, Mine
  <2> QED BY <1>a, <2>1, Gone DEF IInv, Typed
<1>1. UseTyped'
  BY <1>c
<1>2. PhaseInv'
  BY <1>a, <1>c, PhaseKept
<1> USE ReloadAssumption, ContextsAssumption DEF IInv, Typed, CtxTyped,
    UseTyped, IndexTyped, RestTyped, Context, Use, In, Go, Leave, To, NoUse,
    Mine, contextVars, diskVars, serviceVars, historyVars, Enter
<1>3. CtxTyped' BY DEF Phases, Places, Mishap, PhaseInv
<1>4. IndexTyped' BY SMTT(30) DEF PhaseInv
<1>5. RestTyped' BY DEF Places, Mishap, PhaseInv, Present
<1>6. LockInv' BY SMTT(30) DEF LockInv, PhaseInv
<1>7. NewestInv' BY DEF NewestInv, LockInv
<1>8. CancelledInv' BY SMTT(30) DEF CancelledInv, LockInv, PhaseInv
<1>9. PlaceInv' BY SMTT(30) DEF PlaceInv, NewestInv, LockInv, OnEngine
<1>10. UsableInv' BY DEF UsableInv, LockInv, CancelledInv, PhaseInv
<1>11. NoContextForgotten' BY DEF NoContextForgotten, LockInv, CancelledInv,
    PhaseInv
<1>12. NeverBackToOldContext' BY DEF NeverBackToOldContext, PlaceInv
<1> QED BY <1>1, <1>2, <1>3, <1>4, <1>5, <1>6, <1>7, <1>8, <1>9, <1>10,
    <1>11, <1>12

(* The routes defined are added; the context stays as open as it was. *)
LEMMA EvaluatedKeeps ==
  ASSUME IInv, NEW r \in Request, Evaluated(r, IF place[r] = "io" THEN
      "listing" ELSE "finding"), UNCHANGED <<diskVars, place, serviceVars,
      historyVars>>
  PROVE  IInv'
<1> DEFINE c == use[r].context
           e == [ctx[c] EXCEPT !.routes = @ \cup {use[r].main}, !.booted = TRUE]
<1>a. /\ r \in Thread /\ c \in 1 .. Len(ctx) /\ Len(ctx) \in Nat
      /\ use[r].phase \in {"evaluating"}
      /\ ctx[c] \in Context /\ ctx[c].table \subseteq ctx[c].routes
  BY Size DEF IInv, PhaseInv, Evaluated, In
<1>b. /\ CtxTyped'
      /\ Len(ctx') = Len(ctx)
      /\ ctx'[c].status = ctx[c].status
      /\ \A i \in 1 .. Len(ctx) : i # c => ctx'[i] = ctx[i]
  <2>1. e \in Context /\ e.table \subseteq e.routes /\ e.status = ctx[c].status
    BY <1>a DEF Context, IInv, Typed, RestTyped, UseTyped, Use
  <2>2. ctx' = [ctx EXCEPT ![c] = e]
    BY DEF Evaluated
  <2> HIDE DEF e
  <2> QED BY <1>a, <2>1, <2>2, ContextsKept DEF IInv, Typed
<1> HIDE DEF e
<1>c. /\ UseTyped'
      /\ use'[r].phase = IF place[r] = "io" THEN "listing" ELSE "finding"
      /\ use'[r].context = use[r].context
      /\ \A u \in Thread : u # r => use'[u] = use[u]
  BY <1>a, <1>b, Gone DEF IInv, Typed, Evaluated, Phases
<1>1. CtxTyped'
  BY <1>b
<1>2. UseTyped'
  BY <1>c
<1>3. PhaseInv'
  BY <1>a, <1>c, PhaseKept
<1>4. CancelledInv'
  <2>1. \A u \in Thread \ {r} : use[u].phase \in {"cancelled", "removing"}
            => use[u].context \in 1 .. Len(ctx)
    BY Size DEF IInv, PhaseInv
  <2> QED BY <1>a, <1>b, <1>c, <2>1, CancelledKept
<1> USE ReloadAssumption, ContextsAssumption DEF IInv, Typed, CtxTyped,
    UseTyped, IndexTyped, RestTyped, Context, Use, In, Go, Leave, To, NoUse,
    Mine, contextVars, diskVars, serviceVars, historyVars, Evaluated
<1>5. IndexTyped' BY SMTT(30) DEF PhaseInv
<1>6. RestTyped' BY DEF Places, Mishap, PhaseInv, Present
<1>7. LockInv' BY SMTT(30) DEF LockInv, PhaseInv
<1>8. NewestInv' BY DEF NewestInv, LockInv
<1>9. PlaceInv' BY SMTT(30) DEF PlaceInv, NewestInv, LockInv, OnEngine
<1>10. UsableInv' BY DEF UsableInv, LockInv, CancelledInv, PhaseInv
<1>11. NoContextForgotten' BY DEF NoContextForgotten, LockInv, CancelledInv,
    PhaseInv
<1>12. NeverBackToOldContext' BY DEF NeverBackToOldContext, PlaceInv
<1> QED BY <1>1, <1>2, <1>3, <1>4, <1>5, <1>6, <1>7, <1>8, <1>9, <1>10,
    <1>11, <1>12

(* ... and so it is when main.js throws after some of them. *)
LEMMA EvaluateThrowsKeeps ==
  ASSUME IInv, NEW r \in Request, EvaluateThrows(r), UNCHANGED <<diskVars,
      place, serviceVars, historyVars>>
  PROVE  IInv'
<1>0. PICK added \in {{}, {use[r].main}} :
            ctx' = [ctx EXCEPT ![use[r].context].routes = @ \cup added]
  BY DEF EvaluateThrows
<1>z. added \subseteq Nat
  BY <1>0, Size DEF IInv, Typed, UseTyped, Use
<1> DEFINE c == use[r].context
           e == [ctx[c] EXCEPT !.routes = @ \cup added]
<1>a. /\ r \in Thread /\ c \in 1 .. Len(ctx) /\ Len(ctx) \in Nat
      /\ use[r].phase \in {"evaluating"}
      /\ ctx[c] \in Context /\ ctx[c].table \subseteq ctx[c].routes
  BY Size DEF IInv, PhaseInv, EvaluateThrows, In
<1>b. /\ CtxTyped'
      /\ Len(ctx') = Len(ctx)
      /\ ctx'[c].status = ctx[c].status
      /\ \A i \in 1 .. Len(ctx) : i # c => ctx'[i] = ctx[i]
  <2>1. e \in Context /\ e.table \subseteq e.routes /\ e.status = ctx[c].status
    BY <1>a, <1>z DEF Context, IInv, Typed, RestTyped
  <2>2. ctx' = [ctx EXCEPT ![c] = e]
    BY <1>0
  <2> HIDE DEF e
  <2> QED BY <1>a, <2>1, <2>2, ContextsKept DEF IInv, Typed
<1> HIDE DEF e
<1>c. /\ UseTyped'
      /\ use'[r].phase = "threw"
      /\ use'[r].context = use[r].context
      /\ \A u \in Thread : u # r => use'[u] = use[u]
  BY <1>a, <1>b, Gone DEF IInv, Typed, EvaluateThrows, Phases
<1>1. CtxTyped'
  BY <1>b
<1>2. UseTyped'
  BY <1>c
<1>3. PhaseInv'
  BY <1>a, <1>c, PhaseKept
<1>4. CancelledInv'
  <2>1. \A u \in Thread \ {r} : use[u].phase \in {"cancelled", "removing"}
            => use[u].context \in 1 .. Len(ctx)
    BY Size DEF IInv, PhaseInv
  <2> QED BY <1>a, <1>b, <1>c, <2>1, CancelledKept
<1> USE ReloadAssumption, ContextsAssumption DEF IInv, Typed, CtxTyped,
    UseTyped, IndexTyped, RestTyped, Context, Use, In, Go, Leave, To, NoUse,
    Mine, contextVars, diskVars, serviceVars, historyVars, EvaluateThrows
<1>5. IndexTyped' BY SMTT(30) DEF PhaseInv
<1>6. RestTyped' BY DEF Places, Mishap, PhaseInv, Present
<1>7. LockInv' BY SMTT(30) DEF LockInv, PhaseInv
<1>8. NewestInv' BY DEF NewestInv, LockInv
<1>9. PlaceInv' BY SMTT(30) DEF PlaceInv, NewestInv, LockInv, OnEngine
<1>10. UsableInv' BY DEF UsableInv, LockInv, CancelledInv, PhaseInv
<1>11. NoContextForgotten' BY SMTT(30) DEF NoContextForgotten, LockInv,
    CancelledInv, PhaseInv
<1>12. NeverBackToOldContext' BY DEF NeverBackToOldContext, PlaceInv
<1> QED BY <1>1, <1>2, <1>3, <1>4, <1>5, <1>6, <1>7, <1>8, <1>9, <1>10,
    <1>11, <1>12

(* The table is made of the routes there are. *)
LEMMA ListRoutesKeeps ==
  ASSUME IInv, NEW r \in Request, ListRoutes(r, "matching"), UNCHANGED
      <<diskVars, place, serviceVars, historyVars>>
  PROVE  IInv'
<1> DEFINE c == use[r].context
           e == [ctx[c] EXCEPT !.table = ctx[c].routes]
<1>a. /\ r \in Thread /\ c \in 1 .. Len(ctx) /\ Len(ctx) \in Nat
      /\ use[r].phase \in {"listing"}
      /\ ctx[c] \in Context /\ ctx[c].table \subseteq ctx[c].routes
  BY Size DEF IInv, PhaseInv, ListRoutes, In
<1>b. /\ CtxTyped'
      /\ Len(ctx') = Len(ctx)
      /\ ctx'[c].status = ctx[c].status
      /\ \A i \in 1 .. Len(ctx) : i # c => ctx'[i] = ctx[i]
  <2>1. e \in Context /\ e.table \subseteq e.routes /\ e.status = ctx[c].status
    BY <1>a DEF Context, IInv, Typed, RestTyped
  <2>2. ctx' = [ctx EXCEPT ![c] = e]
    BY DEF ListRoutes, Mine
  <2> HIDE DEF e
  <2> QED BY <1>a, <2>1, <2>2, ContextsKept DEF IInv, Typed
<1> HIDE DEF e
<1>c. /\ UseTyped'
      /\ use'[r].phase = "matching"
      /\ use'[r].context = use[r].context
      /\ \A u \in Thread : u # r => use'[u] = use[u]
  BY <1>a, <1>b, Gone DEF IInv, Typed, ListRoutes, Phases
<1>1. CtxTyped'
  BY <1>b
<1>2. UseTyped'
  BY <1>c
<1>3. PhaseInv'
  BY <1>a, <1>c, PhaseKept
<1>4. CancelledInv'
  <2>1. \A u \in Thread \ {r} : use[u].phase \in {"cancelled", "removing"}
            => use[u].context \in 1 .. Len(ctx)
    BY Size DEF IInv, PhaseInv
  <2> QED BY <1>a, <1>b, <1>c, <2>1, CancelledKept
<1> USE ReloadAssumption, ContextsAssumption DEF IInv, Typed, CtxTyped,
    UseTyped, IndexTyped, RestTyped, Context, Use, In, Go, Leave, To, NoUse,
    Mine, contextVars, diskVars, serviceVars, historyVars, ListRoutes
<1>5. IndexTyped' BY SMTT(30) DEF PhaseInv
<1>6. RestTyped' BY DEF Places, Mishap, PhaseInv, Present
<1>7. LockInv' BY SMTT(30) DEF LockInv, PhaseInv
<1>8. NewestInv' BY DEF NewestInv, LockInv
<1>9. PlaceInv' BY SMTT(30) DEF PlaceInv, NewestInv, LockInv, OnEngine
<1>10. UsableInv' BY DEF UsableInv, LockInv, CancelledInv, PhaseInv
<1>11. NoContextForgotten' BY DEF NoContextForgotten, LockInv, CancelledInv,
    PhaseInv
<1>12. NeverBackToOldContext' BY DEF NeverBackToOldContext, PlaceInv
<1> QED BY <1>1, <1>2, <1>3, <1>4, <1>5, <1>6, <1>7, <1>8, <1>9, <1>10,
    <1>11, <1>12

(* The request has failed, with its context as it was. *)
LEMMA IterationThrowsKeeps ==
  ASSUME IInv, NEW r \in Request, IterationThrows(r), UNCHANGED <<diskVars,
      place, serviceVars, historyVars>>
  PROVE  IInv'
<1> USE ReloadAssumption, ContextsAssumption DEF IInv, Typed, CtxTyped,
    UseTyped, IndexTyped, RestTyped, Context, Use, In, Go, Leave, To, NoUse,
    Mine, contextVars, diskVars, serviceVars, historyVars, IterationThrows
<1>1. CtxTyped' BY DEF Phases, Places, Mishap, PhaseInv
<1>2. UseTyped' BY DEF Phases
<1>3. IndexTyped' BY SMTT(30) DEF PhaseInv
<1>4. RestTyped' BY DEF Places, Mishap, PhaseInv, Present
<1>5. PhaseInv' BY SMTT(30) DEF PhaseInv, Phases
<1>6. LockInv' BY SMTT(30) DEF LockInv, PhaseInv
<1>7. NewestInv' BY DEF NewestInv, LockInv
<1>8. CancelledInv' BY SMTT(30) DEF CancelledInv, LockInv, PhaseInv
<1>9. PlaceInv' BY SMTT(30) DEF PlaceInv, NewestInv, LockInv, OnEngine
<1>10. UsableInv' BY DEF UsableInv, LockInv, CancelledInv, PhaseInv
<1>11. NoContextForgotten' BY DEF NoContextForgotten, LockInv, CancelledInv,
    PhaseInv
<1>12. NeverBackToOldContext' BY DEF NeverBackToOldContext, PlaceInv
<1> QED BY <1>1, <1>2, <1>3, <1>4, <1>5, <1>6, <1>7, <1>8, <1>9, <1>10,
    <1>11, <1>12

(* The request leaves the context that has matched it. *)
LEMMA MatchRouteKeeps ==
  ASSUME IInv, NEW r \in Request, MatchRoute(r)
  PROVE  IInv'
<1> USE ReloadAssumption, ContextsAssumption DEF IInv, Typed, CtxTyped,
    UseTyped, IndexTyped, RestTyped, Context, Use, In, Go, Leave, To, NoUse,
    Mine, contextVars, diskVars, serviceVars, historyVars, MatchRoute
<1>1. CtxTyped' BY DEF Phases, Places, Mishap, PhaseInv
<1>2. UseTyped' BY DEF Phases
<1>3. IndexTyped' BY SMTT(30) DEF PhaseInv
<1>4. RestTyped' BY DEF Places, Mishap, PhaseInv, Present
<1>5. PhaseInv' BY SMTT(30) DEF PhaseInv, Phases
<1>6. LockInv' BY SMTT(30) DEF LockInv, PhaseInv
<1>7. NewestInv' BY DEF NewestInv, LockInv
<1>8. CancelledInv' BY SMTT(30) DEF CancelledInv, LockInv, PhaseInv
<1>9. PlaceInv' BY SMTT(30) DEF PlaceInv, NewestInv, LockInv, OnEngine
<1>10. UsableInv' BY DEF UsableInv, LockInv, CancelledInv, PhaseInv
<1>11. NoContextForgotten' BY DEF NoContextForgotten, LockInv, CancelledInv,
    PhaseInv
<1>12. NeverBackToOldContext' BY DEF NeverBackToOldContext, PlaceInv
<1> QED BY <1>1, <1>2, <1>3, <1>4, <1>5, <1>6, <1>7, <1>8, <1>9, <1>10,
    <1>11, <1>12

(* The function is of the context taken on the engine, not of an older one. *)
LEMMA FindFunctionKeeps ==
  ASSUME IInv, NEW r \in Request, FindFunction(r)
  PROVE  IInv'
<1>a. ctx' = ctx /\ r \in Thread /\ "found" \in Phases /\ use[r].phase \in {"finding"}
  BY Size DEF FindFunction, In, Phases
<1>c. /\ UseTyped'
      /\ use'[r].phase = "found" /\ use'[r].context = use[r].context
      /\ \A u \in Thread : u # r => use'[u] = use[u]
  <2>1. Go(r, "found")
    BY DEF FindFunction, Mine
  <2> QED BY <1>a, <2>1, Gone DEF IInv, Typed
<1>1. UseTyped'
  BY <1>c
<1>2. PhaseInv'
  BY <1>a, <1>c, PhaseKept
<1> USE ReloadAssumption, ContextsAssumption DEF IInv, Typed, CtxTyped,
    UseTyped, IndexTyped, RestTyped, Context, Use, In, Go, Leave, To, NoUse,
    Mine, contextVars, diskVars, serviceVars, historyVars, FindFunction
<1>3. CtxTyped' BY DEF Phases, Places, Mishap, PhaseInv
<1>4. IndexTyped' BY SMTT(30) DEF PhaseInv
<1>5. RestTyped' BY DEF Places, Mishap, PhaseInv, Present
<1>6. LockInv' BY SMTT(30) DEF LockInv, PhaseInv
<1>7. NewestInv' BY DEF NewestInv, LockInv
<1>8. CancelledInv' BY SMTT(30) DEF CancelledInv, LockInv, PhaseInv
<1>9. PlaceInv' BY SMTT(30) DEF PlaceInv, NewestInv, LockInv, OnEngine
<1>10. UsableInv' BY DEF UsableInv, LockInv, CancelledInv, PhaseInv
<1>11. NoContextForgotten' BY DEF NoContextForgotten, LockInv, CancelledInv,
    PhaseInv
<1>12. NeverBackToOldContext' BY DEF NeverBackToOldContext, PlaceInv
<1> QED BY <1>1, <1>2, <1>3, <1>4, <1>5, <1>6, <1>7, <1>8, <1>9, <1>10,
    <1>11, <1>12

(* The function has ended; the context stays as open as it was. *)
LEMMA FunctionEndsKeeps ==
  ASSUME IInv, NEW r \in Request, NEW changes \in {{}, {r}}, NEW end \in
      {"returned", "threw"}, FunctionEnds(r, changes, end), UNCHANGED
      <<diskVars, place, serviceVars, historyVars>>
  PROVE  IInv'
<1> DEFINE c == use[r].context
           e == [ctx[c] EXCEPT !.state = @ \cup changes]
<1>a. /\ r \in Thread /\ c \in 1 .. Len(ctx) /\ Len(ctx) \in Nat
      /\ use[r].phase \in {"executing"}
      /\ ctx[c] \in Context /\ ctx[c].table \subseteq ctx[c].routes
  BY Size DEF IInv, PhaseInv, FunctionEnds, In
<1>b. /\ CtxTyped'
      /\ Len(ctx') = Len(ctx)
      /\ ctx'[c].status = ctx[c].status
      /\ \A i \in 1 .. Len(ctx) : i # c => ctx'[i] = ctx[i]
  <2>1. e \in Context /\ e.table \subseteq e.routes /\ e.status = ctx[c].status
    BY <1>a DEF Context, IInv, Typed, RestTyped
  <2>2. ctx' = [ctx EXCEPT ![c] = e]
    BY DEF FunctionEnds
  <2> HIDE DEF e
  <2> QED BY <1>a, <2>1, <2>2, ContextsKept DEF IInv, Typed
<1> HIDE DEF e
<1>c. /\ UseTyped'
      /\ use'[r].phase = end
      /\ use'[r].context = use[r].context
      /\ \A u \in Thread : u # r => use'[u] = use[u]
  BY <1>a, <1>b, Gone DEF IInv, Typed, FunctionEnds, Phases
<1>1. CtxTyped'
  BY <1>b
<1>2. UseTyped'
  BY <1>c
<1>3. PhaseInv'
  BY <1>a, <1>c, PhaseKept
<1>4. CancelledInv'
  <2>1. \A u \in Thread \ {r} : use[u].phase \in {"cancelled", "removing"}
            => use[u].context \in 1 .. Len(ctx)
    BY Size DEF IInv, PhaseInv
  <2> QED BY <1>a, <1>b, <1>c, <2>1, CancelledKept
<1> USE ReloadAssumption, ContextsAssumption DEF IInv, Typed, CtxTyped,
    UseTyped, IndexTyped, RestTyped, Context, Use, In, Go, Leave, To, NoUse,
    Mine, contextVars, diskVars, serviceVars, historyVars, FunctionEnds
<1>5. IndexTyped' BY SMTT(30) DEF PhaseInv
<1>6. RestTyped' BY DEF Places, Mishap, PhaseInv, Present
<1>7. LockInv' BY SMTT(30) DEF LockInv, PhaseInv
<1>8. NewestInv' BY DEF NewestInv, LockInv
<1>9. PlaceInv' BY SMTT(30) DEF PlaceInv, NewestInv, LockInv, OnEngine
<1>10. UsableInv' BY DEF UsableInv, LockInv, CancelledInv, PhaseInv
<1>11. NoContextForgotten' BY DEF NoContextForgotten, LockInv, CancelledInv,
    PhaseInv
<1>12. NeverBackToOldContext' BY DEF NeverBackToOldContext, PlaceInv
<1> QED BY <1>1, <1>2, <1>3, <1>4, <1>5, <1>6, <1>7, <1>8, <1>9, <1>10,
    <1>11, <1>12

(* The context is closed by the thread that will remove it. *)
LEMMA CancelKeeps ==
  ASSUME IInv, NEW r \in Request, Cancelled(r), Cancel(r)
  PROVE  IInv'
<1> DEFINE c == use[r].context
           e == [ctx[c] EXCEPT !.status = "closed"]
<1>a. /\ r \in Thread /\ c \in 1 .. Len(ctx) /\ Len(ctx) \in Nat
      /\ use[r].phase \in {"evaluating", "executing"}
      /\ ctx[c] \in Context /\ ctx[c].table \subseteq ctx[c].routes
  BY Size DEF IInv, PhaseInv, Cancel, In
<1>b. /\ CtxTyped'
      /\ Len(ctx') = Len(ctx)
      /\ ctx'[c].status = "closed"
      /\ \A i \in 1 .. Len(ctx) : i # c => ctx'[i] = ctx[i]
  <2>1. e \in Context /\ e.table \subseteq e.routes /\ e.status = "closed"
    BY <1>a DEF Context, IInv, Typed, RestTyped
  <2>2. ctx' = [ctx EXCEPT ![c] = e]
    BY DEF Cancel
  <2> HIDE DEF e
  <2> QED BY <1>a, <2>1, <2>2, ContextsKept DEF IInv, Typed
<1> HIDE DEF e
<1>c. /\ UseTyped'
      /\ use'[r].phase = "cancelled"
      /\ use'[r].context = use[r].context
      /\ \A u \in Thread : u # r => use'[u] = use[u]
  BY <1>a, <1>b, Gone DEF IInv, Typed, Cancel, Phases
<1>1. CtxTyped'
  BY <1>b
<1>2. UseTyped'
  BY <1>c
<1>3. PhaseInv'
  BY <1>a, <1>c, PhaseKept
<1>4. CancelledInv'
  <2>1. \A u \in Thread \ {r} : use[u].phase \in {"cancelled", "removing"}
            => use[u].context \in 1 .. Len(ctx)
    BY Size DEF IInv, PhaseInv
  <2> QED BY <1>a, <1>b, <1>c, <2>1, CancelledKept
<1> USE ReloadAssumption, ContextsAssumption DEF IInv, Typed, CtxTyped,
    UseTyped, IndexTyped, RestTyped, Context, Use, In, Go, Leave, To, NoUse,
    Mine, contextVars, diskVars, serviceVars, historyVars, Cancelled, Cancel
<1>5. IndexTyped' BY SMTT(30) DEF PhaseInv
<1>6. RestTyped' BY DEF Places, Mishap, PhaseInv, Present
<1>7. LockInv' BY SMTT(30) DEF LockInv, PhaseInv
<1>8. NewestInv' BY DEF NewestInv, LockInv
<1>9. PlaceInv' BY SMTT(30) DEF PlaceInv, NewestInv, LockInv, OnEngine
<1>10. UsableInv' BY DEF UsableInv, LockInv, CancelledInv, PhaseInv
<1>11. NoContextForgotten' BY DEF NoContextForgotten, LockInv, CancelledInv,
    PhaseInv
<1>12. NeverBackToOldContext' BY DEF NeverBackToOldContext, PlaceInv
<1> QED BY <1>1, <1>2, <1>3, <1>4, <1>5, <1>6, <1>7, <1>8, <1>9, <1>10,
    <1>11, <1>12

(* It is removed only if it is the one registered. *)
LEMMA FindCancelledKeeps ==
  ASSUME IInv, NEW r \in Request, Cancelled(r), FindCancelled(r)
  PROVE  IInv'
<1>a. ctx' = ctx /\ r \in Thread /\ (IF registered = use[r].context THEN "removing" ELSE "threw") \in Phases /\ use[r].phase \in {"cancelled"}
  BY Size DEF FindCancelled, In, Phases
<1>c. /\ UseTyped'
      /\ use'[r].phase = (IF registered = use[r].context THEN "removing" ELSE "threw") /\ use'[r].context = use[r].context
      /\ \A u \in Thread : u # r => use'[u] = use[u]
  <2>1. Go(r, (IF registered = use[r].context THEN "removing" ELSE "threw"))
    BY DEF FindCancelled, Mine
  <2> QED BY <1>a, <2>1, Gone DEF IInv, Typed
<1>1. UseTyped'
  BY <1>c
<1>2. PhaseInv'
  BY <1>a, <1>c, PhaseKept
<1> USE ReloadAssumption, ContextsAssumption DEF IInv, Typed, CtxTyped,
    UseTyped, IndexTyped, RestTyped, Context, Use, In, Go, Leave, To, NoUse,
    Mine, contextVars, diskVars, serviceVars, historyVars, Cancelled,
    FindCancelled
<1>3. CtxTyped' BY DEF Phases, Places, Mishap, PhaseInv
<1>4. IndexTyped' BY SMTT(30) DEF PhaseInv
<1>5. RestTyped' BY DEF Places, Mishap, PhaseInv, Present
<1>6. LockInv' BY SMTT(30) DEF LockInv, PhaseInv
<1>7. NewestInv' BY DEF NewestInv, LockInv
<1>8. CancelledInv' BY SMTT(30) DEF CancelledInv, LockInv, PhaseInv
<1>9. PlaceInv' BY SMTT(30) DEF PlaceInv, NewestInv, LockInv, OnEngine
<1>10. UsableInv' BY DEF UsableInv, LockInv, CancelledInv, PhaseInv
<1>11. NoContextForgotten' BY DEF NoContextForgotten, LockInv, CancelledInv,
    PhaseInv
<1>12. NeverBackToOldContext' BY DEF NeverBackToOldContext, PlaceInv
<1> QED BY <1>1, <1>2, <1>3, <1>4, <1>5, <1>6, <1>7, <1>8, <1>9, <1>10,
    <1>11, <1>12

(* Whichever is registered by then is no longer, a stray if it is another. *)
LEMMA RemoveCancelledKeeps ==
  ASSUME IInv, NEW r \in Request, Cancelled(r), RemoveCancelled(r)
  PROVE  IInv'
<1>a. ctx' = ctx /\ r \in Thread /\ "threw" \in Phases /\ use[r].phase \in {"removing"}
  BY Size DEF RemoveCancelled, In, Phases
<1>c. /\ UseTyped'
      /\ use'[r].phase = "threw" /\ use'[r].context = use[r].context
      /\ \A u \in Thread : u # r => use'[u] = use[u]
  <2>1. Go(r, "threw")
    BY DEF RemoveCancelled, Mine
  <2> QED BY <1>a, <2>1, Gone DEF IInv, Typed
<1>1. UseTyped'
  BY <1>c
<1>2. PhaseInv'
  BY <1>a, <1>c, PhaseKept
<1> USE ReloadAssumption, ContextsAssumption DEF IInv, Typed, CtxTyped,
    UseTyped, IndexTyped, RestTyped, Context, Use, In, Go, Leave, To, NoUse,
    Mine, contextVars, diskVars, serviceVars, historyVars, Cancelled,
    RemoveCancelled
<1>3. CtxTyped' BY DEF Phases, Places, Mishap, PhaseInv
<1>4. IndexTyped' BY SMTT(30) DEF PhaseInv
<1>5. RestTyped' BY DEF Places, Mishap, PhaseInv, Present
<1>6. LockInv' BY SMTT(30) DEF LockInv, PhaseInv
<1>7. NewestInv' BY DEF NewestInv, LockInv
<1>8. CancelledInv' BY SMTT(30) DEF CancelledInv, LockInv, PhaseInv
<1>9. PlaceInv' BY SMTT(30) DEF PlaceInv, NewestInv, LockInv, OnEngine
<1>10. UsableInv' BY DEF UsableInv, LockInv, CancelledInv, PhaseInv
<1>11. NoContextForgotten' BY DEF NoContextForgotten, LockInv, CancelledInv,
    PhaseInv
<1>12. NeverBackToOldContext' BY DEF NeverBackToOldContext, PlaceInv
<1> QED BY <1>1, <1>2, <1>3, <1>4, <1>5, <1>6, <1>7, <1>8, <1>9, <1>10,
    <1>11, <1>12

(* The request leaves the context whose state it buffers. *)
LEMMA NotifyChangeKeeps ==
  ASSUME IInv, NEW r \in Request, NotifyChange(r)
  PROVE  IInv'
<1> USE ReloadAssumption, ContextsAssumption DEF IInv, Typed, CtxTyped,
    UseTyped, IndexTyped, RestTyped, Context, Use, In, Go, Leave, To, NoUse,
    Mine, contextVars, diskVars, serviceVars, historyVars, NotifyChange
<1>1. CtxTyped' BY DEF Phases, Places, Mishap, PhaseInv
<1>2. UseTyped' BY DEF Phases
<1>3. IndexTyped' BY SMTT(30) DEF PhaseInv
<1>4. RestTyped' BY DEF Places, Mishap, PhaseInv, Present
<1>5. PhaseInv' BY SMTT(30) DEF PhaseInv, Phases
<1>6. LockInv' BY SMTT(30) DEF LockInv, PhaseInv
<1>7. NewestInv' BY DEF NewestInv, LockInv
<1>8. CancelledInv' BY SMTT(30) DEF CancelledInv, LockInv, PhaseInv
<1>9. PlaceInv' BY SMTT(30) DEF PlaceInv, NewestInv, LockInv, OnEngine
<1>10. UsableInv' BY DEF UsableInv, LockInv, CancelledInv, PhaseInv
<1>11. NoContextForgotten' BY DEF NoContextForgotten, LockInv, CancelledInv,
    PhaseInv
<1>12. NeverBackToOldContext' BY DEF NeverBackToOldContext, PlaceInv
<1> QED BY <1>1, <1>2, <1>3, <1>4, <1>5, <1>6, <1>7, <1>8, <1>9, <1>10,
    <1>11, <1>12

(* The console output is taken from the registered context, and left. *)
LEMMA TakeOutputKeeps ==
  ASSUME IInv, NEW r \in Request, TakeOutput(r)
  PROVE  IInv'
<1> USE ReloadAssumption, ContextsAssumption DEF IInv, Typed, CtxTyped,
    UseTyped, IndexTyped, RestTyped, Context, Use, In, Go, Leave, To, NoUse,
    Mine, contextVars, diskVars, serviceVars, historyVars, TakeOutput
<1>1. CtxTyped' BY DEF Phases, Places, Mishap, PhaseInv
<1>2. UseTyped' BY DEF Phases
<1>3. IndexTyped' BY SMTT(30) DEF PhaseInv
<1>4. RestTyped' BY DEF Places, Mishap, PhaseInv, Present
<1>5. PhaseInv' BY SMTT(30) DEF PhaseInv, Phases
<1>6. LockInv' BY SMTT(30) DEF LockInv, PhaseInv
<1>7. NewestInv' BY DEF NewestInv, LockInv
<1>8. CancelledInv' BY SMTT(30) DEF CancelledInv, LockInv, PhaseInv
<1>9. PlaceInv' BY SMTT(30) DEF PlaceInv, NewestInv, LockInv, OnEngine
<1>10. UsableInv' BY DEF UsableInv, LockInv, CancelledInv, PhaseInv
<1>11. NoContextForgotten' BY DEF NoContextForgotten, LockInv, CancelledInv,
    PhaseInv
<1>12. NeverBackToOldContext' BY DEF NeverBackToOldContext, PlaceInv
<1> QED BY <1>1, <1>2, <1>3, <1>4, <1>5, <1>6, <1>7, <1>8, <1>9, <1>10,
    <1>11, <1>12

(* The request leaves the context that threw. *)
LEMMA FailKeeps ==
  ASSUME IInv, NEW r \in Request, Fail(r)
  PROVE  IInv'
<1> USE ReloadAssumption, ContextsAssumption DEF IInv, Typed, CtxTyped,
    UseTyped, IndexTyped, RestTyped, Context, Use, In, Go, Leave, To, NoUse,
    Mine, contextVars, diskVars, serviceVars, historyVars, Fail
<1>1. CtxTyped' BY DEF Phases, Places, Mishap, PhaseInv
<1>2. UseTyped' BY DEF Phases
<1>3. IndexTyped' BY SMTT(30) DEF PhaseInv
<1>4. RestTyped' BY DEF Places, Mishap, PhaseInv, Present
<1>5. PhaseInv' BY SMTT(30) DEF PhaseInv, Phases
<1>6. LockInv' BY SMTT(30) DEF LockInv, PhaseInv
<1>7. NewestInv' BY DEF NewestInv, LockInv
<1>8. CancelledInv' BY SMTT(30) DEF CancelledInv, LockInv, PhaseInv
<1>9. PlaceInv' BY SMTT(30) DEF PlaceInv, NewestInv, LockInv, OnEngine
<1>10. UsableInv' BY DEF UsableInv, LockInv, CancelledInv, PhaseInv
<1>11. NoContextForgotten' BY DEF NoContextForgotten, LockInv, CancelledInv,
    PhaseInv
<1>12. NeverBackToOldContext' BY DEF NeverBackToOldContext, PlaceInv
<1> QED BY <1>1, <1>2, <1>3, <1>4, <1>5, <1>6, <1>7, <1>8, <1>9, <1>10,
    <1>11, <1>12

(* The watcher has the context of the buffered item, if there is one. *)
LEMMA TakeEventsKeeps ==
  ASSUME IInv, TakeEvents
  PROVE  IInv'
<1> DEFINE new == [NoUse EXCEPT !.context = buffered,
                                !.phase = IF buffered = 0 THEN "flushed" ELSE "flushing"]
<1>a. ctx' = ctx /\ use' = [use EXCEPT ![Watcher] = new] /\ Watcher \in Thread /\ Len(ctx) \in Nat
  BY Size DEF TakeEvents
<1>b. CtxTyped'
  BY <1>a DEF IInv, Typed, CtxTyped
<1>c. new \in Use /\ new.context <= Len(ctx') /\ Len(ctx) <= Len(ctx')
  <2>1. Len(ctx) <= Len(ctx') /\ buffered \in Nat /\ buffered <= Len(ctx')
    BY <1>a, Size DEF IInv, Typed, IndexTyped
  <2>2. (IF buffered = 0 THEN "flushed" ELSE "flushing") \in Phases
    BY DEF Phases
  <2> QED BY <2>1, <2>2 DEF NoUse, Use
<1> HIDE DEF new
<1>1. UseTyped'
  BY <1>a, <1>b, <1>c, Used DEF IInv, Typed
<1> USE ReloadAssumption, ContextsAssumption DEF IInv, Typed, CtxTyped,
    UseTyped, IndexTyped, RestTyped, Context, Use, In, Go, Leave, To, NoUse,
    Mine, contextVars, diskVars, serviceVars, historyVars, TakeEvents
<1>2. CtxTyped' BY DEF Phases, Places, Mishap, PhaseInv
<1>3. IndexTyped' BY SMTT(30) DEF PhaseInv
<1>4. RestTyped' BY DEF Places, Mishap, PhaseInv, Present
<1>5. PhaseInv' BY SMTT(30) DEF PhaseInv, Phases
<1>6. LockInv' BY SMTT(30) DEF LockInv, PhaseInv
<1>7. NewestInv' BY DEF NewestInv, LockInv
<1>8. CancelledInv' BY SMTT(30) DEF CancelledInv, LockInv, PhaseInv
<1>9. PlaceInv' BY SMTT(30) DEF PlaceInv, NewestInv, LockInv, OnEngine
<1>10. UsableInv' BY DEF UsableInv, LockInv, CancelledInv, PhaseInv
<1>11. NoContextForgotten' BY DEF NoContextForgotten, LockInv, CancelledInv,
    PhaseInv
<1>12. NeverBackToOldContext' BY DEF NeverBackToOldContext, PlaceInv
<1> QED BY <1>1, <1>2, <1>3, <1>4, <1>5, <1>6, <1>7, <1>8, <1>9, <1>10,
    <1>11, <1>12

(* The watcher has ended: nothing of the contexts changes. *)
LEMMA OverflowKeeps ==
  ASSUME IInv, Overflow
  PROVE  IInv'
  BY ReloadAssumption, ContextsAssumption, SMTT(30) DEF IInv, Typed,
      CtxTyped, UseTyped, IndexTyped, RestTyped, Context, Use, In, Go, Leave,
      To, NoUse, Mine, contextVars, diskVars, serviceVars, historyVars,
      PhaseInv, LockInv, NewestInv, CancelledInv, PlaceInv, UsableInv,
      NoContextForgotten, NeverBackToOldContext, Phases, Places, Mishap,
      OnEngine, Overflow

(* The state is the registered one's, or an older one's. *)
LEMMA FlushKeeps ==
  ASSUME IInv, Flush
  PROVE  IInv'
<1>a. state' \subseteq Request
  <2>1. use[Watcher].context \in 1 .. Len(ctx)
    BY Size DEF IInv, PhaseInv, Flush, In
  <2> QED BY <2>1, Size DEF Flush, Mine, Context
<1>b. UseTyped'
  <2>1. ctx' = ctx /\ Go(Watcher, "flushed") /\ Watcher \in Thread /\ "flushed" \in Phases
    BY Size DEF Flush, Phases
  <2> QED BY <2>1, Gone DEF IInv, Typed
<1>1. UseTyped'
  BY <1>b
<1>2. RestTyped'
  BY <1>a DEF Flush, IInv, Typed, RestTyped, diskVars, historyVars
<1> USE ReloadAssumption, ContextsAssumption DEF IInv, Typed, CtxTyped,
    UseTyped, IndexTyped, RestTyped, Context, Use, In, Go, Leave, To, NoUse,
    Mine, contextVars, diskVars, serviceVars, historyVars, Flush
<1>3. CtxTyped' BY DEF Phases, Places, Mishap, PhaseInv
<1>4. IndexTyped' BY SMTT(30) DEF PhaseInv
<1>5. PhaseInv' BY SMTT(30) DEF PhaseInv, Phases
<1>6. LockInv' BY SMTT(30) DEF LockInv, PhaseInv
<1>7. NewestInv' BY DEF NewestInv, LockInv
<1>8. CancelledInv' BY SMTT(30) DEF CancelledInv, LockInv, PhaseInv
<1>9. PlaceInv' BY SMTT(30) DEF PlaceInv, NewestInv, LockInv, OnEngine
<1>10. UsableInv' BY DEF UsableInv, LockInv, CancelledInv, PhaseInv
<1>11. NoContextForgotten' BY DEF NoContextForgotten, LockInv, CancelledInv,
    PhaseInv
<1>12. NeverBackToOldContext' BY DEF NeverBackToOldContext, PlaceInv
<1> QED BY <1>1, <1>2, <1>3, <1>4, <1>5, <1>6, <1>7, <1>8, <1>9, <1>10,
    <1>11, <1>12

(* The reload is abandoned, and its reason noted. *)
LEMMA FlushThrowsKeeps ==
  ASSUME IInv, FlushThrows
  PROVE  IInv'
<1>a. /\ use' = [use EXCEPT ![Watcher] = NoUse] /\ use[Watcher].phase = "flushing"
      /\ UNCHANGED <<ctx, registered, closing, buffered, matched>>
  BY DEF FlushThrows, Abandon, Leave, In, serviceVars
<1>1. LockInv'
  BY <1>a DEF IInv, Typed, UseTyped, CtxTyped, LockInv, PhaseInv, In, NoUse, Use
<1> USE ReloadAssumption, ContextsAssumption DEF IInv, Typed, CtxTyped,
    UseTyped, IndexTyped, RestTyped, Context, Use, In, Go, Leave, To, NoUse,
    Mine, contextVars, diskVars, serviceVars, historyVars, FlushThrows,
    Abandon
<1>2. CtxTyped' BY DEF Phases, Places, Mishap, PhaseInv
<1>3. UseTyped' BY DEF Phases
<1>4. IndexTyped' BY DEF PhaseInv
<1>5. RestTyped' BY DEF Places, Mishap, PhaseInv, Present
<1>6. PhaseInv' BY SMTT(30) DEF PhaseInv, Phases
<1>7. NewestInv' BY DEF NewestInv, LockInv
<1>8. CancelledInv' BY SMTT(30) DEF CancelledInv, LockInv, PhaseInv
<1>9. PlaceInv' BY SMTT(30) DEF PlaceInv, NewestInv, LockInv, OnEngine
<1>10. UsableInv' BY DEF UsableInv, LockInv, CancelledInv, PhaseInv
<1>11. NoContextForgotten' BY DEF NoContextForgotten, LockInv, CancelledInv,
    PhaseInv
<1>12. NeverBackToOldContext' BY DEF NeverBackToOldContext, PlaceInv
<1> QED BY <1>1, <1>2, <1>3, <1>4, <1>5, <1>6, <1>7, <1>8, <1>9, <1>10,
    <1>11, <1>12

(* The old context is queued for closure before the new one is there. *)
LEMMA ReplaceKeeps ==
  ASSUME IInv, Replace
  PROVE  IInv'
<1> DEFINE new == IF Present
                     THEN [NoUse EXCEPT !.context = Len(ctx) + 1, !.phase = "creating"]
                     ELSE [NoUse EXCEPT !.phase = "threw"]
<1>a. /\ Watcher \in Thread /\ Len(ctx) \in Nat
      /\ Len(ctx) < MaxContexts
      /\ ctx' = IF Present THEN Append(ctx, NewContext) ELSE ctx
      /\ use' = [use EXCEPT ![Watcher] = new]
      /\ NewContext \in Context /\ NewContext.table \subseteq NewContext.routes
      /\ new \in Use
      /\ new.context = IF Present THEN Len(ctx) + 1 ELSE 0
      /\ new.phase = IF Present THEN "creating" ELSE "threw"
  <2>1. /\ Len(ctx) < MaxContexts
        /\ ctx' = IF Present THEN Append(ctx, NewContext) ELSE ctx
        /\ use' = [use EXCEPT ![Watcher] = new]
    BY DEF Replace, BeginReplace, Create
  <2>2. NewContext \in Context /\ NewContext.table \subseteq NewContext.routes
    BY DEF NewContext, Context
  <2>3. Len(ctx) + 1 \in Nat /\ "creating" \in Phases /\ "threw" \in Phases
    BY Size DEF Phases
  <2>4. new \in Use
    BY <2>3 DEF NoUse, Use
  <2>5. new.context = IF Present THEN Len(ctx) + 1 ELSE 0
    BY <2>3 DEF NoUse
  <2>6. new.phase = IF Present THEN "creating" ELSE "threw"
    BY <2>3 DEF NoUse
  <2> HIDE DEF new
  <2> QED BY <2>1, <2>2, <2>4, <2>5, <2>6, Size
<1>b. /\ CtxTyped'
      /\ Len(ctx') = IF Present THEN Len(ctx) + 1 ELSE Len(ctx)
      /\ \A i \in 1 .. Len(ctx) : ctx'[i] = ctx[i]
  <2>1. CASE Present
    <3>1. ctx' = Append(ctx, NewContext)
      BY <1>a, <2>1
    <3> HIDE DEF NewContext
    <3>2. /\ ctx' \in Seq(Context) /\ Len(ctx') = Len(ctx) + 1 /\ ctx'[Len(ctx) + 1] = NewContext
          /\ \A i \in 1 .. Len(ctx) : ctx'[i] = ctx[i]
      BY <1>a, <3>1, ContextAdded DEF IInv, Typed, CtxTyped
    <3>3. \A i \in 1 .. Len(ctx') : ctx'[i].table \subseteq ctx'[i].routes
      <4> TAKE i \in 1 .. Len(ctx')
      <4>1. CASE i = Len(ctx) + 1
        BY <4>1, <1>a, <3>2
      <4>2. CASE i \in 1 .. Len(ctx)
        <5>1. ctx'[i] = ctx[i]
          BY <4>2, <3>2
        <5>2. ctx[i].table \subseteq ctx[i].routes
          BY <4>2, Size
        <5> QED BY <5>1, <5>2
      <4> QED BY <4>1, <4>2, <3>2, <1>a
    <3> QED BY <1>a, <2>1, <3>2, <3>3, ContextsAssumption DEF CtxTyped
  <2>2. CASE ~Present
    BY <1>a, <2>2 DEF IInv, Typed, CtxTyped
  <2> QED BY <2>1, <2>2
<1>c. /\ UseTyped'
      /\ use'[Watcher] = new
      /\ \A u \in Thread : u # Watcher => use'[u] = use[u]
  <2> HIDE DEF new
  <2>1. new.context <= Len(ctx') /\ Len(ctx) <= Len(ctx')
    BY <1>a, <1>b
  <2> QED BY <1>a, <1>b, <2>1, Used DEF IInv, Typed
<1> HIDE DEF new
<1>d. \A u \in Thread : use[u].phase \in {"cancelled", "removing"}
            => use[u].context \in 1 .. Len(ctx)
  BY Size DEF IInv, PhaseInv
<1>1. CtxTyped'
  BY <1>b
<1>2. UseTyped'
  BY <1>c
<1>3. CancelledInv'
  BY <1>a, <1>b, <1>c, <1>d, CancelledKept
<1> USE ReloadAssumption, ContextsAssumption DEF IInv, Typed, CtxTyped,
    UseTyped, IndexTyped, RestTyped, Context, Use, In, Go, Leave, To, NoUse,
    Mine, contextVars, diskVars, serviceVars, historyVars, Replace,
    BeginReplace, Create, NewContext, Locked, Present
<1>4. IndexTyped' BY SMTT(30) DEF PhaseInv
<1>5. RestTyped' BY DEF Places, Mishap, PhaseInv, Present
<1>6. PhaseInv' BY SMTT(30) DEF PhaseInv, Phases
<1>7. LockInv' BY SMTT(30) DEF LockInv, PhaseInv
<1>8. NewestInv' BY DEF NewestInv, LockInv
<1>9. PlaceInv' BY SMTT(30) DEF PlaceInv, NewestInv, LockInv, OnEngine
<1>10. UsableInv' BY DEF UsableInv, LockInv, CancelledInv, PhaseInv
<1>11. NoContextForgotten' BY DEF NoContextForgotten, LockInv, CancelledInv,
    PhaseInv
<1>12. NeverBackToOldContext' BY DEF NeverBackToOldContext, PlaceInv
<1> QED BY <1>1, <1>2, <1>3, <1>4, <1>5, <1>6, <1>7, <1>8, <1>9, <1>10,
    <1>11, <1>12

(* The new context is registered over the old one, which is queued. *)
LEMMA ReplacedKeeps ==
  ASSUME IInv, Replaced
  PROVE  IInv'
<1> DEFINE c == use[Watcher].context
           e == [ctx[c] EXCEPT !.status = "open", !.state = state]
<1>a. /\ Watcher \in Thread /\ c \in 1 .. Len(ctx) /\ Len(ctx) \in Nat
      /\ use[Watcher].phase \in {"creating"}
      /\ ctx[c] \in Context /\ ctx[c].table \subseteq ctx[c].routes
  BY Size DEF IInv, PhaseInv, Replaced, ContextCreated, In
<1>b. /\ CtxTyped'
      /\ Len(ctx') = Len(ctx)
      /\ ctx'[c].status = "open"
      /\ \A i \in 1 .. Len(ctx) : i # c => ctx'[i] = ctx[i]
  <2>1. e \in Context /\ e.table \subseteq e.routes /\ e.status = "open"
    BY <1>a DEF Context, IInv, Typed, RestTyped
  <2>2. ctx' = [ctx EXCEPT ![c] = e]
    BY DEF Replaced, ContextCreated
  <2> HIDE DEF e
  <2> QED BY <1>a, <2>1, <2>2, ContextsKept DEF IInv, Typed
<1> HIDE DEF e
<1>c. /\ UseTyped'
      /\ use'[Watcher] = NoUse
      /\ \A u \in Thread : u # Watcher => use'[u] = use[u]
  <2>1. use' = [use EXCEPT ![Watcher] = NoUse]
    BY DEF Replaced, ContextCreated, Leave
  <2>2. NoUse \in Use /\ NoUse.context <= Len(ctx') /\ Len(ctx) <= Len(ctx')
    BY <1>a, <1>b, NoUseTyped
  <2> QED BY <1>a, <1>b, <2>1, <2>2, Used DEF IInv, Typed
<1>d. /\ c = Len(ctx) /\ registered' = c /\ UNCHANGED <<closing, strays, matched, place, ran>>
      /\ \A t \in Thread \ {Watcher} : use[t].phase # "creating" /\ use[t].context < c
  BY <1>a DEF IInv, LockInv, In, Replaced, ContextCreated, historyVars
<1>e. \A t \in Thread \ {Watcher} : use[t].phase \in {"cancelled", "removing"} => use[t].context # 0
  BY DEF IInv, PhaseInv
<1>1. CtxTyped'
  BY <1>b
<1>2. UseTyped'
  BY <1>c
<1>3. NewestInv'
  <2>1. \A q \in Request : matched[q] <= c
    BY <1>a, <1>d DEF IInv, Typed, IndexTyped
  <2>2. \A q \in Request : use'[q].context <= c
    BY <1>a, <1>c, <1>d, Size
  <2> QED BY <1>d, <2>1, <2>2 DEF NewestInv
<1>4. CancelledInv'
  <2>1. \A u \in Thread \ {Watcher} : use[u].phase \in {"cancelled", "removing"}
            => use[u].context \in 1 .. Len(ctx) /\ use[u].context # c
    BY <1>a, <1>d, <1>e, Size
  <2> QED BY <1>a, <1>b, <1>c, <2>1, CancelledKept DEF NoUse
<1>5. PlaceInv'
  BY <1>c, <1>d, Size DEF IInv, PlaceInv
<1> USE ReloadAssumption, ContextsAssumption DEF IInv, Typed, CtxTyped,
    UseTyped, IndexTyped, RestTyped, Context, Use, In, Go, Leave, To, NoUse,
    Mine, contextVars, diskVars, serviceVars, historyVars, Replaced,
    ContextCreated
<1>6. IndexTyped' BY SMTT(30) DEF PhaseInv
<1>7. RestTyped' BY DEF Places, Mishap, PhaseInv, Present
<1>8. PhaseInv' BY SMTT(30) DEF PhaseInv, Phases
<1>9. LockInv' BY SMTT(30) DEF LockInv, PhaseInv
<1>10. UsableInv' BY DEF UsableInv, LockInv, CancelledInv, PhaseInv
<1>11. NoContextForgotten' BY DEF NoContextForgotten, LockInv, CancelledInv,
    PhaseInv
<1>12. NeverBackToOldContext' BY DEF NeverBackToOldContext, PlaceInv
<1> QED BY <1>1, <1>2, <1>3, <1>4, <1>5, <1>6, <1>7, <1>8, <1>9, <1>10,
    <1>11, <1>12

(* The old context stays registered, though queued for closure. *)
LEMMA ReplaceThrowsKeeps ==
  ASSUME IInv, ReplaceThrows
  PROVE  IInv'
<1> DEFINE c == use[Watcher].context
           e == [ctx[c] EXCEPT !.status = "abandoned"]
<1>a. /\ Watcher \in Thread /\ c \in 1 .. Len(ctx) /\ Len(ctx) \in Nat
      /\ use[Watcher].phase \in {"creating"}
      /\ ctx[c] \in Context /\ ctx[c].table \subseteq ctx[c].routes
  BY Size DEF IInv, PhaseInv, ReplaceThrows, CreateThrows, In
<1>b. /\ CtxTyped'
      /\ Len(ctx') = Len(ctx)
      /\ ctx'[c].status = "abandoned"
      /\ \A i \in 1 .. Len(ctx) : i # c => ctx'[i] = ctx[i]
  <2>1. e \in Context /\ e.table \subseteq e.routes /\ e.status = "abandoned"
    BY <1>a DEF Context, IInv, Typed, RestTyped
  <2>2. ctx' = [ctx EXCEPT ![c] = e]
    BY DEF ReplaceThrows, CreateThrows
  <2> HIDE DEF e
  <2> QED BY <1>a, <2>1, <2>2, ContextsKept DEF IInv, Typed
<1> HIDE DEF e
<1>c. /\ UseTyped'
      /\ use'[Watcher].phase = "threw"
      /\ use'[Watcher].context = use[Watcher].context
      /\ \A u \in Thread : u # Watcher => use'[u] = use[u]
  BY <1>a, <1>b, Gone DEF IInv, Typed, ReplaceThrows, CreateThrows, Phases
<1>1. CtxTyped'
  BY <1>b
<1>2. UseTyped'
  BY <1>c
<1>3. CancelledInv'
  <2>1. \A u \in Thread \ {Watcher} : use[u].phase \in {"cancelled", "removing"}
            => use[u].context \in 1 .. Len(ctx)
    BY Size DEF IInv, PhaseInv
  <2> QED BY <1>a, <1>b, <1>c, <2>1, CancelledKept
<1> USE ReloadAssumption, ContextsAssumption DEF IInv, Typed, CtxTyped,
    UseTyped, IndexTyped, RestTyped, Context, Use, In, Go, Leave, To, NoUse,
    Mine, contextVars, diskVars, serviceVars, historyVars, ReplaceThrows,
    CreateThrows
<1>4. IndexTyped' BY SMTT(30) DEF PhaseInv
<1>5. RestTyped' BY DEF Places, Mishap, PhaseInv, Present
<1>6. PhaseInv' BY SMTT(30) DEF PhaseInv, Phases
<1>7. LockInv' BY SMTT(30) DEF LockInv, PhaseInv
<1>8. NewestInv' BY DEF NewestInv, LockInv
<1>9. PlaceInv' BY SMTT(30) DEF PlaceInv, NewestInv, LockInv, OnEngine
<1>10. UsableInv' BY DEF UsableInv, LockInv, CancelledInv, PhaseInv
<1>11. NoContextForgotten' BY DEF NoContextForgotten, LockInv, CancelledInv,
    PhaseInv
<1>12. NeverBackToOldContext' BY DEF NeverBackToOldContext, PlaceInv
<1> QED BY <1>1, <1>2, <1>3, <1>4, <1>5, <1>6, <1>7, <1>8, <1>9, <1>10,
    <1>11, <1>12

(* The reload is abandoned, and its reason noted. *)
LEMMA ReloadFailsKeeps ==
  ASSUME IInv, ReloadFails
  PROVE  IInv'
<1> USE ReloadAssumption, ContextsAssumption DEF IInv, Typed, CtxTyped,
    UseTyped, IndexTyped, RestTyped, Context, Use, In, Go, Leave, To, NoUse,
    Mine, contextVars, diskVars, serviceVars, historyVars, ReloadFails,
    Abandon
<1>1. CtxTyped' BY DEF Phases, Places, Mishap, PhaseInv
<1>2. UseTyped' BY DEF Phases
<1>3. IndexTyped' BY SMTT(30) DEF PhaseInv
<1>4. RestTyped' BY DEF Places, Mishap, PhaseInv, Present
<1>5. PhaseInv' BY SMTT(30) DEF PhaseInv, Phases
<1>6. LockInv' BY SMTT(30) DEF LockInv, PhaseInv
<1>7. NewestInv' BY DEF NewestInv, LockInv
<1>8. CancelledInv' BY SMTT(30) DEF CancelledInv, LockInv, PhaseInv
<1>9. PlaceInv' BY SMTT(30) DEF PlaceInv, NewestInv, LockInv, OnEngine
<1>10. UsableInv' BY DEF UsableInv, LockInv, CancelledInv, PhaseInv
<1>11. NoContextForgotten' BY DEF NoContextForgotten, LockInv, CancelledInv,
    PhaseInv
<1>12. NeverBackToOldContext' BY DEF NeverBackToOldContext, PlaceInv
<1> QED BY <1>1, <1>2, <1>3, <1>4, <1>5, <1>6, <1>7, <1>8, <1>9, <1>10,
    <1>11, <1>12

(* A context that is closed was queued, whether registered or not. *)
LEMMA CloseKeeps ==
  ASSUME IInv, Close
  PROVE  IInv'
<1>a. PICK c \in closing : CloseContext(c) /\ UNCHANGED <<diskVars, place, serviceVars, historyVars>>
  BY DEF Close
<1> DEFINE e == [ctx[c] EXCEPT !.status = "closed"]
<1>b. /\ c \in 1 .. Len(ctx) /\ ctx[c] \in Context /\ ctx[c].table \subseteq ctx[c].routes
  BY Size DEF IInv, Typed, IndexTyped
<1>c. CtxTyped'
  <2>1. e \in Context /\ e.table \subseteq e.routes
    BY <1>b DEF Context
  <2>2. ctx' = [ctx EXCEPT ![c] = e]
    BY <1>a DEF CloseContext
  <2> HIDE DEF e
  <2> QED BY <1>b, <2>1, <2>2, ContextsKept DEF IInv, Typed
<1> HIDE DEF e
<1>1. CtxTyped'
  BY <1>c
<1> USE ReloadAssumption, ContextsAssumption DEF IInv, Typed, CtxTyped,
    UseTyped, IndexTyped, RestTyped, Context, Use, In, Go, Leave, To, NoUse,
    Mine, contextVars, diskVars, serviceVars, historyVars, Close,
    CloseContext
<1>2. UseTyped' BY DEF Phases
<1>3. IndexTyped' BY SMTT(30) DEF PhaseInv
<1>4. RestTyped' BY DEF Places, Mishap, PhaseInv, Present
<1>5. PhaseInv' BY SMTT(30) DEF PhaseInv, Phases
<1>6. LockInv' BY SMTT(30) DEF LockInv, PhaseInv
<1>7. NewestInv' BY DEF NewestInv, LockInv
<1>8. CancelledInv' BY SMTT(30) DEF CancelledInv, LockInv, PhaseInv
<1>9. PlaceInv' BY SMTT(30) DEF PlaceInv, NewestInv, LockInv, OnEngine
<1>10. UsableInv' BY DEF UsableInv, LockInv, CancelledInv, PhaseInv
<1>11. NoContextForgotten' BY DEF NoContextForgotten, LockInv, CancelledInv,
    PhaseInv
<1>12. NeverBackToOldContext' BY DEF NeverBackToOldContext, PlaceInv
<1> QED BY <1>1, <1>2, <1>3, <1>4, <1>5, <1>6, <1>7, <1>8, <1>9, <1>10,
    <1>11, <1>12

(* Nothing changes. *)
LEMMA StutterKeeps ==
  ASSUME IInv, UNCHANGED vars
  PROVE  IInv'
  BY ReloadAssumption, ContextsAssumption, SMTT(30) DEF IInv, Typed,
      CtxTyped, UseTyped, IndexTyped, RestTyped, Context, Use, In, Go, Leave,
      To, NoUse, Mine, contextVars, diskVars, serviceVars, historyVars,
      PhaseInv, LockInv, NewestInv, CancelledInv, PlaceInv, UsableInv,
      NoContextForgotten, NeverBackToOldContext, Phases, Places, Mishap,
      OnEngine, vars
-----------------------------------------------------------------------------
LEMMA NextIInv == IInv /\ [Next]_vars => IInv'
<1> SUFFICES ASSUME IInv, [Next]_vars PROVE IInv'
  OBVIOUS
<1>1. CASE Edit \/ Overflow \/ Close
  BY <1>1, EditKeeps, OverflowKeeps, CloseKeeps
<1>2. CASE Reload
  BY <1>2, TakeEventsKeeps, FlushKeeps, FlushThrowsKeeps, ReplaceKeeps, ReplacedKeeps,
     ReplaceThrowsKeeps, ReloadFailsKeeps DEF Reload
<1>3. ASSUME NEW r \in Request, Submit(r) \/ Serve(r)
      PROVE  IInv'
  <2>1. CASE Submit(r) \/ EngineTake(r) \/ MatchRoute(r) \/ FindFunction(r)
    BY <2>1, SubmitKeeps, EngineTakeKeeps, MatchRouteKeeps, FindFunctionKeeps
  <2>2. CASE NotifyChange(r) \/ TakeOutput(r) \/ Fail(r) \/ Check(r)
    BY <2>2, NotifyChangeKeeps, TakeOutputKeeps, FailKeeps, CheckKeeps
  <2>3. CASE Acquire(r)
    BY <2>3, GetKeeps, BeginCreateKeeps DEF Acquire
  <2>4. CASE Acquired(r)
    BY <2>4, CreatedKeeps, CreateThrowsKeeps DEF Acquired
  <2>5. CASE Bootstrap(r)
    BY <2>5, ReadMainKeeps, EnterKeeps, EvaluatedKeeps, EvaluateThrowsKeeps DEF Bootstrap
  <2>6. CASE Routes(r)
    BY <2>6, ListRoutesKeeps, IterationThrowsKeeps DEF Routes
  <2>7. CASE Execute(r)
    BY <2>7, EnterKeeps, FunctionEndsKeeps DEF Execute
  <2>8. CASE Cancelled(r)
    BY <2>8, CancelKeeps, FindCancelledKeeps, RemoveCancelledKeeps DEF Cancelled
  <2> QED BY <1>3, <2>1, <2>2, <2>3, <2>4, <2>5, <2>6, <2>7, <2>8 DEF Serve
<1>4. CASE UNCHANGED vars
  BY <1>4, StutterKeeps
<1> QED BY <1>1, <1>2, <1>3, <1>4 DEF Next

LEMMA Invariant == Spec => []IInv
  BY InitIInv, NextIInv, PTL DEF Spec

(* The contexts, what each thread does with them, and the bookkeeping      *)
(* about them stay within their types: no index is past the last context.  *)
THEOREM TypeCorrect == Spec => []TypeOK
<1>1. IInv => TypeOK
  BY TypedOK DEF IInv
<1> QED BY <1>1, Invariant, PTL

(* Every open context is registered, queued for its closure, or a stray    *)
(* of a cancellation: replaceContext leaks none, whatever throws.          *)
THEOREM NoneForgotten == Spec => []NoContextForgotten
<1>1. IInv => NoContextForgotten
  BY DEF IInv
<1> QED BY <1>1, Invariant, PTL

(* A request that was matched by a context runs a function of that one or  *)
(* of a newer: getSandboxScriptContext never goes back.                    *)
THEOREM NeverBack == Spec => []NeverBackToOldContext
<1>1. IInv => NeverBackToOldContext
  BY DEF IInv
<1> QED BY <1>1, Invariant, PTL

(* The registered context can be used between reloads, unless the last one *)
(* was abandoned or the context is being cancelled.                        *)
THEOREM Usable == Spec => []RegisteredIsUsable
<1>1. IInv => RegisteredIsUsable
  BY ReloadAssumption DEF IInv, UsableInv, RegisteredIsUsable, Locked, In
<1> QED BY <1>1, Invariant, PTL

=============================================================================
