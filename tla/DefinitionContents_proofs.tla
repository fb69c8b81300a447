---------------------- MODULE DefinitionContents_proofs ----------------------
(***************************************************************************)
(* More theorems about DefinitionReload: what the registered context has   *)
(* evaluated and which state it has, for any number of requests, contexts  *)
(* and edits.  Both rest on the invariant of DefinitionReload_proofs: who  *)
(* creates a context is the only one that has it.                          *)
(***************************************************************************)
EXTENDS DefinitionReload_proofs

(* A context has no routes until it is complete. *)
CreatingInv == \A t \in Thread : In(t, "creating") => ctx[use[t].context].routes = {}

(* When nothing waits for the watcher, what was evaluated in the registered *)
(* context, and what is going to be, is what the disk holds.                *)
FreshInv ==
    Settled /\ missed = "none" /\ registered # 0 =>
        /\ ctx[registered].routes \subseteq {disk}
        /\ \A r \in Request :
               use[r].context = registered /\ use[r].phase \in {"read", "evaluating"}
                   => use[r].main = disk

(* Every change that was notified is in the registered context's state and, *)
(* but for what is buffered or being flushed, in the service's; only the    *)
(* registered context's is buffered.                                        *)
CarryInv ==
    mishaps = {} =>
        /\ \A r \in Request : use[r].phase \notin {"cancelled", "removing"}
        /\ buffered \in {0, registered}
        /\ Reloading => buffered = 0
        /\ registered # 0 => notified \subseteq ctx[registered].state
        /\ In(Watcher, "flushing") => use[Watcher].context = registered /\ registered # 0
        /\ buffered = 0 /\ ~In(Watcher, "flushing") => notified \subseteq state

ContentsInv == IInv /\ CreatingInv /\ FreshInv /\ CarryInv

(* What a step of thread t may do: to the use that t has of a context, ... *)
ReadStep(t) ==
    use'[t].phase \in {"read", "evaluating"} =>
        /\ use'[t].context = use[t].context
        /\ \/ use'[t].main = disk
           \/ use[t].phase \in {"read", "evaluating"} /\ use'[t].main = use[t].main

CreatingStep(t) ==
    use'[t].phase = "creating" =>
        \/ In(t, "creating") /\ use'[t].context = use[t].context
        \/ use'[t].context \notin DOMAIN ctx /\ ctx'[use'[t].context].routes = {}

UseStep(t) ==
    /\ \A u \in Thread : u # t => use'[u] = use[u]
    /\ ReadStep(t)
    /\ CreatingStep(t)

(* ... to the routes and the states of those there are, ...                *)
RoutesStep(t) ==
    \A c \in DOMAIN ctx :
        \/ ctx'[c].routes = ctx[c].routes
        \/ /\ In(t, "evaluating") /\ use[t].context = c
           /\ ctx'[c].routes \subseteq ctx[c].routes \cup {use[t].main}

StatesStep(t) ==
    \A c \in DOMAIN ctx : \/ ctx[c].state \subseteq ctx'[c].state
                          \/ In(t, "creating") /\ use[t].context = c

(* ... and to which is registered.                                         *)
RegisteredStep(t) ==
    \/ registered' \in {0, registered}
    \/ In(t, "creating") /\ registered' = use[t].context

Effects(t) == UseStep(t) /\ RoutesStep(t) /\ StatesStep(t) /\ RegisteredStep(t)

(* What it takes for the watcher to have nothing to do.                    *)
SettledStep ==
    Settled' /\ missed' = "none" =>
        /\ disk' = disk
        /\ \/ Settled /\ missed = "none"
           \/ In(Watcher, "creating") /\ registered' = use[Watcher].context
-----------------------------------------------------------------------------
LEMMA UseIsTyped ==
    ASSUME IInv
    PROVE  use \in [Thread -> Use]
BY DEF IInv, Typed, UseTyped

LEMMA GoEffects ==
    ASSUME IInv, NEW t \in Thread, NEW phase, Go(t, phase)
    PROVE  /\ use'[t].phase = phase
           /\ use'[t].context = use[t].context /\ use'[t].main = use[t].main
           /\ \A u \in Thread : u # t => use'[u] = use[u]
BY UseIsTyped DEF Go, Use

LEMMA LeaveEffects ==
    ASSUME IInv, NEW t \in Thread, Leave(t)
    PROVE  /\ use'[t].phase = "idle"
           /\ \A u \in Thread : u # t => use'[u] = use[u]
BY UseIsTyped DEF Leave, NoUse

(* The operations that leave the contexts as they are.                     *)
LEMMA OnlyUseEffects ==
    ASSUME IInv, NEW t \in Thread, UseStep(t), ctx' = ctx, registered' \in {0, registered}
    PROVE  Effects(t)
BY DEF Effects, RoutesStep, StatesStep, RegisteredStep

LEMMA GoOnEffects ==
    ASSUME IInv, NEW t \in Thread, NEW phase, Go(t, phase),
           phase \notin {"read", "creating"},
           phase = "evaluating" => In(t, "read"),
           ctx' = ctx, registered' \in {0, registered}
    PROVE  Effects(t)
BY GoEffects, OnlyUseEffects DEF UseStep, ReadStep, CreatingStep, In

LEMMA LeavingEffects ==
    ASSUME IInv, NEW t \in Thread, Leave(t), UNCHANGED <<ctx, registered>>
    PROVE  Effects(t)
BY LeaveEffects, OnlyUseEffects DEF UseStep, ReadStep, CreatingStep

LEMMA GetContextEffects ==
    ASSUME IInv, NEW t \in Thread, GetContext(t)
    PROVE  Effects(t)
<1>1. use'[t].phase = "checking" /\ \A u \in Thread : u # t => use'[u] = use[u]
  BY UseIsTyped DEF GetContext, NoUse
<1> QED BY <1>1, OnlyUseEffects DEF GetContext, UseStep, ReadStep, CreatingStep

LEMMA ReadMainEffects ==
    ASSUME IInv, NEW t \in Thread, ReadMain(t, disk)
    PROVE  Effects(t)
<1>1. /\ use'[t].phase = (IF disk = 0 THEN "threw" ELSE "read")
      /\ use'[t].context = use[t].context /\ use'[t].main = disk
      /\ \A u \in Thread : u # t => use'[u] = use[u]
  BY UseIsTyped DEF ReadMain, Use
<1>2. ctx' = ctx /\ registered' \in {0, registered}
  BY DEF ReadMain
<1>3. ReadStep(t)
  BY <1>1 DEF ReadStep
<1>4. CreatingStep(t)
  BY <1>1 DEF CreatingStep
<1>5. UseStep(t)
  BY <1>1, <1>3, <1>4 DEF UseStep
<1> QED BY <1>2, <1>5, OnlyUseEffects

(* A context is begun without routes. *)
LEMMA CreateEffects ==
    ASSUME IInv, NEW t \in Thread, Create(t, Present), UNCHANGED registered
    PROVE  Effects(t)
<1>1. /\ ctx \in Seq(Context) /\ Len(ctx) \in Nat /\ DOMAIN ctx = 1 .. Len(ctx)
      /\ NewContext \in Context /\ NewContext.routes = {}
  BY Size DEF IInv, Typed, CtxTyped, NewContext, Context
<1>2. CASE Present
  <2>1. ctx' = Append(ctx, NewContext)
    BY <1>2 DEF Create
  <2>2. /\ ctx'[Len(ctx) + 1] = NewContext /\ \A c \in DOMAIN ctx : ctx'[c] = ctx[c]
        /\ Len(ctx) + 1 \notin DOMAIN ctx
    BY <1>1, <2>1, ContextAdded
  <2>3. /\ use'[t].phase = "creating" /\ use'[t].context = Len(ctx) + 1
        /\ \A u \in Thread : u # t => use'[u] = use[u]
    BY <1>2, UseIsTyped DEF Create, NoUse
  <2> QED BY <1>1, <2>2, <2>3
          DEF Effects, UseStep, ReadStep, CreatingStep, RoutesStep, StatesStep, RegisteredStep
<1>3. CASE ~Present
  <2>1. /\ ctx' = ctx /\ use'[t].phase = "threw"
        /\ \A u \in Thread : u # t => use'[u] = use[u]
    BY <1>3, UseIsTyped DEF Create, NoUse
  <2> QED BY <2>1, OnlyUseEffects DEF UseStep, ReadStep, CreatingStep
<1> QED BY <1>2, <1>3

(* The operations that change the context a thread has.                    *)
LEMMA OneContextEffects ==
    ASSUME IInv, NEW t \in Thread, NEW c \in DOMAIN ctx, NEW e \in Context, UseStep(t),
           ctx' = [ctx EXCEPT ![c] = e], RegisteredStep(t),
           \/ e.routes = ctx[c].routes
           \/ /\ In(t, "evaluating") /\ use[t].context = c
              /\ e.routes \subseteq ctx[c].routes \cup {use[t].main},
           ctx[c].state \subseteq e.state \/ (In(t, "creating") /\ use[t].context = c)
    PROVE  Effects(t) /\ ctx'[c] = e
<1>1. ctx \in Seq(Context) /\ DOMAIN ctx = 1 .. Len(ctx)
  BY Size DEF IInv, Typed, CtxTyped
<1>2. ctx'[c] = e /\ \A d \in DOMAIN ctx : d # c => ctx'[d] = ctx[d]
  BY <1>1, ContextChanged
<1> QED BY <1>2 DEF Effects, RoutesStep, StatesStep

LEMMA MyContext ==
    ASSUME IInv, NEW t \in Thread, use[t].phase \notin {"idle", "threw", "flushed"}
    PROVE  use[t].context \in DOMAIN ctx /\ Mine(t) \in Context
<1>1. use[t].context # 0 /\ use[t].context \in 0 .. Len(ctx) /\ Len(ctx) \in Nat
      /\ DOMAIN ctx = 1 .. Len(ctx)
  BY Size DEF IInv, PhaseInv
<1>2. use[t].context \in 1 .. Len(ctx)
  BY <1>1
<1> QED BY <1>1, <1>2, Size DEF Mine

LEMMA ContextCreatedEffects ==
    ASSUME IInv, NEW t \in Thread, NEW next \in {"idle", "checking"},
           ContextCreated(t, state, next)
    PROVE  /\ Effects(t) /\ registered' = use[t].context
           /\ ctx'[use[t].context].state = state
           /\ use'[t].phase = next
<1> DEFINE c == use[t].context
           e == [ctx[c] EXCEPT !.status = "open", !.state = state]
<1>1. In(t, "creating") /\ registered' = c
      /\ (IF next = "idle" THEN Leave(t) ELSE Go(t, next))
  BY DEF ContextCreated
<1>2. c \in DOMAIN ctx /\ ctx[c] \in Context
  BY <1>1, MyContext DEF In, Mine
<1>3. /\ e \in Context /\ e.routes = ctx[c].routes /\ e.state = state
  BY <1>2 DEF IInv, Typed, RestTyped, Context
<1>4. ctx' = [ctx EXCEPT ![c] = e]
  BY <1>2 DEF ContextCreated
<1>5. /\ use'[t].phase = next /\ UseStep(t)
  BY <1>1, GoEffects, LeaveEffects DEF UseStep, ReadStep, CreatingStep
<1> HIDE DEF e
<1> QED BY <1>1, <1>2, <1>3, <1>4, <1>5, OneContextEffects DEF RegisteredStep

LEMMA CreateThrowsEffects ==
    ASSUME IInv, NEW t \in Thread, CreateThrows(t)
    PROVE  Effects(t)
<1> DEFINE c == use[t].context
           e == [ctx[c] EXCEPT !.status = "abandoned"]
<1>1. In(t, "creating") /\ registered' = registered /\ Go(t, "threw")
  BY DEF CreateThrows
<1>2. c \in DOMAIN ctx /\ ctx[c] \in Context
  BY <1>1, MyContext DEF In, Mine
<1>3. e \in Context /\ e.routes = ctx[c].routes /\ e.state = ctx[c].state
  BY <1>2 DEF Context
<1>4. ctx' = [ctx EXCEPT ![c] = e]
  BY <1>2 DEF CreateThrows
<1>5. UseStep(t)
  BY <1>1, GoEffects DEF UseStep, ReadStep, CreatingStep
<1> HIDE DEF e
<1> QED BY <1>1, <1>2, <1>3, <1>4, <1>5, OneContextEffects DEF RegisteredStep

(* main.js has defined its routes, or some before it threw. *)
LEMMA EvaluationEffects ==
    ASSUME IInv, NEW t \in Thread,
           EvaluateThrows(t) \/ \E next \in {"listing", "finding"} : Evaluated(t, next)
    PROVE  Effects(t)
<1>1. In(t, "evaluating") /\ registered' = registered
  BY DEF EvaluateThrows, Evaluated
<1>2. use[t].context \in DOMAIN ctx /\ ctx[use[t].context] \in Context
      /\ use[t].main \in Nat
  BY <1>1, MyContext, UseIsTyped DEF In, Mine, Use
<1>3. PICK phase \in {"threw", "listing", "finding"} : Go(t, phase)
  BY DEF EvaluateThrows, Evaluated
<1>4. UseStep(t)
  BY <1>3, GoEffects DEF UseStep, ReadStep, CreatingStep
<1>5. \E e \in Context :
          /\ ctx' = [ctx EXCEPT ![use[t].context] = e]
          /\ e.routes \subseteq ctx[use[t].context].routes \cup {use[t].main}
          /\ e.state = ctx[use[t].context].state
  <2> DEFINE old == ctx[use[t].context]
  <2>1. CASE EvaluateThrows(t)
    <3>1. PICK added \in {{}, {use[t].main}} :
              ctx' = [ctx EXCEPT ![use[t].context].routes = @ \cup added]
      BY <2>1 DEF EvaluateThrows
    <3> DEFINE e == [old EXCEPT !.routes = @ \cup added]
    <3>2. e \in Context /\ e.routes = old.routes \cup added /\ e.state = old.state
      BY <1>2 DEF Context
    <3>3. ctx' = [ctx EXCEPT ![use[t].context] = e]
      BY <1>2, <3>1
    <3> HIDE DEF e
    <3> QED BY <3>2, <3>3
  <2>2. CASE \E next \in {"listing", "finding"} : Evaluated(t, next)
    <3> DEFINE e == [old EXCEPT !.routes = @ \cup {use[t].main}, !.booted = TRUE]
    <3>1. /\ e \in Context /\ e.routes = old.routes \cup {use[t].main}
          /\ e.state = old.state
      BY <1>2 DEF Context
    <3>2. ctx' = [ctx EXCEPT ![use[t].context] = e]
      BY <1>2, <2>2 DEF Evaluated
    <3> HIDE DEF e
    <3> QED BY <3>1, <3>2
  <2> QED BY <2>1, <2>2
<1> QED BY <1>1, <1>2, <1>4, <1>5, OneContextEffects DEF RegisteredStep

LEMMA ListRoutesEffects ==
    ASSUME IInv, NEW t \in Thread, ListRoutes(t, "matching")
    PROVE  Effects(t)
<1> DEFINE c == use[t].context
           e == [ctx[c] EXCEPT !.table = Mine(t).routes]
<1>1. In(t, "listing") /\ registered' = registered /\ Go(t, "matching")
  BY DEF ListRoutes
<1>2. c \in DOMAIN ctx /\ ctx[c] \in Context /\ Mine(t) = ctx[c]
  BY <1>1, MyContext DEF In, Mine
<1>3. e \in Context /\ e.routes = ctx[c].routes /\ e.state = ctx[c].state
  BY <1>2 DEF Context
<1>4. ctx' = [ctx EXCEPT ![c] = e]
  BY <1>2 DEF ListRoutes
<1>5. UseStep(t)
  BY <1>1, GoEffects DEF UseStep, ReadStep, CreatingStep
<1> HIDE DEF e
<1> QED BY <1>1, <1>2, <1>3, <1>4, <1>5, OneContextEffects DEF RegisteredStep

LEMMA FunctionEndsEffects ==
    ASSUME IInv, NEW r \in Request, NEW changes \in {{}, {r}},
           NEW end \in {"returned", "threw"}, FunctionEnds(r, changes, end)
    PROVE  Effects(r)
<1> DEFINE c == use[r].context
           e == [ctx[c] EXCEPT !.state = @ \cup changes]
<1>1. In(r, "executing") /\ registered' = registered /\ Go(r, end) /\ r \in Thread
  BY Size DEF FunctionEnds
<1>2. c \in DOMAIN ctx /\ ctx[c] \in Context
  BY <1>1, MyContext DEF In, Mine
<1>3. e \in Context /\ e.routes = ctx[c].routes /\ ctx[c].state \subseteq e.state
  BY <1>2 DEF Context
<1>4. ctx' = [ctx EXCEPT ![c] = e]
  BY <1>2 DEF FunctionEnds
<1>5. UseStep(r)
  BY <1>1, GoEffects DEF UseStep, ReadStep, CreatingStep
<1> HIDE DEF e
<1> QED BY <1>1, <1>2, <1>3, <1>4, <1>5, OneContextEffects DEF RegisteredStep

LEMMA CancelEffects ==
    ASSUME IInv, NEW t \in Thread, Cancel(t)
    PROVE  Effects(t)
<1> DEFINE c == use[t].context
           e == [ctx[c] EXCEPT !.status = "closed"]
<1>1. /\ use[t].phase \in {"evaluating", "executing"}
      /\ registered' = registered /\ Go(t, "cancelled")
  BY DEF Cancel, In
<1>2. c \in DOMAIN ctx /\ ctx[c] \in Context
  BY <1>1, MyContext DEF Mine
<1>3. e \in Context /\ e.routes = ctx[c].routes /\ e.state = ctx[c].state
  BY <1>2 DEF Context
<1>4. ctx' = [ctx EXCEPT ![c] = e]
  BY <1>2 DEF Cancel
<1>5. UseStep(t)
  BY <1>1, GoEffects DEF UseStep, ReadStep, CreatingStep
<1> HIDE DEF e
<1> QED BY <1>1, <1>2, <1>3, <1>4, <1>5, OneContextEffects DEF RegisteredStep

LEMMA CloseEffects ==
    ASSUME IInv, NEW c \in closing, CloseContext(c), NEW t \in Thread
    PROVE  Effects(t)
<1> DEFINE e == [ctx[c] EXCEPT !.status = "closed"]
<1>1. registered' = registered /\ use' = use
  BY DEF CloseContext
<1>2. c \in DOMAIN ctx /\ ctx[c] \in Context
  BY Size DEF IInv, Typed, IndexTyped
<1>3. e \in Context /\ e.routes = ctx[c].routes /\ e.state = ctx[c].state
  BY <1>2 DEF Context
<1>4. ctx' = [ctx EXCEPT ![c] = e]
  BY <1>2 DEF CloseContext
<1>5. UseStep(t)
  BY <1>1 DEF UseStep, ReadStep, CreatingStep, In
<1> HIDE DEF e
<1> QED BY <1>1, <1>2, <1>3, <1>4, <1>5, OneContextEffects DEF RegisteredStep

(* A step that leaves the contexts and who has them as they are. *)
LEMMA NoEffects ==
    ASSUME IInv, NEW t \in Thread, UNCHANGED contextVars
    PROVE  Effects(t)
<1>1. UNCHANGED <<ctx, registered, use>>
  BY DEF contextVars
<1> QED BY <1>1, OnlyUseEffects DEF UseStep, ReadStep, CreatingStep, In

LEMMA EnterEffects ==
    ASSUME IInv, NEW t \in Thread,
           Enter(t, "read", "evaluating") \/ Enter(t, "found", "executing")
    PROVE  Effects(t)
<1>1. ctx' = ctx /\ registered' \in {0, registered}
  BY DEF Enter
<1>2. PICK phase \in {"evaluating", "executing", "threw"} :
          Go(t, phase) /\ (phase = "evaluating" => In(t, "read"))
  BY DEF Enter
<1> QED BY <1>1, <1>2, GoOnEffects

LEMMA CheckBootstrapEffects ==
    ASSUME IInv, NEW t \in Thread, NEW next \in {"listing", "finding"},
           CheckBootstrap(t, next)
    PROVE  Effects(t)
<1>1. ctx' = ctx /\ registered' \in {0, registered}
  BY DEF CheckBootstrap
<1>2. PICK phase \in {"listing", "finding", "reading"} : Go(t, phase)
  BY DEF CheckBootstrap
<1> QED BY <1>1, <1>2, GoOnEffects

LEMMA ServeEffects ==
    ASSUME IInv, NEW r \in Request, Serve(r)
    PROVE  Effects(r)
<1>t. r \in Thread
  BY Size
<1>1. CASE EngineTake(r)
  BY <1>1, <1>t, NoEffects DEF EngineTake
<1>2. CASE Acquire(r)
  <2>1. CASE GetContext(r)
    BY <2>1, <1>t, GetContextEffects
  <2>2. CASE BeginCreate(r, Present)
    BY <2>2, <1>t, CreateEffects DEF BeginCreate
  <2> QED BY <1>2, <2>1, <2>2 DEF Acquire
<1>3. CASE Acquired(r)
  BY <1>3, <1>t, ContextCreatedEffects, CreateThrowsEffects DEF Acquired
<1>4. CASE Check(r)
  <2>1. CASE Go(r, "matching") /\ UNCHANGED <<ctx, registered>>
    BY <2>1, <1>t, GoOnEffects
  <2>2. CASE CheckBootstrap(r, "listing") \/ CheckBootstrap(r, "finding")
    BY <2>2, <1>t, CheckBootstrapEffects
  <2> QED BY <1>4, <2>1, <2>2 DEF Check
<1>5. CASE Bootstrap(r)
  <2>1. CASE ReadMain(r, disk)
    BY <2>1, <1>t, ReadMainEffects
  <2>2. CASE Enter(r, "read", "evaluating")
    BY <2>2, <1>t, EnterEffects
  <2>3. CASE EvaluateThrows(r) \/ Evaluated(r, IF place[r] = "io" THEN "listing" ELSE "finding")
    BY <2>3, <1>t, EvaluationEffects
  <2> QED BY <1>5, <2>1, <2>2, <2>3 DEF Bootstrap
<1>6. CASE Routes(r)
  <2>1. CASE ListRoutes(r, "matching")
    BY <2>1, <1>t, ListRoutesEffects
  <2>2. CASE IterationThrows(r)
    BY <2>2, <1>t, GoOnEffects DEF IterationThrows
  <2> QED BY <1>6, <2>1, <2>2 DEF Routes
<1>7. CASE MatchRoute(r) \/ NotifyChange(r) \/ TakeOutput(r) \/ Fail(r)
  <2>1. Leave(r) /\ UNCHANGED <<ctx, registered>>
    BY <1>7 DEF MatchRoute, NotifyChange, TakeOutput, Fail
  <2> QED BY <1>t, <2>1, LeavingEffects
<1>8. CASE FindFunction(r)
  BY <1>8, <1>t, GoOnEffects DEF FindFunction
<1>9. CASE Execute(r)
  <2>1. CASE Enter(r, "found", "executing")
    BY <2>1, <1>t, EnterEffects
  <2>2. CASE \E changes \in {{}, {r}}, end \in {"returned", "threw"} :
                 FunctionEnds(r, changes, end)
    BY <2>2, FunctionEndsEffects
  <2> QED BY <1>9, <2>1, <2>2 DEF Execute
<1>10. CASE Cancelled(r)
  <2>1. CASE Cancel(r)
    BY <2>1, <1>t, CancelEffects
  <2>2. CASE FindCancelled(r)
    <3>1. PICK phase \in {"removing", "threw"} : Go(r, phase)
      BY <2>2 DEF FindCancelled
    <3>2. ctx' = ctx /\ registered' \in {0, registered}
      BY <2>2 DEF FindCancelled
    <3> QED BY <1>t, <3>1, <3>2, GoOnEffects
  <2>3. CASE RemoveCancelled(r)
    BY <2>3, <1>t, GoOnEffects DEF RemoveCancelled
  <2> QED BY <1>10, <2>1, <2>2, <2>3 DEF Cancelled
<1> QED BY <1>1, <1>2, <1>3, <1>4, <1>5, <1>6, <1>7, <1>8, <1>9, <1>10 DEF Serve

LEMMA ReloadEffects ==
    ASSUME IInv, Reload
    PROVE  Effects(Watcher)
<1>t. Watcher \in Thread
  BY Size
<1>1. CASE TakeEvents
  <2>1. /\ use'[Watcher].phase \in {"flushed", "flushing"}
        /\ \A u \in Thread : u # Watcher => use'[u] = use[u]
    BY <1>1, <1>t, UseIsTyped DEF TakeEvents, NoUse
  <2>2. ctx' = ctx /\ registered' \in {0, registered}
    BY <1>1 DEF TakeEvents
  <2> QED BY <1>t, <2>1, <2>2, OnlyUseEffects DEF UseStep, ReadStep, CreatingStep
<1>2. CASE Flush
  BY <1>2, <1>t, GoOnEffects DEF Flush
<1>3. CASE FlushThrows \/ ReloadFails
  <2>1. Leave(Watcher) /\ UNCHANGED <<ctx, registered>>
    BY <1>3 DEF FlushThrows, ReloadFails, Abandon
  <2> QED BY <1>t, <2>1, LeavingEffects
<1>4. CASE Replace
  <2>1. Create(Watcher, Present) /\ UNCHANGED registered
    BY <1>4 DEF Replace, BeginReplace
  <2> QED BY <1>t, <2>1, CreateEffects
<1>5. CASE Replaced
  BY <1>5, <1>t, ContextCreatedEffects DEF Replaced
<1>6. CASE ReplaceThrows
  BY <1>6, <1>t, CreateThrowsEffects DEF ReplaceThrows
<1> QED BY <1>1, <1>2, <1>3, <1>4, <1>5, <1>6 DEF Reload
-----------------------------------------------------------------------------
(* What a context that is being created has, only its creator can change;  *)
(* and he evaluates nothing in it.                                         *)
LEMMA CreatedAlone ==
    ASSUME IInv, CreatingInv, NEW t \in Thread, RoutesStep(t),
           NEW u \in Thread, In(u, "creating")
    PROVE  /\ use[u].context \in DOMAIN ctx
           /\ \A v \in Thread : use[v].context = use[u].context => v = u
           /\ ctx'[use[u].context].routes = {}
<1>1. use[u].context \in DOMAIN ctx /\ ctx[use[u].context].routes = {}
  BY MyContext DEF In, CreatingInv
<1>2. \A v \in Thread : use[v].context = use[u].context => v = u
  <2>1. use[u].context = Len(ctx) /\ \A v \in Thread : v # u => use[v].context < Len(ctx)
    BY DEF IInv, LockInv
  <2> QED BY <2>1, Size
<1>3. ~(In(t, "evaluating") /\ use[t].context = use[u].context)
  BY <1>2 DEF In
<1> QED BY <1>1, <1>2, <1>3 DEF RoutesStep

LEMMA FreshKept ==
    ASSUME IInv, CreatingInv, FreshInv, NEW t \in Thread, Effects(t), SettledStep
    PROVE  CreatingInv' /\ FreshInv'
<1> USE DEF Effects, UseStep
<1>1. CreatingInv'
  <2> SUFFICES ASSUME NEW u \in Thread, use'[u].phase = "creating"
               PROVE  ctx'[use'[u].context].routes = {}
    BY DEF CreatingInv, In
  <2>1. CASE In(u, "creating") /\ use'[u].context = use[u].context
    BY <2>1, CreatedAlone
  <2>2. CASE u = t /\ ~(In(t, "creating") /\ use'[t].context = use[t].context)
    BY <2>2 DEF CreatingStep
  <2>3. u # t => In(u, "creating") /\ use'[u].context = use[u].context
    BY DEF In
  <2> QED BY <2>1, <2>2, <2>3
<1>2. ASSUME Settled', missed' = "none", registered' # 0
      PROVE  /\ ctx'[registered'].routes \subseteq {disk'}
             /\ \A r \in Request :
                    use'[r].context = registered' /\ use'[r].phase \in {"read", "evaluating"}
                        => use'[r].main = disk'
  <2>1. disk' = disk /\ Request \subseteq Thread
    BY <1>2, Size DEF SettledStep
  <2>2. CASE \E u \in Thread : In(u, "creating") /\ registered' = use[u].context
    <3>1. PICK u \in Thread : In(u, "creating") /\ registered' = use[u].context
      BY <2>2
    <3>2. /\ \A v \in Thread : use[v].context = registered' => v = u
          /\ ctx'[registered'].routes = {}
      BY <3>1, CreatedAlone
    <3>3. ASSUME NEW r \in Request, use'[r].context = registered',
                 use'[r].phase \in {"read", "evaluating"}
          PROVE  use'[r].main = disk'
      <4>1. use'[r].context = use[r].context
        BY <3>3, <2>1 DEF ReadStep
      <4>2. r = u
        BY <2>1, <3>2, <3>3, <4>1
      <4>3. use[r].phase \notin {"read", "evaluating"}
        BY <3>1, <4>2 DEF In
      <4>4. r = t
        BY <2>1, <3>3, <4>3
      <4> QED BY <2>1, <3>3, <4>3, <4>4 DEF ReadStep
    <3> QED BY <3>2, <3>3
  <2>3. CASE registered' = registered /\ Settled /\ missed = "none"
    <3>1. /\ ctx[registered].routes \subseteq {disk}
          /\ \A r \in Request :
                 use[r].context = registered /\ use[r].phase \in {"read", "evaluating"}
                     => use[r].main = disk
      BY <1>2, <2>3 DEF FreshInv
    <3>2. registered \in DOMAIN ctx
      BY <1>2, <2>3, Size DEF IInv, Typed, IndexTyped
    <3>3. In(t, "evaluating") => t \in Request
      BY ReloadAssumption DEF IInv, PhaseInv, In
    <3>4. ctx'[registered].routes \subseteq {disk}
      BY <3>1, <3>2, <3>3 DEF RoutesStep, In
    <3>5. ASSUME NEW r \in Request, use'[r].context = registered,
                 use'[r].phase \in {"read", "evaluating"}
          PROVE  use'[r].main = disk
      <4>1. CASE r = t
        BY <3>1, <3>5, <4>1 DEF ReadStep
      <4>2. CASE r # t
        BY <2>1, <3>1, <3>5, <4>2
      <4> QED BY <4>1, <4>2
    <3> QED BY <2>1, <2>3, <3>4, <3>5
  <2>4. \/ \E u \in Thread : In(u, "creating") /\ registered' = use[u].context
        \/ registered' = registered /\ Settled /\ missed = "none"
    BY <1>2, Size DEF SettledStep, RegisteredStep
  <2> QED BY <2>2, <2>3, <2>4
<1>3. FreshInv'
  BY <1>2 DEF FreshInv
<1> QED BY <1>1, <1>3

(* Of the requests' steps none makes the watcher have less or more to do. *)
LEMMA SettledByRequest ==
    ASSUME IInv, NEW r \in Request, Serve(r) \/ Submit(r)
    PROVE  SettledStep
<1>1. UNCHANGED diskVars /\ missed' = missed
  BY DEF Submit, Serve, EngineTake, Acquire, Acquired, Check, Bootstrap, Routes, MatchRoute,
         FindFunction, Execute, Cancelled, NotifyChange, TakeOutput, Fail, historyVars
<1>2. use'[Watcher] = use[Watcher]
  <2>1. CASE Serve(r)
    BY <2>1, ServeEffects, Size DEF Effects, UseStep
  <2>2. CASE Submit(r)
    BY <2>2 DEF Submit, contextVars
  <2> QED BY <2>1, <2>2
<1> QED BY <1>1, <1>2 DEF SettledStep, Settled, Reloading, In, diskVars

LEMMA SettledByReload ==
    ASSUME IInv, Reload
    PROVE  SettledStep
<1>t. Watcher \in Thread
  BY Size
<1>1. CASE TakeEvents
  <2>1. use'[Watcher].phase # "idle"
    BY <1>1, <1>t, UseIsTyped DEF TakeEvents, NoUse
  <2> QED BY <2>1 DEF SettledStep, Settled, Reloading, In
<1>2. CASE Flush
  <2>1. use'[Watcher].phase # "idle"
    BY <1>2, <1>t, GoEffects DEF Flush
  <2> QED BY <2>1 DEF SettledStep, Settled, Reloading, In
<1>3. CASE FlushThrows \/ ReloadFails
  <2>1. missed' # "none"
    BY <1>3 DEF FlushThrows, ReloadFails, Abandon
  <2> QED BY <2>1 DEF SettledStep
<1>4. CASE Replace
  <2>1. use'[Watcher].phase # "idle"
    BY <1>4, <1>t, UseIsTyped DEF Replace, BeginReplace, Create, NoUse
  <2> QED BY <2>1 DEF SettledStep, Settled, Reloading, In
<1>5. CASE Replaced
  <2>1. /\ In(Watcher, "creating") /\ registered' = use[Watcher].context
        /\ disk' = disk
    BY <1>5 DEF Replaced, ContextCreated, diskVars
  <2> QED BY <2>1 DEF SettledStep
<1>6. CASE ReplaceThrows
  <2>1. use'[Watcher].phase # "idle"
    BY <1>6, <1>t, GoEffects DEF ReplaceThrows, CreateThrows
  <2> QED BY <2>1 DEF SettledStep, Settled, Reloading, In
<1> QED BY <1>1, <1>2, <1>3, <1>4, <1>5, <1>6 DEF Reload

(* The context that is registered between reloads is fresh.               *)
LEMMA NextFresh ==
    ASSUME IInv, CreatingInv, FreshInv, Next
    PROVE  CreatingInv' /\ FreshInv'
<1>t. Watcher \in Thread /\ Request \subseteq Thread
  BY Size
<1>1. CASE Edit
  <2>1. SettledStep
    BY <1>1 DEF Edit, SettledStep, Settled
  <2> QED BY <1>1, <1>t, <2>1, NoEffects, FreshKept DEF Edit
<1>2. CASE Overflow
  <2>1. changed' /\ UNCHANGED contextVars
    BY <1>2 DEF Overflow
  <2>2. SettledStep
    BY <2>1 DEF SettledStep, Settled
  <2> QED BY <1>t, <2>1, <2>2, NoEffects, FreshKept
<1>3. CASE Close
  <2>1. PICK c \in closing : CloseContext(c)
    BY <1>3 DEF Close
  <2>2. SettledStep
    <3>1. UNCHANGED diskVars /\ missed' = missed /\ use' = use
      BY <1>3, <2>1 DEF Close, CloseContext, historyVars
    <3> QED BY <3>1 DEF SettledStep, Settled, Reloading, In, diskVars
  <2> QED BY <1>t, <2>1, <2>2, CloseEffects, FreshKept
<1>4. CASE Reload
  BY <1>4, <1>t, ReloadEffects, SettledByReload, FreshKept
<1>5. ASSUME NEW r \in Request, Submit(r)
      PROVE  CreatingInv' /\ FreshInv'
  BY <1>5, <1>t, NoEffects, SettledByRequest, FreshKept DEF Submit
<1>6. ASSUME NEW r \in Request, Serve(r)
      PROVE  CreatingInv' /\ FreshInv'
  BY <1>6, <1>t, ServeEffects, SettledByRequest, FreshKept
<1> QED BY <1>1, <1>2, <1>3, <1>4, <1>5, <1>6 DEF Next
-----------------------------------------------------------------------------
(* The steps that leave the state service and which context is registered, *)
(* and begin neither a reload nor a cancellation.                          *)
LEMMA QuietCarries ==
    ASSUME IInv, CarryInv, NEW t \in Thread, Effects(t),
           mishaps' = {} => mishaps = {},
           UNCHANGED <<buffered, state, notified, registered>>,
           \/ use'[Watcher] = use[Watcher]
           \/ /\ use[Watcher].phase \notin {"idle", "flushing"}
              /\ use'[Watcher].phase # "flushing",
           \A r \in Request : use'[r].phase \in {"cancelled", "removing"}
               => mishaps' # {} \/ use[r].phase \in {"cancelled", "removing"}
    PROVE  CarryInv'
<1> SUFFICES ASSUME mishaps' = {} PROVE CarryInv'
  BY DEF CarryInv
<1>1. /\ \A r \in Request : use[r].phase \notin {"cancelled", "removing"}
      /\ buffered \in {0, registered}
      /\ Reloading => buffered = 0
      /\ registered # 0 => notified \subseteq ctx[registered].state
      /\ In(Watcher, "flushing") => use[Watcher].context = registered /\ registered # 0
      /\ buffered = 0 /\ ~In(Watcher, "flushing") => notified \subseteq state
  BY DEF CarryInv
<1>2. \A r \in Request : use'[r].phase \notin {"cancelled", "removing"}
  BY <1>1
<1>3. /\ Reloading' => Reloading
      /\ In(Watcher, "flushing")' => /\ In(Watcher, "flushing")
                                     /\ use'[Watcher].context = use[Watcher].context
      /\ In(Watcher, "flushing") => In(Watcher, "flushing")'
  BY DEF Reloading, In
<1>4. registered # 0 => notified \subseteq ctx'[registered].state
  <2> SUFFICES ASSUME registered # 0 PROVE notified \subseteq ctx'[registered].state
    OBVIOUS
  <2>1. registered \in DOMAIN ctx
    BY Size DEF IInv, Typed, IndexTyped
  <2>2. ~(In(t, "creating") /\ use[t].context = registered)
    <3>1. In(t, "creating") => registered < Len(ctx) /\ use[t].context = Len(ctx)
      BY DEF IInv, LockInv
    <3> QED BY <3>1, <2>1, Size
  <2>3. ctx[registered].state \subseteq ctx'[registered].state
    BY <2>1, <2>2 DEF Effects, StatesStep
  <2> QED BY <1>1, <2>3
<1>5. (Reloading => buffered = 0)' /\ (buffered \in {0, registered})'
  BY <1>1, <1>3
<1>6. (In(Watcher, "flushing") => use[Watcher].context = registered /\ registered # 0)'
  BY <1>1, <1>3
<1>7. (buffered = 0 /\ ~In(Watcher, "flushing") => notified \subseteq state)'
  BY <1>1, <1>3
<1>8. (registered # 0 => notified \subseteq ctx[registered].state)'
  BY <1>4
<1> QED BY <1>2, <1>5, <1>6, <1>7, <1>8 DEF CarryInv

(* A new context has the state that the service has, which is all of it.   *)
LEMMA CreatedCarries ==
    ASSUME IInv, CarryInv, NEW t \in Thread, NEW next \in {"idle", "checking"},
           ContextCreated(t, state, next),
           UNCHANGED <<buffered, state, notified, mishaps>>
    PROVE  CarryInv'
<1> SUFFICES ASSUME mishaps = {} PROVE CarryInv'
  BY DEF CarryInv
<1>1. /\ \A r \in Request : use[r].phase \notin {"cancelled", "removing"}
      /\ buffered \in {0, registered}
      /\ Reloading => buffered = 0
      /\ In(Watcher, "flushing") => registered # 0
      /\ buffered = 0 /\ ~In(Watcher, "flushing") => notified \subseteq state
  BY DEF CarryInv
<1>2. /\ registered' = use[t].context /\ ctx'[use[t].context].state = state
      /\ use'[t].phase = next /\ \A u \in Thread : u # t => use'[u] = use[u]
  BY ContextCreatedEffects DEF Effects, UseStep
<1>3. In(t, "creating") /\ Watcher \in Thread /\ Request \subseteq Thread
  BY Size DEF ContextCreated
<1>4. registered # 0 => t = Watcher
  BY <1>3 DEF IInv, LockInv
<1>5. buffered = 0 /\ ~In(Watcher, "flushing")
  <2>1. CASE t = Watcher
    BY <1>1, <1>3, <2>1 DEF Reloading, In
  <2>2. CASE t # Watcher
    BY <1>1, <1>4, <2>2
  <2> QED BY <2>1, <2>2
<1>6. /\ ~In(Watcher, "flushing")'
      /\ \A r \in Request : use'[r].phase \notin {"cancelled", "removing"}
  BY <1>1, <1>2, <1>3, <1>5 DEF In
<1>7. notified' \subseteq state' /\ notified' \subseteq ctx'[registered'].state
  BY <1>1, <1>2, <1>5
<1>8. buffered' = 0
  BY <1>5
<1> QED BY <1>6, <1>7, <1>8 DEF CarryInv

(* What a function has changed is buffered for the registered context, or  *)
(* was too late.                                                           *)
LEMMA NotifyCarries ==
    ASSUME IInv, CarryInv, NEW r \in Request, NotifyChange(r)
    PROVE  CarryInv'
<1> SUFFICES ASSUME mishaps' = {} PROVE CarryInv'
  BY DEF CarryInv
<1>1. mishaps = {} /\ use[r].context = registered /\ ~Reloading
  BY DEF NotifyChange, Mishap
<1>2. /\ \A q \in Request : use[q].phase \notin {"cancelled", "removing"}
      /\ registered # 0 => notified \subseteq ctx[registered].state
  BY <1>1 DEF CarryInv
<1>3. r \in Thread /\ Watcher \in Thread /\ r # Watcher /\ Request \subseteq Thread
  BY Size
<1>4. registered # 0
  BY <1>1, <1>3 DEF IInv, PhaseInv, NotifyChange, In
<1>5. /\ use'[r].phase = "idle" /\ \A u \in Thread : u # r => use'[u] = use[u]
  BY <1>3, LeaveEffects DEF NotifyChange
<1>6. /\ registered' = registered /\ ctx' = ctx /\ buffered' = registered
      /\ notified' = notified \cup (ctx[registered].state \cap {r})
  BY <1>1 DEF NotifyChange, Mine
<1>7. notified' \subseteq ctx'[registered'].state
  BY <1>2, <1>4, <1>6
<1>8. ~Reloading' /\ ~In(Watcher, "flushing")'
  BY <1>1, <1>3, <1>5 DEF Reloading, In
<1>9. \A q \in Request : use'[q].phase \notin {"cancelled", "removing"}
  BY <1>2, <1>3, <1>5
<1>10. buffered' # 0 /\ buffered' = registered'
  BY <1>4, <1>6
<1> QED BY <1>7, <1>8, <1>9, <1>10 DEF CarryInv

(* The steps of a cancellation are, or follow, a mishap. *)
LEMMA CancelledCarries ==
    ASSUME IInv, CarryInv, NEW r \in Request, Cancelled(r)
    PROVE  CarryInv'
<1> SUFFICES ASSUME mishaps' = {} PROVE FALSE
  BY DEF CarryInv
<1>1. mishaps = {} /\ ~In(r, "evaluating") /\ ~In(r, "executing")
  BY DEF Cancelled, Mishap
<1>2. In(r, "cancelled") \/ In(r, "removing")
  BY <1>1 DEF Cancelled, Cancel, FindCancelled, RemoveCancelled
<1> QED BY <1>1, <1>2 DEF CarryInv, In

LEMMA ServeCarries ==
    ASSUME IInv, CarryInv, NEW r \in Request, Serve(r)
    PROVE  CarryInv'
<1>t. r \in Thread /\ Watcher \in Thread /\ Watcher # r /\ Request \subseteq Thread
  BY Size
<1>1. CASE Cancelled(r)
  BY <1>1, CancelledCarries
<1>2. CASE NotifyChange(r)
  BY <1>2, NotifyCarries
<1>3. CASE ContextCreated(r, state, "checking") /\ Acquired(r)
  <2>1. UNCHANGED <<buffered, state, notified, mishaps>>
    BY <1>3 DEF Acquired, serviceVars, historyVars
  <2> QED BY <1>3, <1>t, <2>1, CreatedCarries
<1>4. CASE \/ EngineTake(r) \/ Acquire(r) \/ (CreateThrows(r) /\ Acquired(r)) \/ Check(r)
           \/ Bootstrap(r) \/ Routes(r) \/ MatchRoute(r) \/ FindFunction(r) \/ Execute(r)
           \/ TakeOutput(r) \/ Fail(r)
  <2>1. UNCHANGED <<buffered, state, notified, registered, mishaps>>
    <3>1. CASE EngineTake(r) \/ Acquire(r) \/ (CreateThrows(r) /\ Acquired(r))
      BY <3>1 DEF EngineTake, Acquire, GetContext, BeginCreate, Acquired, CreateThrows,
                  contextVars, serviceVars, historyVars
    <3>2. CASE Check(r)
      BY <3>2 DEF Check, CheckBootstrap, serviceVars, historyVars
    <3>3. CASE Bootstrap(r) \/ Routes(r)
      BY <3>3 DEF Bootstrap, ReadMain, Enter, Evaluated, EvaluateThrows,
                  Routes, ListRoutes, IterationThrows, serviceVars, historyVars
    <3>4. CASE MatchRoute(r) \/ FindFunction(r) \/ Execute(r) \/ TakeOutput(r) \/ Fail(r)
      BY <3>4 DEF MatchRoute, FindFunction, Execute, Enter, FunctionEnds, TakeOutput, Fail,
                  serviceVars, historyVars
    <3> QED BY <1>4, <3>1, <3>2, <3>3, <3>4
  <2>2. Effects(r)
    BY <1>4, ServeEffects DEF Serve
  <2>3. \/ use' = use
        \/ Leave(r)
        \/ \E phase \in {"threw", "matching", "listing", "finding", "reading", "evaluating",
                         "found", "executing", "returned"} : Go(r, phase)
        \/ use'[r].phase \in {"checking", "creating", "threw", "read"}
    <3>1. CASE EngineTake(r)
      BY <3>1 DEF EngineTake, contextVars
    <3>2. CASE Acquire(r)
      <4>1. CASE GetContext(r)
        BY <4>1, <1>t, UseIsTyped DEF GetContext, NoUse
      <4>2. CASE BeginCreate(r, Present)
        BY <4>2, <1>t, UseIsTyped DEF BeginCreate, Create, NoUse
      <4> QED BY <3>2, <4>1, <4>2 DEF Acquire
    <3>3. CASE CreateThrows(r)
      BY <3>3 DEF CreateThrows
    <3>4. CASE Check(r)
      BY <3>4 DEF Check, CheckBootstrap
    <3>5. CASE Bootstrap(r)
      <4>1. CASE ReadMain(r, disk)
        BY <4>1, <1>t, UseIsTyped DEF ReadMain
      <4>2. CASE \/ Enter(r, "read", "evaluating") \/ EvaluateThrows(r)
                 \/ Evaluated(r, IF place[r] = "io" THEN "listing" ELSE "finding")
        BY <4>2 DEF Enter, Evaluated, EvaluateThrows
      <4> QED BY <3>5, <4>1, <4>2 DEF Bootstrap
    <3>6. CASE Routes(r)
      BY <3>6 DEF Routes, ListRoutes, IterationThrows
    <3>7. CASE MatchRoute(r) \/ FindFunction(r) \/ TakeOutput(r) \/ Fail(r)
      BY <3>7 DEF MatchRoute, FindFunction, TakeOutput, Fail
    <3>8. CASE Execute(r)
      BY <3>8 DEF Execute, Enter, FunctionEnds
    <3> QED BY <1>4, <3>1, <3>2, <3>3, <3>4, <3>5, <3>6, <3>7, <3>8
  <2>4. use'[r].phase \in {"cancelled", "removing"} => use[r].phase \in {"cancelled", "removing"}
    BY <1>t, <2>3, GoEffects, LeaveEffects
  <2>5. \A u \in Thread : u # r => use'[u] = use[u]
    BY <2>2 DEF Effects, UseStep
  <2>6. use'[Watcher] = use[Watcher]
    BY <1>t, <2>5
  <2>7. \A q \in Request : use'[q].phase \in {"cancelled", "removing"}
            => use[q].phase \in {"cancelled", "removing"}
    BY <1>t, <2>4, <2>5
  <2> QED BY <1>t, <2>1, <2>2, <2>6, <2>7, QuietCarries
<1>5. Acquired(r) => ContextCreated(r, state, "checking") \/ CreateThrows(r)
  BY DEF Acquired
<1> QED BY <1>1, <1>2, <1>3, <1>4, <1>5 DEF Serve

LEMMA ReloadCarries ==
    ASSUME IInv, CarryInv, Reload
    PROVE  CarryInv'
<1>t. Watcher \in Thread /\ Watcher \notin Request /\ Request \subseteq Thread
  BY Size
<1>u. Effects(Watcher) /\ \A r \in Request : use'[r] = use[r]
  BY <1>t, ReloadEffects DEF Effects, UseStep
<1>1. CASE TakeEvents
  <2> SUFFICES ASSUME mishaps' = {} PROVE CarryInv'
    BY DEF CarryInv
  <2>1. /\ UNCHANGED <<ctx, registered, state, notified, mishaps>> /\ buffered' = 0
        /\ In(Watcher, "idle")
    BY <1>1 DEF TakeEvents, historyVars
  <2>2. /\ use'[Watcher].phase = IF buffered = 0 THEN "flushed" ELSE "flushing"
        /\ use'[Watcher].context = buffered
    BY <1>1, <1>t, UseIsTyped DEF TakeEvents, NoUse
  <2>3. /\ \A r \in Request : use[r].phase \notin {"cancelled", "removing"}
        /\ buffered \in {0, registered}
        /\ registered # 0 => notified \subseteq ctx[registered].state
        /\ buffered = 0 => notified \subseteq state
    BY <2>1 DEF CarryInv, In
  <2>4. (In(Watcher, "flushing") => use[Watcher].context = registered /\ registered # 0)'
    BY <2>1, <2>2, <2>3 DEF In
  <2>5. (buffered = 0 /\ ~In(Watcher, "flushing") => notified \subseteq state)'
    BY <2>1, <2>2, <2>3 DEF In
  <2>6. (registered # 0 => notified \subseteq ctx[registered].state)'
    BY <2>1, <2>3
  <2>7. \A r \in Request : use'[r].phase \notin {"cancelled", "removing"}
    BY <1>u, <2>3
  <2>8. buffered' = 0
    BY <2>1
  <2> QED BY <2>4, <2>5, <2>6, <2>7, <2>8 DEF CarryInv
<1>2. CASE Flush
  <2> SUFFICES ASSUME mishaps' = {} PROVE CarryInv'
    BY DEF CarryInv
  <2>1. /\ UNCHANGED <<ctx, registered, buffered, notified, mishaps>>
        /\ In(Watcher, "flushing") /\ state' = ctx[use[Watcher].context].state
        /\ Go(Watcher, "flushed")
    BY <1>2 DEF Flush, Mine, historyVars
  <2>2. use'[Watcher].phase = "flushed"
    BY <1>t, <2>1, GoEffects
  <2>3. /\ \A r \in Request : use[r].phase \notin {"cancelled", "removing"}
        /\ buffered = 0
        /\ use[Watcher].context = registered /\ registered # 0
        /\ notified \subseteq ctx[registered].state
    BY <2>1 DEF CarryInv, Reloading, In
  <2>4. notified' \subseteq state' /\ notified' \subseteq ctx'[registered'].state
    BY <2>1, <2>3
  <2>5. ~In(Watcher, "flushing")' /\ buffered' = 0
    BY <2>1, <2>2, <2>3 DEF In
  <2>6. \A r \in Request : use'[r].phase \notin {"cancelled", "removing"}
    BY <1>u, <2>3
  <2> QED BY <2>4, <2>5, <2>6 DEF CarryInv
<1>3. CASE FlushThrows
  <2>1. mishaps' # {}
    BY <1>3 DEF FlushThrows, Mishap
  <2> QED BY <2>1 DEF CarryInv
<1>4. CASE Replaced
  <2>1. ContextCreated(Watcher, state, "idle") /\ UNCHANGED <<buffered, state, notified, mishaps>>
    BY <1>4 DEF Replaced, serviceVars
  <2> QED BY <1>t, <2>1, CreatedCarries
<1>5. CASE Replace \/ ReplaceThrows \/ ReloadFails
  <2>1. /\ UNCHANGED <<buffered, state, notified, registered, mishaps>>
        /\ use[Watcher].phase \notin {"idle", "flushing"}
    BY <1>5 DEF Replace, BeginReplace, ReplaceThrows, CreateThrows, ReloadFails, Abandon,
                serviceVars, historyVars, In
  <2>2. use'[Watcher].phase # "flushing"
    <3>1. CASE Replace
      BY <3>1, <1>t, UseIsTyped DEF Replace, BeginReplace, Create, NoUse
    <3>2. CASE ReplaceThrows
      BY <3>2, <1>t, GoEffects DEF ReplaceThrows, CreateThrows
    <3>3. CASE ReloadFails
      BY <3>3, <1>t, LeaveEffects DEF ReloadFails, Abandon
    <3> QED BY <1>5, <3>1, <3>2, <3>3
  <2> QED BY <1>t, <1>u, <2>1, <2>2, QuietCarries
<1> QED BY <1>1, <1>2, <1>3, <1>4, <1>5 DEF Reload

(* No change that was notified is missing in the next context.             *)
LEMMA NextCarries ==
    ASSUME IInv, CarryInv, Next
    PROVE  CarryInv'
<1>t. Watcher \in Thread
  BY Size
<1>1. CASE Edit \/ Overflow \/ \E r \in Request : Submit(r)
  <2>1. UNCHANGED contextVars /\ UNCHANGED serviceVars /\ UNCHANGED historyVars
    BY <1>1 DEF Edit, Overflow, Submit
  <2>2. UNCHANGED <<use, registered, buffered, state, notified, mishaps>>
    BY <2>1 DEF contextVars, serviceVars, historyVars
  <2>3. Effects(Watcher)
    BY <1>t, <2>1, NoEffects
  <2> QED BY <1>t, <2>2, <2>3, QuietCarries
<1>2. CASE Close
  <2>1. PICK c \in closing : CloseContext(c)
    BY <1>2 DEF Close
  <2>2. UNCHANGED <<use, registered, buffered, state, notified, mishaps>>
    BY <1>2, <2>1 DEF Close, CloseContext, serviceVars, historyVars
  <2> QED BY <1>t, <2>1, <2>2, CloseEffects, QuietCarries
<1>3. CASE Reload
  BY <1>3, ReloadCarries
<1>4. CASE \E r \in Request : Serve(r)
  BY <1>4, ServeCarries
<1> QED BY <1>1, <1>2, <1>3, <1>4 DEF Next
-----------------------------------------------------------------------------
LEMMA InitContents == Init => CreatingInv /\ FreshInv /\ CarryInv
<1> SUFFICES ASSUME Init PROVE CreatingInv /\ FreshInv /\ CarryInv
  OBVIOUS
<1>1. /\ use = [t \in Thread |-> NoUse] /\ registered = 0 /\ buffered = 0
      /\ notified = {} /\ Watcher \in Thread /\ Request \subseteq Thread
  BY ReloadAssumption DEF Init, ContextsInit
<1>2. \A t \in Thread : In(t, "idle")
  BY <1>1 DEF In, NoUse
<1> QED BY <1>1, <1>2 DEF CreatingInv, FreshInv, CarryInv, In, Reloading

LEMMA StutterContents ==
    ASSUME CreatingInv, FreshInv, CarryInv, UNCHANGED vars
    PROVE  CreatingInv' /\ FreshInv' /\ CarryInv'
<1>1. UNCHANGED <<ctx, registered, use, disk, changed, buffered, state, notified, missed, mishaps>>
  BY DEF vars, contextVars, diskVars, serviceVars, historyVars
<1> QED BY <1>1 DEF CreatingInv, FreshInv, CarryInv, In, Settled, Reloading

LEMMA Contents == Spec => []ContentsInv
<1>1. Init => ContentsInv
  BY InitIInv, InitContents DEF ContentsInv
<1>2. ContentsInv /\ [Next]_vars => ContentsInv'
  <2> SUFFICES ASSUME ContentsInv, [Next]_vars PROVE ContentsInv'
    OBVIOUS
  <2>1. CASE Next
    BY <2>1, NextIInv, NextFresh, NextCarries DEF ContentsInv
  <2>2. CASE UNCHANGED vars
    BY <2>2, NextIInv, StutterContents DEF ContentsInv
  <2> QED BY <2>1, <2>2
<1> QED BY <1>1, <1>2, PTL DEF Spec

(* Between reloads, the last of which was not abandoned, the registered    *)
(* context has evaluated, and lists in its table, nothing but the main.js  *)
(* that is on the disk, whichever requests were bootstrapping meanwhile.   *)
THEOREM FreshContents == Spec => []FreshUnlessAbandoned
<1>1. ContentsInv => FreshUnlessAbandoned
  <2> SUFFICES ASSUME ContentsInv, Settled, missed = "none", registered # 0
               PROVE  /\ ctx[registered].routes \subseteq {disk}
                      /\ ctx[registered].table \subseteq {disk}
    BY DEF FreshUnlessAbandoned, Fresh
  <2>1. ctx[registered].routes \subseteq {disk}
    BY DEF ContentsInv, FreshInv
  <2>2. ctx[registered].table \subseteq ctx[registered].routes
    BY Size DEF ContentsInv, IInv, Typed, IndexTyped
  <2> QED BY <2>1, <2>2
<1> QED BY <1>1, Contents, PTL

(* Between reloads, every change of the state that was notified is in the  *)
(* registered context's state object, unless a mishap has lost one.        *)
THEOREM CarriedOver == Spec => []StateCarriedOver
<1>1. ContentsInv => StateCarriedOver
  BY DEF ContentsInv, CarryInv, StateCarriedOver
<1> QED BY <1>1, Contents, PTL
=============================================================================
