# Sandbox worker: a TLA+ model

This directory models the concurrent core of the Sandbox CLI worker in `src/`:
how a request becomes a response, how script contexts are created, shared and
replaced while requests use them, how a request finds its function, how a
definition's state object is persisted, how requests are recorded for the
activity API, and what the runtime's own JavaScript promises to scripts. TLC
model-checks the modules on small instances, TLAPS checks the theorems for every
instance.

## The system

| Component | State | Operations | Interacts with |
|---|---|---|---|
| Request pipeline (`RequestServerHandler`, `RequestHandler`, `WorkerRequestRunnable`, `WorkerRunnable`) | the engine's queue, the delayed responder's timers, each request's buffer reference count | read, convert, match a route, queue, run, delay, respond, record; fail at each of these | contexts (to run), event service (to record), netty (to respond) |
| Context factory (`ContextFactory`, `WorkerScriptContext`, `JSContextHelper`) | the registered context, its lock, contexts to be closed | get or create, replace, remove when cancelled, close 20 s later | watcher replaces; IO pool and engine get |
| Executors (`AbstractJSExecutor`, `GenerateRoutingTableExecutor`, `ProcessRequestExecutor`) | needsBootstrap, routes, routing table of a context | bootstrap, list routes, process a request | pipeline and contexts |
| Definition watcher (`CLIRequestHandler`) | the watch key | wait, poll, reload | the file system, context factory, state service |
| Routing (`RouteSupport`, `DefaultRoutingTable`, `ScriptObject`) | the table, sorted by its first look-up; the routes in a hash map | find the route, find the function | IO pool and engine |
| Buffering state service (`AbstractBufferingStateService`, `LocalFileStateService`, `InMemoryStateService`) | one buffered item, the state file or string | notify, flush all (periodic, shutdown hook), flush one (a reload), load | engine notifies, `ContextFactory` loads and flushes |
| Activity (`InMemoryEventService`, `FileBasedActivityStore`, `ActivityStoreServer`) | the pool's queue, the ring's index, its files | emit, add, list | pipeline emits; clients list |
| JavaScript runtime (`sandbox-patch.js`, `sandbox-libraries.js`, `sandbox-validator.js`, `sandbox-templates.js`, in three versions) | the cache of modules, the one wrapped request and its list of errors, the lazy proxies | `require`, `define`, `soap`, `render`, `check*`, first use of a library | main.js and its functions call it; it calls `ScriptObject` and the repository |
| Conversion, templates, file system, metadata, bundled libraries, start-up | none, or read once | string, file and network I/O | - |

What makes each correct, and what makes that hard:

* *Pipeline*: one response per request, however the catch blocks of
  `successFuture`, `successResponseFunction`, `handleRequestFailure`, `doRun`,
  `call` and `submitRequest` nest; the netty buffer, retained on the event loop
  and released by whoever answers, is there while it is read and is not leaked;
  the one engine thread is given back on each path.
* *Contexts*: four kinds of threads (IO pool, engine, watcher, cleanup) use the
  registered context under a lock that covers its creation and replacement but
  not its use. What runs must be what the disk holds; a replaced context must
  be closed, a registered one must not be.
* *Routing*: two look-ups of the same request, on two threads, in two
  collections with different orders, have to agree.
* *State*: the engine notifies, and three threads flush or load, without a lock
  and over a file that is truncated and rewritten in place; the process may be
  stopped or killed at any step.
* *JavaScript runtime*: all requests of a context share its globals: the cache
  of modules, which a failed bootstrap leaves half filled for the next one; the
  request object, to which each request is copied; the proxies, whose first use
  rebinds a global. What one script or one request leaves behind must not change
  what another one means.
* *Activity*: a work stealing pool writes a ring of files that a listing
  measures, opens and sends in three passes, without a lock.

## Modules

| Module | Models |
|---|---|
| `RequestService` | what the client is promised: each request is answered once, with success or an error, or is dropped (abstract) |
| `RequestPipeline` | the detailed pipeline, one action per step of a thread; `Service` is its refinement mapping to `RequestService` |
| `ScriptContexts` | the contexts of the sandbox and what a thread does with one: the operators `DefinitionReload` makes its actions of |
| `DefinitionReload` | extends it with the requests, the watcher, the disk and the in-memory state service: the CLI with its default options |
| `Routing` | one context's routes, its table, and the two look-ups |
| `StateBuffer` | the buffering state service and the state file, one file operation per action |
| `StatePersistence` | extends it with the evaluation of main.js and its functions, the stateBuffer thread, the shutdown hook, the loading of contexts, kills and restarts: the CLI with `--state` and `--watch false` |
| `StateStore` | what `--state` promises a definition: a new context begins with the state that was kept last, and a stop keeps what the last function to return has left, across shutdowns, kills and restarts (abstract) |
| `ActivityStore` | the event service's pool, the ring of files and the listing |
| `RuntimeCalls` | pure operators: the file that a path passed to `require` names, and the route that a call of `define` stands for, each next to a reference definition |
| `ScriptModules` | extends it with the module loader of one context: `require`, the cache, bootstraps that throw and are tried again, functions that require |
| `ScriptLibraries` | the lazy proxies of the libraries and the globals they bind |
| `ScriptRequests` | extends it with the requests that one context serves through its one request object, and the checks of the validator, in the old runtime versions (1 and 2) and in 3 |
| `*_proofs` | the theorems about the module of that name; `DefinitionContents_proofs`, more of them about `DefinitionReload` |
| `MC*` | constants for TLC |

### How state and actions correspond to the code

**`RequestPipeline`**. `pc[r]` is where the code that works for request `r` is;
`engineQueue`/`engine` are the single engine thread's queue and task (it is the
`newFixedThreadPool(1)` of `CLIRequestHandler`), `delayed` is the task on the
delayed responder's one thread, `timed` (history) the requests it was given, `refCnt` the buffer's reference count,
`sent`/`activity` what was written to the client and emitted. `caller[r]` says
which catch block has called `handleRequestFailure`, which is what decides
where its own exception goes. A thrown `Throwable` is abstracted to whether it
is a service override, has a message, or has none (`fault`), because these are
what the code tells apart; only requests in `Fragile` can make the code throw
one without a message. A failure without a message thrown on the IO pool ends in
the catch-all of `submitRequest`; thrown on the engine it ends in the `doFail` of
`WorkerRunnable.call`, whose own exception ends in a `Future` nobody reads.

**`ScriptContexts` and `DefinitionReload`**. `ctx` is every context ever begun,
`registered` the one in `existingContexts`; `use[t]` is the context a thread
holds a reference to and how far it has come with it. The lock of the sandbox is
held exactly by a thread in phase `creating`; a context's monitor by a thread in a phase
of `Inside`. Everything `createContext` does before it loads the state
and after it is one step each way (it is under the lock, and nothing else reads what it builds).
main.js is abstracted to its version, a context's routes to the set of versions
that have defined some, a state object to the set of changes that functions have made to it: what
main.js sets at its top level, over what was carried over from the old context if it says so, is
left out. The
reads of `needsBootstrap` and of the routing table are steps of their own,
without a lock; a stale value of these fields, which are not volatile, is what
an earlier read returns. `Overflow` is the watch event without a context that
ends the watcher thread.

**`Routing`**. `routes` is the hash map in its iteration order (a route has no
`hashCode` of its own, so any order is possible: `Define` inserts anywhere);
`table` holds positions in it. A path is a sequence of segments and its processing key the
sequence of its slashes and literals, compared as `String.compareTo` does it. A
literal is a number: 0 is the slash, and the empty text of the root's one
segment; a text that sorts after the slash, as letters and digits do, is above
it and one that begins with `-` or `!` below. `InOrder` is the sorted list: the
n-th route is the one that n - 1 routes are before.

**`StateBuffer` and `StatePersistence`**. `buffered` is the item of the one
sandbox; `call[t]` what a thread does in the service and how far it is.
`setSandboxState` is two steps, the opening (which truncates) and the write;
`it.remove()` is a third. `process` is the life of the JVM: while it is
`flushing` the hook runs next to all other threads. `Crash` keeps the file only.
A context's state object changes in two ways. `Bootstrap` is an evaluation of main.js,
whose top level may change it (`legacyBase/main.js` of the tests does): nobody is notified of
that, a main.js that has thrown is evaluated again, and `late` counts the threads that
found `needsBootstrap` before it was reset and evaluate it once more. `Change` is a function, after
which `NotifyChange` buffers the context's item, unless it has thrown. `owed` (history) is what
the last function to return has left, or what was loaded; the properties about what must
reach the file are about it, and what main.js's top level, or a function that threw, has changed
since may or may not be in the file, depending on when it is flushed.
`Store` maps it to `StateStore`: the registered context's state object is its
`current`, `owed` its `noted`, the version last written its `kept`, what the hook was started to
persist its `promised`; a fault or a mishap makes it `broken`.

**`ActivityStore`**. `index`, `wrapped` and `file` are the store; `work[w]` is
what a thread of the pool adds. `getLatestIndex` is one step (it is
synchronized); opening and writing a file are two, because the listing and
other workers may come between. `reader` goes through the three passes of
`channelRead0`.

**`ScriptModules`**. `loads` has a record for each evaluation of a file, with
the one that required it (0: main.js or a function), so that the loads that are
running are the engine's call stack and only the last of them can act (`IsTop`).
`cache[f]` is `Require.cache`, by the load that wrote it last. A file may be
left by an exception at any time; `throwing` is TRUE until who required it has
caught it or was left too. What scripts export is abstracted to its truth value,
for this is what `Require` tests. Versions 1 and 2 of `sandbox-patch.js` are the same but for a
blank line, version 3 differs in the aliases and polyfills.

**`RuntimeCalls`**. A path is a sequence of segments; a segment that only
*begins* with dots (`..x`, `.x`) is one of `Up` or `Skipped`, as the code tests
`startsWith`. An argument is its `typeof`, with null apart; where `ScriptObject.define` has a
string or a map, null and undefined both arrive as Java's null (`AddRoute`).

**`ScriptLibraries` and `ScriptRequests`**. `binding` is what a global is bound
to, `resolved` the proxies whose `resolvedTarget` is set, `stored` the proxies a script has
put into a variable of its own. `input` is what `wrapCallback` has copied;
`lists` is every list of errors ever made, `current` the one that is
`_validationErrors`, so that a list that was handed out and one that
is written to can be told apart or not. `failed` (history) is what the checks of
this request should have left. A check is one action: lookup, validator and the
recording of the error run without a call into a script, but for the error
callback, which is told only.

## Runs

Deadlock checking is off in all of them: the bounds on requests, contexts,
edits, versions and messages make every behaviour end, and an idle worker has
nothing to do. Where progress matters a liveness property says so instead.

| Run | Question | Bounds, and why they are enough |
|---|---|---|
| `pipeline` | one response, an accounted buffer, engine and delayed responder, failures recorded before they are answered; every request answered unless a failure without a message happens on the engine; implements `RequestService` | 2 requests, one Fragile: they interact through the engine, its queue and the responder's thread only, each of which two requests can contend for. The safety part is proved for any number. |
| `reload` | what runs is what the disk holds, no registered context is closed, none forgotten, none older than the one that matched, notified state carried over | 2 requests, 2 edits, 5 contexts: two reloads overlapping both requests, with one more context for a cancellation and one for a failed creation |
| `reload_liveness` | every request ends | 1 edit, 6 contexts: each request may begin two, and the watcher one, without meeting the bound |
| `routing` | the two look-ups agree, literal paths first | 3 routes over 6 paths that overlap in every way two segments allow, 3 methods, one property, every order of the hash map, 12 requests to the root, a URL that sorts before it and one that four paths match |
| `state_persistence` | the mishaps are the only ways to lose what a function has left; that is saved in time; barring mishaps, implements `StateStore` | 2 versions, 2 contexts, 1 late evaluation of main.js: one change, by main.js or a function, before and one during or after a flush, an older text next to a newer one, and a second context that loads what the first has left. The safety part is proved for any number. |
| `activity_ring` | the ring shows the last round; undisturbed listings are whole | 2 workers, limit 2, 4 messages: one more than a round (of 3) |
| `script_modules` | files are evaluated once, half a module is handed out only in a cycle or after a failure that was seen; paths and calls of `define` mean what they say | 2 files that can require each other and themselves, 2 bootstraps, 1 function, 3 loads: one more than there are files. Every path of up to 5 segments and every call of up to 5 arguments, one more than `define` takes |
| `script_requests` | a request's errors are its own failed checks, lists that were handed out stay, checks take the value at the path; what a first use of a library changes | 2 requests through the one object, 2 errors, so that both of one request or one of each are recorded; 3 inputs with a value present, missing and null on the way; one lazy library |

Four runs show where the code does not do what a comment, an option's
description or the Readme says:

* `pipeline_unanswered`: a Throwable without a message, thrown on the engine, is never answered.
* `reload_refresh`: an edit is not loaded because the item that an old context's function left buffered makes the flush throw.
* `routing_best_match`: the function that runs need not be that of the route that was matched.
* `script_check`: `req.check` validates the name of the parameter, not its value.

Other differences met while modelling, without a run:

* `RequestHandler.java:262`: a response that cannot be converted is recorded as
  a failure and then, once more, as a success (`RecordedAsAnswered` says so).
* `ActivityStoreServer.java:137`: the listing of an empty store announces one
  byte and sends two.
* `DefaultRoutingTable.java:73`: the comment says longest literals first, the
  comparison is lexical. A literal that begins with `-` or `!` sorts behind the
  parameter in its place, and the root and `*` have the same key, so that the hash map's
  order decides: `LiteralRouteFirst` is about texts that sort after the slash.
* `CLIRequestHandler.java:107`: `&&` binds before `||`, so a set of changed
  `.mjs` files reloads once for each; an `OVERFLOW` event has no context and its
  NullPointerException ends the watcher.
* `RouteSupport.java:57`: replacing `:id` also replaces the beginning of `:idx`.
* `RequestHandler.java:316`: the comment says 100 seconds, the code 110.
* `AbstractBufferingStateService.start`: its parameter shadows the field
  `writeDelaySeconds`, which stays 0. `WorkerRunnable` can expire, nothing ever
  asks it to.
* `AbstractJSExecutor.java:23`: `needsBootstrap` is read without a lock and set
  when main.js has been evaluated, so that two requests may both evaluate it in one
  context, although line 22 says "skip bootstrap if its not needed"
  (`DefinitionReload` has the behaviour: `CheckBootstrap`, `ReadMain`).
* `AbstractBufferingStateService.java:42`: `it.remove()` removes whatever is
  buffered by then, so that a change may be lost on the way to a shutdown, which is to
  "persist state locally" (`CLIRequestHandler.java:75`);
  `ShutdownPersistsBarringMishap` names the mishaps.
* `AbstractJSExecutor.java:39`: what the top level of main.js changes in `state` is not
  notified (only `ProcessRequestExecutor.java:85` notifies, when a function has returned): it
  is not saved until a function returns, and a worker that is stopped before that has lost it.
* `FileBasedActivityStore.java:58`: the index restarts at -1, so that one message
  of each round goes to a file that is never listed (`InRing` says which).
* `sandbox-patch.js:72`: the exception for a wrong second argument uses `method`
  before it is set, so that a TypeError is thrown in its stead; `soap`'s uses a
  name it does not have. `define` reports a missing function, `soap` does not.
* `ScriptObject.java:48`: a method that is null or undefined is put as one that no
  request matches, where a path that is throws (`DefinedAsDocumented` lists what else is put).
* `sandbox-patch.js:165`: a falsy value that a module exports counts as none, and
  the file is evaluated at each `require` (`EvaluatedOnce` excludes it).
* `sandbox-libraries.js:33`: the first call `_(x)` by a proxy passes `[x]`; a
  setting made on a proxy before the library is loaded is never read.
* `sandbox-validator.js` (version 3): a lookup never leaves `undefined`, so that
  `optional()` never skips anything; `filter` calls `this.param`, which no request has.
* `LocalFileMetadataService`: the CLI's route configuration is empty, so the
  overrides and latencies of a route, which the pipeline models, happen only
  with another metadata service.

### Fairness

* `RequestPipeline`: each thread goes on with what it has begun
  (`WF(Serve(r))`, `WF(ChannelReadReturns(r))`). The engine's queue is first in
  first out, so a queued request is served. `ChannelRead` is not fair: clients
  need not send anything.
* `DefinitionReload`: the IO pool, the engine and the watcher go on, and what
  runs inside a context ends, by itself or by the statement limit
  (`ContextFactory.statementExecutionLimits`). Edits, requests, overflows and the closing of
  contexts are not fair.
* `StatePersistence`: the scheduled executor runs the periodic task, which finishes what it
  began. Nothing is assumed of the functions, the hook, loads, kills and restarts.

## What is proved

Every theorem is about all values of the constants, from the assumptions the
modules state about them and no others. None of the invariants below is
inductive alone; in each proof module `IInv` is the conjunction that is,
`InitIInv` and `NextIInv` are its two halves (a lemma per action where an action
needs more than a few lines), and the theorems follow from them and temporal
logic.

**`RequestPipeline_proofs`**, from `RequestAssumption` and `FragileAssumption`
(`NoRequest` is not a request, `Fragile` is a subset of `Request`, which may be
any set):

| Theorem | States |
|---|---|
| `TypeCorrect` | `Spec => []TypeOK`; in particular no count goes below zero |
| `AnsweredOnce` | no request is answered twice |
| `ReferencesAccounted` | a buffer's count is exactly what its owners hold, and leaks only when `channelRead0` throws |
| `BufferNotFreedEarly` | the raw request is there whenever it is read |
| `ThreadsOwned` | the engine thread and the delayed-responder thread are held exactly by the requests whose code runs on them |
| `FailuresRecorded` | a failure is recorded before it is answered, but for the two "Internal error"s |
| `RecordedTruly` | what is emitted for an ended request is what it was answered with, `RecordedAsAnswered`'s two exceptions aside |
| `Refinement` | every behaviour of `Spec` is one of `RequestService` (safety) |

`IInv` adds `SentInv` (in
which places a response has been written: once in `recording` and `done`, never
before), `ReadingInv` (the event loop still holds the request only after it was
read), `QueueInv` (the queue holds queued requests only, each once), `TimedInv` (what was
given to the delayed responder waits there, is completed or answered by it, or is over) and
`FailureInv` (what `caller` and the activity are while a failure is handled).
Of `SentInv`, for instance, `AtMostOneResponse` needs that no response has been
written in `completing`, `answering` or `catchAll`, the places that write one; the
engine's ownership needs `QueueInv` to know that the head of the queue is
`queued` and not already running. `RecordedAsAnswered` is proved on top of it, with
`AuditInv`, which says for each place what was emitted so far and which `fault` and
`caller` brought the request there. `NextService` is the step lemma of the refinement.

**`DefinitionReload_proofs`**, from `ReloadAssumption` and `ContextsAssumption`
(the bounds are numbers, the watcher is not a request):

| Theorem | States |
|---|---|
| `TypeCorrect` | `Spec => []TypeOK` |
| `NoneForgotten` | every open context is registered, queued for its closure, or a stray of a cancellation |
| `NeverBack` | the code a request runs is never older than what its route was matched with |
| `Usable` | the registered context is complete and not closed, unless the last reload was abandoned or it is being removed after a cancellation |

Everything rests on the lock: `LockInv` says that while a thread is `creating`,
its context is the newest, nobody else has it or creates one, and what is
registered, if anything, is what the watcher is replacing. From it
`NewestInv` follows (no request has, or was matched by, a newer context than the
registered one), and from that `NeverBackToOldContext`. `UsableInv` needs `CancelledInv`:
who removes a context for its cancellation does so after it was cancelled.

**`DefinitionContents_proofs`** extends it, from the same assumptions:

| Theorem | States |
|---|---|
| `FreshContents` | between reloads, the last of which was not abandoned, the registered context has evaluated only the main.js on the disk |
| `CarriedOver` | between reloads every notified change is in the registered context's state object, barring the mishaps |

`FreshInv` adds to `FreshUnlessAbandoned` that a request which has read main.js and is about to
evaluate it in the registered context has read what is still on the disk; `CreatingInv`, that
a context has no routes until it is complete. `CarryInv` says where the
notified changes are during a reload: in the service's state once the flush is over, until
then in the registered context. The lemmas `...Effects` reduce each operation to what it does to the
thread's own use and context; `FreshKept` and `QuietCarries` then treat most actions at once,
with the lock's exclusion from `IInv`.

**`StatePersistence_proofs`**, from `ThreadAssumption`, `ContextAssumption`,
`ContentAssumption` and `BoundAssumption`:

| Theorem | States |
|---|---|
| `TypeCorrect` | `Spec => []TypeOK` |
| `FileHolds` | a restart finds the version last written; only in the middle of a write is the file without one |
| `NothingLost` | without a mishap, when all is quiet the file holds what the last function to return has left, or a later state: nothing of that is lost between the buffer and the file or by a thread that saves an older one |
| `ShutdownPersists` | without a mishap, a shutdown has persisted what the last function to return before it has left |
| `NoRace` | no first mishap is a race for the file until the hook flushes it |
| `Refinement` | barring mishaps, every behaviour of `Spec` is one of `StateStore` |

Until something goes wrong (`AllWell`) loads and flushes take turns, because there
is nothing to flush before the first load has returned and nobody loads while there is
a context (`LoadInv`); `FlushInv` says that a flusher's text is no older than what was saved,
but for the hook's, and `NotifiedInv` where what is owed is: in the buffer, in
a thread that will write it, or in the file. `DueInv` carries this through the shutdown.
`NextStore` is the step lemma of the refinement: a load returns what was saved
(`LoadInv`), a function that returns is a `Note`, a write is a `Keep` or writes what is saved already (`WriteIsKept`), and what has
gone wrong once is `broken` for good (`StaysBroken`).

**`ActivityStore_proofs`**, from `LimitAssumption` and `SizeAssumption`, for any
pool of workers:

| Theorem | States |
|---|---|
| `TypeCorrect` | `Spec => []TypeOK`; no message is added twice |
| `NoEarlyCollision` | two workers have a file in common only once a whole round was added |
| `RingHolds` | an idle ring, that nothing went wrong with, shows the last round but the message that went to index -1 |
| `ListingIsWhole` | a listing that no worker disturbs sends every message it shows, in a body of the announced length |

The argument is arithmetic: `RoundInv` ties the index to the number of messages
added, modulo the round, `Latest(s)` is the number of the last message that was
given index `s`, and `FileInv` says that the file of `s` has that message, or a
worker is about to write it. `AloneInv` excludes the others. The body's length
is a sum over the files: the lemmas from `Total` to `TotalOfOneMore` say that the fold has a
value, and what one more file adds to it. `ReaderInv` says, for each of the three
passes of the listing, which files it has opened, measured and sent so far.

**`ScriptModules_proofs`**, from `ModulesAssumption` and `SegmentsAssumption` (a
segment is of one kind):

| Theorem | States |
|---|---|
| `TypeCorrect` | `Spec => []TypeOK` |
| `OnceEach` | however bootstraps fail and are tried again, a file is evaluated once, unless it has exported a falsy value |
| `PartialOnlyAbove` | `require` returns a module that is not whole only in a cycle, to what that module waits for, or when the module has thrown |
| `ReportedFirst` | a module that has thrown is passed on as if it were whole only after the failure was seen |
| `Understood` | `CallsUnderstood`, for paths with any number of segments and calls with any number of arguments |

`CacheInv` says that an evaluation that was left by an exception has its entry
in the cache all the same; `StackInv`, that the evaluations that are running are a
chain from the newest to main.js or the function, each below those it was
required by. `Below`, the chain, is a recursive function: `BelowEquation` shows
that it has a value, by induction along the loads, and `BelowKept` that a new load does not change
the chains of the others. `FailureInv` says what was seen of each failure
while an exception passes up the chain, and `FrameInv` where it passes.
`CanonicalPath` is a stack machine and `Remaining` a condition on counts: `WayKeeps` shows,
segment by segment, that the stack holds the segments that are kept so far, and
`Balanced` that between a kept one and the end there are as many more names than `..` as
kept ones, so that a `..` takes away the last of them (`UpNext`).

**`Routing_proofs`**, from `RoutingAssumption` (what a path and a URL are):

| Theorem | States |
|---|---|
| `TypeCorrect` | `Spec => []TypeOK`; the table has every route once |
| `FoundIsRun` | `AnsweredAsDefined`: the engine runs a matching route's function exactly when the IO pool has matched a route |
| `LiteralFirst` | `LiteralRouteFirst`: the path that is the URL itself is matched before those with parameters |

`After` is shown to be a strict total order on texts; so `Before` is one on routes, a
route's `Place` is the number of those before it, and as no two have the same place
every place is taken (`InOrderSorts`). `KeyParts` takes a processing key apart,
segment by segment, and `LiteralAfter` finds the first segment where a path
with parameters differs from the URL. `ServedOK` says of each phase what a
request has got so far.

**`ScriptRequests_proofs`**, from `RequestsAssumption` and `InputAssumption` (what
the parts of a request are, and that it has headers):

| Theorem | States |
|---|---|
| `TypeCorrect` | `Spec => []TypeOK` |
| `ErrorsAreOwn` | the errors a function reads are its own request's failed checks, though all requests share one object |
| `ListsKept` | a list of errors a script has kept changes only while its own request is served |
| `CallsDirect` | a library that is called by its global gets its arguments as written but for the first use |
| `BindingKept` | a script's own value of a library's global is replaced only by the first use of a stored proxy |
| `ChecksTakeValues` | `ValueIsAtPath`: a check looks at what is at its path in the part of the request it names, however long the path is |

`CurrentInv` says that the list the request object carries is the one with this
request's failed checks, or there is none; `ResolvedInv` that a library that was
loaded is no longer bound to its proxy. The values that a walk along a path
passes are a `Way`: one exists (`WayExists`), only one (`WayOnce`), and the walks
of the two versions are compared along it, name by name, with the plain one.

Only model-checked is liveness (`AnsweredUnlessNullOnEngine`, `EveryRequestEnds`,
`EventuallySaved`, and the liveness of `ImplementsService`): it depends on fairness and
`ENABLED`, which the prover does not have. The library's induction theorems are out of the
prover's reach, too; where a fold or a recursive function is over numbers or along a
sequence, the proofs do the induction by the least number for which the claim fails
(`LeastNumber`).

## What is not modelled

Content: HTTP headers and bodies, cookies, CORS, XML and form parsing, Liquid
templates, the text of activity messages, console output. Configuration: read
once. `RestrictedFileSystem` and `LocalFileRepositoryService`: checks without
state. The bundled JavaScript libraries (lodash, validator, ajv, amanda, moment, faker): releases of
other projects, copied unchanged. The two readable lodash files, by far the
largest JavaScript files of the repository, are never loaded at all: the worker
reads the minified ones. What the runtime itself does with
them is in `ScriptLibraries`. Of the project's own JavaScript: `soap` and `render`,
which pass their arguments on by their number, the sanitizers, which
are never reached, the polyfills, and the text of two JSON schemas.
Connections: requests are independent of each other in `RequestPipeline`, so
that pipelined requests may be answered in any order, as they may in the code.
`--state` together with the watcher: `DefinitionReload` has the in-memory
service, `StatePersistence` the file, and no module has both.

## Plan

Done: the pipeline and its abstraction, first because every other part serves
it; the two state models; the activity store; contexts and reload; routing; the
project's own JavaScript; proofs of all of these. Next, in this order:

1. The composition of the state file with the watcher's `flush(sandboxId)`, against
   `StateStore`.
2. Connections: requests pipelined on one connection, as an extension of
   `RequestService`; the activity API's order relative to responses.
3. `sanitiseRoutePath` and the extraction of parameters, checked against a
   reference definition over bounded paths; the repository's path checks.
4. The response a function builds (`WorkerHttpResponse`, with the order of its
   calls), the classification of errors (`ErrorUtils`, on which `Fragile`
   rests) and the delay of a response (`calculateResponseDelay`).
