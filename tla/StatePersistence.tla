-------------------------- MODULE StatePersistence --------------------------
(***************************************************************************)
(* The CLI with --state and without --watch: script contexts, one at a     *)
(* time, whose state object main.js changes when it is evaluated and the   *)
(* functions it has defined change and notify; the "stateBuffer" thread    *)
(* that flushes every 15 seconds; the shutdown hook that flushes once more *)
(* while the other threads still run; and kills and restarts of the        *)
(* process, which only the file survives.                                  *)
(*                                                                         *)
(* owed, due, saved, fault and mishap are history variables: they follow   *)
(* what happens and no action depends on them.                             *)
(***************************************************************************)
EXTENDS StateBuffer

CONSTANTS
    Periodic, Hook, Loader,   \* the threads: the flusher, the shutdown hook,
                              \* and whichever creates a context
    NoContext,                \* no script context is registered
    MaxVersion,               \* bound on the changes of a state object
    MaxContexts,              \* bound on the contexts created
    MaxLate                   \* bound on late evaluations of main.js

ASSUME ThreadAssumption ==
    /\ Thread = {Periodic, Hook, Loader}
    /\ Periodic # Hook /\ Periodic # Loader /\ Hook # Loader
ASSUME ContextAssumption == NoContext \notin Nat
ASSUME BoundAssumption == MaxVersion \in Nat /\ MaxContexts \in Nat /\ MaxLate \in Nat

VARIABLES
    live,      \* the version of the registered context's state object
    contexts,  \* how many contexts were created; the last is the registered
    booted,    \* not needsBootstrap of the registered context
    late,      \* threads that found needsBootstrap before, and have yet to
               \* evaluate main.js
    engine,    \* the context that a function has run in and whose change is
               \* not notified yet, 0 when none
    process,   \* "up", "stopping" (the hook may flush), "flushing", "down"
    owed,      \* what the last function to return has left, or was loaded
    due,       \* the version the hook was started to persist
    saved,     \* the version last written completely
    fault,     \* whether a function or the disk has failed
    mishap     \* the first thing that went wrong between the threads

contextVars == <<live, contexts, booted, late, engine, owed>>
systemVars == <<contextVars, process, due, saved, fault, mishap>>
vars == <<bufferVars, systemVars>>

Mishaps == {"none", "swallowed", "stale", "garbled", "torn"}

Init ==
    /\ BufferInit
    /\ live = NoContext
    /\ contexts = 0
    /\ booted = FALSE
    /\ late = 0
    /\ engine = 0
    /\ process = "up"
    /\ owed = 0
    /\ due = 0
    /\ saved = 0
    /\ fault = FALSE
    /\ mishap = "none"

Up == process # "down"
Note(what, happened) ==
    mishap' = IF happened /\ mishap = "none" THEN what ELSE mishap

(* The item's supplier serialises the registered context's state object. *)
Alive(an_item) == live # NoContext /\ an_item = contexts
-----------------------------------------------------------------------------
(* The first request creates the context, which loads the state. *)
StartLoad ==
    /\ Up
    /\ live = NoContext
    /\ contexts < MaxContexts
    /\ LoadCreates(Loader) \/ LoadReads(Loader)
    /\ UNCHANGED systemVars

(* Mutant: the context begins with an empty state object. *)
MutantContextCreated ==
    /\ In(Loader, "loaded")
    /\ live' = 0 /\ owed' = 0
    /\ contexts' = contexts + 1
    /\ Return(Loader)
    /\ UNCHANGED <<booted, late, engine, process, due, saved, fault, mishap>>

ContextCreated ==
    /\ In(Loader, "loaded")
    /\ live' = call[Loader].text /\ owed' = call[Loader].text
    /\ contexts' = contexts + 1
    /\ Return(Loader)
    /\ UNCHANGED <<booted, late, engine, process, due, saved, fault, mishap>>

(* createContext fails; the next request tries again. *)
ContextFails ==
    /\ In(Loader, "threw")
    /\ Return(Loader)
    /\ UNCHANGED systemVars

(* A script had the context to itself, and may have changed the state. *)
MayChange == live' \in live .. live + 1 /\ live' <= MaxVersion

(* bootstrap evaluates main.js, whose top level may change the state       *)
(* object, which nobody is notified of.  When it throws it is evaluated    *)
(* again for the next request; once it has not, it is still evaluated by   *)
(* whoever found needsBootstrap before that.                               *)
Bootstrap ==
    /\ Up
    /\ live # NoContext
    /\ MayChange
    /\ \/ ~booted /\ UNCHANGED <<booted, late>>
       \/ ~booted /\ booted' = TRUE /\ late' \in 0 .. MaxLate
       \/ late > 0 /\ late' = late - 1 /\ UNCHANGED booted
    /\ UNCHANGED <<bufferVars, contexts, engine, owed, process, due, saved,
                   fault, mishap>>

(* A function of the definition may change the state object too, ... *)
Change ==
    /\ Up
    /\ live # NoContext
    /\ booted
    /\ engine = 0
    /\ MayChange
    /\ engine' = contexts
    /\ UNCHANGED <<bufferVars, contexts, booted, late, owed, process, due, saved,
                   fault, mishap>>

(* What the function's context holds when it has returned is to persist. *)
Owe == owed' = IF Alive(engine) THEN live ELSE owed

(* Mutant: the change is not notified. *)
MutantNotifyChange ==
    /\ engine # 0
    /\ Owe
    /\ engine' = 0
    /\ UNCHANGED <<bufferVars, live, contexts, booted, late, process, due, saved,
                   fault, mishap>>

(* ... and when it has returned the engine notifies the change, if any ... *)
NotifyChange ==
    /\ engine # 0
    /\ Notify(engine)
    /\ Owe
    /\ engine' = 0
    /\ UNCHANGED <<live, contexts, booted, late, process, due, saved, fault, mishap>>

(* ... but not when it has thrown.                                         *)
FunctionThrows ==
    /\ engine # 0
    /\ engine' = 0
    /\ UNCHANGED <<bufferVars, live, contexts, booted, late, owed, process, due,
                   saved, fault, mishap>>

(* main.js or a function that exceeds the statement limit has its context  *)
(* cancelled and removed, with whatever was not persisted.                 *)
Cancel ==
    /\ Up
    /\ live # NoContext
    /\ engine = 0 \/ ~booted \/ late > 0
    /\ live' = NoContext /\ owed' = 0
    /\ booted' = FALSE /\ late' = 0
    /\ fault' = TRUE
    /\ UNCHANGED <<bufferVars, contexts, engine, process, due, saved, mishap>>

(* The periodic task; once it has thrown it is never run again. *)
PeriodicFlush ==
    /\ Up
    /\ FlushAll(Periodic)
    /\ UNCHANGED systemVars

(* The process is asked to stop, which starts the hook. *)
Shutdown ==
    /\ process = "up"
    /\ process' = "stopping"
    /\ due' = owed
    /\ UNCHANGED <<bufferVars, contextVars, saved, fault, mishap>>

(* Mutant: another thread flushes while the worker runs. *)
MutantHookFlush ==
    /\ process = "up"
    /\ FlushAll(Hook)
    /\ UNCHANGED systemVars

HookFlush ==
    /\ process = "stopping"
    /\ process' = "flushing"
    /\ FlushAll(Hook)
    /\ UNCHANGED <<contextVars, due, saved, fault, mishap>>

Serialise(t) ==
    /\ Alive(call[t].item)
    /\ Supply(t, live)
    /\ UNCHANGED systemVars

(* JSON.stringify throws, on a cyclic state object say, or the engine says *)
(* that the context was cancelled: no IllegalStateException.               *)
CannotSerialise(t) ==
    /\ SupplyThrows(t)
    /\ fault' = TRUE
    /\ UNCHANGED <<contextVars, process, due, saved, mishap>>

(* The context was cancelled, which is an IllegalStateException. *)
ContextClosed(t) ==
    /\ ~Alive(call[t].item)
    /\ SupplyIllegal(t)
    /\ UNCHANGED systemVars

Open(t) ==
    /\ OpenFile(t)
    /\ UNCHANGED systemVars

Write(t) ==
    /\ WriteFile(t)
    /\ saved' = call[t].text
    /\ Note(IF file' = Garbled THEN "garbled" ELSE "stale",
            file' = Garbled \/ call[t].text < saved)
    /\ UNCHANGED <<contextVars, process, due, fault>>

Remove(t) ==
    /\ RemoveItem(t)
    /\ Note("swallowed", buffered # NoItem /\ owed > call[t].text)
    /\ UNCHANGED <<contextVars, process, due, saved, fault>>

Read(t) ==
    /\ ReadFile(t)
    /\ UNCHANGED systemVars

FileError(t) ==
    /\ WriteFails(t) \/ ReadFails(t)
    /\ fault' = TRUE
    /\ UNCHANGED <<contextVars, process, due, saved, mishap>>

(* The process is gone, in the middle of whatever its threads were doing:  *)
(* of a text that was being written the file may hold a part.              *)
Halt ==
    LET torn == \E t \in Thread : In(t, "writing")
    IN  /\ process' = "down"
        /\ live' = NoContext /\ owed' = 0
        /\ booted' = FALSE /\ late' = 0
        /\ engine' = 0
        /\ buffered' = NoItem
        /\ call' = [t \in Thread |-> NoCall]
        /\ file' \in {file} \cup (IF torn THEN {Garbled} ELSE {})
        /\ Note("torn", torn)
        /\ UNCHANGED <<contexts, saved, fault>>

(* Mutant: the hook leaves the flush to another thread and returns. *)
MutantExit ==
    /\ process \in {"stopping", "flushing"}
    /\ Halt
    /\ UNCHANGED due

(* The hook has returned, or found nothing to flush. *)
Exit ==
    /\ \/ process = "stopping" /\ buffered = NoItem
       \/ process = "flushing" /\ (~Busy(Hook) \/ In(Hook, "threw"))
    /\ Halt
    /\ UNCHANGED due

Crash ==
    /\ Up
    /\ Halt
    /\ due' = 0

Restart ==
    /\ process = "down"
    /\ process' = "up"
    /\ due' = 0
    /\ UNCHANGED <<bufferVars, contextVars, saved, fault, mishap>>

Work(t) == \/ Serialise(t) \/ CannotSerialise(t) \/ ContextClosed(t)
           \/ Open(t) \/ Write(t) \/ Remove(t) \/ Read(t) \/ FileError(t)

Next ==
    \/ StartLoad \/ ContextCreated \/ ContextFails
    \/ Bootstrap \/ Change \/ NotifyChange \/ FunctionThrows \/ Cancel
    \/ PeriodicFlush \/ Shutdown \/ HookFlush
    \/ \E t \in Thread : Work(t)
    \/ Exit \/ Crash \/ Restart

Spec == Init /\ [][Next]_vars

(* The scheduler runs the periodic task, which ends what it began;         *)
(* requests, shutdowns and kills need not come.                            *)
Fairness ==
    /\ WF_vars(PeriodicFlush)
    /\ WF_vars(Work(Periodic))

FairSpec == Spec /\ Fairness
-----------------------------------------------------------------------------
TypeOK ==
    /\ BufferTypeOK
    /\ live \in 0 .. MaxVersion \cup {NoContext}
    /\ contexts \in 0 .. MaxContexts
    /\ booted \in BOOLEAN
    /\ late \in 0 .. MaxLate
    /\ engine \in 0 .. MaxContexts
    /\ process \in {"up", "stopping", "flushing", "down"}
    /\ owed \in 0 .. MaxVersion
    /\ due \in 0 .. MaxVersion
    /\ saved \in 0 .. MaxVersion
    /\ fault \in BOOLEAN
    /\ mishap \in Mishaps

AllWell == ~fault /\ mishap = "none"

(* Nothing is under way: whatever will be persisted has been. *)
Quiet ==
    /\ live # NoContext
    /\ buffered = NoItem
    /\ \A t \in Thread : ~Busy(t)

(* The mishaps are the only ways to lose a change that a function has made *)
(* and returned from: without one, when nothing is buffered and nobody is  *)
(* writing, the file holds the state that the last such function has left, *)
(* or a later one, across any number of kills and restarts.  What the file *)
(* may lack is what main.js's top level, or a function that threw, has     *)
(* changed since, for nobody is notified of that.                          *)
NothingLostSilently == Quiet /\ AllWell => file \in owed .. live

(* Only a writer between its truncation and its write leaves the file      *)
(* without a state, which a restart would take for "{}"; a kill elsewhere  *)
(* leaves the version last written.                                        *)
FileHoldsSaved ==
    AllWell => \/ file = saved
               \/ file = Empty /\ (saved = 0 \/ \E t \in Thread : In(t, "writing"))

(* What the shutdown hook is for: a stopped worker has persisted every     *)
(* change notified before it was stopped, unless a mishap happened.        *)
ShutdownPersistsBarringMishap ==
    process = "down" /\ AllWell /\ due # 0 => file \in Nat /\ file >= due

(* Two threads write the file only while the process is being shut down:   *)
(* before that, no first mishap is a write that puts an older state over a *)
(* newer one, or two states over each other.                               *)
NoRaceBeforeShutdown ==
    [][AllWell /\ mishap' \in {"stale", "garbled"} => process = "flushing"]_vars

(* The state that a function has left when it returned reaches the file    *)
(* without waiting for the process to stop, as long as nothing goes wrong. *)
EventuallySaved ==
    \A v \in 1 .. MaxVersion :
        (process = "up" /\ owed = v) ~> (saved >= v \/ ~AllWell \/ process # "up")
-----------------------------------------------------------------------------
Store == INSTANCE StateStore
    WITH None <- NoContext, current <- live, noted <- owed, kept <- saved,
         promised <- due, broken <- ~AllWell

(* Barring mishaps the buffer, the file and the threads are a store: every *)
(* context begins with the version last saved, before or after a restart   *)
(* or a kill, a version is never saved over a newer one, and a process     *)
(* that was asked to stop ends when what was notified is saved.            *)
ImplementsStore == Store!Spec
=============================================================================
