---------------------------- MODULE StateBuffer -----------------------------
(***************************************************************************)
(* The buffering state service (AbstractBufferingStateService over         *)
(* LocalFileStateService) of the CLI's one sandbox.  A possible change of  *)
(* a script context's state object is buffered as an item that can         *)
(* serialise the object later; any thread may flush the buffer to the      *)
(* file, write by write and without a lock, or load the state from it.     *)
(*                                                                         *)
(* An item is abstracted to the context whose state object its supplier    *)
(* serialises, and a state object to its version, the number of changes    *)
(* made to it; version 0 is "{}".  What the supplier returns when it is    *)
(* called, or that it throws, is the caller's choice: the systems built    *)
(* from this component say which.  The delay start() is given never        *)
(* applies, because its parameter hides the field that flush() tests.      *)
(***************************************************************************)
EXTENDS Naturals

CONSTANTS
    Thread,    \* the threads that call the service
    NoItem,    \* nothing is buffered
    Empty,     \* the content of a truncated file, or of one not there yet
    Garbled    \* part of a text, or two texts written over each other

ASSUME ContentAssumption ==
    {Empty, Garbled, NoItem} \cap Nat = {} /\ Empty # Garbled

VARIABLES
    buffered,  \* bufferedValues.get(sandboxId)
    file,      \* what statePath holds
    call       \* the call each thread is making, and how far it is

bufferVars == <<buffered, file, call>>

Contents == Nat \cup {Empty, Garbled}

Jobs == {"none", "flushAll", "flushOne", "load"}

Phases == {"idle", "supplying", "opening", "writing", "removing", "reading",
           "loaded", "threw"}

(* item: what a flush writes; text: the version it serialised or read *)
NoCall == [job |-> "none", phase |-> "idle", item |-> NoItem, text |-> 0]

BufferInit ==
    /\ buffered = NoItem
    /\ file = Empty
    /\ call = [t \in Thread |-> NoCall]

Busy(t) == call[t] # NoCall
In(t, phase) == call[t].phase = phase

Begin(t, job, phase) ==
    /\ ~Busy(t)
    /\ call' = [call EXCEPT ![t] = [NoCall EXCEPT !.job = job, !.phase = phase]]

BeginFlush(t, job) ==
    /\ ~Busy(t)
    /\ buffered # NoItem
    /\ call' = [call EXCEPT ![t] = [NoCall EXCEPT !.job = job, !.item = buffered,
                                                  !.phase = "supplying"]]

Step(t, phase) == call' = [call EXCEPT ![t].phase = phase]
Have(t, text, phase) == call' = [call EXCEPT ![t].text = text, ![t].phase = phase]
Finish(t) == call' = [call EXCEPT ![t] = NoCall]

(* setSandboxState has returned. *)
Written(t) == CASE call[t].job = "flushAll" -> Step(t, "removing")
                [] call[t].job = "flushOne" -> Finish(t)
                [] OTHER -> Step(t, "loaded")
-----------------------------------------------------------------------------
(* notifyPossibleChange: the new item replaces the buffered one. *)
Notify(new) ==
    /\ buffered' = new
    /\ UNCHANGED <<file, call>>

(* flush(): the iterator finds an entry and reads its value. *)
FlushAll(t) ==
    /\ BeginFlush(t, "flushAll")
    /\ UNCHANGED <<buffered, file>>

(* flush(sandboxId): the entry is taken out before it is written. *)
FlushOne(t) ==
    /\ BeginFlush(t, "flushOne")
    /\ buffered' = NoItem
    /\ UNCHANGED file

(* Mutant: the file is truncated before the supplier is asked. *)
MutantSupply(t, version) ==
    /\ In(t, "supplying")
    /\ Have(t, version, "opening")
    /\ file' = Empty
    /\ UNCHANGED buffered

(* The supplier serialised the state object as it is now, not as it was    *)
(* when the item was buffered.                                             *)
Supply(t, version) ==
    /\ In(t, "supplying")
    /\ Have(t, version, "opening")
    /\ UNCHANGED <<buffered, file>>

(* The supplier threw an IllegalStateException (its context is closed):    *)
(* flush() goes on and keeps the entry, flush(sandboxId) lets it out.      *)
SupplyIllegal(t) ==
    /\ In(t, "supplying")
    /\ IF call[t].job = "flushAll" THEN Finish(t) ELSE Step(t, "threw")
    /\ UNCHANGED <<buffered, file>>

(* The supplier threw anything else: both flushes let it out. *)
SupplyThrows(t) ==
    /\ In(t, "supplying")
    /\ Step(t, "threw")
    /\ UNCHANGED <<buffered, file>>

(* setSandboxState opens the file, which truncates it ... *)
OpenFile(t) ==
    /\ In(t, "opening")
    /\ file' = Empty
    /\ Step(t, "writing")
    /\ UNCHANGED buffered

(* ... and writes the text from its start, over what another thread may    *)
(* have written since: a longer text keeps its tail.                       *)
WriteFile(t) ==
    /\ In(t, "writing")
    /\ file' \in {call[t].text} \cup (IF file = Empty THEN {} ELSE {Garbled})
    /\ Written(t)
    /\ UNCHANGED buffered

(* An IOException is logged, and the text taken for written. *)
WriteFails(t) ==
    /\ In(t, "opening") \/ In(t, "writing")
    /\ Written(t)
    /\ UNCHANGED <<buffered, file>>

(* Mutant: removing while iterating throws, as a HashMap's keySet may. *)
MutantRemoveItem(t) ==
    /\ In(t, "removing")
    /\ buffered' = NoItem
    /\ Step(t, "threw")
    /\ UNCHANGED file

(* flush(): it.remove() removes the key, whatever item is under it now. *)
RemoveItem(t) ==
    /\ In(t, "removing")
    /\ buffered' = NoItem
    /\ Finish(t)
    /\ UNCHANGED file

(* getSandboxState: a file that is missing or empty is created as "{}",    *)
(* which is then the state, ...                                            *)
LoadCreates(t) ==
    /\ file = Empty
    /\ Begin(t, "load", "opening")
    /\ UNCHANGED <<buffered, file>>

(* ... any other is read, ... *)
LoadReads(t) ==
    /\ file # Empty
    /\ Begin(t, "load", "reading")
    /\ UNCHANGED <<buffered, file>>

(* Mutant: a text that does not parse is taken as it is. *)
MutantReadFile(t) ==
    /\ In(t, "reading")
    /\ Have(t, file, "loaded")
    /\ UNCHANGED <<buffered, file>>

(* ... by then perhaps truncated again, and parsed by the new context. *)
ReadFile(t) ==
    /\ In(t, "reading")
    /\ Have(t, file, IF file \in {Empty, Garbled} THEN "threw" ELSE "loaded")
    /\ UNCHANGED <<buffered, file>>

(* An IOException while reading is logged, and the state taken for "{}". *)
ReadFails(t) ==
    /\ In(t, "reading")
    /\ Have(t, 0, "loaded")
    /\ UNCHANGED <<buffered, file>>

(* The caller has the loaded state, or has seen the exception. *)
Return(t) ==
    /\ In(t, "loaded") \/ In(t, "threw")
    /\ Finish(t)
    /\ UNCHANGED <<buffered, file>>
-----------------------------------------------------------------------------
BufferTypeOK ==
    /\ buffered \in Nat \cup {NoItem}
    /\ file \in Contents
    /\ call \in [Thread -> [job : Jobs, phase : Phases,
                            item : Nat \cup {NoItem}, text : Contents]]
=============================================================================
