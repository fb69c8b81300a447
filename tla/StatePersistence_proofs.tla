----------------------- MODULE StatePersistence_proofs -----------------------
(***************************************************************************)
(* Theorems about StatePersistence, for any number of changes, contexts,   *)
(* kills and restarts.  Until something goes wrong the state is loaded and *)
(* flushed by turns, and what was notified is buffered, or serialised by a *)
(* thread that will write it, or in the file.                              *)
(***************************************************************************)
EXTENDS StatePersistence, TLAPS

Call == [job : Jobs, phase : Phases, item : Nat \cup {NoItem}, text : Contents]

Flusher == {Periodic, Hook}
Serialised(t) == In(t, "opening") \/ In(t, "writing")

Typed ==
    /\ buffered \in Nat \cup {NoItem}
    /\ file \in Contents
    /\ call \in [Thread -> Call]
    /\ live \in 0 .. MaxVersion \cup {NoContext}
    /\ contexts \in 0 .. MaxContexts
    /\ booted \in BOOLEAN
    /\ late \in 0 .. MaxLate
    /\ engine \in 0 .. MaxContexts
    /\ process \in {"up", "stopping", "flushing", "down"}
    /\ owed \in 0 .. MaxVersion
    /\ due \in 0 .. MaxVersion
    /\ saved \in 0 .. MaxVersion
    /\ fault \in BOOLEAN
    /\ mishap \in Mishaps

(* What each thread calls, and how far it may be.                          *)
CallInv ==
    /\ call[Loader].job \in {"none", "load"}
    /\ \A t \in Flusher : call[t].job \in {"none", "flushAll"}
    /\ \A t \in Thread :
          /\ call[t].job = "none" <=> call[t] = NoCall
          /\ call[t].job = "load" => call[t].phase \in
                 {"opening", "writing", "reading", "loaded", "threw"}
          /\ call[t].job = "flushAll" => call[t].phase \in
                 {"supplying", "opening", "writing", "removing", "threw"}
          /\ Serialised(t) \/ In(t, "removing") \/ In(t, "loaded")
                 => call[t].text \in 0 .. MaxVersion

(* What is owed is a state that the registered context had, and contexts   *)
(* are loaded while there is none.                                         *)
EngineInv ==
    /\ IF live = NoContext THEN owed = 0 ELSE owed <= live
    /\ call[Loader].job = "load" => live = NoContext /\ contexts < MaxContexts

(* The hook flushes only after the process was asked to stop, and nothing  *)
(* runs when it is down.                                                   *)
ProcessInv ==
    /\ process # "flushing" => call[Hook].job = "none"
    /\ process = "down" => /\ live = NoContext /\ buffered = NoItem /\ engine = 0
                           /\ \A t \in Thread : call[t].job = "none"

(* The state is loaded while there is no context to serialise: the loader  *)
(* finds the version that was written last, or none.                       *)
LoadInv ==
    /\ live = NoContext => buffered = NoItem /\ \A t \in Flusher : call[t].job = "none"
    /\ call[Loader].job = "load" =>
          /\ Serialised(Loader) => file = Empty /\ saved = 0 /\ call[Loader].text = 0
          /\ In(Loader, "reading") => file = saved
          /\ In(Loader, "loaded") => file = saved /\ call[Loader].text = saved

(* What is buffered and flushed is the registered context's state, which   *)
(* was serialised no earlier than what was written, but for the hook.      *)
FlushInv ==
    /\ buffered \in {NoItem, contexts}
    /\ engine \in {0, contexts}
    /\ engine # 0 => live # NoContext
    /\ live # NoContext => saved <= live
    /\ \A t \in Flusher : call[t].job = "flushAll" =>
          /\ call[t].item = contexts
          /\ ~In(t, "threw")
          /\ Serialised(t) => call[t].text <= live
          /\ In(t, "removing") => call[t].text <= saved
    /\ process # "flushing" /\ call[Periodic].job = "flushAll" =>
          /\ buffered # NoItem
          /\ Serialised(Periodic) => saved <= call[Periodic].text
          /\ In(Periodic, "writing") => file = Empty

(* The file holds what was saved unless it is being written.               *)
FileInv ==
    /\ file = saved \/ file = Empty
    /\ file # saved => \/ saved = 0 /\ live = NoContext
                       \/ \E t \in Thread : In(t, "writing")

(* What was notified is buffered, or will be written, or is saved.         *)
NotifiedInv ==
    live # NoContext =>
        \/ buffered # NoItem
        \/ \E t \in Flusher : \/ In(t, "supplying")
                              \/ Serialised(t) /\ call[t].text >= owed
        \/ saved >= owed

(* What the hook was started to persist it has, or will write.             *)
DueInv ==
    /\ process = "up" => due = 0
    /\ process \in {"stopping", "flushing"} /\ due # 0 =>
           live # NoContext /\ due <= owed
    /\ process = "flushing" /\ due # 0 =>
          /\ call[Hook].job = "none" => saved >= due
          /\ Serialised(Hook) \/ In(Hook, "removing") => call[Hook].text >= due
    /\ process = "down" /\ due # 0 => file = saved /\ saved >= due

WellInv == LoadInv /\ FlushInv /\ FileInv /\ NotifiedInv /\ DueInv

IInv == Typed /\ CallInv /\ EngineInv /\ ProcessInv /\ (AllWell => WellInv)
-----------------------------------------------------------------------------
LEMMA InitIInv == Init => IInv
<1> SUFFICES ASSUME Init PROVE IInv
  OBVIOUS
<1> USE ThreadAssumption, ContextAssumption, ContentAssumption, BoundAssumption
     DEF Init, BufferInit, In, Serialised, Flusher
<1>1. NoCall \in Call BY DEF NoCall, Call, Jobs, Phases, Contents
<1>2. call \in [Thread -> Call] BY <1>1
<1>3. Typed
  <2>1. buffered \in Nat \cup {NoItem} /\ file \in Contents /\ live \in 0 .. MaxVersion \cup {NoContext}
    BY DEF Contents
  <2>2. /\ contexts \in 0 .. MaxContexts /\ late \in 0 .. MaxLate
        /\ engine \in 0 .. MaxContexts /\ owed \in 0 .. MaxVersion
        /\ due \in 0 .. MaxVersion /\ saved \in 0 .. MaxVersion
    BY BoundAssumption
  <2>3. /\ booted \in BOOLEAN /\ fault \in BOOLEAN /\ mishap \in Mishaps
        /\ process \in {"up", "stopping", "flushing", "down"}
    BY DEF Mishaps
  <2> QED BY <1>2, <2>1, <2>2, <2>3 DEF Typed
<1>4. CallInv BY DEF CallInv, NoCall
<1>5. EngineInv /\ ProcessInv BY DEF EngineInv, ProcessInv, NoCall
<1>6. LoadInv /\ FlushInv BY DEF LoadInv, FlushInv, NoCall
<1>7. FileInv /\ NotifiedInv /\ DueInv BY DEF FileInv, NotifiedInv, DueInv
<1> QED BY <1>3, <1>4, <1>5, <1>6, <1>7 DEF IInv, WellInv

(* A load finds no state: none was saved. *)
LEMMA LoadCreatesKeeps ==
  ASSUME IInv, Up, live = NoContext, contexts < MaxContexts,
      LoadCreates(Loader), UNCHANGED systemVars
  PROVE  IInv'
<1> DEFINE new == [NoCall EXCEPT !.job = "load", !.phase = "opening"]
<1>a. /\ call' = [call EXCEPT ![Loader] = new] /\ call[Loader] = NoCall
      /\ file = Empty /\ live = NoContext /\ UNCHANGED <<buffered, file, systemVars>>
  BY DEF LoadCreates, Begin, Busy
<1>b. /\ new.job = "load" /\ new.phase = "opening" /\ new.text = 0
      /\ NoCall.job = "none" /\ NoCall.phase = "idle"
  BY DEF NoCall
<1> HIDE DEF new, NoCall
<1>c. /\ call'[Loader].job = "load" /\ call'[Loader].phase = "opening"
      /\ call'[Loader].text = 0
      /\ \A t \in Thread : t # Loader => call'[t] = call[t]
  BY <1>a, <1>b, ThreadAssumption DEF IInv, Typed
<1>1. CallInv'
  <2>1. /\ call'[Loader].job = "load" /\ call'[Loader] # NoCall
        /\ Serialised(Loader)' => call'[Loader].text \in 0 .. MaxVersion
        /\ ~In(Loader, "loaded")'
    BY <1>b, <1>c, BoundAssumption DEF In, Serialised
  <2>2. \A t \in Thread \ {Loader} : call'[t] = call[t]
    BY <1>c
  <2> QED BY <1>c, <2>1, <2>2, ThreadAssumption
          DEF IInv, CallInv, Flusher, In, Serialised
<1>2. AllWell' => LoadInv'
  <2> SUFFICES ASSUME AllWell PROVE LoadInv'
    BY <1>a DEF AllWell, systemVars
  <2>1. /\ buffered = NoItem /\ \A t \in Flusher : call[t].job = "none"
        /\ file = saved \/ file = Empty
        /\ file # saved => saved = 0 \/ \E t \in Thread : In(t, "writing")
    BY DEF IInv, WellInv, LoadInv, FileInv
  <2>2. \A t \in Thread : call[t] = NoCall
    BY <2>1, <1>a, <1>b, ThreadAssumption DEF IInv, CallInv, Flusher
  <2>3. \A t \in Thread : ~In(t, "writing")
    BY <2>2, <1>b DEF In
  <2>4. saved \in Nat /\ Empty \notin Nat
    BY ContentAssumption, BoundAssumption DEF IInv, Typed
  <2>5. \A t \in Flusher : call'[t].job = "none"
    BY <2>1, <1>c, ThreadAssumption DEF Flusher
  <2> QED BY <1>a, <1>c, <2>1, <2>3, <2>4, <2>5
          DEF LoadInv, In, Serialised, systemVars
<1> USE ThreadAssumption, ContextAssumption, ContentAssumption,
    BoundAssumption DEF IInv, Typed, Call, CallInv, EngineInv, ProcessInv,
    AllWell, Flusher, Serialised, In, Busy, NoCall, Up, Note,
    bufferVars, contextVars, systemVars, Contents, LoadCreates, Begin
<1>3. Typed' BY DEF Jobs, Phases, Mishaps
<1>4. EngineInv' OBVIOUS
<1>5. ProcessInv' OBVIOUS
<1>6. AllWell' => FlushInv' BY DEF WellInv, LoadInv, FlushInv
<1>7. AllWell' => FileInv' BY DEF WellInv, LoadInv, FileInv
<1>8. AllWell' => NotifiedInv' BY DEF WellInv, LoadInv, NotifiedInv, FlushInv
<1>9. AllWell' => DueInv' BY DEF WellInv, LoadInv, DueInv, FlushInv,
    NotifiedInv, FileInv
<1> QED BY <1>1, <1>2, <1>3, <1>4, <1>5, <1>6, <1>7, <1>8, <1>9 DEF WellInv

(* A load finds the version last saved. *)
LEMMA LoadReadsKeeps ==
  ASSUME IInv, Up, live = NoContext, contexts < MaxContexts,
      LoadReads(Loader), UNCHANGED systemVars
  PROVE  IInv'
<1> DEFINE new == [NoCall EXCEPT !.job = "load", !.phase = "reading"]
<1>a. /\ call' = [call EXCEPT ![Loader] = new] /\ call[Loader] = NoCall
      /\ file # Empty /\ live = NoContext /\ UNCHANGED <<buffered, file, systemVars>>
  BY DEF LoadReads, Begin, Busy
<1>b. /\ new.job = "load" /\ new.phase = "reading" /\ new.text = 0
      /\ NoCall.job = "none" /\ NoCall.phase = "idle"
  BY DEF NoCall
<1> HIDE DEF new, NoCall
<1>c. /\ call'[Loader].job = "load" /\ call'[Loader].phase = "reading"
      /\ call'[Loader].text = 0
      /\ \A t \in Thread : t # Loader => call'[t] = call[t]
  BY <1>a, <1>b, ThreadAssumption DEF IInv, Typed
<1>1. CallInv'
  <2>1. /\ call'[Loader].job = "load" /\ call'[Loader] # NoCall
        /\ Serialised(Loader)' => call'[Loader].text \in 0 .. MaxVersion
        /\ ~In(Loader, "loaded")'
    BY <1>b, <1>c, BoundAssumption DEF In, Serialised
  <2>2. \A t \in Thread \ {Loader} : call'[t] = call[t]
    BY <1>c
  <2> QED BY <1>c, <2>1, <2>2, ThreadAssumption
          DEF IInv, CallInv, Flusher, In, Serialised
<1>2. AllWell' => LoadInv'
  <2> SUFFICES ASSUME AllWell PROVE LoadInv'
    BY <1>a DEF AllWell, systemVars
  <2>1. /\ buffered = NoItem /\ \A t \in Flusher : call[t].job = "none"
        /\ file = saved \/ file = Empty
        /\ file # saved => saved = 0 \/ \E t \in Thread : In(t, "writing")
    BY DEF IInv, WellInv, LoadInv, FileInv
  <2>2. \A t \in Thread : call[t] = NoCall
    BY <2>1, <1>a, <1>b, ThreadAssumption DEF IInv, CallInv, Flusher
  <2>3. \A t \in Thread : ~In(t, "writing")
    BY <2>2, <1>b DEF In
  <2>4. saved \in Nat /\ Empty \notin Nat
    BY ContentAssumption, BoundAssumption DEF IInv, Typed
  <2>5. \A t \in Flusher : call'[t].job = "none"
    BY <2>1, <1>c, ThreadAssumption DEF Flusher
  <2> QED BY <1>a, <1>c, <2>1, <2>3, <2>4, <2>5
          DEF LoadInv, In, Serialised, systemVars
<1> USE ThreadAssumption, ContextAssumption, ContentAssumption,
    BoundAssumption DEF IInv, Typed, Call, CallInv, EngineInv, ProcessInv,
    AllWell, Flusher, Serialised, In, Busy, NoCall, Up, Note,
    bufferVars, contextVars, systemVars, Contents, LoadReads, Begin
<1>3. Typed' BY DEF Jobs, Phases, Mishaps
<1>4. EngineInv' OBVIOUS
<1>5. ProcessInv' OBVIOUS
<1>6. AllWell' => FlushInv' BY DEF WellInv, LoadInv, FlushInv
<1>7. AllWell' => FileInv' BY DEF WellInv, LoadInv, FileInv
<1>8. AllWell' => NotifiedInv' BY DEF WellInv, LoadInv, NotifiedInv, FlushInv
<1>9. AllWell' => DueInv' BY DEF WellInv, LoadInv, DueInv, FlushInv,
    NotifiedInv, FileInv
<1> QED BY <1>1, <1>2, <1>3, <1>4, <1>5, <1>6, <1>7, <1>8, <1>9 DEF WellInv

(* The new context's state is the version last saved. *)
LEMMA ContextCreatedKeeps ==
  ASSUME IInv, ContextCreated
  PROVE  IInv'
<1> USE ThreadAssumption, ContextAssumption, ContentAssumption,
    BoundAssumption DEF IInv, Typed, Call, CallInv, EngineInv, ProcessInv,
    AllWell, Flusher, Serialised, In, Busy, NoCall, Up, Note,
    bufferVars, contextVars, systemVars, Contents, ContextCreated, Return, Finish
<1>1. Typed' BY DEF Jobs, Phases, Mishaps
<1>2. CallInv' OBVIOUS
<1>3. EngineInv' OBVIOUS
<1>4. ProcessInv' OBVIOUS
<1>5. AllWell' => LoadInv' BY DEF WellInv, LoadInv
<1>6. AllWell' => FlushInv' BY DEF WellInv, LoadInv, FlushInv
<1>7. AllWell' => FileInv' BY DEF WellInv, LoadInv, FileInv
<1>8. AllWell' => NotifiedInv' BY DEF WellInv, LoadInv, NotifiedInv, FlushInv
<1>9. AllWell' => DueInv' BY DEF WellInv, LoadInv, DueInv, FlushInv,
    NotifiedInv, FileInv
<1> QED BY <1>1, <1>2, <1>3, <1>4, <1>5, <1>6, <1>7, <1>8, <1>9 DEF WellInv

(* The load is over, with no context. *)
LEMMA ContextFailsKeeps ==
  ASSUME IInv, ContextFails
  PROVE  IInv'
<1> USE ThreadAssumption, ContextAssumption, ContentAssumption,
    BoundAssumption DEF IInv, Typed, Call, CallInv, EngineInv, ProcessInv,
    AllWell, Flusher, Serialised, In, Busy, NoCall, Up, Note,
    bufferVars, contextVars, systemVars, Contents, ContextFails, Return, Finish
<1>1. Typed' BY DEF Jobs, Phases, Mishaps
<1>2. CallInv' OBVIOUS
<1>3. EngineInv' OBVIOUS
<1>4. ProcessInv' OBVIOUS
<1>5. AllWell' => LoadInv' BY DEF WellInv, LoadInv
<1>6. AllWell' => FlushInv' BY DEF WellInv, LoadInv, FlushInv
<1>7. AllWell' => FileInv' BY DEF WellInv, LoadInv, FileInv
<1>8. AllWell' => NotifiedInv' BY DEF WellInv, LoadInv, NotifiedInv, FlushInv
<1>9. AllWell' => DueInv' BY DEF WellInv, LoadInv, DueInv, FlushInv,
    NotifiedInv, FileInv
<1> QED BY <1>1, <1>2, <1>3, <1>4, <1>5, <1>6, <1>7, <1>8, <1>9 DEF WellInv

(* What is owed stays what it was. *)
LEMMA ChangeKeeps ==
  ASSUME IInv, Change
  PROVE  IInv'
<1> USE ThreadAssumption, ContextAssumption, ContentAssumption,
    BoundAssumption DEF IInv, Typed, Call, CallInv, EngineInv, ProcessInv,
    AllWell, Flusher, Serialised, In, Busy, NoCall, Up, Note,
    bufferVars, contextVars, systemVars, Contents, Change, MayChange
<1>1. Typed' BY DEF Jobs, Phases, Mishaps
<1>2. CallInv' OBVIOUS
<1>3. EngineInv' OBVIOUS
<1>4. ProcessInv' OBVIOUS
<1>5. AllWell' => LoadInv' BY DEF WellInv, LoadInv
<1>6. AllWell' => FlushInv' BY DEF WellInv, LoadInv, FlushInv
<1>7. AllWell' => FileInv' BY DEF WellInv, LoadInv, FileInv
<1>8. AllWell' => NotifiedInv' BY DEF WellInv, LoadInv, NotifiedInv, FlushInv
<1>9. AllWell' => DueInv' BY DEF WellInv, LoadInv, DueInv, FlushInv,
    NotifiedInv, FileInv
<1> QED BY <1>1, <1>2, <1>3, <1>4, <1>5, <1>6, <1>7, <1>8, <1>9 DEF WellInv

(* So it does when main.js is evaluated. *)
LEMMA BootstrapKeeps ==
  ASSUME IInv, Bootstrap
  PROVE  IInv'
<1>a. live' \in 0 .. MaxVersion \cup {NoContext} /\ booted' \in BOOLEAN
  <2>1. live \in 0 .. MaxVersion /\ live' \in live .. live + 1 /\ live' <= MaxVersion
    BY DEF IInv, Typed, Bootstrap, MayChange
  <2>2. live' \in 0 .. MaxVersion
    BY <2>1, BoundAssumption
  <2>3. booted' \in BOOLEAN
    BY DEF IInv, Typed, Bootstrap
  <2> QED BY <2>2, <2>3
<1>b. late' \in 0 .. MaxLate /\ owed' \in 0 .. MaxVersion
  BY BoundAssumption DEF IInv, Typed, Bootstrap, MayChange
<1> USE ThreadAssumption, ContextAssumption, ContentAssumption,
    BoundAssumption DEF IInv, Typed, Call, CallInv, EngineInv, ProcessInv,
    AllWell, Flusher, Serialised, In, Busy, NoCall, Up, Note,
    bufferVars, contextVars, systemVars, Contents, Bootstrap,
    MayChange
<1>1. Typed' BY <1>a, <1>b DEF Jobs, Phases, Mishaps
<1>2. CallInv' OBVIOUS
<1>3. EngineInv' OBVIOUS
<1>4. ProcessInv' OBVIOUS
<1>5. AllWell' => LoadInv' BY DEF WellInv, LoadInv
<1>6. AllWell' => FlushInv' BY DEF WellInv, LoadInv, FlushInv
<1>7. AllWell' => FileInv' BY DEF WellInv, LoadInv, FileInv
<1>8. AllWell' => NotifiedInv' BY DEF WellInv, LoadInv, NotifiedInv, FlushInv
<1>9. AllWell' => DueInv' BY DEF WellInv, LoadInv, DueInv, FlushInv,
    NotifiedInv, FileInv
<1> QED BY <1>1, <1>2, <1>3, <1>4, <1>5, <1>6, <1>7, <1>8, <1>9 DEF WellInv

(* The context's item is buffered. *)
LEMMA NotifyChangeKeeps ==
  ASSUME IInv, NotifyChange
  PROVE  IInv'
<1> USE ThreadAssumption, ContextAssumption, ContentAssumption,
    BoundAssumption DEF IInv, Typed, Call, CallInv, EngineInv, ProcessInv,
    AllWell, Flusher, Serialised, In, Busy, NoCall, Up, Note,
    bufferVars, contextVars, systemVars, Contents, NotifyChange, Notify,
    Owe, Alive
<1>1. Typed' BY DEF Jobs, Phases, Mishaps
<1>2. CallInv' OBVIOUS
<1>3. EngineInv' OBVIOUS
<1>4. ProcessInv' OBVIOUS
<1>5. AllWell' => LoadInv' BY DEF WellInv, LoadInv, FlushInv
<1>6. AllWell' => FlushInv' BY DEF WellInv, LoadInv, FlushInv
<1>7. AllWell' => FileInv' BY DEF WellInv, LoadInv, FileInv
<1>8. AllWell' => NotifiedInv' BY DEF WellInv, LoadInv, NotifiedInv, FlushInv
<1>9. AllWell' => DueInv' BY DEF WellInv, LoadInv, DueInv, FlushInv,
    NotifiedInv, FileInv
<1> QED BY <1>1, <1>2, <1>3, <1>4, <1>5, <1>6, <1>7, <1>8, <1>9 DEF WellInv

(* What is owed stays what it was. *)
LEMMA FunctionThrowsKeeps ==
  ASSUME IInv, FunctionThrows
  PROVE  IInv'
<1> USE ThreadAssumption, ContextAssumption, ContentAssumption,
    BoundAssumption DEF IInv, Typed, Call, CallInv, EngineInv, ProcessInv,
    AllWell, Flusher, Serialised, In, Busy, NoCall, Up, Note,
    bufferVars, contextVars, systemVars, Contents, FunctionThrows
<1>1. Typed' BY DEF Jobs, Phases, Mishaps
<1>2. CallInv' OBVIOUS
<1>3. EngineInv' OBVIOUS
<1>4. ProcessInv' OBVIOUS
<1>5. AllWell' => LoadInv' BY DEF WellInv, LoadInv
<1>6. AllWell' => FlushInv' BY DEF WellInv, LoadInv, FlushInv
<1>7. AllWell' => FileInv' BY DEF WellInv, LoadInv, FileInv
<1>8. AllWell' => NotifiedInv' BY DEF WellInv, LoadInv, NotifiedInv, FlushInv
<1>9. AllWell' => DueInv' BY DEF WellInv, LoadInv, DueInv, FlushInv,
    NotifiedInv, FileInv
<1> QED BY <1>1, <1>2, <1>3, <1>4, <1>5, <1>6, <1>7, <1>8, <1>9 DEF WellInv

(* That is a fault. *)
LEMMA CancelKeeps ==
  ASSUME IInv, Cancel
  PROVE  IInv'
<1>a. live' \in 0 .. MaxVersion \cup {NoContext} /\ booted' \in BOOLEAN
  BY BoundAssumption DEF IInv, Typed, Cancel
<1>b. late' \in 0 .. MaxLate /\ owed' \in 0 .. MaxVersion
  BY BoundAssumption DEF IInv, Typed, Cancel
<1> USE ThreadAssumption, ContextAssumption, ContentAssumption,
    BoundAssumption DEF IInv, Typed, Call, CallInv, EngineInv, ProcessInv,
    AllWell, Flusher, Serialised, In, Busy, NoCall, Up, Note,
    bufferVars, contextVars, systemVars, Contents, Cancel
<1>1. Typed' BY <1>a, <1>b DEF Jobs, Phases, Mishaps
<1>2. CallInv' OBVIOUS
<1>3. EngineInv' OBVIOUS
<1>4. ProcessInv' OBVIOUS
<1>5. AllWell' => LoadInv' BY DEF WellInv, LoadInv
<1>6. AllWell' => FlushInv' BY DEF WellInv, LoadInv, FlushInv
<1>7. AllWell' => FileInv' BY DEF WellInv, LoadInv, FileInv
<1>8. AllWell' => NotifiedInv' BY DEF WellInv, LoadInv, NotifiedInv, FlushInv
<1>9. AllWell' => DueInv' BY DEF WellInv, LoadInv, DueInv, FlushInv,
    NotifiedInv, FileInv
<1> QED BY <1>1, <1>2, <1>3, <1>4, <1>5, <1>6, <1>7, <1>8, <1>9 DEF WellInv

(* The registered context's item is going to be serialised. *)
LEMMA PeriodicFlushKeeps ==
  ASSUME IInv, PeriodicFlush
  PROVE  IInv'
<1> DEFINE new == [NoCall EXCEPT !.job = "flushAll", !.item = buffered,
                                !.phase = "supplying"]
<1>a. call' = [call EXCEPT ![Periodic] = new]
  BY DEF PeriodicFlush, FlushAll, BeginFlush
<1>b. new.job = "flushAll" /\ new.phase = "supplying" /\ NoCall.job = "none"
  BY DEF NoCall
<1> HIDE DEF new, NoCall
<1>c. /\ call'[Periodic].job = "flushAll" /\ call'[Periodic].phase = "supplying"
      /\ \A t \in Thread : t # Periodic => call'[t] = call[t]
  BY <1>a, <1>b, ThreadAssumption DEF IInv, Typed
<1>1. CallInv'
  BY <1>b, <1>c, ThreadAssumption DEF IInv, CallInv, Flusher, In, Serialised
<1> USE ThreadAssumption, ContextAssumption, ContentAssumption,
    BoundAssumption DEF IInv, Typed, Call, CallInv, EngineInv, ProcessInv,
    AllWell, Flusher, Serialised, In, Busy, NoCall, Up, Note,
    bufferVars, contextVars, systemVars, Contents, PeriodicFlush, FlushAll, BeginFlush
<1>2. Typed' BY DEF Jobs, Phases, Mishaps
<1>3. EngineInv' OBVIOUS
<1>4. ProcessInv' OBVIOUS
<1>5. AllWell' => LoadInv' BY DEF WellInv, LoadInv
<1>6. AllWell' => FlushInv' BY DEF WellInv, LoadInv, FlushInv
<1>7. AllWell' => FileInv' BY DEF WellInv, LoadInv, FileInv
<1>8. AllWell' => NotifiedInv' BY DEF WellInv, LoadInv, NotifiedInv, FlushInv
<1>9. AllWell' => DueInv' BY DEF WellInv, LoadInv, DueInv, FlushInv,
    NotifiedInv, FileInv
<1> QED BY <1>1, <1>2, <1>3, <1>4, <1>5, <1>6, <1>7, <1>8, <1>9 DEF WellInv

(* What is due is what was notified by now. *)
LEMMA ShutdownKeeps ==
  ASSUME IInv, Shutdown
  PROVE  IInv'
<1> USE ThreadAssumption, ContextAssumption, ContentAssumption,
    BoundAssumption DEF IInv, Typed, Call, CallInv, EngineInv, ProcessInv,
    AllWell, Flusher, Serialised, In, Busy, NoCall, Up, Note,
    bufferVars, contextVars, systemVars, Contents, Shutdown
<1>1. Typed' BY DEF Jobs, Phases, Mishaps
<1>2. CallInv' OBVIOUS
<1>3. EngineInv' OBVIOUS
<1>4. ProcessInv' OBVIOUS
<1>5. AllWell' => LoadInv' BY DEF WellInv, LoadInv
<1>6. AllWell' => FlushInv' BY DEF WellInv, LoadInv, FlushInv
<1>7. AllWell' => FileInv' BY DEF WellInv, LoadInv, FileInv
<1>8. AllWell' => NotifiedInv' BY DEF WellInv, LoadInv, NotifiedInv, FlushInv
<1>9. AllWell' => DueInv' BY DEF WellInv, LoadInv, DueInv, FlushInv,
    NotifiedInv, FileInv
<1> QED BY <1>1, <1>2, <1>3, <1>4, <1>5, <1>6, <1>7, <1>8, <1>9 DEF WellInv

(* The hook finds the registered context's item. *)
LEMMA HookFlushKeeps ==
  ASSUME IInv, HookFlush
  PROVE  IInv'
<1> DEFINE new == [NoCall EXCEPT !.job = "flushAll", !.item = buffered,
                                !.phase = "supplying"]
<1>a. call' = [call EXCEPT ![Hook] = new]
  BY DEF HookFlush, FlushAll, BeginFlush
<1>b. new.job = "flushAll" /\ new.phase = "supplying" /\ NoCall.job = "none"
  BY DEF NoCall
<1> HIDE DEF new, NoCall
<1>c. /\ call'[Hook].job = "flushAll" /\ call'[Hook].phase = "supplying"
      /\ \A t \in Thread : t # Hook => call'[t] = call[t]
  BY <1>a, <1>b, ThreadAssumption DEF IInv, Typed
<1>1. CallInv'
  BY <1>b, <1>c, ThreadAssumption DEF IInv, CallInv, Flusher, In, Serialised
<1> USE ThreadAssumption, ContextAssumption, ContentAssumption,
    BoundAssumption DEF IInv, Typed, Call, CallInv, EngineInv, ProcessInv,
    AllWell, Flusher, Serialised, In, Busy, NoCall, Up, Note,
    bufferVars, contextVars, systemVars, Contents, HookFlush, FlushAll, BeginFlush
<1>2. Typed' BY DEF Jobs, Phases, Mishaps
<1>3. EngineInv' OBVIOUS
<1>4. ProcessInv' OBVIOUS
<1>5. AllWell' => LoadInv' BY DEF WellInv, LoadInv
<1>6. AllWell' => FlushInv' BY DEF WellInv, LoadInv, FlushInv
<1>7. AllWell' => FileInv' BY DEF WellInv, LoadInv, FileInv
<1>8. AllWell' => NotifiedInv' BY DEF WellInv, LoadInv, NotifiedInv, FlushInv
<1>9. AllWell' => DueInv' BY DEF WellInv, LoadInv, DueInv, FlushInv,
    NotifiedInv, FileInv
<1> QED BY <1>1, <1>2, <1>3, <1>4, <1>5, <1>6, <1>7, <1>8, <1>9 DEF WellInv

(* The text is no older than what was notified, or saved, or is due. *)
LEMMA SerialiseKeeps ==
  ASSUME IInv, NEW t \in Thread, Serialise(t)
  PROVE  IInv'
<1> USE ThreadAssumption, ContextAssumption, ContentAssumption,
    BoundAssumption DEF IInv, Typed, Call, CallInv, EngineInv, ProcessInv,
    AllWell, Flusher, Serialised, In, Busy, NoCall, Up, Note,
    bufferVars, contextVars, systemVars, Contents, Serialise, Alive, Supply, Have
<1>1. Typed' BY DEF Jobs, Phases, Mishaps
<1>2. CallInv' OBVIOUS
<1>3. EngineInv' OBVIOUS
<1>4. ProcessInv' OBVIOUS
<1>5. AllWell' => LoadInv' BY DEF WellInv, LoadInv
<1>6. AllWell' => FlushInv' BY DEF WellInv, LoadInv, FlushInv
<1>7. AllWell' => FileInv' BY DEF WellInv, LoadInv, FileInv
<1>8. AllWell' => NotifiedInv' BY DEF WellInv, LoadInv, NotifiedInv, FlushInv
<1>9. AllWell' => DueInv' BY DEF WellInv, LoadInv, DueInv, FlushInv,
    NotifiedInv, FileInv
<1> QED BY <1>1, <1>2, <1>3, <1>4, <1>5, <1>6, <1>7, <1>8, <1>9 DEF WellInv

(* That is a fault. *)
LEMMA CannotSerialiseKeeps ==
  ASSUME IInv, NEW t \in Thread, CannotSerialise(t)
  PROVE  IInv'
<1> USE ThreadAssumption, ContextAssumption, ContentAssumption,
    BoundAssumption DEF IInv, Typed, Call, CallInv, EngineInv, ProcessInv,
    AllWell, Flusher, Serialised, In, Busy, NoCall, Up, Note,
    bufferVars, contextVars, systemVars, Contents, CannotSerialise, SupplyThrows, Step
<1>1. Typed' BY DEF Jobs, Phases, Mishaps
<1>2. CallInv' OBVIOUS
<1>3. EngineInv' OBVIOUS
<1>4. ProcessInv' OBVIOUS
<1>5. AllWell' => LoadInv' BY DEF WellInv, LoadInv
<1>6. AllWell' => FlushInv' BY DEF WellInv, LoadInv, FlushInv
<1>7. AllWell' => FileInv' BY DEF WellInv, LoadInv, FileInv
<1>8. AllWell' => NotifiedInv' BY DEF WellInv, LoadInv, NotifiedInv, FlushInv
<1>9. AllWell' => DueInv' BY DEF WellInv, LoadInv, DueInv, FlushInv,
    NotifiedInv, FileInv
<1> QED BY <1>1, <1>2, <1>3, <1>4, <1>5, <1>6, <1>7, <1>8, <1>9 DEF WellInv

(* No context is closed unless it was cancelled, which is a fault. *)
LEMMA ContextClosedKeeps ==
  ASSUME IInv, NEW t \in Thread, ContextClosed(t)
  PROVE  IInv'
<1> USE ThreadAssumption, ContextAssumption, ContentAssumption,
    BoundAssumption DEF IInv, Typed, Call, CallInv, EngineInv, ProcessInv,
    AllWell, Flusher, Serialised, In, Busy, NoCall, Up, Note,
    bufferVars, contextVars, systemVars, Contents, ContextClosed, Alive, SupplyIllegal,
    Finish, Step
<1>1. Typed' BY DEF Jobs, Phases, Mishaps
<1>2. CallInv' OBVIOUS
<1>3. EngineInv' OBVIOUS
<1>4. ProcessInv' OBVIOUS
<1>5. AllWell' => LoadInv' BY DEF WellInv, LoadInv
<1>6. AllWell' => FlushInv' BY DEF WellInv, LoadInv, FlushInv
<1>7. AllWell' => FileInv' BY DEF WellInv, LoadInv, FileInv
<1>8. AllWell' => NotifiedInv' BY DEF WellInv, LoadInv, NotifiedInv, FlushInv
<1>9. AllWell' => DueInv' BY DEF WellInv, LoadInv, DueInv, FlushInv,
    NotifiedInv, FileInv
<1> QED BY <1>1, <1>2, <1>3, <1>4, <1>5, <1>6, <1>7, <1>8, <1>9 DEF WellInv

(* The file is empty while it is written. *)
LEMMA OpenKeeps ==
  ASSUME IInv, NEW t \in Thread, Open(t)
  PROVE  IInv'
<1> USE ThreadAssumption, ContextAssumption, ContentAssumption,
    BoundAssumption DEF IInv, Typed, Call, CallInv, EngineInv, ProcessInv,
    AllWell, Flusher, Serialised, In, Busy, NoCall, Up, Note,
    bufferVars, contextVars, systemVars, Contents, Open, OpenFile, Step
<1>1. Typed' BY DEF Jobs, Phases, Mishaps
<1>2. CallInv' OBVIOUS
<1>3. EngineInv' OBVIOUS
<1>4. ProcessInv' OBVIOUS
<1>5. AllWell' => LoadInv' BY DEF WellInv, LoadInv
<1>6. AllWell' => FlushInv' BY DEF WellInv, LoadInv, FlushInv
<1>7. AllWell' => FileInv' BY DEF WellInv, LoadInv, FileInv
<1>8. AllWell' => NotifiedInv' BY DEF WellInv, LoadInv, NotifiedInv, FlushInv
<1>9. AllWell' => DueInv' BY DEF WellInv, LoadInv, DueInv, FlushInv,
    NotifiedInv, FileInv
<1> QED BY <1>1, <1>2, <1>3, <1>4, <1>5, <1>6, <1>7, <1>8, <1>9 DEF WellInv

(* What was serialised is saved, and is no older, but for a mishap. *)
LEMMA WriteKeeps ==
  ASSUME IInv, NEW t \in Thread, Write(t)
  PROVE  IInv'
<1>a. /\ In(t, "writing") /\ saved' = call[t].text /\ call[t].text \in 0 .. MaxVersion
      /\ AllWell' => AllWell /\ call[t].text >= saved
      /\ saved \in 0 .. MaxVersion /\ UNCHANGED <<buffered, live, contexts, engine, process>>
  BY BoundAssumption, ContentAssumption
  DEF Write, WriteFile, Note, AllWell, IInv, Typed, CallInv, Serialised, In, contextVars
<1>b. /\ t \in Flusher => call[t].job = "flushAll" /\ call'[t].phase = "removing"
      /\ t = Loader => call[t].job = "load"
      /\ call'[t].text = call[t].text /\ call'[t].item = call[t].item
      /\ call'[t].job = call[t].job
      /\ \A u \in Thread \ {t} : call'[u] = call[u]
  BY ThreadAssumption DEF Write, WriteFile, Written, Step, Finish, IInv, Typed,
     CallInv, Flusher, Call, In, NoCall
<1>1. AllWell' => FlushInv'
  <2> SUFFICES ASSUME AllWell' PROVE FlushInv'
    OBVIOUS
  <2>1. AllWell /\ LoadInv /\ FlushInv /\ EngineInv /\ ProcessInv /\ saved <= saved'
    BY <1>a DEF IInv, WellInv
  <2>2. live # NoContext => t \in Flusher
    BY <1>b, <2>1, ThreadAssumption DEF EngineInv, Flusher
  <2>3. live # NoContext => live \in 0 .. MaxVersion /\ saved' <= live
    BY <1>a, <1>b, <2>1, <2>2 DEF FlushInv, Serialised, IInv, Typed
  <2>4. ASSUME NEW u \in Flusher, call'[u].job = "flushAll"
        PROVE  /\ call'[u].item = contexts /\ call'[u].phase # "threw"
               /\ call'[u].phase \in {"opening", "writing"} => call'[u].text <= live
               /\ call'[u].phase = "removing" => call'[u].text <= saved'
    <3>1. CASE u = t
      BY <1>a, <1>b, <2>1, <2>4, <3>1 DEF FlushInv
    <3>2. CASE u # t
      <4>1. call'[u] = call[u]
        BY <1>b, <3>2, ThreadAssumption DEF Flusher
      <4>2. call[u].phase = "removing" => call[u].text \in 0 .. MaxVersion
        BY ThreadAssumption DEF IInv, CallInv, Flusher, In
      <4> QED BY <1>a, <2>1, <2>4, <4>1, <4>2 DEF FlushInv, In, Serialised
    <3> QED BY <3>1, <3>2
  <2>5. ASSUME process # "flushing", call'[Periodic].job = "flushAll"
        PROVE  /\ buffered # NoItem
               /\ call'[Periodic].phase = "removing" \/ call'[Periodic] = call[Periodic]
               /\ t = Periodic
    BY <1>b, <2>1, <2>5, ThreadAssumption
    DEF FlushInv, LoadInv, EngineInv, ProcessInv, Flusher
  <2> QED BY <1>a, <1>b, <2>1, <2>3, <2>4, <2>5, ThreadAssumption
          DEF FlushInv, In, Serialised, Flusher
<1> USE ThreadAssumption, ContextAssumption, ContentAssumption,
    BoundAssumption DEF IInv, Typed, Call, CallInv, EngineInv, ProcessInv,
    AllWell, Flusher, Serialised, In, Busy, NoCall, Up, Note,
    bufferVars, contextVars, systemVars, Contents, Write, WriteFile, Written, Step, Finish
<1>2. Typed' BY DEF Jobs, Phases, Mishaps
<1>3. CallInv' OBVIOUS
<1>4. EngineInv' OBVIOUS
<1>5. ProcessInv' OBVIOUS
<1>6. AllWell' => LoadInv' BY DEF WellInv, LoadInv
<1>7. AllWell' => FileInv' BY DEF WellInv, LoadInv, FileInv
<1>8. AllWell' => NotifiedInv' BY DEF WellInv, LoadInv, NotifiedInv, FlushInv
<1>9. AllWell' => DueInv' BY DEF WellInv, LoadInv, DueInv, FlushInv,
    NotifiedInv, FileInv
<1> QED BY <1>1, <1>2, <1>3, <1>4, <1>5, <1>6, <1>7, <1>8, <1>9 DEF WellInv

(* The item that is removed holds nothing that was not saved, but for a mishap. *)
LEMMA RemoveKeeps ==
  ASSUME IInv, NEW t \in Thread, Remove(t)
  PROVE  IInv'
<1>a. /\ In(t, "removing") /\ buffered' = NoItem /\ call' = [call EXCEPT ![t] = NoCall]
      /\ AllWell' => AllWell /\ (buffered = NoItem \/ ~(owed > call[t].text))
      /\ UNCHANGED <<live, contexts, engine, owed, process, due, saved, file>>
  BY DEF Remove, RemoveItem, Finish, Note, AllWell, contextVars
<1>b. /\ t \in Flusher /\ call[t].job = "flushAll" /\ call[t].text \in 0 .. MaxVersion
      /\ call'[t].job = "none" /\ call'[t].phase = "idle"
      /\ \A u \in Thread \ {t} : call'[u] = call[u]
  BY <1>a, ThreadAssumption DEF IInv, Typed, CallInv, Flusher, In, NoCall
<1>c. saved \in Nat /\ due \in Nat /\ owed \in Nat /\ owed' = owed
  BY <1>a, BoundAssumption DEF IInv, Typed
<1>d. AllWell' => call[t].text <= saved
  BY <1>a, <1>b DEF IInv, WellInv, FlushInv
<1>1. AllWell' => NotifiedInv'
  <2> SUFFICES ASSUME AllWell', live # NoContext
      PROVE  \/ \E u \in Flusher : \/ call'[u].phase = "supplying"
                                    \/ /\ call'[u].phase \in {"opening", "writing"}
                                       /\ call'[u].text >= owed
             \/ saved >= owed
    BY <1>a, <1>c DEF NotifiedInv, In, Serialised
  <2>1. CASE buffered # NoItem
    BY <1>a, <1>b, <1>c, <1>d, <2>1
  <2>2. CASE buffered = NoItem
    <3>1. PICK u \in Flusher :
            \/ call[u].phase = "supplying"
            \/ call[u].phase \in {"opening", "writing"} /\ call[u].text >= owed
            \/ saved >= owed
      BY <1>a, <1>b, <2>2 DEF IInv, WellInv, NotifiedInv, In, Serialised
    <3>2. CASE saved >= owed
      BY <3>2
    <3>3. CASE ~(saved >= owed)
      <4>1. call'[u] = call[u]
        BY <1>a, <1>b, <3>1, <3>3, ThreadAssumption DEF In, Flusher
      <4> QED BY <3>1, <3>3, <4>1
    <3> QED BY <3>2, <3>3
  <2> QED BY <2>1, <2>2
<1>2. AllWell' => DueInv'
  <2> SUFFICES ASSUME AllWell' PROVE DueInv'
    OBVIOUS
  <2>1. DueInv
    BY <1>a DEF IInv, WellInv
  <2>2. process \in {"stopping", "flushing"} /\ due # 0 => live # NoContext /\ due <= owed'
    BY <1>c, <2>1 DEF DueInv
  <2>3. ASSUME process = "flushing", due # 0
        PROVE  /\ call'[Hook].job = "none" => saved >= due
               /\ call'[Hook].phase \in {"opening", "writing", "removing"}
                      => call'[Hook].text >= due
    <3>1. CASE t = Hook
      BY <1>a, <1>b, <1>c, <1>d, <2>1, <2>3, <3>1 DEF DueInv, In
    <3>2. CASE t # Hook
      <4>1. call'[Hook] = call[Hook]
        BY <1>b, <3>2, ThreadAssumption
      <4> QED BY <2>1, <2>3, <4>1 DEF DueInv, In, Serialised
    <3> QED BY <3>1, <3>2
  <2> QED BY <1>a, <2>1, <2>2, <2>3 DEF DueInv, In, Serialised
<1> USE ThreadAssumption, ContextAssumption, ContentAssumption,
    BoundAssumption DEF IInv, Typed, Call, CallInv, EngineInv, ProcessInv,
    AllWell, Flusher, Serialised, In, Busy, NoCall, Up, Note,
    bufferVars, contextVars, systemVars, Contents, Remove, RemoveItem, Finish
<1>3. Typed' BY DEF Jobs, Phases, Mishaps
<1>4. CallInv' OBVIOUS
<1>5. EngineInv' OBVIOUS
<1>6. ProcessInv' OBVIOUS
<1>7. AllWell' => LoadInv' BY DEF WellInv, LoadInv
<1>8. AllWell' => FlushInv' BY DEF WellInv, LoadInv, FlushInv
<1>9. AllWell' => FileInv' BY DEF WellInv, LoadInv, FileInv
<1> QED BY <1>1, <1>2, <1>3, <1>4, <1>5, <1>6, <1>7, <1>8, <1>9 DEF WellInv

(* The loader has the version last saved. *)
LEMMA ReadKeeps ==
  ASSUME IInv, NEW t \in Thread, Read(t)
  PROVE  IInv'
<1> USE ThreadAssumption, ContextAssumption, ContentAssumption,
    BoundAssumption DEF IInv, Typed, Call, CallInv, EngineInv, ProcessInv,
    AllWell, Flusher, Serialised, In, Busy, NoCall, Up, Note,
    bufferVars, contextVars, systemVars, Contents, Read, ReadFile, Have
<1>1. Typed' BY DEF Jobs, Phases, Mishaps
<1>2. CallInv' OBVIOUS
<1>3. EngineInv' OBVIOUS
<1>4. ProcessInv' OBVIOUS
<1>5. AllWell' => LoadInv' BY DEF WellInv, LoadInv
<1>6. AllWell' => FlushInv' BY DEF WellInv, LoadInv, FlushInv
<1>7. AllWell' => FileInv' BY DEF WellInv, LoadInv, FileInv
<1>8. AllWell' => NotifiedInv' BY DEF WellInv, LoadInv, NotifiedInv, FlushInv
<1>9. AllWell' => DueInv' BY DEF WellInv, LoadInv, DueInv, FlushInv,
    NotifiedInv, FileInv
<1> QED BY <1>1, <1>2, <1>3, <1>4, <1>5, <1>6, <1>7, <1>8, <1>9 DEF WellInv

(* That is a fault. *)
LEMMA FileErrorKeeps ==
  ASSUME IInv, NEW t \in Thread, FileError(t)
  PROVE  IInv'
<1> USE ThreadAssumption, ContextAssumption, ContentAssumption,
    BoundAssumption DEF IInv, Typed, Call, CallInv, EngineInv, ProcessInv,
    AllWell, Flusher, Serialised, In, Busy, NoCall, Up, Note,
    bufferVars, contextVars, systemVars, Contents, FileError, WriteFails, ReadFails,
    Written, Step, Finish, Have
<1>1. Typed' BY DEF Jobs, Phases, Mishaps
<1>2. CallInv' OBVIOUS
<1>3. EngineInv' OBVIOUS
<1>4. ProcessInv' OBVIOUS
<1>5. AllWell' => LoadInv' BY DEF WellInv, LoadInv
<1>6. AllWell' => FlushInv' BY DEF WellInv, LoadInv, FlushInv
<1>7. AllWell' => FileInv' BY DEF WellInv, LoadInv, FileInv
<1>8. AllWell' => NotifiedInv' BY DEF WellInv, LoadInv, NotifiedInv, FlushInv
<1>9. AllWell' => DueInv' BY DEF WellInv, LoadInv, DueInv, FlushInv,
    NotifiedInv, FileInv
<1> QED BY <1>1, <1>2, <1>3, <1>4, <1>5, <1>6, <1>7, <1>8, <1>9 DEF WellInv

(* A stop leaves in the file what is due, but for a mishap. *)
LEMMA ExitKeeps ==
  ASSUME IInv, Exit
  PROVE  IInv'
<1>a. live' \in 0 .. MaxVersion \cup {NoContext} /\ booted' \in BOOLEAN
  BY BoundAssumption DEF IInv, Typed, Exit, Halt
<1>b. late' \in 0 .. MaxLate /\ owed' \in 0 .. MaxVersion
  BY BoundAssumption DEF IInv, Typed, Exit, Halt
<1> USE ThreadAssumption, ContextAssumption, ContentAssumption,
    BoundAssumption DEF IInv, Typed, Call, CallInv, EngineInv, ProcessInv,
    AllWell, Flusher, Serialised, In, Busy, NoCall, Up, Note,
    bufferVars, contextVars, systemVars, Contents, Exit, Halt
<1>1. Typed' BY <1>a, <1>b DEF Jobs, Phases, Mishaps
<1>2. CallInv' OBVIOUS
<1>3. EngineInv' OBVIOUS
<1>4. ProcessInv' OBVIOUS
<1>5. AllWell' => LoadInv' BY DEF WellInv, LoadInv
<1>6. AllWell' => FlushInv' BY DEF WellInv, LoadInv, FlushInv
<1>7. AllWell' => FileInv' BY DEF WellInv, LoadInv, FileInv
<1>8. AllWell' => NotifiedInv' BY DEF WellInv, LoadInv, NotifiedInv, FlushInv
<1>9. AllWell' => DueInv' BY DEF WellInv, LoadInv, DueInv, FlushInv,
    NotifiedInv, FileInv
<1> QED BY <1>1, <1>2, <1>3, <1>4, <1>5, <1>6, <1>7, <1>8, <1>9 DEF WellInv

(* A kill leaves the version last saved, but for a mishap. *)
LEMMA CrashKeeps ==
  ASSUME IInv, Crash
  PROVE  IInv'
<1>a. live' \in 0 .. MaxVersion \cup {NoContext} /\ booted' \in BOOLEAN
  BY BoundAssumption DEF IInv, Typed, Crash, Halt
<1>b. late' \in 0 .. MaxLate /\ owed' \in 0 .. MaxVersion
  BY BoundAssumption DEF IInv, Typed, Crash, Halt
<1> USE ThreadAssumption, ContextAssumption, ContentAssumption,
    BoundAssumption DEF IInv, Typed, Call, CallInv, EngineInv, ProcessInv,
    AllWell, Flusher, Serialised, In, Busy, NoCall, Up, Note,
    bufferVars, contextVars, systemVars, Contents, Crash, Halt
<1>1. Typed' BY <1>a, <1>b DEF Jobs, Phases, Mishaps
<1>2. CallInv' OBVIOUS
<1>3. EngineInv' OBVIOUS
<1>4. ProcessInv' OBVIOUS
<1>5. AllWell' => LoadInv' BY DEF WellInv, LoadInv
<1>6. AllWell' => FlushInv' BY DEF WellInv, LoadInv, FlushInv
<1>7. AllWell' => FileInv' BY DEF WellInv, LoadInv, FileInv
<1>8. AllWell' => NotifiedInv' BY DEF WellInv, LoadInv, NotifiedInv, FlushInv
<1>9. AllWell' => DueInv' BY DEF WellInv, LoadInv, DueInv, FlushInv,
    NotifiedInv, FileInv
<1> QED BY <1>1, <1>2, <1>3, <1>4, <1>5, <1>6, <1>7, <1>8, <1>9 DEF WellInv

(* Nothing runs yet. *)
LEMMA RestartKeeps ==
  ASSUME IInv, Restart
  PROVE  IInv'
<1> USE ThreadAssumption, ContextAssumption, ContentAssumption,
    BoundAssumption DEF IInv, Typed, Call, CallInv, EngineInv, ProcessInv,
    AllWell, Flusher, Serialised, In, Busy, NoCall, Up, Note,
    bufferVars, contextVars, systemVars, Contents, Restart
<1>1. Typed' BY DEF Jobs, Phases, Mishaps
<1>2. CallInv' OBVIOUS
<1>3. EngineInv' OBVIOUS
<1>4. ProcessInv' OBVIOUS
<1>5. AllWell' => LoadInv' BY DEF WellInv, LoadInv
<1>6. AllWell' => FlushInv' BY DEF WellInv, LoadInv, FlushInv
<1>7. AllWell' => FileInv' BY DEF WellInv, LoadInv, FileInv
<1>8. AllWell' => NotifiedInv' BY DEF WellInv, LoadInv, NotifiedInv, FlushInv
<1>9. AllWell' => DueInv' BY DEF WellInv, LoadInv, DueInv, FlushInv,
    NotifiedInv, FileInv
<1> QED BY <1>1, <1>2, <1>3, <1>4, <1>5, <1>6, <1>7, <1>8, <1>9 DEF WellInv

(* Nothing changes. *)
LEMMA StutterKeeps ==
  ASSUME IInv, UNCHANGED vars
  PROVE  IInv'
<1> USE ThreadAssumption, ContextAssumption, ContentAssumption,
    BoundAssumption DEF IInv, Typed, Call, CallInv, EngineInv, ProcessInv,
    AllWell, Flusher, Serialised, In, Busy, NoCall, Up, Note,
    bufferVars, contextVars, systemVars, Contents, vars
<1>1. Typed' BY DEF Jobs, Phases, Mishaps
<1>2. CallInv' OBVIOUS
<1>3. EngineInv' OBVIOUS
<1>4. ProcessInv' OBVIOUS
<1>5. AllWell' => LoadInv' BY DEF WellInv, LoadInv
<1>6. AllWell' => FlushInv' BY DEF WellInv, LoadInv, FlushInv
<1>7. AllWell' => FileInv' BY DEF WellInv, LoadInv, FileInv
<1>8. AllWell' => NotifiedInv' BY DEF WellInv, LoadInv, NotifiedInv, FlushInv
<1>9. AllWell' => DueInv' BY DEF WellInv, LoadInv, DueInv, FlushInv,
    NotifiedInv, FileInv
<1> QED BY <1>1, <1>2, <1>3, <1>4, <1>5, <1>6, <1>7, <1>8, <1>9 DEF WellInv
-----------------------------------------------------------------------------
LEMMA NextIInv == IInv /\ [Next]_vars => IInv'
<1> SUFFICES ASSUME IInv, [Next]_vars PROVE IInv'
  OBVIOUS
<1>1. CASE StartLoad
  BY <1>1, LoadCreatesKeeps, LoadReadsKeeps DEF StartLoad
<1>2. CASE ContextCreated \/ ContextFails \/ Cancel
  BY <1>2, ContextCreatedKeeps, ContextFailsKeeps, CancelKeeps
<1>3. CASE Bootstrap \/ Change \/ NotifyChange \/ FunctionThrows
  BY <1>3, BootstrapKeeps, ChangeKeeps, NotifyChangeKeeps, FunctionThrowsKeeps
<1>4. CASE PeriodicFlush \/ Shutdown \/ HookFlush
  BY <1>4, PeriodicFlushKeeps, ShutdownKeeps, HookFlushKeeps
<1>5. ASSUME NEW t \in Thread, Work(t)
      PROVE  IInv'
  BY <1>5, SerialiseKeeps, CannotSerialiseKeeps, ContextClosedKeeps, OpenKeeps, WriteKeeps,
     RemoveKeeps, ReadKeeps, FileErrorKeeps DEF Work
<1>6. CASE Exit \/ Crash \/ Restart
  BY <1>6, ExitKeeps, CrashKeeps, RestartKeeps
<1>7. CASE UNCHANGED vars
  BY <1>7, StutterKeeps
<1> QED BY <1>1, <1>2, <1>3, <1>4, <1>5, <1>6, <1>7 DEF Next

LEMMA Invariant == Spec => []IInv
  BY InitIInv, NextIInv, PTL DEF Spec

(* The buffer, the file, the threads' calls and the bookkeeping about them *)
(* stay within their types.                                                *)
THEOREM TypeCorrect == Spec => []TypeOK
<1>1. IInv => TypeOK
  BY DEF IInv, Typed, Call, TypeOK, BufferTypeOK
<1> QED BY <1>1, Invariant, PTL

(* A restart finds the version last written, or no state if there was      *)
(* none: only in the middle of a write is the file without one.            *)
THEOREM FileHolds == Spec => []FileHoldsSaved
<1>1. IInv => FileHoldsSaved
  BY DEF IInv, WellInv, FileInv, FileHoldsSaved
<1> QED BY <1>1, Invariant, PTL

(* Without a mishap, and with no error, what the last function to return   *)
(* has left, or a later state, is in the file once nothing is buffered and *)
(* nobody writes.                                                          *)
THEOREM NothingLost == Spec => []NothingLostSilently
<1>1. IInv => NothingLostSilently
  <2> SUFFICES ASSUME IInv, Quiet, AllWell PROVE file \in owed .. live
    BY DEF NothingLostSilently
  <2>0. NoCall.phase = "idle" /\ \A t \in Thread : call[t] = NoCall
    BY DEF Quiet, Busy, NoCall
  <2>1. \A t \in Thread : call[t].phase = "idle"
    BY <2>0
  <2>2. owed \in Nat /\ live \in Nat /\ saved \in Nat /\ live # NoContext
    BY BoundAssumption DEF Quiet, IInv, Typed
  <2>3. saved >= owed
    BY <2>1, <2>2, ThreadAssumption
    DEF IInv, WellInv, NotifiedInv, Flusher, In, Serialised, Quiet
  <2>4. saved <= live
    BY <2>2 DEF IInv, WellInv, FlushInv
  <2>5. file = saved
    BY <2>1, <2>2 DEF IInv, WellInv, FileInv, In
  <2> QED BY <2>2, <2>3, <2>4, <2>5
<1> QED BY <1>1, Invariant, PTL

(* A worker that was stopped has persisted what was notified before, but   *)
(* for a mishap: of the hook's flush and the periodic one, whichever is    *)
(* last, what the hook was started for is in the file.                     *)
THEOREM ShutdownPersists == Spec => []ShutdownPersistsBarringMishap
<1>1. IInv => ShutdownPersistsBarringMishap
  BY BoundAssumption DEF IInv, Typed, WellInv, DueInv, ShutdownPersistsBarringMishap
<1> QED BY <1>1, Invariant, PTL

(* Only a write notes that it was stale or garbled.                        *)
LEMMA RaceIsWrite ==
  ASSUME IInv, [Next]_vars, AllWell, mishap' \in {"stale", "garbled"}
  PROVE  \E t \in Thread : Write(t)
<1>1. mishap = "none" /\ mishap' # mishap
  BY DEF AllWell
<1>2. Next
  BY <1>1 DEF vars, systemVars
<1>3. ASSUME \/ StartLoad \/ ContextCreated \/ ContextFails \/ Bootstrap \/ Change
             \/ NotifyChange \/ FunctionThrows \/ Cancel \/ PeriodicFlush \/ Shutdown
             \/ HookFlush \/ Restart
      PROVE  FALSE
  BY <1>1, <1>3 DEF StartLoad, ContextCreated, ContextFails, Bootstrap, Change, NotifyChange,
     FunctionThrows, Cancel, PeriodicFlush, Shutdown, HookFlush, Restart, systemVars
<1>4. ASSUME Exit \/ Crash PROVE FALSE
  BY <1>1, <1>4 DEF Exit, Crash, Halt, Note
<1>5. ASSUME NEW t \in Thread, Work(t), ~Write(t) PROVE FALSE
  BY <1>1, <1>5 DEF Work, Serialise, CannotSerialise, ContextClosed, Open, Remove, Read,
     FileError, Note, systemVars
<1> QED BY <1>2, <1>3, <1>4, <1>5 DEF Next

(* No first mishap is a race for the file, until the hook flushes it.      *)
THEOREM NoRace == Spec => NoRaceBeforeShutdown
<1>1. IInv /\ [Next]_vars
          => [AllWell /\ mishap' \in {"stale", "garbled"} => process = "flushing"]_vars
  <2> SUFFICES ASSUME IInv, [Next]_vars, AllWell, mishap' \in {"stale", "garbled"},
                      process # "flushing"
      PROVE  FALSE
    OBVIOUS
  <2>1. PICK t \in Thread : Write(t)
    BY RaceIsWrite
  <2>2. In(t, "writing") /\ call[t].text \in 0 .. MaxVersion /\ saved \in 0 .. MaxVersion
    BY <2>1 DEF Write, WriteFile, IInv, Typed, CallInv, Serialised
  <2>3. t # Hook
    BY <2>2 DEF IInv, ProcessInv, CallInv, In, NoCall
  <2>4. file = Empty /\ saved <= call[t].text
    <3>1. CASE t = Periodic
      BY <2>2, <3>1 DEF IInv, WellInv, FlushInv, CallInv, Flusher, In, Serialised, NoCall
    <3>2. CASE t = Loader
      BY <2>2, <3>2 DEF IInv, WellInv, LoadInv, CallInv, In, Serialised, NoCall
    <3> QED BY <2>3, <3>1, <3>2, ThreadAssumption
  <2>5. file' = call[t].text /\ file' # Garbled
    BY <2>1, <2>2, <2>4, BoundAssumption, ContentAssumption DEF Write, WriteFile
  <2> QED BY <2>1, <2>2, <2>4, <2>5, BoundAssumption DEF Write, Note, AllWell
<1> QED BY <1>1, Invariant, PTL DEF Spec, NoRaceBeforeShutdown

(* What has gone wrong is not undone. *)
LEMMA StaysBroken ==
  ASSUME Next, AllWell'
  PROVE  AllWell
<1>1. CASE \/ StartLoad \/ ContextCreated \/ ContextFails \/ Bootstrap \/ Change
           \/ NotifyChange \/ FunctionThrows \/ Cancel \/ PeriodicFlush \/ Shutdown
           \/ HookFlush \/ Restart
  BY <1>1 DEF AllWell, StartLoad, ContextCreated, ContextFails, Bootstrap, Change, NotifyChange,
     FunctionThrows, Cancel, PeriodicFlush, Shutdown, HookFlush, Restart, systemVars
<1>2. CASE Exit \/ Crash
  BY <1>2 DEF AllWell, Exit, Crash, Halt, Note
<1>3. ASSUME NEW t \in Thread, Work(t) PROVE AllWell
  BY <1>3 DEF AllWell, Work, Serialise, CannotSerialise, ContextClosed, Open, Write, Remove,
     Read, FileError, Note, systemVars
<1> QED BY <1>1, <1>2, <1>3 DEF Next

(* A version that is written while all is well is the running context's,   *)
(* and not older than what was saved; a load saves what was saved already. *)
LEMMA WriteIsKept ==
  ASSUME IInv, AllWell, AllWell', NEW t \in Thread, Write(t)
  PROVE  Store!Keep \/ UNCHANGED <<live, owed, saved, due>>
<1>1. /\ In(t, "writing") /\ Serialised(t) /\ saved' = call[t].text
      /\ call[t].text \in 0 .. MaxVersion /\ saved \in 0 .. MaxVersion
      /\ call[t].text >= saved /\ UNCHANGED <<live, owed, due>>
  BY BoundAssumption DEF Write, contextVars, WriteFile, Note, AllWell, IInv, Typed, CallInv, Serialised, In
<1>2. LoadInv /\ FlushInv
  BY DEF IInv, WellInv
<1>3. CASE t = Loader
  <2>1. call[Loader].job = "load"
    BY <1>1, <1>3 DEF IInv, CallInv, In, NoCall
  <2>2. saved = 0 /\ call[Loader].text = 0
    BY <1>1, <1>2, <1>3, <2>1 DEF LoadInv
  <2> QED BY <1>1, <1>3, <2>2
<1>4. CASE t \in Flusher
  <2>1. call[t].job = "flushAll"
    BY <1>1, <1>4 DEF IInv, CallInv, In, NoCall
  <2>2. live # NoContext
    BY <1>2, <1>4, <2>1 DEF LoadInv
  <2>3. call[t].text <= live /\ live \in 0 .. MaxVersion
    BY <1>1, <1>2, <1>4, <2>1, <2>2 DEF FlushInv, IInv, Typed
  <2>4. saved' \in saved .. live
    BY <1>1, <2>3, BoundAssumption
  <2> QED BY <1>1, <2>2, <2>4 DEF Store!Keep
<1> QED BY <1>3, <1>4, ThreadAssumption DEF Flusher

LEMMA InitStore == Init => Store!Init
BY DEF Init, Store!Init, AllWell

LEMMA NextStore == IInv /\ IInv' /\ [Next]_vars => [Store!Next]_(Store!vars)
<1> SUFFICES ASSUME IInv, IInv', Next, AllWell' PROVE Store!Next \/ UNCHANGED Store!vars
  BY DEF vars, contextVars, systemVars, Store!vars, Store!Next, AllWell
<1>1. AllWell /\ WellInv /\ WellInv'
  BY StaysBroken DEF IInv
<1>2. Store!Open \/ Store!Change \/ Store!Note \/ Store!Keep \/ Store!Stop \/ Store!Exit
          \/ Store!Kill \/ Store!Restart => Store!Next
  BY <1>1 DEF Store!Next
<1>3. UNCHANGED <<live, owed, saved, due>> => UNCHANGED Store!vars
  BY <1>1 DEF Store!vars
<1>4. CASE StartLoad \/ ContextFails \/ FunctionThrows \/ PeriodicFlush \/ HookFlush
  BY <1>3, <1>4 DEF StartLoad, ContextFails, FunctionThrows, PeriodicFlush, HookFlush,
     contextVars, systemVars
<1>5. CASE Cancel
  BY <1>5 DEF Cancel, AllWell
<1>6. CASE ContextCreated
  <2>1. call[Loader].job = "load"
    BY <1>6, ThreadAssumption DEF ContextCreated, IInv, CallInv, In, NoCall
  <2>2. live = NoContext /\ live' = saved /\ owed' = saved
    BY <1>1, <1>6, <2>1 DEF ContextCreated, IInv, EngineInv, WellInv, LoadInv
  <2>3. due = 0
    <3>1. process # "down"
      BY <2>1, ThreadAssumption DEF IInv, ProcessInv
    <3>2. process \in {"up", "stopping", "flushing"}
      BY <3>1 DEF IInv, Typed
    <3> QED BY <1>1, <2>2, <3>2 DEF WellInv, DueInv
  <2>4. Store!Open
    BY <1>6, <2>2, <2>3 DEF ContextCreated, Store!Open
  <2> QED BY <1>2, <2>4
<1>7. CASE Bootstrap \/ Change
  <2>1. live # NoContext /\ live' \in live .. live + 1 /\ UNCHANGED <<owed, saved, due>>
    BY <1>7 DEF Bootstrap, Change, MayChange
  <2>2. live' = live \/ live' = live + 1
    BY <2>1, BoundAssumption DEF IInv, Typed
  <2>3. CASE live' = live
    BY <1>3, <2>1, <2>3
  <2>4. CASE live' = live + 1
    <3>1. Store!Change
      BY <2>1, <2>4 DEF Store!Change
    <3> QED BY <1>2, <3>1
  <2> QED BY <2>2, <2>3, <2>4
<1>8. CASE NotifyChange
  <2>1. engine = contexts /\ live # NoContext
    BY <1>1, <1>8 DEF NotifyChange, WellInv, FlushInv
  <2>2. Store!Note
    BY <1>8, <2>1 DEF NotifyChange, Owe, Alive, Store!Note
  <2> QED BY <1>2, <2>2
<1>9. CASE Shutdown
  <2>1. due = 0 /\ due' = owed /\ UNCHANGED <<live, owed, saved>>
    BY <1>1, <1>9 DEF Shutdown, WellInv, DueInv, contextVars
  <2>2. CASE live = NoContext
    BY <1>3, <2>1, <2>2 DEF IInv, EngineInv
  <2>3. CASE live # NoContext
    <3>1. Store!Stop
      BY <2>1, <2>3 DEF Store!Stop
    <3> QED BY <1>2, <3>1
  <2> QED BY <2>2, <2>3
<1>10. ASSUME NEW t \in Thread, Work(t), ~Write(t) PROVE UNCHANGED <<live, owed, saved, due>>
  BY <1>10 DEF Work, Serialise, CannotSerialise, ContextClosed, Open, Remove, Read,
     FileError, contextVars, systemVars
<1>11. ASSUME NEW t \in Thread, Write(t) PROVE Store!Next \/ UNCHANGED Store!vars
  BY <1>1, <1>2, <1>3, <1>11, WriteIsKept
<1>12. CASE Exit
  <2>1. process' = "down" /\ live' = NoContext /\ owed' = 0 /\ UNCHANGED <<saved, due>>
    BY <1>12 DEF Exit, Halt
  <2>2. saved >= due
    <3>1. due # 0 => saved' >= due'
      BY <1>1, <2>1 DEF WellInv, DueInv
    <3> QED BY <2>1, <3>1, BoundAssumption DEF IInv, Typed
  <2>3. Store!Exit
    BY <2>1, <2>2 DEF Store!Exit
  <2> QED BY <1>2, <2>3
<1>13. CASE Crash
  <2>1. Store!Kill
    BY <1>13 DEF Crash, Halt, Store!Kill
  <2> QED BY <1>2, <2>1
<1>14. CASE Restart
  <2>1. Store!Restart
    BY <1>14 DEF Restart, IInv, ProcessInv, contextVars, Store!Restart
  <2> QED BY <1>2, <2>1
<1> QED BY <1>3, <1>4, <1>5, <1>6, <1>7, <1>8, <1>9, <1>10, <1>11, <1>12, <1>13,
       <1>14 DEF Next

(* Barring mishaps, what a client sees of the state is a store's: whatever *)
(* was saved last is what the next context begins with, across any number  *)
(* of shutdowns, kills and restarts.                                       *)
THEOREM Refinement == Spec => ImplementsStore
<1>1. Spec => Store!Spec
  BY InitStore, NextStore, Invariant, PTL DEF Spec, Store!Spec
<1> QED BY <1>1 DEF ImplementsStore
=============================================================================
