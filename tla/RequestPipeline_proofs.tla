----------------------- MODULE RequestPipeline_proofs -----------------------
(***************************************************************************)
(* Theorems about RequestPipeline, for any set of requests.  The inductive *)
(* invariant relates where a request's code is to what was done for it.    *)
(***************************************************************************)
EXTENDS RequestPipeline, TLAPS, SequenceTheorems

(* Responses: a request is answered when its code is past the response. *)
SentInv ==
    \A r \in Request :
        IF pc[r] \in {"recording", "done", "leaked"} THEN Len(sent[r]) = 1
                                                     ELSE sent[r] = <<>>

(* The event loop still works only for requests it has read. *)
ReadingInv == \A r \in reading : pc[r] # "idle"

(* The engine's queue holds tasks that wait, each once. *)
QueueInv ==
    /\ \A i \in DOMAIN engineQueue : pc[engineQueue[i]] = "queued"
    /\ \A i, j \in DOMAIN engineQueue :
           engineQueue[i] = engineQueue[j] => i = j

(* Who called handleRequestFailure, and what it has emitted. *)
FailureInv ==
    \A r \in Request :
        /\ pc[r] \in {"idle", "refused", "submitted", "handling"} => caller[r] = "none"
        /\ pc[r] = "catchAll" => caller[r] \in {"none", "handleRequest"}
        /\ pc[r] = "answering" => Recorded(r, "failure")

(* What was given to the delayed responder waits there, is completed or    *)
(* answered by it, or is over.                                             *)
TimedInv ==
    \A r \in Request :
        /\ pc[r] = "timer" => r \in timed
        /\ r \in timed => pc[r] \in {"timer", "completing", "recording", "failing",
                                    "answering", "done"}
        /\ r \in timed /\ pc[r] \in {"failing", "answering"}
               => caller[r] \in {"timeout", "convertResponse"}

IInv ==
    /\ TypeOK
    /\ SentInv
    /\ ReadingInv
    /\ RefCountAccounting
    /\ QueueInv
    /\ TimedInv
    /\ ThreadOwnership
    /\ FailureInv
    /\ FailureRecordedFirst
-----------------------------------------------------------------------------
LEMMA InitIInv == Init => IInv
  BY RequestAssumption
  DEF Init, IInv, TypeOK, SentInv, ReadingInv, RefCountAccounting, QueueInv,
      TimedInv, ThreadOwnership, FailureInv, FailureRecordedFirst, Received, Answered,
      Recorded, OnEngine, OnResponder, Places, Faults, Callers
-----------------------------------------------------------------------------
(* What Append does to a sequence's length and elements. *)
LEMMA AppendFacts ==
  ASSUME NEW S, NEW seq \in Seq(S), NEW e \in S
  PROVE  /\ Append(seq, e) \in Seq(S)
         /\ Len(seq) \in Nat
         /\ DOMAIN seq = 1 .. Len(seq)
         /\ DOMAIN Append(seq, e) = 1 .. Len(seq) + 1
         /\ Append(seq, e)[Len(seq) + 1] = e
         /\ \A i \in DOMAIN seq : Append(seq, e)[i] = seq[i] /\ seq[i] \in S
  OBVIOUS

(* Responding to a request that has no response yet writes the only one. *)
LEMMA RespondOnce ==
  ASSUME IInv, NEW r \in Request, NEW kind \in {"success", "error"},
         pc[r] \notin {"idle", "recording", "done", "leaked"}, Respond(r, kind),
         reading' = reading
  PROVE  /\ sent' = [sent EXCEPT ![r] = <<kind>>]
         /\ sent' \in [Request -> Seq({"success", "error"})]
         /\ refCnt' \in [Request -> Nat]
         /\ refCnt'[r] = IF r \in reading THEN 1 ELSE 0
         /\ \A q \in Request \ {r} : refCnt'[q] = refCnt[q]
<1>1. sent[r] = <<>>
  BY DEF IInv, SentInv
<1>2. sent' = [sent EXCEPT ![r] = <<kind>>]
  BY <1>1 DEF Respond
<1>3. <<kind>> \in Seq({"success", "error"})
  OBVIOUS
<1>4. refCnt[r] = IF r \in reading THEN 2 ELSE 1
  BY <1>1 DEF IInv, RefCountAccounting, Received, Answered
<1>5. refCnt' = [refCnt EXCEPT ![r] = @ - 1]
  BY DEF Respond
<1> QED
  BY <1>2, <1>3, <1>4, <1>5 DEF IInv, TypeOK

(* The accounting after a response, wherever the code goes next. *)
LEMMA RespondAccounting ==
  ASSUME IInv, NEW r \in Request, NEW kind \in {"success", "error"},
         pc[r] \notin {"idle", "recording", "done", "leaked"}, Respond(r, kind),
         reading' = reading,
         NEW place \in {"recording", "done"}, Goto(r, place)
  PROVE  SentInv' /\ ReadingInv' /\ RefCountAccounting'
<1>1. /\ sent' = [sent EXCEPT ![r] = <<kind>>]
      /\ refCnt'[r] = IF r \in reading THEN 1 ELSE 0
      /\ \A q \in Request \ {r} : refCnt'[q] = refCnt[q]
  BY RespondOnce
<1>2. pc' = [pc EXCEPT ![r] = place]
  BY DEF Goto
<1>3. SentInv'
  BY <1>1, <1>2 DEF IInv, TypeOK, SentInv
<1>4. ReadingInv'
  BY <1>2 DEF IInv, TypeOK, ReadingInv
<1>5. RefCountAccounting'
  BY <1>1, <1>2 DEF IInv, TypeOK, RefCountAccounting, Received, Answered
<1> QED
  BY <1>3, <1>4, <1>5

(* An emitted activity message stays emitted. *)
LEMMA RecordGrows ==
  ASSUME IInv, NEW r \in Request, NEW kind \in {"success", "failure"},
         Record(r, kind)
  PROVE  /\ activity' \in [Request -> Seq({"success", "failure"})]
         /\ Recorded(r, kind)'
         /\ \A q \in Request, k \in {"success", "failure"} :
                Recorded(q, k) => Recorded(q, k)'
<1> DEFINE new == Append(activity[r], kind)
<1>1. activity \in [Request -> Seq({"success", "failure"})]
  BY DEF IInv, TypeOK
<1>2. /\ new \in Seq({"success", "failure"})
      /\ DOMAIN new = 1 .. Len(activity[r]) + 1
      /\ new[Len(activity[r]) + 1] = kind
      /\ \A i \in DOMAIN activity[r] : i \in DOMAIN new /\ new[i] = activity[r][i]
  BY <1>1
<1>3. activity' = [activity EXCEPT ![r] = new]
  BY DEF Record
<1>4. Len(activity[r]) + 1 \in DOMAIN new
  BY <1>1, <1>2
<1> HIDE DEF new
<1> QED
  BY <1>1, <1>2, <1>3, <1>4 DEF Recorded

(* Entering handleRequestFailure with no response written. *)
LEMMA FailKeepsAudit ==
  ASSUME IInv, NEW r \in Request, NEW throwable \in Faults,
         NEW by \in Callers, pc[r] \notin {"recording", "done", "leaked"},
         Fail(r, throwable, by), UNCHANGED <<sent, activity>>
  PROVE  /\ pc' \in [Request -> Places]
         /\ fault' \in [Request -> Faults]
         /\ caller' \in [Request -> Callers]
         /\ FailureInv'
         /\ FailureRecordedFirst'
<1>1. sent[r] = <<>>
  BY DEF IInv, SentInv
<1>2. /\ pc' = [pc EXCEPT ![r] = "failing"]
      /\ fault' = [fault EXCEPT ![r] = throwable]
      /\ caller' = [caller EXCEPT ![r] = by]
  BY DEF Fail, Goto
<1>3. pc' \in [Request -> Places] /\ fault' \in [Request -> Faults]
      /\ caller' \in [Request -> Callers]
  BY <1>2 DEF IInv, TypeOK, Places
<1>4. FailureInv'
  BY <1>2 DEF IInv, TypeOK, FailureInv, Recorded
<1>5. FailureRecordedFirst'
  BY <1>1, <1>2 DEF IInv, TypeOK, FailureRecordedFirst, Answered, Recorded
<1> QED
  BY <1>3, <1>4, <1>5
-----------------------------------------------------------------------------
LEMMA NextIInv == IInv /\ [Next]_vars => IInv'
<1> SUFFICES ASSUME IInv, [Next]_vars PROVE IInv'
  OBVIOUS
<1> USE RequestAssumption DEF IInv
<1>0. CASE UNCHANGED vars
  BY <1>0 DEF vars, TypeOK, SentInv, ReadingInv, RefCountAccounting, QueueInv,
      TimedInv, ThreadOwnership, FailureInv, FailureRecordedFirst, Received, Answered,
      Recorded, OnEngine, OnResponder
<1>1. ASSUME NEW r \in Request, ChannelRead(r) PROVE IInv'
  <2> USE <1>1 DEF ChannelRead, Goto
  <2>1. TypeOK'
    BY DEF TypeOK, Places, Faults, Callers, RefCountAccounting
  <2>2. SentInv' /\ ReadingInv'
    BY DEF TypeOK, SentInv, ReadingInv
  <2>6. RefCountAccounting'
    <3>1. sent[r] = <<>> /\ r \notin reading
      BY DEF SentInv, ReadingInv
    <3>2. /\ pc' = [pc EXCEPT ![r] = "submitted"]
          /\ refCnt' = [refCnt EXCEPT ![r] = 2]
          /\ reading' = reading \cup {r}
          /\ sent' = sent
      OBVIOUS
    <3> QED
      BY <3>1, <3>2 DEF TypeOK, RefCountAccounting, Received, Answered
  <2>3. QueueInv'
    BY DEF TypeOK, QueueInv
  <2>4. TimedInv' /\ ThreadOwnership'
    BY DEF TypeOK, QueueInv, TimedInv, ThreadOwnership, OnEngine, OnResponder
  <2>5. FailureInv' /\ FailureRecordedFirst'
    BY DEF TypeOK, FailureInv, FailureRecordedFirst, Answered, Recorded
  <2> QED
    BY <2>1, <2>2, <2>3, <2>4, <2>5, <2>6
<1>2. ASSUME NEW r \in Request, ChannelReadReturns(r) PROVE IInv'
  <2>6. refCnt[r] \in Nat \ {0}
    BY <1>2 DEF ChannelReadReturns, TypeOK, RefCountAccounting
  <2> USE <1>2 DEF ChannelReadReturns
  <2>1. TypeOK'
    <3>1. refCnt' \in [Request -> Nat]
      BY <2>6 DEF TypeOK
    <3> QED
      BY <3>1 DEF TypeOK
  <2>2. SentInv' /\ ReadingInv' /\ RefCountAccounting'
    BY DEF TypeOK, SentInv, ReadingInv, RefCountAccounting, Received, Answered
  <2>3. QueueInv'
    BY DEF TypeOK, QueueInv
  <2>4. TimedInv' /\ ThreadOwnership'
    BY DEF TypeOK, QueueInv, TimedInv, ThreadOwnership, OnEngine, OnResponder
  <2>5. FailureInv' /\ FailureRecordedFirst'
    BY DEF TypeOK, FailureInv, FailureRecordedFirst, Answered, Recorded
  <2> QED
    BY <2>1, <2>2, <2>3, <2>4, <2>5
<1>3. ASSUME NEW r \in Request, ConvertRequest(r) PROVE IInv'
  <2> USE <1>3 DEF ConvertRequest, Goto
  <2>1. TypeOK'
    BY DEF TypeOK, Places, Faults, Callers, RefCountAccounting
  <2>2. SentInv' /\ ReadingInv' /\ RefCountAccounting'
    BY DEF TypeOK, SentInv, ReadingInv, RefCountAccounting, Received, Answered
  <2>3. QueueInv'
    BY DEF TypeOK, QueueInv
  <2>4. TimedInv' /\ ThreadOwnership'
    BY DEF TypeOK, QueueInv, TimedInv, ThreadOwnership, OnEngine, OnResponder
  <2>5. FailureInv' /\ FailureRecordedFirst'
    BY DEF TypeOK, FailureInv, FailureRecordedFirst, Answered, Recorded
  <2> QED
    BY <2>1, <2>2, <2>3, <2>4, <2>5
<1>4. ASSUME NEW r \in Request, RejectRequest(r) PROVE IInv'
  <2>0. PICK t \in Faults, by \in {"handleRequest"} : Fail(r, t, by)
    BY <1>4 DEF RejectRequest, Thrown, Faults
  <2>7. /\ pc' \in [Request -> Places] /\ fault' \in [Request -> Faults]
        /\ caller' \in [Request -> Callers]
        /\ FailureInv' /\ FailureRecordedFirst'
    BY <1>4, <2>0, FailKeepsAudit DEF RejectRequest, Callers
  <2> USE <1>4 DEF RejectRequest, Goto, Fail
  <2>1. TypeOK'
    BY <2>7 DEF TypeOK
  <2>2. SentInv' /\ ReadingInv' /\ RefCountAccounting'
    BY DEF TypeOK, SentInv, ReadingInv, RefCountAccounting, Received, Answered
  <2>3. QueueInv'
    BY DEF TypeOK, QueueInv
  <2>4. TimedInv' /\ ThreadOwnership'
    <3>1. /\ r \notin timed /\ UNCHANGED <<engine, delayed, timed>>
          /\ pc' = [pc EXCEPT ![r] = "failing"] /\ caller' = [caller EXCEPT ![r] = by]
          /\ pc[r] = "handling" /\ by = "handleRequest"
      BY <2>0 DEF TimedInv
    <3>2. TimedInv'
      BY <3>1 DEF TypeOK, TimedInv
    <3>3. ThreadOwnership'
      BY <3>1 DEF TypeOK, ThreadOwnership, OnEngine, OnResponder
    <3> QED
      BY <3>2, <3>3
  <2>5. FailureInv' /\ FailureRecordedFirst'
    BY <2>7
  <2> QED
    BY <2>1, <2>2, <2>3, <2>4, <2>5
<1>5. ASSUME NEW r \in Request, ScheduleTimeout(r) PROVE IInv'
  <2> USE <1>5 DEF ScheduleTimeout, Goto
  <2>1. TypeOK'
    BY DEF TypeOK, Places, Faults, Callers, RefCountAccounting
  <2>2. SentInv' /\ ReadingInv' /\ RefCountAccounting'
    BY DEF TypeOK, SentInv, ReadingInv, RefCountAccounting, Received, Answered
  <2>3. QueueInv'
    BY DEF TypeOK, QueueInv
  <2>4. TimedInv' /\ ThreadOwnership'
    BY DEF TypeOK, QueueInv, TimedInv, ThreadOwnership, OnEngine, OnResponder
  <2>5. FailureInv' /\ FailureRecordedFirst'
    BY DEF TypeOK, FailureInv, FailureRecordedFirst, Answered, Recorded
  <2> QED
    BY <2>1, <2>2, <2>3, <2>4, <2>5
<1>6. ASSUME NEW r \in Request, HandleEngineRequest(r) PROVE IInv'
  <2> USE <1>6 DEF HandleEngineRequest, Goto
  <2>1. TypeOK'
    BY DEF TypeOK, Places, Faults, Callers, RefCountAccounting
  <2>2. SentInv' /\ ReadingInv' /\ RefCountAccounting'
    BY DEF TypeOK, SentInv, ReadingInv, RefCountAccounting, Received, Answered
  <2>3. QueueInv'
    <3>1. \A i \in DOMAIN engineQueue : engineQueue[i] # r
      BY DEF QueueInv
    <3>2. engineQueue \in Seq(Request) /\ engineQueue' = Append(engineQueue, r)
      BY DEF TypeOK
    <3>3. /\ DOMAIN engineQueue = 1 .. Len(engineQueue)
          /\ DOMAIN engineQueue' = 1 .. Len(engineQueue) + 1
          /\ Len(engineQueue) \in Nat
          /\ engineQueue'[Len(engineQueue) + 1] = r
          /\ \A i \in DOMAIN engineQueue :
                 engineQueue'[i] = engineQueue[i] /\ engineQueue[i] \in Request
      BY <3>2, AppendFacts
    <3>4. \A i \in DOMAIN engineQueue' :
             i \in DOMAIN engineQueue \/ i = Len(engineQueue) + 1
      BY <3>3
    <3>5. pc' = [pc EXCEPT ![r] = "queued"] /\ pc \in [Request -> Places]
      BY DEF TypeOK
    <3>6. \A i \in DOMAIN engineQueue' : pc'[engineQueue'[i]] = "queued"
      BY <3>3, <3>4, <3>5 DEF QueueInv
    <3>7. ASSUME NEW i \in DOMAIN engineQueue', NEW j \in DOMAIN engineQueue',
                 engineQueue'[i] = engineQueue'[j]
          PROVE  i = j
      BY <3>1, <3>3, <3>4, <3>7 DEF QueueInv
    <3> QED
      BY <3>6, <3>7 DEF QueueInv
  <2>4. TimedInv' /\ ThreadOwnership'
    BY DEF TypeOK, QueueInv, TimedInv, ThreadOwnership, OnEngine, OnResponder
  <2>5. FailureInv' /\ FailureRecordedFirst'
    BY DEF TypeOK, FailureInv, FailureRecordedFirst, Answered, Recorded
  <2> QED
    BY <2>1, <2>2, <2>3, <2>4, <2>5
<1>7. ASSUME NEW r \in Request, EngineTake(r) PROVE IInv'
  <2> USE <1>7 DEF EngineTake, Goto
  <2>1. TypeOK'
    BY DEF TypeOK, Places, Faults, Callers, RefCountAccounting
  <2>6. pc[r] = "queued" /\ pc' = [pc EXCEPT ![r] = "running"]
    BY DEF TypeOK, QueueInv
  <2>2. SentInv' /\ ReadingInv' /\ RefCountAccounting'
    BY <2>6 DEF TypeOK, SentInv, ReadingInv, RefCountAccounting, Received, Answered
  <2>3. QueueInv'
    <3>1. /\ DOMAIN engineQueue = 1 .. Len(engineQueue)
          /\ Len(engineQueue) \in Nat \ {0}
          /\ DOMAIN engineQueue' = 1 .. Len(engineQueue) - 1
          /\ \A i \in DOMAIN engineQueue' : engineQueue'[i] = engineQueue[i + 1]
          /\ \A i \in DOMAIN engineQueue : engineQueue[i] \in Request
          /\ r = engineQueue[1]
      BY DEF TypeOK
    <3>2. \A i \in DOMAIN engineQueue' :
             i + 1 \in DOMAIN engineQueue /\ i + 1 # 1
      BY <3>1
    <3>3. \A i \in DOMAIN engineQueue' : engineQueue'[i] # r
      BY <3>1, <3>2 DEF QueueInv
    <3>4. pc \in [Request -> Places] /\ pc' = [pc EXCEPT ![r] = "running"]
      BY <2>6 DEF TypeOK
    <3>5. ASSUME NEW i \in DOMAIN engineQueue'
          PROVE  pc'[engineQueue'[i]] = "queued"
      BY <3>1, <3>2, <3>3, <3>4 DEF QueueInv
    <3>6. ASSUME NEW i \in DOMAIN engineQueue', NEW j \in DOMAIN engineQueue',
                 engineQueue'[i] = engineQueue'[j]
          PROVE  i = j
      <4>1. engineQueue[i + 1] = engineQueue[j + 1]
        BY <3>1, <3>6
      <4>2. i + 1 = j + 1
        BY <3>2, <4>1 DEF QueueInv
      <4> QED
        BY <3>1, <4>2
    <3> HIDE <1>7
    <3> QED
      BY <3>5, <3>6 DEF QueueInv
  <2>4. TimedInv' /\ ThreadOwnership'
    BY DEF TypeOK, QueueInv, TimedInv, ThreadOwnership, OnEngine, OnResponder
  <2>5. FailureInv' /\ FailureRecordedFirst'
    BY <2>6 DEF TypeOK, FailureInv, FailureRecordedFirst, Answered, Recorded
  <2> QED
    BY <2>1, <2>2, <2>3, <2>4, <2>5
<1>8. ASSUME NEW r \in Request, EngineRespond(r) PROVE IInv'
  <2> USE <1>8 DEF EngineRespond, Goto, Leave
  <2>1. TypeOK'
    BY DEF TypeOK, Places, Faults, Callers, RefCountAccounting
  <2>2. SentInv' /\ ReadingInv' /\ RefCountAccounting'
    BY DEF TypeOK, SentInv, ReadingInv, RefCountAccounting, Received, Answered
  <2>3. QueueInv'
    BY DEF TypeOK, QueueInv
  <2>4. TimedInv' /\ ThreadOwnership'
    <3>1. r \notin timed /\ engine = r /\ delayed # r
      BY DEF TimedInv, ThreadOwnership, OnEngine, OnResponder
    <3>2. /\ \/ pc' = [pc EXCEPT ![r] = "completing"] /\ timed' = timed
             \/ pc' = [pc EXCEPT ![r] = "timer"] /\ timed' = timed \cup {r}
          /\ engine' = NoRequest /\ delayed' = delayed /\ caller' = caller
      BY <3>1
    <3>3. TimedInv'
      BY <3>1, <3>2 DEF TypeOK, TimedInv
    <3>4. \A q \in Request : engine' # q /\ ~OnEngine(q)'
      BY <3>1, <3>2 DEF TypeOK, ThreadOwnership, OnEngine
    <3>5. \A q \in Request : delayed' = q <=> OnResponder(q)'
      BY <3>1, <3>2 DEF TypeOK, ThreadOwnership, OnResponder
    <3> QED
      BY <3>3, <3>4, <3>5 DEF ThreadOwnership
  <2>5. FailureInv' /\ FailureRecordedFirst'
    BY DEF TypeOK, FailureInv, FailureRecordedFirst, Answered, Recorded
  <2> QED
    BY <2>1, <2>2, <2>3, <2>4, <2>5
<1>9. ASSUME NEW r \in Request, EngineThrow(r) PROVE IInv'
  <2>0. PICK t \in Faults, by \in {"doRun", "call"} : Fail(r, t, by)
    BY <1>9 DEF EngineThrow, Thrown, Faults
  <2>7. /\ pc' \in [Request -> Places] /\ fault' \in [Request -> Faults]
        /\ caller' \in [Request -> Callers]
        /\ FailureInv' /\ FailureRecordedFirst'
    BY <1>9, <2>0, FailKeepsAudit DEF EngineThrow, Callers
  <2> USE <1>9 DEF EngineThrow, Goto, Fail
  <2>1. TypeOK'
    BY <2>7 DEF TypeOK
  <2>2. SentInv' /\ ReadingInv' /\ RefCountAccounting'
    BY DEF TypeOK, SentInv, ReadingInv, RefCountAccounting, Received, Answered
  <2>3. QueueInv'
    BY DEF TypeOK, QueueInv
  <2>4. TimedInv' /\ ThreadOwnership'
    <3>1. /\ r \notin timed /\ UNCHANGED <<engine, delayed, timed>>
          /\ pc' = [pc EXCEPT ![r] = "failing"] /\ caller' = [caller EXCEPT ![r] = by]
          /\ pc[r] = "running" /\ by \in {"doRun", "call"}
      BY <2>0 DEF TimedInv
    <3>2. TimedInv'
      BY <3>1 DEF TypeOK, TimedInv
    <3>3. ThreadOwnership'
      BY <3>1 DEF TypeOK, ThreadOwnership, OnEngine, OnResponder
    <3> QED
      BY <3>2, <3>3
  <2>5. FailureInv' /\ FailureRecordedFirst'
    BY <2>7
  <2> QED
    BY <2>1, <2>2, <2>3, <2>4, <2>5
<1>10. ASSUME NEW r \in Request, TimerFires(r) PROVE IInv'
  <2> USE <1>10 DEF TimerFires, Goto, Fail
  <2>1. TypeOK'
    BY DEF TypeOK, Places, Faults, Callers, RefCountAccounting
  <2>2. SentInv' /\ ReadingInv' /\ RefCountAccounting'
    BY DEF TypeOK, SentInv, ReadingInv, RefCountAccounting, Received, Answered
  <2>3. QueueInv'
    BY DEF TypeOK, QueueInv
  <2>4. TimedInv' /\ ThreadOwnership'
    <3>1. \/ pc' = [pc EXCEPT ![r] = "failing"] /\ caller' = [caller EXCEPT ![r] = "timeout"]
          \/ pc' = [pc EXCEPT ![r] = "completing"] /\ caller' = caller
      OBVIOUS
    <3>2. /\ r \in timed /\ pc[r] = "timer" /\ engine # r
          /\ engine' = engine /\ delayed = NoRequest /\ delayed' = r /\ timed' = timed
      BY DEF TimedInv, ThreadOwnership, OnEngine
    <3>3. TimedInv'
      BY <3>1, <3>2 DEF TypeOK, TimedInv
    <3>4. ThreadOwnership'
      BY <3>1, <3>2 DEF TypeOK, ThreadOwnership, OnEngine, OnResponder
    <3> QED
      BY <3>3, <3>4
  <2>5. FailureInv' /\ FailureRecordedFirst'
    <3>1. CASE fault[r] = "override" /\ Fail(r, "override", "timeout")
      BY <3>1, FailKeepsAudit DEF Faults, Callers
    <3>2. CASE Goto(r, "completing") /\ UNCHANGED caller
      BY <3>2 DEF TypeOK, FailureInv, FailureRecordedFirst, Answered, Recorded
    <3> QED
      BY <3>1, <3>2
  <2> QED
    BY <2>1, <2>2, <2>3, <2>4, <2>5
<1>11. ASSUME NEW r \in Request, CompleteRequest(r) PROVE IInv'
  <2>0. PICK place \in {"recording"} : Goto(r, place)
    BY <1>11 DEF CompleteRequest, Leave
  <2>7. Respond(r, "success") /\ reading' = reading
        /\ pc[r] \notin {"idle", "recording", "done", "leaked"}
    BY <1>11 DEF CompleteRequest
  <2> USE <1>11 DEF CompleteRequest, Goto, Respond
  <2>1. TypeOK'
    <3>1. sent' \in [Request -> Seq({"success", "error"})]
          /\ refCnt' \in [Request -> Nat]
      BY <2>7, RespondOnce
    <3> QED
      BY <3>1 DEF TypeOK, Places
  <2>2. SentInv' /\ ReadingInv' /\ RefCountAccounting'
    BY <2>0, <2>7, RespondAccounting
  <2>3. QueueInv'
    BY DEF TypeOK, QueueInv
  <2>4. TimedInv' /\ ThreadOwnership'
    BY DEF TypeOK, QueueInv, TimedInv, ThreadOwnership, OnEngine, OnResponder
  <2>5. FailureInv' /\ FailureRecordedFirst'
    BY DEF TypeOK, FailureInv, FailureRecordedFirst, Answered, Recorded
  <2> QED
    BY <2>1, <2>2, <2>3, <2>4, <2>5
<1>12. ASSUME NEW r \in Request, CompletionThrows(r) PROVE IInv'
  <2>0. PICK t \in Faults, by \in {"convertResponse"} : Fail(r, t, by)
    BY <1>12 DEF CompletionThrows, Thrown, Faults
  <2>7. /\ pc' \in [Request -> Places] /\ fault' \in [Request -> Faults]
        /\ caller' \in [Request -> Callers]
        /\ FailureInv' /\ FailureRecordedFirst'
    BY <1>12, <2>0, FailKeepsAudit DEF CompletionThrows, Callers
  <2> USE <1>12 DEF CompletionThrows, Goto, Fail
  <2>1. TypeOK'
    BY <2>7 DEF TypeOK
  <2>2. SentInv' /\ ReadingInv' /\ RefCountAccounting'
    BY DEF TypeOK, SentInv, ReadingInv, RefCountAccounting, Received, Answered
  <2>3. QueueInv'
    BY DEF TypeOK, QueueInv
  <2>4. TimedInv' /\ ThreadOwnership'
    BY DEF TypeOK, QueueInv, TimedInv, ThreadOwnership, OnEngine, OnResponder
  <2>5. FailureInv' /\ FailureRecordedFirst'
    BY <2>7
  <2> QED
    BY <2>1, <2>2, <2>3, <2>4, <2>5
<1>13. ASSUME NEW r \in Request, RecordSuccess(r) PROVE IInv'
  <2>7. /\ activity' \in [Request -> Seq({"success", "failure"})]
        /\ Recorded(r, "success")'
        /\ \A q \in Request : Recorded(q, "failure") => Recorded(q, "failure")'
    BY <1>13, RecordGrows DEF RecordSuccess
  <2> USE <1>13 DEF RecordSuccess, Goto, Leave, Record
  <2>1. TypeOK'
    BY <2>7 DEF TypeOK, Places
  <2>2. SentInv' /\ ReadingInv' /\ RefCountAccounting'
    BY DEF TypeOK, SentInv, ReadingInv, RefCountAccounting, Received, Answered
  <2>3. QueueInv'
    BY DEF TypeOK, QueueInv
  <2>4. TimedInv' /\ ThreadOwnership'
    BY DEF TypeOK, QueueInv, TimedInv, ThreadOwnership, OnEngine, OnResponder
  <2>5. FailureInv' /\ FailureRecordedFirst'
    BY <2>7 DEF TypeOK, FailureInv, FailureRecordedFirst, Answered
  <2> QED
    BY <2>1, <2>2, <2>3, <2>4, <2>5
<1>14. ASSUME NEW r \in Request, RecordFailure(r) PROVE IInv'
  <2>7. /\ activity' \in [Request -> Seq({"success", "failure"})]
        /\ Recorded(r, "failure")'
        /\ \A q \in Request : Recorded(q, "failure") => Recorded(q, "failure")'
    BY <1>14, RecordGrows DEF RecordFailure
  <2> USE <1>14 DEF RecordFailure, Goto, Record
  <2>1. TypeOK'
    BY <2>7 DEF TypeOK, Places
  <2>2. SentInv' /\ ReadingInv' /\ RefCountAccounting'
    BY DEF TypeOK, SentInv, ReadingInv, RefCountAccounting, Received, Answered
  <2>3. QueueInv'
    BY DEF TypeOK, QueueInv
  <2>4. TimedInv' /\ ThreadOwnership'
    BY DEF TypeOK, QueueInv, TimedInv, ThreadOwnership, OnEngine, OnResponder
  <2>5. FailureInv' /\ FailureRecordedFirst'
    BY <2>7 DEF TypeOK, FailureInv, FailureRecordedFirst, Answered
  <2> QED
    BY <2>1, <2>2, <2>3, <2>4, <2>5
<1>15. ASSUME NEW r \in Request, AnswerFailure(r) PROVE IInv'
  <2>0. PICK place \in {"recording", "done"} : Goto(r, place)
    BY <1>15 DEF AnswerFailure, Leave
  <2>7. Respond(r, "error") /\ reading' = reading
        /\ pc[r] \notin {"idle", "recording", "done", "leaked"}
    BY <1>15 DEF AnswerFailure
  <2> USE <1>15 DEF AnswerFailure, Goto, Leave, Respond
  <2>1. TypeOK'
    <3>1. sent' \in [Request -> Seq({"success", "error"})]
          /\ refCnt' \in [Request -> Nat]
      BY <2>7, RespondOnce
    <3> QED
      BY <3>1 DEF TypeOK, Places
  <2>2. SentInv' /\ ReadingInv' /\ RefCountAccounting'
    BY <2>0, <2>7, RespondAccounting
  <2>3. QueueInv'
    BY DEF TypeOK, QueueInv
  <2>4. TimedInv' /\ ThreadOwnership'
    <3>1. \/ /\ pc' = [pc EXCEPT ![r] = "recording"] /\ caller[r] = "convertResponse"
             /\ UNCHANGED <<engine, delayed>>
          \/ /\ pc' = [pc EXCEPT ![r] = "done"] /\ caller[r] # "convertResponse"
             /\ engine' = (IF engine = r THEN NoRequest ELSE engine)
             /\ delayed' = (IF delayed = r THEN NoRequest ELSE delayed)
      OBVIOUS
    <3>2. pc[r] = "answering" /\ UNCHANGED <<caller, timed>>
      OBVIOUS
    <3> HIDE <1>15 DEF AnswerFailure, Goto, Leave, Respond
    <3>3. TimedInv'
      BY <3>1, <3>2 DEF TypeOK, TimedInv
    <3>4. \A q \in Request : engine' = q <=> OnEngine(q)'
      BY <3>1, <3>2 DEF TypeOK, ThreadOwnership, OnEngine
    <3>5. \A q \in Request : delayed' = q <=> OnResponder(q)'
      BY <3>1, <3>2 DEF TypeOK, ThreadOwnership, OnResponder
    <3> QED
      BY <3>3, <3>4, <3>5 DEF ThreadOwnership
  <2>5. FailureInv' /\ FailureRecordedFirst'
    <3>1. Recorded(r, "failure")'
      BY DEF FailureInv, Recorded
    <3>2. sent' = [sent EXCEPT ![r] = <<"error">>]
      BY <2>7, RespondOnce
    <3>3. /\ pc' = [pc EXCEPT ![r] = pc'[r]] /\ pc'[r] \in {"recording", "done"}
          /\ UNCHANGED <<caller, activity>>
      BY DEF TypeOK
    <3>4. FailureInv'
      <4>1. PICK next \in {"recording", "done"} : pc' = [pc EXCEPT ![r] = next]
        BY <3>3
      <4>2. \A q \in Request : Recorded(q, "failure")' <=> Recorded(q, "failure")
        BY <3>3 DEF Recorded
      <4> HIDE <1>15 DEF AnswerFailure, Goto, Leave, Respond
      <4> QED
        BY <3>3, <4>1, <4>2 DEF TypeOK, FailureInv
    <3>5. FailureRecordedFirst'
      BY <3>1, <3>2, <3>3 DEF TypeOK, FailureRecordedFirst, Answered, Recorded
    <3> QED
      BY <3>4, <3>5
  <2> QED
    BY <2>1, <2>2, <2>3, <2>4, <2>5
<1>16. ASSUME NEW r \in Request, FailureThrows(r) PROVE IInv'
  <2> USE <1>16 DEF FailureThrows, Goto, Leave
  <2>1. TypeOK'
    BY DEF TypeOK, Places, Faults, Callers, RefCountAccounting
  <2>2. SentInv' /\ ReadingInv' /\ RefCountAccounting'
    BY DEF TypeOK, SentInv, ReadingInv, RefCountAccounting, Received, Answered
  <2>3. QueueInv'
    BY DEF TypeOK, QueueInv
  <2>4. TimedInv' /\ ThreadOwnership'
    <3>1. /\ pc[r] = "failing" /\ UNCHANGED timed
          /\ \/ /\ caller[r] = "handleRequest" /\ pc' = [pc EXCEPT ![r] = "catchAll"]
                /\ UNCHANGED <<caller, engine, delayed>>
             \/ /\ caller[r] = "doRun" /\ caller' = [caller EXCEPT ![r] = "call"]
                /\ UNCHANGED <<pc, engine, delayed>>
             \/ /\ caller[r] = "call" /\ pc' = [pc EXCEPT ![r] = "lost"]
                /\ engine' = (IF engine = r THEN NoRequest ELSE engine)
                /\ delayed' = (IF delayed = r THEN NoRequest ELSE delayed)
                /\ UNCHANGED caller
      OBVIOUS
    <3>2. r \notin timed
      BY <3>1 DEF TimedInv
    <3> HIDE <1>16 DEF FailureThrows, Goto, Leave
    <3>3. TimedInv'
      BY <3>1, <3>2 DEF TypeOK, TimedInv
    <3>4. \A q \in Request : engine' = q <=> OnEngine(q)'
      BY <3>1 DEF TypeOK, ThreadOwnership, OnEngine
    <3>5. \A q \in Request : delayed' = q <=> OnResponder(q)'
      BY <3>1, <3>2 DEF TypeOK, ThreadOwnership, OnResponder
    <3> QED
      BY <3>3, <3>4, <3>5 DEF ThreadOwnership
  <2>5. FailureInv' /\ FailureRecordedFirst'
    <3>1. sent[r] = <<>>
      BY DEF SentInv
    <3>2. CASE caller[r] = "handleRequest" /\ Goto(r, "catchAll") /\ UNCHANGED caller
      BY <3>2 DEF TypeOK, FailureInv, FailureRecordedFirst, Answered, Recorded
    <3>3. CASE caller' = [caller EXCEPT ![r] = "call"] /\ UNCHANGED pc
      BY <3>1, <3>3 DEF TypeOK, FailureInv, FailureRecordedFirst, Answered, Recorded
    <3>4. CASE Leave(r, "lost") /\ UNCHANGED caller
      BY <3>4 DEF TypeOK, FailureInv, FailureRecordedFirst, Answered, Recorded
    <3> QED
      BY <3>2, <3>3, <3>4
  <2> QED
    BY <2>1, <2>2, <2>3, <2>4, <2>5
<1>17. ASSUME NEW r \in Request, AnswerInternalError(r) PROVE IInv'
  <2>0. PICK place \in {"done"} : Goto(r, place)
    BY <1>17 DEF AnswerInternalError, Leave
  <2>7. Respond(r, "error") /\ reading' = reading
        /\ pc[r] \notin {"idle", "recording", "done", "leaked"}
    BY <1>17 DEF AnswerInternalError
  <2> USE <1>17 DEF AnswerInternalError, Goto, Respond
  <2>1. TypeOK'
    <3>1. sent' \in [Request -> Seq({"success", "error"})]
          /\ refCnt' \in [Request -> Nat]
      BY <2>7, RespondOnce
    <3> QED
      BY <3>1 DEF TypeOK, Places
  <2>2. SentInv' /\ ReadingInv' /\ RefCountAccounting'
    BY <2>0, <2>7, RespondAccounting
  <2>3. QueueInv'
    BY DEF TypeOK, QueueInv
  <2>4. TimedInv' /\ ThreadOwnership'
    BY DEF TypeOK, QueueInv, TimedInv, ThreadOwnership, OnEngine, OnResponder
  <2>5. FailureInv' /\ FailureRecordedFirst'
    BY DEF TypeOK, FailureInv, FailureRecordedFirst, Answered, Recorded
  <2> QED
    BY <2>1, <2>2, <2>3, <2>4, <2>5
<1>18. ASSUME NEW r \in Request, ChannelReadThrows(r) PROVE IInv'
  <2> USE <1>18 DEF ChannelReadThrows, Goto
  <2>1. TypeOK'
    BY DEF TypeOK, Places, Faults, Callers, RefCountAccounting
  <2>2. SentInv' /\ ReadingInv'
    BY DEF TypeOK, SentInv, ReadingInv
  <2>3. RefCountAccounting'
    <3>1. sent[r] = <<>> /\ r \notin reading
      BY DEF SentInv, ReadingInv
    <3>2. /\ pc' = [pc EXCEPT ![r] = "refused"]
          /\ refCnt' = [refCnt EXCEPT ![r] = 1]
          /\ reading' = reading /\ sent' = sent
      OBVIOUS
    <3> QED
      BY <3>1, <3>2 DEF TypeOK, RefCountAccounting, Received, Answered
  <2>4. QueueInv'
    BY DEF TypeOK, QueueInv
  <2>5. TimedInv' /\ ThreadOwnership'
    BY DEF TypeOK, TimedInv, ThreadOwnership, OnEngine, OnResponder
  <2>6. FailureInv' /\ FailureRecordedFirst'
    BY DEF TypeOK, FailureInv, FailureRecordedFirst, Answered, Recorded
  <2> QED
    BY <2>1, <2>2, <2>3, <2>4, <2>5, <2>6
<1>19. ASSUME NEW r \in Request, ExceptionCaught(r) PROVE IInv'
  <2> USE <1>19 DEF ExceptionCaught, Goto
  <2>0. sent[r] = <<>>
    BY DEF SentInv
  <2>1. /\ sent[r] = <<>> /\ sent' = [sent EXCEPT ![r] = <<"error">>]
        /\ pc' = [pc EXCEPT ![r] = "leaked"]
    BY <2>0
  <2>2. TypeOK'
    BY <2>1 DEF TypeOK, Places
  <2>3. SentInv' /\ ReadingInv'
    BY <2>1 DEF TypeOK, SentInv, ReadingInv
  <2>4. RefCountAccounting'
    BY <2>1 DEF TypeOK, RefCountAccounting, Received, Answered
  <2>5. QueueInv'
    BY <2>1 DEF TypeOK, QueueInv
  <2>6. TimedInv' /\ ThreadOwnership'
    BY <2>1 DEF TypeOK, TimedInv, ThreadOwnership, OnEngine, OnResponder
  <2>7. FailureInv' /\ FailureRecordedFirst'
    BY <2>1 DEF TypeOK, FailureInv, FailureRecordedFirst, Answered, Recorded
  <2> QED
    BY <2>2, <2>3, <2>4, <2>5, <2>6, <2>7
<1> QED
  BY <1>0, <1>1, <1>2, <1>3, <1>4, <1>5, <1>6, <1>7, <1>8, <1>9,
     <1>10, <1>11, <1>12, <1>13, <1>14, <1>15, <1>16, <1>17,
     <1>18, <1>19 DEF Next, Serve
-----------------------------------------------------------------------------
THEOREM Invariance == Spec => []IInv
  BY InitIInv, NextIInv, PTL DEF Spec

(* Type correctness; in particular a buffer's reference count never goes   *)
(* below zero: ReferenceCountUtil.safeRelease never fails.                 *)
THEOREM TypeCorrect == Spec => []TypeOK
<1>1. IInv => TypeOK
  BY DEF IInv
<1> QED
  BY <1>1, Invariance, PTL

(* However many requests are in flight and whatever throws, none is        *)
(* answered twice.                                                         *)
THEOREM AnsweredOnce == Spec => []AtMostOneResponse
<1>1. IInv => AtMostOneResponse
  <2> SUFFICES ASSUME IInv, NEW r \in Request PROVE Len(sent[r]) <= 1
    BY DEF AtMostOneResponse
  <2>1. CASE pc[r] \in {"recording", "done", "leaked"}
    <3>1. Len(sent[r]) = 1
      BY <2>1 DEF IInv, SentInv
    <3> QED
      BY <3>1
  <2>2. CASE pc[r] \notin {"recording", "done", "leaked"}
    <3>1. sent[r] = <<>>
      BY <2>2 DEF IInv, SentInv
    <3> QED
      BY <3>1
  <2> QED
    BY <2>1, <2>2
<1> QED
  BY <1>1, Invariance, PTL

(* The buffer's references are exactly the event loop's, that of the       *)
(* response not written yet, and that of a request channelRead0 refused ...*)
THEOREM ReferencesAccounted == Spec => []RefCountAccounting
<1>1. IInv => RefCountAccounting
  BY DEF IInv
<1> QED
  BY <1>1, Invariance, PTL

(* ... so it is still there when the IO pool or the engine reads it. *)
THEOREM BufferNotFreedEarly == Spec => []BufferHeldWhileRead
<1>1. IInv => BufferHeldWhileRead
  <2> SUFFICES ASSUME IInv, NEW r \in Request,
                      pc[r] \in {"submitted", "handling", "queued", "running"}
               PROVE  refCnt[r] > 0
    BY DEF BufferHeldWhileRead
  <2>1. Received(r) /\ ~Answered(r)
    BY DEF IInv, SentInv, Received, Answered
  <2> QED
    BY <2>1 DEF IInv, RefCountAccounting
<1> QED
  BY <1>1, Invariance, PTL

(* The engine thread and the delayed responder's are each held by the      *)
(* request whose code runs on it, and left by every way out of that code.  *)
THEOREM ThreadsOwned == Spec => []ThreadOwnership
<1>1. IInv => ThreadOwnership
  BY DEF IInv
<1> QED
  BY <1>1, Invariance, PTL

(* A failure is emitted as activity before its error is written. *)
THEOREM FailuresRecorded == Spec => []FailureRecordedFirst
<1>1. IInv => FailureRecordedFirst
  BY DEF IInv
<1> QED
  BY <1>1, Invariance, PTL
-----------------------------------------------------------------------------
(* What was emitted for a request, by where its code is: nothing before it *)
(* fails or is answered, and then what RecordedAsAnswered says.            *)
AuditInv ==
    \A r \in Request :
        /\ pc[r] \notin {"answering", "recording", "done"} => activity[r] = <<>>
        /\ pc[r] \in {"idle", "refused", "submitted", "handling", "queued", "running"}
               => fault[r] = "none"
        /\ pc[r] = "failing" => fault[r] # "none" /\ caller[r] # "none"
        /\ pc[r] = "answering" =>
               /\ activity[r] = <<"failure">>
               /\ fault[r] \notin {"none", "null"}
               /\ caller[r] # "none"
        /\ pc[r] = "recording" =>
               \/ sent[r] = <<"success">> /\ activity[r] = <<>>
               \/ /\ sent[r] = <<"error">> /\ activity[r] = <<"failure">>
                  /\ caller[r] = "convertResponse"
        /\ pc[r] = "catchAll" => fault[r] \in {"none", "null"}

Audit == AuditInv /\ RecordedAsAnswered

LEMMA AppendSecond ==
  Append(<<"failure">>, "success") = <<"failure", "success">>
<1> DEFINE S == {"failure", "success"}
           s == Append(<<"failure">>, "success")
           t == <<"failure", "success">>
<1>1. s \in Seq(S) /\ Len(s) = 2 /\ s[1] = "failure" /\ s[2] = "success"
  OBVIOUS
<1>2. t \in Seq(S) /\ Len(t) = 2 /\ t[1] = "failure" /\ t[2] = "success"
  OBVIOUS
<1> HIDE DEF S, s, t
<1>3. \A i \in 1 .. Len(s) : i = 1 \/ i = 2
  BY <1>1
<1>4. s = t
  BY <1>1, <1>2, <1>3, SeqEqual
<1> QED
  BY <1>4 DEF s, t

LEMMA InitAudit == Init => Audit
  BY DEF Init, Audit, AuditInv, RecordedAsAnswered

LEMMA NextAudit == IInv /\ Audit /\ [Next]_vars => Audit'
<1> SUFFICES ASSUME IInv, Audit, [Next]_vars PROVE Audit'
  OBVIOUS
<1> USE DEF IInv, TypeOK, Audit, Goto, Leave, Fail
<1>0. CASE UNCHANGED vars
  BY <1>0 DEF vars, AuditInv, RecordedAsAnswered
<1>1. ASSUME NEW r \in Request, ChannelRead(r) PROVE Audit'
  BY <1>1 DEF AuditInv, RecordedAsAnswered, ChannelRead
<1>2. ASSUME NEW r \in Request, ChannelReadReturns(r) PROVE Audit'
  BY <1>2 DEF AuditInv, RecordedAsAnswered, ChannelReadReturns
<1>3. ASSUME NEW r \in Request, ChannelReadThrows(r) PROVE Audit'
  BY <1>3 DEF AuditInv, RecordedAsAnswered, ChannelReadThrows
<1>4. ASSUME NEW r \in Request, ExceptionCaught(r) PROVE Audit'
  BY <1>4 DEF AuditInv, RecordedAsAnswered, ExceptionCaught
<1>5. ASSUME NEW r \in Request, ConvertRequest(r) PROVE Audit'
  BY <1>5 DEF AuditInv, RecordedAsAnswered, ConvertRequest
<1>6. ASSUME NEW r \in Request, RejectRequest(r) PROVE Audit'
  BY <1>6 DEF AuditInv, RecordedAsAnswered, RejectRequest, Thrown
<1>7. ASSUME NEW r \in Request, ScheduleTimeout(r) PROVE Audit'
  BY <1>7 DEF AuditInv, RecordedAsAnswered, ScheduleTimeout
<1>8. ASSUME NEW r \in Request, HandleEngineRequest(r) PROVE Audit'
  BY <1>8 DEF AuditInv, RecordedAsAnswered, HandleEngineRequest
<1>9. ASSUME NEW r \in Request, EngineTake(r) PROVE Audit'
  <2>1. pc[r] = "queued"
    BY <1>9 DEF QueueInv, EngineTake
  <2>2. AuditInv'
    BY <1>9, <2>1 DEF AuditInv, EngineTake
  <2>3. RecordedAsAnswered'
    BY <1>9, <2>1 DEF RecordedAsAnswered, EngineTake
  <2> QED
    BY <2>2, <2>3
<1>10. ASSUME NEW r \in Request, EngineRespond(r) PROVE Audit'
  BY <1>10 DEF AuditInv, RecordedAsAnswered, EngineRespond
<1>11. ASSUME NEW r \in Request, EngineThrow(r) PROVE Audit'
  <2>1. PICK t \in {"message", "null"}, by \in {"doRun", "call"} :
           /\ pc' = [pc EXCEPT ![r] = "failing"] /\ caller' = [caller EXCEPT ![r] = by]
           /\ fault' = [fault EXCEPT ![r] = t]
    BY <1>11 DEF EngineThrow, Thrown
  <2>2. pc[r] = "running" /\ UNCHANGED <<sent, activity>>
    BY <1>11 DEF EngineThrow
  <2>3. AuditInv'
    BY <2>1, <2>2 DEF AuditInv
  <2>4. RecordedAsAnswered'
    BY <2>1, <2>2 DEF RecordedAsAnswered
  <2> QED
    BY <2>3, <2>4
<1>12. ASSUME NEW r \in Request, TimerFires(r) PROVE Audit'
  <2>1. pc[r] = "timer" /\ UNCHANGED <<sent, activity>>
    BY <1>12 DEF TimerFires
  <2>2. CASE Fail(r, "override", "timeout")
    BY <2>1, <2>2 DEF AuditInv, RecordedAsAnswered
  <2>3. CASE Goto(r, "completing") /\ UNCHANGED <<fault, caller>>
    BY <2>1, <2>3 DEF AuditInv, RecordedAsAnswered
  <2> QED
    BY <1>12, <2>2, <2>3 DEF TimerFires
<1>13. ASSUME NEW r \in Request, CompleteRequest(r) PROVE Audit'
  <2>1. sent' = [sent EXCEPT ![r] = <<"success">>]
    BY <1>13, RespondOnce DEF CompleteRequest
  <2>2. AuditInv'
    BY <1>13, <2>1 DEF AuditInv, CompleteRequest, FailureInv
  <2>3. RecordedAsAnswered'
    BY <1>13, <2>1 DEF AuditInv, RecordedAsAnswered, CompleteRequest, FailureInv, Callers
  <2> QED
    BY <2>2, <2>3
<1>14. ASSUME NEW r \in Request, CompletionThrows(r) PROVE Audit'
  BY <1>14 DEF AuditInv, RecordedAsAnswered, CompletionThrows
<1>15. ASSUME NEW r \in Request, RecordSuccess(r) PROVE Audit'
  <2>1. pc' = [pc EXCEPT ![r] = "done"] /\ UNCHANGED <<fault, caller, sent>>
    BY <1>15 DEF RecordSuccess
  <2>2. CASE sent[r] = <<"success">> /\ activity[r] = <<>>
    <3>1. activity' = [activity EXCEPT ![r] = <<"success">>]
      BY <1>15, <2>2 DEF RecordSuccess, Record
    <3> QED
      BY <2>1, <2>2, <3>1 DEF AuditInv, RecordedAsAnswered
  <2>3. CASE /\ sent[r] = <<"error">> /\ activity[r] = <<"failure">>
             /\ caller[r] = "convertResponse"
    <3>1. activity' = [activity EXCEPT ![r] = <<"failure", "success">>]
      BY <1>15, <2>3, AppendSecond, Zenon DEF RecordSuccess, Record
    <3> QED
      BY <2>1, <2>3, <3>1 DEF AuditInv, RecordedAsAnswered
  <2> QED
    BY <1>15, <2>2, <2>3 DEF AuditInv, RecordSuccess
<1>16. ASSUME NEW r \in Request, RecordFailure(r) PROVE Audit'
  <2>1. activity' = [activity EXCEPT ![r] = <<"failure">>]
    <3>1. activity[r] = <<>> /\ activity' = [activity EXCEPT ![r] = Append(@, "failure")]
      BY <1>16 DEF AuditInv, RecordFailure, Record
    <3>2. Append(<<>>, "failure") = <<"failure">>
      OBVIOUS
    <3> QED
      BY <3>1, <3>2, Zenon
  <2>2. AuditInv'
    BY <1>16, <2>1 DEF AuditInv, RecordFailure
  <2>3. RecordedAsAnswered'
    BY <1>16, <2>1 DEF RecordedAsAnswered, RecordFailure
  <2> QED
    BY <2>2, <2>3
<1>17. ASSUME NEW r \in Request, AnswerFailure(r) PROVE Audit'
  <2>1. sent' = [sent EXCEPT ![r] = <<"error">>]
    BY <1>17, RespondOnce DEF AnswerFailure
  <2>2. AuditInv'
    BY <1>17, <2>1 DEF AuditInv, AnswerFailure, FailureInv
  <2>3. RecordedAsAnswered'
    BY <1>17, <2>1 DEF AuditInv, RecordedAsAnswered, AnswerFailure, FailureInv, Callers
  <2> QED
    BY <2>2, <2>3
<1>18. ASSUME NEW r \in Request, FailureThrows(r) PROVE Audit'
  <2>1. /\ pc[r] = "failing" /\ fault[r] = "null"
        /\ UNCHANGED <<fault, sent, activity>>
    BY <1>18 DEF FailureThrows
  <2>2. CASE Goto(r, "catchAll") /\ UNCHANGED caller
    BY <2>1, <2>2 DEF AuditInv, RecordedAsAnswered
  <2>3. CASE caller' = [caller EXCEPT ![r] = "call"] /\ UNCHANGED pc
    BY <2>1, <2>3 DEF AuditInv, RecordedAsAnswered
  <2>4. CASE Goto(r, "lost") /\ UNCHANGED caller
    BY <2>1, <2>4 DEF AuditInv, RecordedAsAnswered
  <2> QED
    BY <1>18, <2>2, <2>3, <2>4 DEF FailureThrows
<1>19. ASSUME NEW r \in Request, AnswerInternalError(r) PROVE Audit'
  <2>1. sent' = [sent EXCEPT ![r] = <<"error">>]
    BY <1>19, RespondOnce DEF AnswerInternalError
  <2>2. AuditInv'
    BY <1>19, <2>1 DEF AuditInv, AnswerInternalError, FailureInv
  <2>3. RecordedAsAnswered'
    BY <1>19, <2>1 DEF AuditInv, RecordedAsAnswered, AnswerInternalError, FailureInv, Callers
  <2> QED
    BY <2>2, <2>3
<1> QED
  BY <1>0, <1>1, <1>2, <1>3, <1>4, <1>5, <1>6, <1>7, <1>8, <1>9, <1>10, <1>11, <1>12, <1>13, <1>14, <1>15, <1>16, <1>17, <1>18, <1>19 DEF Next, Serve

(* What an ended request was answered with is what was emitted for it, but *)
(* for the two answers the property names.                                 *)
THEOREM RecordedTruly == Spec => []RecordedAsAnswered
<1>1. Audit => RecordedAsAnswered
  BY DEF Audit
<1> QED
  BY <1>1, InitAudit, NextAudit, Invariance, PTL DEF Spec
-----------------------------------------------------------------------------
LEMMA InitService == Init => Service!Init
  BY DEF Init, Service!Init, Status, Received

(* Writing a response answers a pending request; anything else leaves what *)
(* the client sees as it is, except for reading the request.               *)
LEMMA RespondIsAnswer ==
  ASSUME IInv, NEW r \in Request, NEW kind \in {"success", "error"},
         pc[r] \notin {"idle", "recording", "done", "leaked"}, Respond(r, kind),
         reading' = reading,
         NEW place \in {"recording", "done"}, Goto(r, place)
  PROVE  Service!Answer(r)
<1>1. sent[r] = <<>>
  BY DEF IInv, SentInv
<1>2. /\ sent' = [sent EXCEPT ![r] = <<kind>>]
      /\ pc' = [pc EXCEPT ![r] = place]
  BY RespondOnce DEF Goto
<1>3. Status[r] = "pending"
  BY <1>1 DEF Status, Received, Answered
<1>4. Status' = [Status EXCEPT ![r] = kind]
  BY <1>2 DEF Status, Received, Answered, IInv, TypeOK
<1> QED
  BY <1>3, <1>4 DEF Service!Answer, Service!Kinds

LEMMA StutterIsStutter ==
  ASSUME IInv, NEW r \in Request, pc[r] # "idle", sent' = sent,
         NEW place \in Places \ {"idle"}, Goto(r, place)
  PROVE  Status' = Status
  BY DEF Goto, Status, Received, Answered, IInv, TypeOK

LEMMA NextService == IInv /\ [Next]_vars => [Service!Next]_Status
<1> SUFFICES ASSUME IInv, [Next]_vars PROVE Service!Next \/ Status' = Status
  OBVIOUS
<1>0. CASE UNCHANGED vars
  BY <1>0 DEF vars, Status, Received, Answered
<1>1. ASSUME NEW r \in Request, ChannelRead(r) \/ ChannelReadThrows(r)
      PROVE  Service!Next
  <2>1. sent[r] = <<>> /\ pc[r] = "idle"
    BY <1>1 DEF ChannelRead, ChannelReadThrows, IInv, SentInv
  <2>2. PICK place \in {"submitted", "refused"} :
            pc' = [pc EXCEPT ![r] = place] /\ sent' = sent
    BY <1>1 DEF ChannelRead, ChannelReadThrows, Goto
  <2>3. Status[r] = "idle"
    BY <2>1 DEF Status, Received
  <2>4. Status' = [Status EXCEPT ![r] = "pending"]
    BY <2>1, <2>2 DEF Status, Received, Answered, IInv, TypeOK
  <2>5. Service!Receive(r)
    BY <2>3, <2>4 DEF Service!Receive
  <2> QED
    BY <2>5 DEF Service!Next
<1>2. ASSUME NEW r \in Request,
             CompleteRequest(r) \/ AnswerFailure(r) \/ AnswerInternalError(r)
      PROVE  Service!Next
  <2>1. PICK place \in {"recording", "done"} : Goto(r, place)
    BY <1>2 DEF CompleteRequest, AnswerFailure, AnswerInternalError, Leave
  <2>2. PICK kind \in {"success", "error"} : Respond(r, kind)
    BY <1>2 DEF CompleteRequest, AnswerFailure, AnswerInternalError
  <2>3. reading' = reading /\ pc[r] \notin {"idle", "recording", "done", "leaked"}
    BY <1>2 DEF CompleteRequest, AnswerFailure, AnswerInternalError
  <2>4. Service!Answer(r)
    BY <2>1, <2>2, <2>3, RespondIsAnswer
  <2> QED
    BY <2>4 DEF Service!Next
<1>3. ASSUME NEW r \in Request, ChannelReadReturns(r) PROVE Status' = Status
  BY <1>3 DEF ChannelReadReturns, Status, Received, Answered
<1>4. ASSUME NEW r \in Request,
             \/ ConvertRequest(r) \/ RejectRequest(r) \/ ScheduleTimeout(r)
             \/ HandleEngineRequest(r) \/ EngineTake(r)
      PROVE  Status' = Status
  <2>1. pc[r] # "idle" /\ sent' = sent
    BY <1>4 DEF ConvertRequest, RejectRequest, ScheduleTimeout,
        HandleEngineRequest, EngineTake, IInv, QueueInv, TypeOK
  <2>2. \E place \in Places \ {"idle"} : Goto(r, place)
    BY <1>4 DEF ConvertRequest, RejectRequest, ScheduleTimeout,
        HandleEngineRequest, EngineTake, Fail, Places
  <2> QED
    BY <2>1, <2>2, StutterIsStutter
<1>5. ASSUME NEW r \in Request,
             \/ EngineRespond(r) \/ EngineThrow(r) \/ TimerFires(r)
             \/ CompletionThrows(r) \/ RecordSuccess(r) \/ RecordFailure(r)
      PROVE  Status' = Status
  <2>1. pc[r] # "idle" /\ sent' = sent
    BY <1>5 DEF EngineRespond, EngineThrow, TimerFires, CompletionThrows,
        RecordSuccess, RecordFailure
  <2>2. \E place \in Places \ {"idle"} : Goto(r, place)
    BY <1>5 DEF EngineRespond, EngineThrow, TimerFires, CompletionThrows,
        RecordSuccess, RecordFailure, Fail, Leave, Places
  <2> QED
    BY <2>1, <2>2, StutterIsStutter
<1>6. ASSUME NEW r \in Request, FailureThrows(r) PROVE Status' = Status
  <2>1. pc[r] = "failing" /\ sent' = sent
    BY <1>6 DEF FailureThrows
  <2>2. CASE UNCHANGED pc
    BY <2>1, <2>2 DEF Status, Received, Answered
  <2>3. CASE \E place \in Places \ {"idle"} : Goto(r, place)
    BY <2>1, <2>3, StutterIsStutter
  <2> QED
    BY <1>6, <2>2, <2>3 DEF FailureThrows, Leave, Places
<1>7. ASSUME NEW r \in Request, ExceptionCaught(r) PROVE Service!Next
  <2>0. sent[r] = <<>>
    BY <1>7 DEF ExceptionCaught, IInv, SentInv
  <2>1. /\ pc[r] = "refused"
        /\ sent' = [sent EXCEPT ![r] = <<"error">>]
        /\ pc' = [pc EXCEPT ![r] = "leaked"]
    BY <1>7, <2>0 DEF ExceptionCaught, Goto
  <2>2. Status[r] = "pending" /\ Status' = [Status EXCEPT ![r] = "error"]
    BY <2>0, <2>1 DEF Status, Received, Answered, IInv, TypeOK
  <2>3. Service!Answer(r)
    BY <2>2 DEF Service!Answer, Service!Kinds
  <2> QED
    BY <2>3 DEF Service!Next
<1> QED
  BY <1>0, <1>1, <1>2, <1>3, <1>4, <1>5, <1>6, <1>7 DEF Next, Serve

(* The pipeline implements the service its client is promised, but for its *)
(* liveness: a request is answered once, after it was read, never before.  *)
THEOREM Refinement == Spec => Service!SafeSpec
  BY InitService, NextService, Invariance, PTL DEF Spec, Service!SafeSpec
=============================================================================
