-------------------------- MODULE RequestPipeline ---------------------------
(***************************************************************************)
(* The life of HTTP requests in the worker: the event loop hands a request *)
(* to the IO pool (RequestServerHandler, RequestHandler.submitRequest),    *)
(* which matches its route and queues it for the engine; the only engine   *)
(* thread runs the definition's function (WorkerRequestRunnable) and hands *)
(* the result to the IO pool or, when the response is delayed, to the only *)
(* delayed-responder thread; that one writes the response and emits the    *)
(* activity message.  Every one of these steps can throw, and each place   *)
(* has its own catch, which answers through handleRequestFailure.          *)
(*                                                                         *)
(* pc[r] says where the code working for request r is; engine and delayed  *)
(* name the request that holds the thread of each single-threaded          *)
(* executor.  The IO pool (a cached thread pool) never makes a task wait.  *)
(***************************************************************************)
EXTENDS Integers, Sequences

CONSTANTS
    Request,       \* the requests read from the connections
    NoRequest,     \* stands for an idle thread
    Fragile        \* those whose definition makes the worker throw a
                   \* Throwable without a message (res.type(null) does)

ASSUME RequestAssumption == NoRequest \notin Request
ASSUME FragileAssumption == Fragile \subseteq Request

VARIABLES
    pc,           \* where the code working for the request is
    fault,        \* the Throwable handleRequestFailure was called with
    caller,       \* who called handleRequestFailure, whose catch is next
    engineQueue,  \* engineExecutor's queue of WorkerRequestRunnables
    engine,       \* the request the engine thread is working for
    delayed,      \* the request the delayed-responder thread is working for
    timed,        \* the requests the delayed responder was given (history)
    reading,      \* the requests whose channelRead0 has not returned
    refCnt,       \* reference count of the request's buffer
    sent,         \* the responses written for the request
    activity      \* the activity messages emitted for the request

vars == <<pc, fault, caller, engineQueue, engine, delayed, timed, reading,
          refCnt, sent, activity>>

(* Before the request is read, refused by channelRead0 and answered by     *)
(* exceptionCaught (leaked), or then on the IO pool, in the engine's queue,*)
(* on the engine, in the delayed-responder's timer; completing/recording   *)
(* are successResponseFunction, failing/answering handleRequestFailure.    *)
Places == {"idle", "refused", "leaked",
           "submitted", "handling", "queued", "running", "timer",
           "completing", "recording", "failing", "answering", "catchAll",
           "done", "lost"}

(* "override" is a ServiceOverrideException, handled apart; the others are *)
(* told apart by whether getMessage() is null.                             *)
Faults == {"none", "override", "message", "null"}
Thrown(r) == {"message"} \cup (IF r \in Fragile THEN {"null"} ELSE {})

Callers == {"none", "handleRequest", "timeout", "convertResponse",
            "doRun", "call"}

Init ==
    /\ pc = [r \in Request |-> "idle"]
    /\ fault = [r \in Request |-> "none"]
    /\ caller = [r \in Request |-> "none"]
    /\ engineQueue = <<>>
    /\ engine = NoRequest
    /\ delayed = NoRequest
    /\ timed = {}
    /\ reading = {}
    /\ refCnt = [r \in Request |-> 0]
    /\ sent = [r \in Request |-> <<>>]
    /\ activity = [r \in Request |-> <<>>]
-----------------------------------------------------------------------------
Goto(r, place) == pc' = [pc EXCEPT ![r] = place]

(* The code working for r ends: its thread is free again. *)
Leave(r, place) ==
    /\ Goto(r, place)
    /\ engine' = IF engine = r THEN NoRequest ELSE engine
    /\ delayed' = IF delayed = r THEN NoRequest ELSE delayed

(* handleRequestFailure(request, throwable, future, ...) is entered. *)
Fail(r, throwable, by) ==
    /\ Goto(r, "failing")
    /\ fault' = [fault EXCEPT ![r] = throwable]
    /\ caller' = [caller EXCEPT ![r] = by]

(* future.accept: release the request's buffer and write the response. *)
Respond(r, kind) ==
    /\ refCnt' = [refCnt EXCEPT ![r] = @ - 1]
    /\ sent' = [sent EXCEPT ![r] = Append(@, kind)]

Record(r, kind) == activity' = [activity EXCEPT ![r] = Append(@, kind)]
-----------------------------------------------------------------------------
(* Mutants: what an action below would be after a plausible slip in the    *)
(* code.  None is part of Next; each breaks one of the properties.         *)

(* channelRead0 does not retain the request. *)
MutantChannelRead(r) ==
    /\ pc[r] = "idle"
    /\ Goto(r, "submitted")
    /\ reading' = reading \cup {r}
    /\ refCnt' = [refCnt EXCEPT ![r] = 1]
    /\ UNCHANGED <<fault, caller, engineQueue, engine, delayed, timed, sent,
                   activity>>

(* The TIMEOUT override returns without scheduling its answer. *)
MutantScheduleTimeout(r) ==
    /\ pc[r] = "handling"
    /\ Goto(r, "done")
    /\ UNCHANGED <<fault, caller, engineQueue, engine, delayed, timed, reading,
                   refCnt, sent, activity>>

(* doRun sleeps for the delay, and completes, on the engine thread. *)
MutantEngineRespond(r) ==
    /\ pc[r] = "running"
    /\ \/ Goto(r, "completing") /\ UNCHANGED timed
       \/ Goto(r, "timer") /\ timed' = timed \cup {r}
    /\ UNCHANGED <<fault, caller, engineQueue, engine, delayed, reading, refCnt,
                   sent, activity>>

(* The delayed responder has a thread for every response that is due. *)
MutantTimerFires(r) ==
    /\ pc[r] = "timer"
    /\ delayed' = r
    /\ \/ /\ fault[r] = "override"
          /\ Fail(r, "override", "timeout")
       \/ /\ fault[r] = "none"
          /\ Goto(r, "completing")
          /\ UNCHANGED <<fault, caller>>
    /\ UNCHANGED <<engineQueue, engine, timed, reading, refCnt, sent, activity>>

(* handleRequestFailure answers without emitting. *)
MutantRecordFailure(r) ==
    /\ pc[r] = "failing"
    /\ fault[r] # "null"
    /\ Goto(r, "answering")
    /\ UNCHANGED <<fault, caller, engineQueue, engine, delayed, timed, reading,
                   refCnt, sent, activity>>

(* What escapes call() ends the engine thread with it. *)
MutantFailureThrows(r) ==
    /\ pc[r] = "failing"
    /\ fault[r] = "null"
    /\ Goto(r, IF caller[r] = "handleRequest" THEN "catchAll" ELSE "lost")
    /\ UNCHANGED <<fault, caller, engineQueue, engine, delayed, timed, reading,
                   refCnt, sent, activity>>

(* handleRequestFailure is not told when convertResponse throws. *)
MutantCompletionThrows(r) ==
    /\ pc[r] = "completing"
    /\ Respond(r, "error")
    /\ Goto(r, "recording")
    /\ UNCHANGED <<fault, caller, engineQueue, engine, delayed, timed, reading,
                   activity>>

(* The catch-all answers past the callback that releases the buffer. *)
MutantAnswerInternalError(r) ==
    /\ pc[r] = "catchAll"
    /\ sent' = [sent EXCEPT ![r] = Append(@, "error")]
    /\ Goto(r, "done")
    /\ UNCHANGED <<fault, caller, engineQueue, engine, delayed, timed, reading,
                   refCnt, activity>>
-----------------------------------------------------------------------------
(* The event loop has read r, whose buffer netty holds once: channelRead0  *)
(* retains it and submits the IO task.                                     *)
ChannelRead(r) ==
    /\ pc[r] = "idle"
    /\ Goto(r, "submitted")
    /\ reading' = reading \cup {r}
    /\ refCnt' = [refCnt EXCEPT ![r] = 2]
    /\ UNCHANGED <<fault, caller, engineQueue, engine, delayed, timed, sent,
                   activity>>

(* channelRead0 returns; SimpleChannelInboundHandler releases the buffer. *)
ChannelReadReturns(r) ==
    /\ r \in reading
    /\ reading' = reading \ {r}
    /\ refCnt' = [refCnt EXCEPT ![r] = @ - 1]
    /\ UNCHANGED <<pc, fault, caller, engineQueue, engine, delayed, timed,
                   sent, activity>>

(* channelRead0 throws between its retain and submitRequest's end (the     *)
(* connection is closed, so that it has no remote address, or the IO pool  *)
(* is shut down): the buffer is released once ...                          *)
ChannelReadThrows(r) ==
    /\ pc[r] = "idle"
    /\ Goto(r, "refused")
    /\ refCnt' = [refCnt EXCEPT ![r] = 1]
    /\ UNCHANGED <<fault, caller, engineQueue, engine, delayed, timed, reading,
                   sent, activity>>

(* ... and exceptionCaught answers, with no more to release it. *)
ExceptionCaught(r) ==
    /\ pc[r] = "refused"
    /\ sent' = [sent EXCEPT ![r] = Append(@, "error")]
    /\ Goto(r, "leaked")
    /\ UNCHANGED <<fault, caller, engineQueue, engine, delayed, timed, reading,
                   refCnt, activity>>

(* IO: convertRequest copies the raw request; what it throws only the      *)
(* catch-all of submitRequest sees.                                        *)
ConvertRequest(r) ==
    /\ pc[r] = "submitted"
    /\ \E place \in {"handling", "catchAll"} : Goto(r, place)
    /\ UNCHANGED <<fault, caller, engineQueue, engine, delayed, timed, reading,
                   refCnt, sent, activity>>

(* IO: the context cannot be loaded, the SOAP or route matching throws, or *)
(* no route matches, or the matched route is configured as SERVICE_DOWN.   *)
RejectRequest(r) ==
    /\ pc[r] = "handling"
    /\ \E t \in Thrown(r) \cup {"override"} : Fail(r, t, "handleRequest")
    /\ UNCHANGED <<engineQueue, engine, delayed, timed, reading, refCnt, sent,
                   activity>>

(* IO: the matched route is configured to time out: answer 504 later. *)
ScheduleTimeout(r) ==
    /\ pc[r] = "handling"
    /\ Goto(r, "timer")
    /\ timed' = timed \cup {r}
    /\ fault' = [fault EXCEPT ![r] = "override"]
    /\ UNCHANGED <<caller, engineQueue, engine, delayed, reading, refCnt, sent,
                   activity>>

(* IO: a route matches (an unknown override is ignored): queue the task. *)
HandleEngineRequest(r) ==
    /\ pc[r] = "handling"
    /\ Goto(r, "queued")
    /\ engineQueue' = Append(engineQueue, r)
    /\ UNCHANGED <<fault, caller, engine, delayed, timed, reading, refCnt,
                   sent, activity>>

(* Engine: call() takes the next task.  Nothing in src/ ever expires one. *)
EngineTake(r) ==
    /\ engine = NoRequest
    /\ engineQueue # <<>>
    /\ r = Head(engineQueue)
    /\ engineQueue' = Tail(engineQueue)
    /\ engine' = r
    /\ Goto(r, "running")
    /\ UNCHANGED <<fault, caller, delayed, timed, reading, refCnt, sent,
                   activity>>

(* Engine: the function returned and its output was taken: hand the        *)
(* response to the IO pool, or to the timer when a delay is configured.    *)
EngineRespond(r) ==
    /\ pc[r] = "running"
    /\ \/ Leave(r, "completing") /\ UNCHANGED timed
       \/ Leave(r, "timer") /\ timed' = timed \cup {r}
    /\ UNCHANGED <<fault, caller, engineQueue, reading, refCnt, sent, activity>>

(* Engine: an Exception is caught by doRun, an Error by call(); both call  *)
(* doFail, whose own fetch of the console output catches what it throws.   *)
EngineThrow(r) ==
    /\ pc[r] = "running"
    /\ \/ \E t \in Thrown(r) : Fail(r, t, "doRun")
       \/ Fail(r, "message", "call")
    /\ UNCHANGED <<engineQueue, engine, delayed, timed, reading, refCnt, sent,
                   activity>>

(* Delayed responder: the delay has passed. *)
TimerFires(r) ==
    /\ pc[r] = "timer"
    /\ delayed = NoRequest
    /\ delayed' = r
    /\ \/ /\ fault[r] = "override"
          /\ Fail(r, "override", "timeout")
       \/ /\ fault[r] = "none"
          /\ Goto(r, "completing")
          /\ UNCHANGED <<fault, caller>>
    /\ UNCHANGED <<engineQueue, engine, timed, reading, refCnt, sent,
                   activity>>

(* successResponseFunction calls successFuture: convert and send ... *)
CompleteRequest(r) ==
    /\ pc[r] = "completing"
    /\ Respond(r, "success")
    /\ Goto(r, "recording")
    /\ UNCHANGED <<fault, caller, engineQueue, engine, delayed, timed, reading,
                   activity>>

(* ... or answer with an error when convertResponse throws (a header the   *)
(* definition set to null, an invalid status text: all with a message).    *)
CompletionThrows(r) ==
    /\ pc[r] = "completing"
    /\ Fail(r, "message", "convertResponse")
    /\ UNCHANGED <<engineQueue, engine, delayed, timed, reading, refCnt, sent,
                   activity>>

(* successFuture returned, whichever way: emit the activity message. *)
RecordSuccess(r) ==
    /\ pc[r] = "recording"
    /\ Record(r, "success")
    /\ Leave(r, "done")
    /\ UNCHANGED <<fault, caller, engineQueue, timed, reading, refCnt, sent>>

(* handleRequestFailure picks the message to show and emits the activity   *)
(* message ...                                                             *)
RecordFailure(r) ==
    /\ pc[r] = "failing"
    /\ fault[r] # "null"
    /\ Record(r, "failure")
    /\ Goto(r, "answering")
    /\ UNCHANGED <<fault, caller, engineQueue, engine, delayed, timed, reading,
                   refCnt, sent>>

(* ... then sends the error and returns to its caller. *)
AnswerFailure(r) ==
    /\ pc[r] = "answering"
    /\ Respond(r, "error")
    /\ \/ /\ caller[r] = "convertResponse"
          /\ Goto(r, "recording")
          /\ UNCHANGED <<engine, delayed>>
       \/ /\ caller[r] # "convertResponse"
          /\ Leave(r, "done")
    /\ UNCHANGED <<fault, caller, engineQueue, timed, reading, activity>>

(* throwable.getMessage().contains(..) on a null message throws a          *)
(* NullPointerException, itself without a message, out of                  *)
(* handleRequestFailure: to submitRequest's catch-all, from doRun's doFail *)
(* to call()'s, and from there into the Future nobody looks at.            *)
FailureThrows(r) ==
    /\ pc[r] = "failing"
    /\ fault[r] = "null"
    /\ \/ /\ caller[r] = "handleRequest"
          /\ Goto(r, "catchAll")
          /\ UNCHANGED <<caller, engine, delayed>>
       \/ /\ caller[r] = "doRun"
          /\ caller' = [caller EXCEPT ![r] = "call"]
          /\ UNCHANGED <<pc, engine, delayed>>
       \/ /\ caller[r] = "call"
          /\ Leave(r, "lost")
          /\ UNCHANGED caller
    /\ UNCHANGED <<fault, engineQueue, timed, reading, refCnt, sent, activity>>

(* IO: submitRequest's catch-all answers "Internal error". *)
AnswerInternalError(r) ==
    /\ pc[r] = "catchAll"
    /\ Respond(r, "error")
    /\ Goto(r, "done")
    /\ UNCHANGED <<fault, caller, engineQueue, engine, delayed, timed, reading,
                   activity>>
-----------------------------------------------------------------------------
(* What the worker's threads do for r once it was read. *)
Serve(r) ==
    \/ ExceptionCaught(r)
    \/ ConvertRequest(r)
    \/ RejectRequest(r) \/ ScheduleTimeout(r) \/ HandleEngineRequest(r)
    \/ EngineTake(r) \/ EngineRespond(r) \/ EngineThrow(r)
    \/ TimerFires(r)
    \/ CompleteRequest(r) \/ CompletionThrows(r) \/ RecordSuccess(r)
    \/ RecordFailure(r) \/ AnswerFailure(r) \/ FailureThrows(r)
    \/ AnswerInternalError(r)

Next == \E r \in Request :
            ChannelRead(r) \/ ChannelReadReturns(r) \/ ChannelReadThrows(r) \/ Serve(r)

(* Threads run; clients need not send anything. *)
Fairness ==
    \A r \in Request : WF_vars(Serve(r)) /\ WF_vars(ChannelReadReturns(r))

Spec == Init /\ [][Next]_vars

FairSpec == Spec /\ Fairness
-----------------------------------------------------------------------------
Received(r) == pc[r] # "idle"
Answered(r) == sent[r] # <<>>
Recorded(r, kind) == \E i \in DOMAIN activity[r] : activity[r][i] = kind

(* Where the engine thread works for r, ... *)
OnEngine(r) ==
    \/ pc[r] = "running"
    \/ pc[r] \in {"failing", "answering"} /\ caller[r] \in {"doRun", "call"}

(* ... and where the delayed responder does.  A response that was delayed  *)
(* is completed where another one is, but not on the IO pool.              *)
OnResponder(r) ==
    r \in timed /\ pc[r] \in {"completing", "recording", "failing", "answering"}

TypeOK ==
    /\ pc \in [Request -> Places]
    /\ fault \in [Request -> Faults]
    /\ caller \in [Request -> Callers]
    /\ engineQueue \in Seq(Request)
    /\ engine \in Request \cup {NoRequest}
    /\ delayed \in Request \cup {NoRequest}
    /\ timed \subseteq Request
    /\ reading \subseteq Request
    /\ refCnt \in [Request -> Nat]
    /\ sent \in [Request -> Seq({"success", "error"})]
    /\ activity \in [Request -> Seq({"success", "failure"})]

(* However the catches of handleRequestFailure, successFuture,             *)
(* successResponseFunction, doRun, call and submitRequest nest, no request *)
(* is answered twice: two responses would desynchronise the connection.    *)
AtMostOneResponse == \A r \in Request : Len(sent[r]) <= 1

(* The raw request is read by convertRequest on the IO pool and by the     *)
(* form-data parser while the definition's function runs, long after       *)
(* channelRead0 gave up its reference: the buffer is not freed before.     *)
BufferHeldWhileRead ==
    \A r \in Request :
        pc[r] \in {"submitted", "handling", "queued", "running"} => refCnt[r] > 0

(* Every reference to the buffer has an owner that will drop it: the event *)
(* loop until channelRead0 returns and the response not written yet.  So   *)
(* it is freed once (never released below zero) and, when the request is   *)
(* answered, by then.  Only a request that channelRead0 throws for leaks.  *)
RefCountAccounting ==
    \A r \in Request :
        refCnt[r] = (IF r \in reading THEN 1 ELSE 0)
                    + (IF Received(r) /\ (~Answered(r) \/ pc[r] = "leaked")
                       THEN 1 ELSE 0)

(* The engine thread and the delayed-responder thread are held exactly by  *)
(* the code that runs on them: a response waiting for its delay, or being  *)
(* converted on the IO pool, keeps no other request from either, and no    *)
(* way out of the failure handling leaves the only engine thread, or the   *)
(* only thread that a TIMEOUT is answered on, taken.                       *)
ThreadOwnership ==
    \A r \in Request :
        /\ engine = r <=> OnEngine(r)
        /\ delayed = r <=> OnResponder(r)

(* An error is written only after its failure was emitted as activity; the *)
(* exceptions are the two "Internal error"s of submitRequest's catch-all   *)
(* and of exceptionCaught, which no failure of a request that reached the  *)
(* engine can end in.                                                      *)
FailureRecordedFirst ==
    \A r \in Request :
        (Answered(r) /\ sent[r][1] = "error" /\ ~Recorded(r, "failure"))
            => caller[r] \in {"none", "handleRequest"}

(* An ended request is recorded as what it was answered with, the catch-   *)
(* all's answers not at all; one whose response convertResponse could not  *)
(* convert is recorded twice, the second time as the success it was not.   *)
RecordedAsAnswered ==
    \A r \in Request : pc[r] = "done" =>
        \/ sent[r] = <<"success">> /\ activity[r] = <<"success">>
        \/ sent[r] = <<"error">> /\ activity[r] =
               (CASE caller[r] = "convertResponse" -> <<"failure", "success">>
                  [] caller[r] \in {"doRun", "call", "timeout"} -> <<"failure">>
                  [] OTHER -> IF fault[r] \in {"none", "null"} THEN <<>> ELSE <<"failure">>)

(* Every request that is read gets its response: violated for a Fragile    *)
(* one, whose NullPointerException both doFails of the engine let through. *)
EveryRequestAnswered == \A r \in Request : Received(r) ~> Answered(r)

(* A Throwable without a message on the engine is the only way to lose a   *)
(* request, and only that request: the engine thread survives the loss and *)
(* everything else that was read is answered.                              *)
AnsweredUnlessNullOnEngine ==
    \A r \in Request :
        Received(r) ~> \/ Answered(r)
                       \/ pc[r] = "lost" /\ fault[r] = "null" /\ engine # r

(* The pipeline implements the service its client is promised, with its    *)
(* liveness for the requests that are not Fragile, next to some that are.  *)
Status == [r \in Request |-> IF ~Received(r) THEN "idle"
                             ELSE IF Answered(r) THEN sent[r][1] ELSE "pending"]
Service == INSTANCE RequestService
           WITH status <- Status, Promised <- Request \ Fragile
ImplementsService == Service!Spec
=============================================================================
