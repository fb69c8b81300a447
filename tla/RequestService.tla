--------------------------- MODULE RequestService ---------------------------
(***************************************************************************)
(* What the worker promises the client of one HTTP request, with all of    *)
(* the worker's threads, queues and timers hidden: a request that was read *)
(* from its connection gets one response, a "success" produced by the      *)
(* definition or an "error" written by the worker, and nothing is written  *)
(* for it before it was read or after it was answered.                     *)
(***************************************************************************)
CONSTANTS
    Request,   \* the requests clients may send
    Promised   \* those of them that are certain to be answered

VARIABLE status

Kinds == {"success", "error"}

Init == status = [r \in Request |-> "idle"]

Receive(r) ==
    /\ status[r] = "idle"
    /\ status' = [status EXCEPT ![r] = "pending"]

Answer(r) ==
    /\ status[r] = "pending"
    /\ \E k \in Kinds : status' = [status EXCEPT ![r] = k]

Next == \E r \in Request : Receive(r) \/ Answer(r)

SafeSpec == Init /\ [][Next]_status

(* The service also answers every promised request it has received, *)
(* whatever becomes of the others.                                  *)
Spec == SafeSpec /\ \A r \in Promised : WF_status(Answer(r))
=============================================================================
