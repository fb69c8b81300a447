----------------------------- MODULE StateStore -----------------------------
(***************************************************************************)
(* What --state promises a definition, with the buffer, the file and the   *)
(* threads hidden: its state object, as of the last function to return,    *)
(* outlives the contexts and processes it is changed in.  A state is its   *)
(* version, the number of changes that led to it.                          *)
(***************************************************************************)
EXTENDS Naturals

CONSTANT None   \* no context is running

VARIABLES
    current,    \* the state of the running context
    noted,      \* what it was when a function last returned, or it began
    kept,       \* the state that would survive now
    promised,   \* what a process that was asked to stop still has to keep
    broken      \* something has gone wrong, and nothing is promised any more

vars == <<current, noted, kept, promised, broken>>

Init ==
    /\ current = None
    /\ noted = 0
    /\ kept = 0
    /\ promised = 0
    /\ broken = FALSE

(* A new context begins with the state that was kept. *)
Open ==
    /\ current = None /\ promised = 0
    /\ current' = kept
    /\ noted' = kept
    /\ UNCHANGED <<kept, promised>>

(* A script changes the state, whether or not it is a function that will   *)
(* return ...                                                              *)
Change ==
    /\ current # None
    /\ current' = current + 1
    /\ UNCHANGED <<noted, kept, promised>>

(* ... and here one does. *)
Note ==
    /\ current # None
    /\ noted' = current
    /\ UNCHANGED <<current, kept, promised>>

(* What is kept is a state that the running context had, and never becomes *)
(* an older one.                                                           *)
Keep ==
    /\ current # None
    /\ kept' \in kept .. current
    /\ UNCHANGED <<current, noted, promised>>

(* The process is asked to stop. *)
Stop ==
    /\ current # None
    /\ promised = 0
    /\ promised' = noted
    /\ UNCHANGED <<current, noted, kept>>

Exit ==
    /\ kept >= promised
    /\ current' = None
    /\ noted' = 0
    /\ UNCHANGED <<kept, promised>>

(* A process that is killed keeps what it has kept so far. *)
Kill ==
    /\ current' = None
    /\ noted' = 0
    /\ promised' = 0
    /\ UNCHANGED kept

Restart ==
    /\ current = None
    /\ promised' = 0
    /\ UNCHANGED <<current, noted, kept>>

Next ==
    \/ broken'
    \/ /\ ~broken /\ ~broken'
       /\ Open \/ Change \/ Note \/ Keep \/ Stop \/ Exit \/ Kill \/ Restart

Spec == Init /\ [][Next]_vars
=============================================================================
