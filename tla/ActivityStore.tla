--------------------------- MODULE ActivityStore ----------------------------
(***************************************************************************)
(* The activity API of the CLI.  Each request is recorded in a message,    *)
(* which InMemoryEventService hands to a work stealing pool, whose workers *)
(* FileBasedActivityStore serves as a ring of files; ActivityStoreServer   *)
(* lists the ring to its clients, without a lock.                          *)
(*                                                                         *)
(* Messages are numbered in the order they were emitted and abstracted to  *)
(* the length of their text; the id a message is given when it is added is *)
(* left out.  added and the disturbances are history variables, no action  *)
(* depends on them.                                                        *)
(***************************************************************************)
EXTENDS Naturals, Integers, Sequences, FiniteSets, SequencesExt

CONSTANTS
    Worker,        \* the threads of the pool
    NoMessage,     \* a worker without work
    Limit,         \* --activityLimit
    MaxMessages,   \* bound on the messages emitted
    Size(_),       \* the length of a message's text
    Missing,       \* no such file
    Empty,         \* a file that was opened for writing
    Garbled        \* two texts written over each other

Message == 1 .. MaxMessages

ASSUME LimitAssumption == Limit \in Nat \ {0} /\ MaxMessages \in Nat
ASSUME SizeAssumption == \A m \in Message : Size(m) \in Nat \ {0}
ASSUME TextAssumption ==
    {Missing, Empty, Garbled, NoMessage} \cap Nat = {}

VARIABLES
    emitted,     \* how many messages were emitted
    queue,       \* those the pool has not begun to add
    work,        \* what each worker adds, where, and how far it is
    index,       \* the store's last index ...
    wrapped,     \* ... and whether it has reached the limit
    file,        \* activity-<index>, for every index
    reader,      \* the request being served, and how far it is
    added,       \* the messages in the order they took an index
    collided,    \* two workers have had the same file open
    failed,      \* a file could not be opened or written
    disturbed    \* the ring changed while the reader was listing it

storeVars == <<index, wrapped, file>>
historyVars == <<added, collided, failed, disturbed>>
vars == <<emitted, queue, work, storeVars, reader, historyVars>>

Slot == -1 .. Limit - 1
NoFile == [text |-> Missing, length |-> 0]
NoWork == [message |-> NoMessage, slot |-> -1, phase |-> "idle"]

(* upper: the last index listed; at: the next one; length: of the texts    *)
(* measured for the Content-Length; regions: the lengths of the opened     *)
(* files; served: the texts sent.                                          *)
NoListing == [phase |-> "idle", upper |-> -1, at |-> 0, length |-> 0,
              regions |-> <<>>, served |-> <<>>]

Init ==
    /\ emitted = 0
    /\ queue = {}
    /\ work = [w \in Worker |-> NoWork]
    /\ index = -1
    /\ wrapped = FALSE
    /\ file = [s \in Slot |-> NoFile]
    /\ reader = NoListing
    /\ added = <<>>
    /\ collided = FALSE
    /\ failed = FALSE
    /\ disturbed = FALSE

In(w, phase) == work[w].phase = phase
Adding(w) == work[w] # NoWork
OnFile(w) == In(w, "opening") \/ In(w, "writing")
Listing == reader.phase # "idle"
-----------------------------------------------------------------------------
(* The pipeline has recorded a request; handleEvent submits the message. *)
Emit ==
    /\ emitted < MaxMessages
    /\ emitted' = emitted + 1
    /\ queue' = queue \cup {emitted + 1}
    /\ UNCHANGED <<work, storeVars, reader, historyVars>>

(* An idle worker takes a message: its own, or one that it steals. *)
Take(w) ==
    /\ ~Adding(w)
    /\ \E m \in queue :
          /\ queue' = queue \ {m}
          /\ work' = [work EXCEPT ![w] = [NoWork EXCEPT !.message = m,
                                                        !.phase = "taken"]]
    /\ UNCHANGED <<emitted, storeVars, reader, historyVars>>

(* Mutant: the index never starts again. *)
MutantNextIndex == index + 1

(* Past the limit the index starts again, from -1. *)
NextIndex == IF index + 1 = Limit THEN -1 ELSE index + 1

TakeIndex(w) ==
    /\ In(w, "taken")
    /\ wrapped' = (wrapped \/ index + 1 = Limit)
    /\ work' = [work EXCEPT ![w].slot = NextIndex, ![w].phase = "opening"]
    /\ added' = Append(added, work[w].message)
    /\ collided' = (collided \/ \E v \in Worker :
                                   OnFile(v) /\ work[v].slot = NextIndex)
    /\ disturbed' = (disturbed \/ Listing)
    /\ UNCHANGED <<emitted, queue, file, reader, failed>>

(* Mutant: without the lock two workers may read the same index. *)
MutantGetLatestIndex(w) == TakeIndex(w) /\ index' \in {index, NextIndex}

(* getLatestIndex, whose lock makes it one step. *)
GetLatestIndex(w) == TakeIndex(w) /\ index' = NextIndex

(* Mutant: the FileOutputStream appends. *)
MutantOpenFile(w) ==
    /\ In(w, "opening")
    /\ file' = [file EXCEPT ![work[w].slot].text = Empty]
    /\ work' = [work EXCEPT ![w].phase = "writing"]
    /\ disturbed' = (disturbed \/ Listing)
    /\ UNCHANGED <<emitted, queue, index, wrapped, reader, added, collided, failed>>

(* The FileOutputStream truncates the file, ... *)
OpenFile(w) ==
    /\ In(w, "opening")
    /\ file' = [file EXCEPT ![work[w].slot] = [text |-> Empty, length |-> 0]]
    /\ work' = [work EXCEPT ![w].phase = "writing"]
    /\ disturbed' = (disturbed \/ Listing)
    /\ UNCHANGED <<emitted, queue, index, wrapped, reader, added, collided, failed>>

(* ... and the serialiser writes the text from its start and closes it. *)
WriteFile(w) ==
    /\ In(w, "writing")
    /\ LET m == work[w].message
           s == work[w].slot
           over == Size(m) < file[s].length
       IN  file' = [file EXCEPT ![s] =
                       [text |-> IF over THEN Garbled ELSE m,
                        length |-> IF over THEN file[s].length ELSE Size(m)]]
    /\ work' = [work EXCEPT ![w] = NoWork]
    /\ disturbed' = (disturbed \/ Listing)
    /\ UNCHANGED <<emitted, queue, index, wrapped, reader, added, collided, failed>>

(* A disk error is printed, or logged by the serialiser, and forgotten. *)
AddFails(w) ==
    /\ OnFile(w)
    /\ work' = [work EXCEPT ![w] = NoWork]
    /\ failed' = TRUE
    /\ UNCHANGED <<emitted, queue, storeVars, reader, added, collided, disturbed>>
-----------------------------------------------------------------------------
(* channelRead0 lists the files: wrapped is read first, ... *)
BeginListing ==
    /\ reader.phase = "idle"
    /\ reader' = IF wrapped
                 THEN [reader EXCEPT !.upper = Limit - 1, !.phase = "measuring"]
                 ELSE [reader EXCEPT !.phase = "indexing"]
    /\ disturbed' = \E w \in Worker : OnFile(w)
    /\ UNCHANGED <<emitted, queue, work, storeVars, added, collided, failed>>

ReaderStep(next) ==
    /\ reader' = next
    /\ UNCHANGED <<emitted, queue, work, storeVars, historyVars>>

(* ... then index, by then perhaps back at -1. *)
ReadIndex ==
    /\ reader.phase = "indexing"
    /\ ReaderStep([reader EXCEPT !.upper = index, !.phase = "measuring"])

(* The Content-Length adds up the files, a missing one counting nothing. *)
MeasureFile ==
    /\ reader.phase = "measuring"
    /\ reader.at <= reader.upper
    /\ ReaderStep([reader EXCEPT !.length = @ + file[reader.at].length,
                                 !.at = @ + 1])

Measured ==
    /\ reader.phase = "measuring"
    /\ reader.at > reader.upper
    /\ ReaderStep([reader EXCEPT !.at = 0, !.phase = "opening"])

(* Mutant: the opening bracket is not counted. *)
MutantAnnounced == reader.length + (reader.upper + 1)

(* The Content-Length: the texts, a comma or the bracket after each, and   *)
(* the bracket before them.                                                *)
Announced == reader.length + (reader.upper + 1) + 1

(* Each file is opened once more, and its length taken once more. *)
OpenRegion ==
    /\ reader.phase = "opening"
    /\ reader.at <= reader.upper
    /\ file[reader.at] # NoFile
    /\ ReaderStep([reader EXCEPT !.regions = Append(@, file[reader.at].length),
                                 !.at = @ + 1])

(* exceptionCaught closes the connection of a client whose listing names a *)
(* file that is missing, ...                                               *)
FileNotFound ==
    /\ reader.phase = "opening"
    /\ reader.at <= reader.upper
    /\ file[reader.at] = NoFile
    /\ ReaderStep([reader EXCEPT !.phase = "closed"])

AllOpened ==
    /\ reader.phase = "opening"
    /\ reader.at > reader.upper
    /\ ReaderStep([reader EXCEPT !.at = 0, !.phase = "sending"])

(* ... and when they are flushed the regions are sent, ... *)
SendRegion ==
    /\ reader.phase = "sending"
    /\ reader.at <= reader.upper
    /\ file[reader.at].length >= reader.regions[reader.at + 1]
    /\ ReaderStep([reader EXCEPT !.served = Append(@, file[reader.at].text),
                                 !.at = @ + 1])

(* ... unless a file is shorter than its region by then. *)
RegionTooLong ==
    /\ reader.phase = "sending"
    /\ reader.at <= reader.upper
    /\ file[reader.at].length < reader.regions[reader.at + 1]
    /\ ReaderStep([reader EXCEPT !.phase = "closed"])

AllSent ==
    /\ reader.phase = "sending"
    /\ reader.at > reader.upper
    /\ ReaderStep([reader EXCEPT !.phase = "done"])

(* The next request may come. *)
EndListing ==
    /\ reader.phase \in {"done", "closed"}
    /\ reader' = NoListing
    /\ disturbed' = FALSE
    /\ UNCHANGED <<emitted, queue, work, storeVars, added, collided, failed>>

Add(w) == Take(w) \/ GetLatestIndex(w) \/ OpenFile(w) \/ WriteFile(w) \/ AddFails(w)

Serve == \/ ReadIndex \/ MeasureFile \/ Measured \/ OpenRegion \/ FileNotFound
         \/ AllOpened \/ SendRegion \/ RegionTooLong \/ AllSent \/ EndListing

Next == Emit \/ BeginListing \/ Serve \/ \E w \in Worker : Add(w)

Spec == Init /\ [][Next]_vars
-----------------------------------------------------------------------------
TypeOK ==
    /\ emitted \in 0 .. MaxMessages
    /\ queue \subseteq Message
    /\ work \in [Worker -> [message : Message \cup {NoMessage}, slot : Slot,
                            phase : {"idle", "taken", "opening", "writing"}]]
    /\ index \in Slot
    /\ wrapped \in BOOLEAN
    /\ \A s \in Slot : /\ file[s].text \in Message \cup {Missing, Empty, Garbled}
                       /\ file[s].length \in Nat
    /\ reader.upper \in Slot
    /\ reader.at \in 0 .. Limit
    /\ Len(added) <= emitted

Quiet == queue = {} /\ \A w \in Worker : ~Adding(w)

(* What a listing shows, if nothing changes meanwhile. *)
Listed == 0 .. (IF wrapped THEN Limit - 1 ELSE index)
Shown == {file[s].text : s \in Listed}

(* The n-th message added is shown unless it is the last of its round,     *)
(* which goes to activity--1, until its file is used again a round later;  *)
(* a round has one message more than the limit.                            *)
InRing(n) == n % (Limit + 1) # 0 /\ n + Limit + 1 > Len(added)

(* With no disk error, and unless a worker was overtaken by a whole round, *)
(* the store shows each message of the last round but those it loses, and  *)
(* nothing else, in whatever order the workers wrote them.                 *)
RingShowsLastRound ==
    Quiet /\ ~failed /\ ~collided
        => Shown = {added[n] : n \in {k \in 1 .. Len(added) : InRing(k)}}

(* A worker is overtaken only by another's whole round of messages: until  *)
(* then no two workers write the same file.                                *)
NoCollisionInFirstRound == collided => Len(added) > Limit + 1

(* The texts, the commas between them and the two brackets. *)
Commas == IF reader.upper > 0 THEN reader.upper ELSE 0
BodySent == FoldLeft(LAMBDA x, y : x + y, 0, reader.regions) + Commas + 2

(* A listing during which the ring does not change, of at least one        *)
(* message, is sent whole: every message shown, in a body of the announced *)
(* length.                                                                 *)
UndisturbedListingIsWhole ==
    reader.phase \in {"done", "closed"} /\ ~disturbed /\ ~failed /\ ~collided
        /\ reader.upper # -1
    => /\ reader.phase = "done"
       /\ BodySent = Announced
       /\ ToSet(reader.served) = Shown
=============================================================================
