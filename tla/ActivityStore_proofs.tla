------------------------ MODULE ActivityStore_proofs ------------------------
(***************************************************************************)
(* Theorems about ActivityStore, for any pool of workers, limit and number *)
(* of messages.  The messages are added at the indices in turn; the file   *)
(* of each index holds the latest message that was given that index, or a  *)
(* worker is about to write it.                                            *)
(***************************************************************************)
EXTENDS ActivityStore, FiniteSetTheorems, WellFoundedInduction, TLAPS

(* The length of a round: the indices, and -1. *)
Round == Limit + 1

Texts == Message \cup {Missing, Empty, Garbled}

Task == [message : Message \cup {NoMessage}, slot : Slot,
         phase : {"idle", "taken", "opening", "writing"}]

Listings == [phase : {"idle", "indexing", "measuring", "opening", "sending",
                      "done", "closed"},
             upper : Slot, at : 0 .. Limit, length : Nat,
             regions : Seq(Nat), served : Seq(Texts)]

Typed ==
    /\ emitted \in 0 .. MaxMessages
    /\ queue \subseteq 1 .. emitted
    /\ work \in [Worker -> Task]
    /\ index \in Slot
    /\ wrapped \in BOOLEAN
    /\ file \in [Slot -> [text : Texts, length : Nat]]
    /\ reader \in Listings
    /\ added \in Seq(Message)

(* A worker in a phase but idle has a message, which was emitted.          *)
WorkInv ==
    \A w \in Worker : /\ In(w, "idle") <=> work[w] = NoWork
                      /\ ~In(w, "idle") => work[w].message \in 1 .. emitted

(* No message is in two places of the queue, the workers that have not     *)
(* taken an index, and those added.                                        *)
OnceInv ==
    /\ \A n \in 1 .. Len(added) : added[n] \in (1 .. emitted) \ queue
    /\ \A m, n \in 1 .. Len(added) : added[m] = added[n] => m = n
    /\ \A w \in Worker : In(w, "taken") =>
          /\ work[w].message \notin queue
          /\ \A n \in 1 .. Len(added) : added[n] # work[w].message
    /\ \A v, w \in Worker : In(v, "taken") /\ In(w, "taken") /\ v # w
                               => work[v].message # work[w].message

(* The index is that of the last message added. *)
RoundInv ==
    /\ index + 1 = Len(added) % Round
    /\ wrapped <=> Len(added) >= Round
    /\ Len(added) < Round => index = Len(added) - 1
    /\ Len(added) >= Round => Len(added) >= Round + index + 1

(* In the first round the files are used for the first time. *)
FirstRoundInv ==
    /\ Len(added) < Round => \A w \in Worker : OnFile(w) => work[w].slot \in 0 .. index
    /\ NoCollisionInFirstRound

(* The number of the last message that was given index s, if positive. *)
Latest(s) == Len(added) - (IF s <= index THEN index - s ELSE index - s + Round)

LatestInv == \A s \in Slot : Latest(s) >= 1 => Latest(s) % Round = s + 1

(* Who writes a file has it for itself, ... *)
AloneInv ==
    ~collided =>
        /\ \A v, w \in Worker : OnFile(v) /\ OnFile(w) /\ work[v].slot = work[w].slot
                                   => v = w
        /\ \A w \in Worker : In(w, "writing") =>
               file[work[w].slot] = [text |-> Empty, length |-> 0]

(* ... and it is the latest message's. *)
FileInv ==
    ~collided /\ ~failed => \A s \in Slot : Latest(s) >= 1 =>
        \/ \E w \in Worker : /\ OnFile(w) /\ work[w].slot = s
                             /\ work[w].message = added[Latest(s)]
        \/ /\ \A w \in Worker : OnFile(w) => work[w].slot # s
           /\ file[s].text = added[Latest(s)]

IInv == /\ Typed /\ WorkInv /\ OnceInv /\ RoundInv /\ FirstRoundInv
        /\ LatestInv /\ AloneInv /\ FileInv

USE DEF Slot, Message

LEMMA RoundIsNat == Limit \in Nat \ {0} /\ MaxMessages \in Nat /\ Round \in Nat \ {0}
BY LimitAssumption DEF Round

(* The remainder of a number and of the next one. *)
LEMMA Remainder ==
    ASSUME NEW n \in Nat, NEW K \in Nat \ {0}, NEW q \in Nat, NEW r \in 0 .. K - 1,
           n = K * q + r
    PROVE  n % K = r
BY SMTT(30)

LEMMA NextRemainder ==
    ASSUME NEW n \in Nat, NEW K \in Nat \ {0}
    PROVE  (n + 1) % K = IF n % K = K - 1 THEN 0 ELSE (n % K) + 1
<1> DEFINE q == n \div K
           r == n % K
<1>1. q \in Nat /\ r \in 0 .. K - 1 /\ n = K * q + r
  BY SMT
<1> HIDE DEF q, r
<1>2. CASE r = K - 1
  <2>1. n + 1 = K * (q + 1) + 0
    BY <1>1, <1>2
  <2>2. (n + 1) % K = 0
    BY <1>1, <2>1, Remainder, 0 \in 0 .. K - 1
  <2> QED BY <1>2, <2>2 DEF r
<1>3. CASE r # K - 1
  <2>1. n + 1 = K * q + (r + 1) /\ r + 1 \in 0 .. K - 1
    BY <1>1, <1>3
  <2>2. (n + 1) % K = r + 1
    BY <1>1, <2>1, Remainder
  <2> QED BY <1>3, <2>2 DEF r
<1> QED BY <1>2, <1>3

LEMMA InitIInv == Init => IInv
<1> SUFFICES ASSUME Init PROVE IInv
  OBVIOUS
<1> USE DEF Init, In, OnFile
<1>1. /\ Limit \in Nat \ {0} /\ MaxMessages \in Nat /\ Round = Limit + 1
      /\ added = <<>> /\ Len(added) = 0
  BY RoundIsNat DEF Round
<1>2. /\ NoWork \in Task /\ NoWork.phase = "idle"
      /\ NoFile \in [text : Texts, length : Nat]
  BY <1>1 DEF Task, Texts, NoWork, NoFile
<1>2a. NoListing \in Listings
  <2>1. <<>> \in Seq(Nat) /\ <<>> \in Seq(Texts)
    OBVIOUS
  <2> QED BY <1>1, <2>1 DEF Listings, NoListing
<1>3. Typed
  <2>1. emitted \in 0 .. MaxMessages /\ queue \subseteq 1 .. emitted /\ index \in Slot
    BY <1>1
  <2>2. file \in [Slot -> [text : Texts, length : Nat]] /\ work \in [Worker -> Task]
    BY <1>2
  <2>3. wrapped \in BOOLEAN /\ added \in Seq(Message)
    <3>1. wrapped = FALSE /\ added = <<>>
      OBVIOUS
    <3>2. <<>> \in Seq(Message)
      OBVIOUS
    <3> HIDE DEF Init
    <3> QED BY <3>1, <3>2
  <2>4. reader \in Listings
    <3>1. reader = NoListing
      OBVIOUS
    <3> HIDE DEF Init
    <3> QED BY <3>1, <1>2a
  <2> QED BY <2>1, <2>2, <2>3, <2>4 DEF Typed
<1>4. WorkInv /\ OnceInv
  BY <1>1, <1>2 DEF WorkInv, OnceInv
<1>5. 0 % Round = 0
  BY <1>1, Remainder, 0 \in 0 .. Round - 1, 0 = Round * 0 + 0
<1>6. RoundInv
  BY <1>1, <1>5 DEF RoundInv
<1>7. FirstRoundInv /\ AloneInv
  BY <1>1, <1>2 DEF FirstRoundInv, NoCollisionInFirstRound, AloneInv
<1>8. \A s \in Slot : Latest(s) < 1
  BY <1>1 DEF Latest
<1>9. \A s \in Slot : ~(Latest(s) >= 1)
  BY <1>1 DEF Latest
<1>10. LatestInv /\ FileInv
  BY <1>9 DEF LatestInv, FileInv
<1> QED BY <1>3, <1>4, <1>6, <1>7, <1>10 DEF IInv

(* A listing does not change what the invariants are about. *)
LEMMA ListingStep ==
    ASSUME IInv, BeginListing \/ Serve
    PROVE  IInv'
<1>1. UNCHANGED <<emitted, queue, work, storeVars, added, collided, failed>>
  BY DEF BeginListing, Serve, ReaderStep, ReadIndex, MeasureFile, Measured, OpenRegion,
         FileNotFound, AllOpened, SendRegion, RegionTooLong, AllSent, EndListing,
         historyVars
<1>2. reader' \in Listings
  <2> USE RoundIsNat DEF Listings
  <2>1. /\ index \in Slot /\ reader \in Listings /\ wrapped \in BOOLEAN
        /\ \A s \in Slot : file[s].text \in Texts /\ file[s].length \in Nat
    BY DEF IInv, Typed
  <2>2. CASE BeginListing
    <3>1. Limit - 1 \in Slot
      OBVIOUS
    <3>2. \/ reader' = [reader EXCEPT !.upper = Limit - 1, !.phase = "measuring"]
          \/ reader' = [reader EXCEPT !.phase = "indexing"]
      BY <2>2 DEF BeginListing
    <3> HIDE DEF Slot
    <3> QED BY <2>1, <3>1, <3>2, ZenonT(40)
  <2>3. CASE ReadIndex
    BY <2>1, <2>3 DEF ReadIndex, ReaderStep
  <2>4. reader.at <= reader.upper => reader.at \in Slot /\ reader.at + 1 \in 0 .. Limit
    BY <2>1
  <2>5. CASE MeasureFile
    <3>1. reader.length + file[reader.at].length \in Nat /\ reader.at + 1 \in 0 .. Limit
      <4>1. reader.at \in Slot /\ reader.at + 1 \in 0 .. Limit
        BY <2>4, <2>5 DEF MeasureFile
      <4>2. reader.length \in Nat /\ file[reader.at].length \in Nat
        BY <2>1, <4>1
      <4> QED BY <4>1, <4>2
    <3>2. reader' = [reader EXCEPT !.length = @ + file[reader.at].length, !.at = @ + 1]
      BY <2>5 DEF MeasureFile, ReaderStep
    <3> HIDE DEF Slot
    <3> QED BY <2>1, <3>1, <3>2, ZenonT(40)
  <2>6. CASE Measured \/ AllOpened
    <3>1. 0 \in 0 .. Limit
      OBVIOUS
    <3>2. \/ reader' = [reader EXCEPT !.at = 0, !.phase = "opening"]
          \/ reader' = [reader EXCEPT !.at = 0, !.phase = "sending"]
      BY <2>6 DEF Measured, AllOpened, ReaderStep
    <3> HIDE DEF Slot
    <3> QED BY <2>1, <3>1, <3>2, ZenonT(40)
  <2>7. CASE OpenRegion
    <3>1. Append(reader.regions, file[reader.at].length) \in Seq(Nat)
      BY <2>1, <2>4, <2>7 DEF OpenRegion
    <3> QED BY <2>1, <2>4, <2>7, <3>1 DEF OpenRegion, ReaderStep
  <2>8. CASE FileNotFound \/ RegionTooLong \/ AllSent
    BY <2>1, <2>8 DEF FileNotFound, RegionTooLong, AllSent, ReaderStep
  <2>9. CASE SendRegion
    <3>1. Append(reader.served, file[reader.at].text) \in Seq(Texts)
      BY <2>1, <2>4, <2>9 DEF SendRegion
    <3> QED BY <2>1, <2>4, <2>9, <3>1 DEF SendRegion, ReaderStep
  <2>10. CASE EndListing
    <3>1. <<>> \in Seq(Nat) /\ <<>> \in Seq(Texts)
      OBVIOUS
    <3> QED BY <2>1, <2>10, <3>1 DEF EndListing, NoListing
  <2> QED BY <2>2, <2>3, <2>5, <2>6, <2>7, <2>8, <2>9, <2>10 DEF Serve
<1>3. Typed'
  BY <1>1, <1>2 DEF IInv, Typed, storeVars
<1>4. (WorkInv /\ OnceInv /\ RoundInv)'
  BY <1>1 DEF IInv, WorkInv, OnceInv, RoundInv, storeVars, In
<1>5. (FirstRoundInv /\ AloneInv)'
  BY <1>1 DEF IInv, FirstRoundInv, AloneInv, NoCollisionInFirstRound, storeVars, In, OnFile
<1>6. (LatestInv /\ FileInv)'
  BY <1>1 DEF IInv, LatestInv, FileInv, Latest, storeVars, In, OnFile
<1> QED BY <1>3, <1>4, <1>5, <1>6 DEF IInv

(* What a worker does to its own work. *)
LEMMA WorkChanged ==
    ASSUME Typed, NEW w \in Worker, NEW t \in Task, work' = [work EXCEPT ![w] = t]
    PROVE  /\ work' \in [Worker -> Task]
           /\ work'[w] = t
           /\ \A v \in Worker : v # w => work'[v] = work[v]
BY DEF Typed

LEMMA EmitStep ==
    ASSUME IInv, Emit
    PROVE  IInv'
<1> USE DEF Emit, storeVars, historyVars
<1>1. /\ emitted' = emitted + 1 /\ queue' = queue \cup {emitted + 1}
      /\ emitted \in Nat /\ queue \subseteq 1 .. emitted
  BY RoundIsNat DEF IInv, Typed
<1>2. Typed'
  BY <1>1, RoundIsNat DEF IInv, Typed
<1>3. WorkInv'
  BY <1>1 DEF IInv, WorkInv, In
<1>4. OnceInv'
  BY <1>1 DEF IInv, OnceInv, WorkInv, In
<1>5. (RoundInv /\ LatestInv)'
  BY DEF IInv, RoundInv, LatestInv, Latest
<1>6. (FirstRoundInv /\ AloneInv)'
  BY DEF IInv, FirstRoundInv, AloneInv, NoCollisionInFirstRound, In, OnFile
<1>7. FileInv'
  BY DEF IInv, FileInv, Latest, In, OnFile
<1> QED BY <1>2, <1>3, <1>4, <1>5, <1>6, <1>7 DEF IInv

LEMMA TakeStep ==
    ASSUME IInv, NEW w \in Worker, Take(w)
    PROVE  IInv'
<1> USE DEF storeVars, historyVars
<1>1. PICK m \in queue : /\ queue' = queue \ {m}
                         /\ work' = [work EXCEPT ![w] = [NoWork EXCEPT !.message = m,
                                                                     !.phase = "taken"]]
  BY DEF Take
<1> DEFINE t == [NoWork EXCEPT !.message = m, !.phase = "taken"]
<1>2. m \in 1 .. emitted /\ m \in Message
  BY RoundIsNat DEF IInv, Typed
<1>3. t \in Task /\ t.message = m /\ t.phase = "taken"
  <2>1. -1 \in Slot
    BY RoundIsNat
  <2>2. NoWork \in Task
    BY <2>1 DEF NoWork, Task
  <2> HIDE DEF Slot, Message
  <2> QED BY <1>2, <2>2 DEF Task
<1> HIDE DEF t
<1>4. /\ work' \in [Worker -> Task] /\ work'[w].message = m /\ work'[w].phase = "taken"
      /\ \A v \in Worker : v # w => work'[v] = work[v]
  BY <1>1, <1>3, WorkChanged DEF IInv, t
<1>5. UNCHANGED <<emitted, index, wrapped, file, reader, added, collided, failed>>
  BY DEF Take
<1>6. work[w].phase = "idle" /\ NoWork.phase = "idle"
  BY DEF Take, Adding, IInv, WorkInv, In, NoWork
<1>7. Typed'
  BY <1>1, <1>4, <1>5 DEF IInv, Typed
<1>8. WorkInv'
  BY <1>2, <1>4, <1>5, <1>6 DEF IInv, WorkInv, In
<1>9. OnceInv'
  BY <1>1, <1>2, <1>4, <1>5 DEF IInv, OnceInv, In
<1>10. (RoundInv /\ LatestInv)'
  BY <1>5 DEF IInv, RoundInv, LatestInv, Latest
<1>11. \A v \in Worker : /\ OnFile(v)' <=> OnFile(v)
                         /\ In(v, "writing")' <=> In(v, "writing")
                         /\ OnFile(v) => work'[v] = work[v]
  BY <1>4, <1>6 DEF OnFile, In
<1>12. FirstRoundInv' /\ AloneInv'
  <2>1. FirstRoundInv'
    BY <1>5, <1>11 DEF IInv, FirstRoundInv, NoCollisionInFirstRound, Round
  <2>2. \A v \in Worker : In(v, "writing") => OnFile(v)
    BY DEF OnFile
  <2>3. AloneInv'
    BY <1>5, <1>11, <2>2 DEF IInv, AloneInv
  <2> QED BY <2>1, <2>3
<1>13. FileInv'
  BY <1>5, <1>11 DEF IInv, FileInv, Latest
<1> QED BY <1>7, <1>8, <1>9, <1>10, <1>12, <1>13 DEF IInv

(* The next index is the first to be used again. *)
LEMMA GetLatestIndexStep ==
    ASSUME IInv, NEW w \in Worker, GetLatestIndex(w)
    PROVE  IInv'
<1> DEFINE n == Len(added)
           m == work[w].message
<1>0. PICK i : i = NextIndex
  OBVIOUS
<1>1. /\ wrapped' = (wrapped \/ index + 1 = Limit)
      /\ work' = [work EXCEPT ![w].slot = NextIndex, ![w].phase = "opening"]
      /\ added' = Append(added, m)
      /\ collided' = (collided \/ \E v \in Worker : OnFile(v) /\ work[v].slot = i)
      /\ UNCHANGED <<emitted, queue, file, reader, failed>>
      /\ index' = i
      /\ work[w].phase = "taken"
  BY <1>0 DEF GetLatestIndex, TakeIndex, In
<1>2. /\ Limit \in Nat \ {0} /\ Round = Limit + 1 /\ Round \in Nat \ {0}
      /\ index \in Slot /\ added \in Seq(Message) /\ work \in [Worker -> Task]
      /\ work[w] \in Task /\ emitted \in 0 .. MaxMessages /\ MaxMessages \in Nat
  BY RoundIsNat DEF IInv, Typed, Round
<1>3. i \in Slot /\ i = IF index + 1 = Limit THEN -1 ELSE index + 1
  BY <1>0, <1>2 DEF NextIndex
<1>4. m \in 1 .. emitted /\ m \in Message
  BY <1>1, <1>2 DEF IInv, WorkInv, In
<1>5. /\ n \in Nat /\ Len(added') = n + 1 /\ added'[n + 1] = m
      /\ \A k \in 1 .. n : added'[k] = added[k]
      /\ added' \in Seq(Message)
  BY <1>1, <1>2, <1>4
<1> DEFINE t == [work[w] EXCEPT !.slot = i, !.phase = "opening"]
<1>6. t \in Task /\ t.message = m /\ t.slot = i /\ t.phase = "opening"
  <2> HIDE DEF Slot
  <2> QED BY <1>2, <1>3 DEF Task
<1>7. work' = [work EXCEPT ![w] = t]
  BY <1>0, <1>1, <1>2
<1> HIDE DEF t
<1>8. /\ work' \in [Worker -> Task]
      /\ work'[w].message = m /\ work'[w].slot = i /\ work'[w].phase = "opening"
      /\ \A v \in Worker : v # w => work'[v] = work[v]
  BY <1>6, <1>7, WorkChanged DEF IInv
<1> HIDE DEF m, n
<1>9. Typed'
  BY <1>1, <1>3, <1>5, <1>8 DEF IInv, Typed
<1>10. WorkInv'
  <2>1. NoWork.phase = "idle"
    BY DEF NoWork
  <2> QED BY <1>1, <1>4, <1>8, <2>1 DEF IInv, WorkInv, In
<1>11. OnceInv'
  <2>1. m \notin queue /\ \A k \in 1 .. n : added[k] # m
    BY <1>1 DEF IInv, OnceInv, In, m, n
  <2>2. \A k \in 1 .. n + 1 : k \in 1 .. n \/ k = n + 1
    BY <1>5
  <2>3. \A k \in 1 .. n : added[k] \in (1 .. emitted) \ queue
    BY DEF IInv, OnceInv, n
  <2>4. \A j, k \in 1 .. n : added[j] = added[k] => j = k
    BY DEF IInv, OnceInv, n
  <2>5. \A v \in Worker \ {w} : In(v, "taken") =>
            /\ work[v].message \notin queue
            /\ work[v].message # m
            /\ \A k \in 1 .. n : added[k] # work[v].message
    BY <1>1 DEF IInv, OnceInv, In, m, n
  <2>6. \A u, v \in Worker \ {w} : In(u, "taken") /\ In(v, "taken") /\ u # v
                                       => work[u].message # work[v].message
    BY DEF IInv, OnceInv
  <2>7. \A v \in Worker : In(v, "taken")' => v # w /\ In(v, "taken") /\ work'[v] = work[v]
    BY <1>8 DEF In
  <2>8. \A k \in 1 .. Len(added') : added'[k] \in ((1 .. emitted) \ queue)'
    BY <1>1, <1>4, <1>5, <2>1, <2>2, <2>3
  <2>9. \A j, k \in 1 .. Len(added') : added'[j] = added'[k] => j = k
    BY <1>5, <2>1, <2>2, <2>4
  <2>10. \A v \in Worker : In(v, "taken")' =>
            /\ work'[v].message \notin queue'
            /\ \A k \in 1 .. Len(added') : added'[k] # work'[v].message
    <3> SUFFICES ASSUME NEW v \in Worker, In(v, "taken")'
                 PROVE  /\ work'[v].message \notin queue'
                        /\ \A k \in 1 .. Len(added') : added'[k] # work'[v].message
      OBVIOUS
    <3>1. v # w /\ In(v, "taken") /\ work'[v].message = work[v].message
      BY <2>7
    <3>2. work'[v].message \notin queue'
      BY <1>1, <2>5, <3>1
    <3>3. \A k \in 1 .. Len(added') : added'[k] # work'[v].message
      <4>1. work[v].message # m /\ \A k \in 1 .. n : added[k] # work[v].message
        BY <2>5, <3>1
      <4> QED BY <1>5, <2>2, <3>1, <4>1
    <3> QED BY <3>2, <3>3
  <2>11. \A u, v \in Worker : In(u, "taken")' /\ In(v, "taken")' /\ u # v
                                       => work'[u].message # work'[v].message
    BY <2>6, <2>7
  <2> QED BY <2>8, <2>9, <2>10, <2>11 DEF OnceInv
<1>12. /\ index + 1 = n % Round
       /\ wrapped <=> n >= Round
       /\ n < Round => index = n - 1
       /\ n >= Round => n >= Round + index + 1
  BY DEF IInv, RoundInv, n
<1>13. i + 1 = (n + 1) % Round
  <2>1. (n + 1) % Round = IF n % Round = Round - 1 THEN 0 ELSE (n % Round) + 1
    BY <1>2, <1>5, NextRemainder
  <2> QED BY <1>2, <1>3, <1>12, <2>1
<1>14. RoundInv'
  <2>1. wrapped' <=> n + 1 >= Round
    <3>1. index + 1 = Limit => wrapped' = TRUE
      BY <1>1
    <3>2. index + 1 # Limit => wrapped' = wrapped
      BY <1>1, wrapped \in BOOLEAN DEF IInv, Typed
    <3>3. CASE index + 1 = Limit
      BY <1>2, <1>5, <1>12, <3>1, <3>3
    <3>4. CASE index + 1 # Limit
      <4>1. n >= Round <=> n + 1 >= Round
        BY <1>2, <1>5, <1>12, <3>4
      <4> QED BY <1>12, <3>2, <3>4, <4>1
    <3> QED BY <3>3, <3>4
  <2>2. n + 1 < Round => i = n
    BY <1>2, <1>3, <1>5, <1>12
  <2>3. n + 1 >= Round => n + 1 >= Round + i + 1
    BY <1>2, <1>3, <1>5, <1>12
  <2>4. Round' = Round
    BY DEF Round
  <2> QED BY <1>1, <1>5, <1>13, <2>1, <2>2, <2>3, <2>4 DEF RoundInv
<1>15. /\ Latest(i)' = n + 1
       /\ \A s \in Slot : s # i => Latest(s)' = Latest(s)
       /\ \A s \in Slot : Latest(s) \in Int /\ Latest(s) <= n
  <2>1. Latest(i)' = n + 1
    BY <1>1, <1>2, <1>3, <1>5 DEF Latest
  <2> SUFFICES ASSUME NEW s \in Slot
               PROVE  /\ s # i => Latest(s)' = Latest(s)
                      /\ Latest(s) \in Int /\ Latest(s) <= n
    BY <2>1
  <2>2. Latest(s) = n - (IF s <= index THEN index - s ELSE index - s + Limit + 1)
    BY <1>2 DEF Latest, n
  <2>3. Latest(s)' = (n + 1) - (IF s <= i THEN i - s ELSE i - s + Limit + 1)
    <3>1. Len(added)' = n + 1 /\ index' = i /\ Round' = Limit + 1
      BY <1>1, <1>5 DEF Round
    <3>2. Latest(s)' = Len(added)' - (IF s <= index' THEN index' - s ELSE index' - s + Round')
      BY DEF Latest
    <3> QED BY <1>2, <1>3, <1>5, <3>1, <3>2
  <2> QED BY <1>2, <1>3, <1>5, <2>2, <2>3
<1>16. LatestInv'
  <2> SUFFICES ASSUME NEW s \in Slot, Latest(s)' >= 1
               PROVE  Latest(s)' % Round = s + 1
    BY DEF LatestInv, Round
  <2>1. CASE s = i
    BY <2>1, <1>13, <1>15
  <2>2. CASE s # i
    BY <2>2, <1>15 DEF IInv, LatestInv
  <2> QED BY <2>1, <2>2
<1>17. /\ ~In(w, "opening") /\ ~In(w, "writing")
       /\ \A v \in Worker : /\ OnFile(v)' <=> v = w \/ OnFile(v)
                            /\ In(v, "writing")' <=> In(v, "writing")
                            /\ v # w => work'[v] = work[v]
  BY <1>1, <1>8 DEF OnFile, In
<1>18. n < Round => \A v \in Worker : OnFile(v) => work[v].slot \in 0 .. index
  BY DEF IInv, FirstRoundInv, n
<1>19. FirstRoundInv'
  <2>1. n + 1 < Round => \A v \in Worker : OnFile(v)' => work'[v].slot \in 0 .. i
    <3> SUFFICES ASSUME n + 1 < Round, NEW v \in Worker, OnFile(v)'
                 PROVE  work'[v].slot \in 0 .. i
      OBVIOUS
    <3>1. i = n /\ index = n - 1
      BY <1>2, <1>3, <1>5, <1>12
    <3>2. CASE v = w
      BY <1>5, <1>8, <3>1, <3>2
    <3>3. CASE v # w
      <4>1. work[v].slot \in 0 .. index /\ work'[v] = work[v]
        BY <1>2, <1>5, <1>17, <1>18, <3>3
      <4> QED BY <1>5, <3>1, <4>1
    <3> QED BY <3>2, <3>3
  <2>2. collided' => n + 1 > Limit + 1
    <3> SUFFICES ASSUME collided', n + 1 <= Limit + 1
                 PROVE  FALSE
      BY <1>2, <1>5
    <3>1. ~collided
      BY <1>2, <1>5 DEF IInv, FirstRoundInv, NoCollisionInFirstRound, n
    <3>2. PICK v \in Worker : OnFile(v) /\ work[v].slot = i
      BY <1>1, <3>1
    <3>3. index = n - 1 /\ i \in 0 .. index
      BY <1>2, <1>5, <1>12, <1>18, <3>2
    <3> QED BY <1>2, <1>3, <1>5, <3>3
  <2> QED BY <1>1, <1>5, <2>1, <2>2 DEF FirstRoundInv, NoCollisionInFirstRound, Round
<1>20. ~collided' => ~collided /\ \A v \in Worker : OnFile(v) => work[v].slot # i
  BY <1>1
<1>21. AloneInv'
  <2> SUFFICES ASSUME ~collided' PROVE AloneInv'
    BY DEF AloneInv
  <2>1. \A u, v \in Worker : OnFile(u)' /\ OnFile(v)' /\ work'[u].slot = work'[v].slot
                                 => u = v
    BY <1>8, <1>17, <1>20 DEF IInv, AloneInv
  <2>2. \A v \in Worker : In(v, "writing")' =>
            file'[work'[v].slot] = [text |-> Empty, length |-> 0]
    <3> SUFFICES ASSUME NEW v \in Worker, In(v, "writing")'
                 PROVE  file'[work'[v].slot] = [text |-> Empty, length |-> 0]
      OBVIOUS
    <3>1. v # w /\ In(v, "writing") /\ work'[v].slot = work[v].slot
      BY <1>17
    <3> QED BY <1>1, <1>20, <3>1 DEF IInv, AloneInv
  <2> QED BY <2>1, <2>2 DEF AloneInv
<1>22. FileInv'
  <2> SUFFICES ASSUME ~collided', ~failed', NEW s \in Slot, Latest(s)' >= 1
               PROVE  \/ \E v \in Worker : /\ OnFile(v)' /\ work'[v].slot = s
                                           /\ work'[v].message = added'[Latest(s)']
                      \/ /\ \A v \in Worker : OnFile(v)' => work'[v].slot # s
                         /\ file'[s].text = added'[Latest(s)']
    BY DEF FileInv
  <2>1. CASE s = i
    BY <1>5, <1>8, <1>15, <1>17, <2>1
  <2>2. CASE s # i
    <3>1. Latest(s)' = Latest(s) /\ added'[Latest(s)'] = added[Latest(s)]
      BY <1>5, <1>15, <2>2
    <3>2. \/ \E v \in Worker : /\ OnFile(v) /\ work[v].slot = s
                               /\ work[v].message = added[Latest(s)]
          \/ /\ \A v \in Worker : OnFile(v) => work[v].slot # s
             /\ file[s].text = added[Latest(s)]
      BY <1>1, <1>20, <3>1 DEF IInv, FileInv
    <3>3. file' = file /\ ~OnFile(w)
      BY <1>1, <1>17 DEF OnFile
    <3> QED BY <1>8, <1>17, <2>2, <3>1, <3>2, <3>3
  <2> QED BY <2>1, <2>2
<1> QED BY <1>9, <1>10, <1>11, <1>14, <1>16, <1>19, <1>21, <1>22 DEF IInv

LEMMA OpenFileStep ==
    ASSUME IInv, NEW w \in Worker, OpenFile(w)
    PROVE  IInv'
<1>1. PICK s : s = work[w].slot
  OBVIOUS
<1>2. /\ work[w].phase = "opening"
      /\ file' = [file EXCEPT ![s] = [text |-> Empty, length |-> 0]]
      /\ work' = [work EXCEPT ![w].phase = "writing"]
      /\ UNCHANGED <<emitted, queue, index, wrapped, reader, added, collided, failed>>
  BY <1>1 DEF OpenFile, In
<1>3. /\ work \in [Worker -> Task] /\ work[w] \in Task /\ s \in Slot
      /\ file \in [Slot -> [text : Texts, length : Nat]]
  BY <1>1 DEF IInv, Typed, Task
<1> DEFINE t == [work[w] EXCEPT !.phase = "writing"]
<1>4. t \in Task /\ t.message = work[w].message /\ t.slot = s /\ t.phase = "writing"
  <2> HIDE DEF Slot
  <2> QED BY <1>1, <1>3 DEF Task
<1>5. work' = [work EXCEPT ![w] = t]
  BY <1>2, <1>3
<1> HIDE DEF t
<1>6. /\ work' \in [Worker -> Task]
      /\ work'[w].message = work[w].message /\ work'[w].slot = s
      /\ work'[w].phase = "writing"
      /\ \A v \in Worker : v # w => work'[v] = work[v]
  BY <1>4, <1>5, WorkChanged DEF IInv
<1>7. /\ file' \in [Slot -> [text : Texts, length : Nat]]
      /\ file'[s] = [text |-> Empty, length |-> 0]
      /\ \A r \in Slot : r # s => file'[r] = file[r]
  BY <1>2, <1>3 DEF Texts
<1>8. Typed'
  BY <1>2, <1>6, <1>7 DEF IInv, Typed
<1>9. NoWork.phase = "idle"
  BY DEF NoWork
<1>10. WorkInv'
  BY <1>2, <1>6, <1>9 DEF IInv, WorkInv, In
<1>11. \A v \in Worker : /\ In(v, "taken")' <=> In(v, "taken")
                         /\ OnFile(v)' <=> OnFile(v)
                         /\ In(v, "writing")' <=> v = w \/ In(v, "writing")
                         /\ work'[v].message = work[v].message
                         /\ work'[v].slot = work[v].slot
  BY <1>1, <1>2, <1>6 DEF OnFile, In
<1>12. OnceInv'
  BY <1>2, <1>11 DEF IInv, OnceInv
<1>13. (RoundInv /\ LatestInv)'
  BY <1>2 DEF IInv, RoundInv, LatestInv, Latest
<1>14. FirstRoundInv'
  BY <1>2, <1>11 DEF IInv, FirstRoundInv, NoCollisionInFirstRound, Round
<1>15. OnFile(w)
  BY <1>2 DEF OnFile, In
<1>16. AloneInv'
  <2> SUFFICES ASSUME ~collided
               PROVE  /\ \A u, v \in Worker : OnFile(u)' /\ OnFile(v)'
                             /\ work'[u].slot = work'[v].slot => u = v
                      /\ \A v \in Worker : In(v, "writing")' =>
                             file'[work'[v].slot] = [text |-> Empty, length |-> 0]
    BY <1>2 DEF AloneInv
  <2>1. \A u, v \in Worker : OnFile(u) /\ OnFile(v) /\ work[u].slot = work[v].slot
                                 => u = v
    BY DEF IInv, AloneInv
  <2>2. ASSUME NEW v \in Worker, In(v, "writing")'
        PROVE  file'[work'[v].slot] = [text |-> Empty, length |-> 0]
    <3>1. CASE v = w
      BY <1>6, <1>7, <3>1
    <3>2. CASE v # w
      <4>1. In(v, "writing") /\ OnFile(v) /\ work[v].slot \in Slot
        BY <1>3, <1>11, <2>2, <3>2 DEF OnFile, Task
      <4>2. work[v].slot # s
        BY <1>1, <1>15, <2>1, <3>2, <4>1
      <4>3. file[work[v].slot] = [text |-> Empty, length |-> 0]
        BY <4>1 DEF IInv, AloneInv
      <4> QED BY <1>7, <1>11, <4>1, <4>2, <4>3
    <3> QED BY <3>1, <3>2
  <2> QED BY <1>11, <2>1, <2>2
<1>17. FileInv'
  <2> SUFFICES ASSUME ~collided, ~failed, NEW r \in Slot, Latest(r) >= 1
               PROVE  \/ \E v \in Worker : /\ OnFile(v) /\ work[v].slot = r
                                           /\ work[v].message = added[Latest(r)]
                      \/ /\ \A v \in Worker : OnFile(v) => work[v].slot # r
                         /\ file'[r].text = added[Latest(r)]
    BY <1>2, <1>11 DEF FileInv, Latest, Round
  <2>1. \/ \E v \in Worker : /\ OnFile(v) /\ work[v].slot = r
                             /\ work[v].message = added[Latest(r)]
        \/ /\ \A v \in Worker : OnFile(v) => work[v].slot # r
           /\ file[r].text = added[Latest(r)]
    BY DEF IInv, FileInv
  <2> QED BY <1>1, <1>7, <1>15, <2>1
<1> QED BY <1>8, <1>10, <1>12, <1>13, <1>14, <1>16, <1>17 DEF IInv

(* The text replaces what OpenFile has left, nothing. *)
LEMMA WriteFileStep ==
    ASSUME IInv, NEW w \in Worker, WriteFile(w)
    PROVE  IInv'
<1>1. PICK s, m : s = work[w].slot /\ m = work[w].message
  OBVIOUS
<1> DEFINE over == Size(m) < file[s].length
           written == [text |-> IF over THEN Garbled ELSE m,
                       length |-> IF over THEN file[s].length ELSE Size(m)]
<1>2. /\ work[w].phase = "writing"
      /\ file' = [file EXCEPT ![s] = written]
      /\ work' = [work EXCEPT ![w] = NoWork]
      /\ UNCHANGED <<emitted, queue, index, wrapped, reader, added, collided, failed>>
  BY <1>1 DEF WriteFile, In
<1>3. /\ work \in [Worker -> Task] /\ work[w] \in Task /\ s \in Slot /\ m \in Message
      /\ file \in [Slot -> [text : Texts, length : Nat]] /\ Size(m) \in Nat
  <2>1. m \in 1 .. emitted /\ emitted \in 0 .. MaxMessages
    BY <1>1, <1>2 DEF IInv, Typed, WorkInv, In
  <2>2. m \in Message
    BY <2>1, RoundIsNat
  <2> QED BY <1>1, <2>2, SizeAssumption DEF IInv, Typed, Task
<1>4. written \in [text : Texts, length : Nat]
  <2>1. file[s].length \in Nat
    BY <1>3
  <2> QED BY <1>3, <2>1 DEF Texts
<1>5. /\ file' \in [Slot -> [text : Texts, length : Nat]]
      /\ file'[s] = written
      /\ \A r \in Slot : r # s => file'[r] = file[r]
  <2> HIDE DEF written, Slot
  <2> QED BY <1>2, <1>3, <1>4
<1>6. NoWork \in Task /\ NoWork.phase = "idle"
  BY RoundIsNat DEF NoWork, Task
<1>7. /\ work' \in [Worker -> Task] /\ work'[w] = NoWork
      /\ \A v \in Worker : v # w => work'[v] = work[v]
  BY <1>2, <1>6, WorkChanged DEF IInv
<1>8. Typed'
  BY <1>2, <1>5, <1>7 DEF IInv, Typed
<1>9. WorkInv'
  BY <1>2, <1>6, <1>7 DEF IInv, WorkInv, In
<1>10. OnFile(w) /\ \A v \in Worker : /\ OnFile(v)' <=> OnFile(v) /\ v # w
                                      /\ In(v, "taken")' <=> In(v, "taken")
                                      /\ In(v, "taken") => v # w
                                      /\ In(v, "writing")' <=> In(v, "writing") /\ v # w
                                      /\ In(v, "writing") => OnFile(v)
  BY <1>2, <1>6, <1>7 DEF OnFile, In
<1>11. OnceInv'
  BY <1>2, <1>7, <1>10 DEF IInv, OnceInv
<1>12. (RoundInv /\ LatestInv)'
  BY <1>2 DEF IInv, RoundInv, LatestInv, Latest
<1>13. FirstRoundInv'
  BY <1>2, <1>7, <1>10 DEF IInv, FirstRoundInv, NoCollisionInFirstRound, Round
<1>14. ~collided => \A v \in Worker : OnFile(v) /\ work[v].slot = s => v = w
  BY <1>1, <1>10 DEF IInv, AloneInv
<1>15. AloneInv'
  <2> SUFFICES ASSUME ~collided
               PROVE  /\ \A u, v \in Worker : OnFile(u)' /\ OnFile(v)'
                             /\ work'[u].slot = work'[v].slot => u = v
                      /\ \A v \in Worker : In(v, "writing")' =>
                             file'[work'[v].slot] = [text |-> Empty, length |-> 0]
    BY <1>2 DEF AloneInv
  <2>1. \A u, v \in Worker : OnFile(u)' /\ OnFile(v)'
            /\ work'[u].slot = work'[v].slot => u = v
    BY <1>7, <1>10 DEF IInv, AloneInv
  <2>2. ASSUME NEW v \in Worker, In(v, "writing")'
        PROVE  file'[work'[v].slot] = [text |-> Empty, length |-> 0]
    <3>1. In(v, "writing") /\ OnFile(v) /\ v # w /\ work'[v] = work[v]
      BY <1>7, <1>10, <2>2
    <3>2. work[v].slot # s /\ work[v].slot \in Slot
      BY <1>3, <1>14, <3>1 DEF Task
    <3>3. file[work[v].slot] = [text |-> Empty, length |-> 0]
      BY <3>1 DEF IInv, AloneInv
    <3> QED BY <1>5, <3>1, <3>2, <3>3
  <2> QED BY <2>1, <2>2
<1>16. FileInv'
  <2> SUFFICES ASSUME ~collided, ~failed, NEW r \in Slot, Latest(r) >= 1
               PROVE  \/ \E v \in Worker : /\ OnFile(v)' /\ work'[v].slot = r
                                           /\ work'[v].message = added[Latest(r)]
                      \/ /\ \A v \in Worker : OnFile(v)' => work'[v].slot # r
                         /\ file'[r].text = added[Latest(r)]
    BY <1>2 DEF FileInv, Latest, Round
  <2>1. \/ \E v \in Worker : /\ OnFile(v) /\ work[v].slot = r
                             /\ work[v].message = added[Latest(r)]
        \/ /\ \A v \in Worker : OnFile(v) => work[v].slot # r
           /\ file[r].text = added[Latest(r)]
    BY DEF IInv, FileInv
  <2>2. CASE r = s
    <3>1. m = added[Latest(r)]
      BY <1>1, <1>10, <1>14, <2>1, <2>2
    <3>2. file[s].length = 0
      BY <1>1, <1>2 DEF IInv, AloneInv, In
    <3>3. ~over
      BY <1>3, <3>2
    <3>4. file'[s].text = m
      BY <1>5, <3>3
    <3>5. \A v \in Worker : OnFile(v)' => work'[v].slot # s
      BY <1>7, <1>10, <1>14
    <3> QED BY <2>2, <3>1, <3>4, <3>5
  <2>3. CASE r # s
    BY <1>1, <1>5, <1>7, <1>10, <2>1, <2>3
  <2> QED BY <2>2, <2>3
<1> QED BY <1>8, <1>9, <1>11, <1>12, <1>13, <1>15, <1>16 DEF IInv

LEMMA AddFailsStep ==
    ASSUME IInv, NEW w \in Worker, AddFails(w)
    PROVE  IInv'
<1>1. /\ OnFile(w) /\ failed' = TRUE
      /\ work' = [work EXCEPT ![w] = NoWork]
      /\ UNCHANGED <<emitted, queue, index, wrapped, file, reader, added, collided>>
  BY DEF AddFails, storeVars
<1>2. NoWork \in Task /\ NoWork.phase = "idle"
  BY RoundIsNat DEF NoWork, Task
<1>3. /\ work' \in [Worker -> Task] /\ work'[w] = NoWork
      /\ \A v \in Worker : v # w => work'[v] = work[v]
  BY <1>1, <1>2, WorkChanged DEF IInv
<1>4. Typed'
  BY <1>1, <1>3 DEF IInv, Typed
<1>5. WorkInv'
  BY <1>1, <1>2, <1>3 DEF IInv, WorkInv, In
<1>6. \A v \in Worker : /\ OnFile(v)' <=> OnFile(v) /\ v # w
                        /\ In(v, "taken")' <=> In(v, "taken")
                        /\ In(v, "taken") => v # w
                        /\ In(v, "writing")' <=> In(v, "writing") /\ v # w
  BY <1>1, <1>2, <1>3 DEF OnFile, In
<1>7. OnceInv'
  BY <1>1, <1>3, <1>6 DEF IInv, OnceInv
<1>8. (RoundInv /\ LatestInv)'
  BY <1>1 DEF IInv, RoundInv, LatestInv, Latest
<1>9. FirstRoundInv'
  BY <1>1, <1>3, <1>6 DEF IInv, FirstRoundInv, NoCollisionInFirstRound, Round
<1>10. AloneInv'
  BY <1>1, <1>3, <1>6 DEF IInv, AloneInv
<1>11. FileInv'
  BY <1>1 DEF FileInv
<1> QED BY <1>4, <1>5, <1>7, <1>8, <1>9, <1>10, <1>11 DEF IInv

LEMMA NextIInv == IInv /\ [Next]_vars => IInv'
<1> SUFFICES ASSUME IInv, [Next]_vars PROVE IInv'
  OBVIOUS
<1>1. CASE UNCHANGED vars
  <2> USE <1>1 DEF IInv, vars, storeVars, historyVars
  <2>1. Typed' /\ WorkInv' /\ OnceInv'
    BY DEF Typed, WorkInv, OnceInv, In
  <2>2. RoundInv' /\ FirstRoundInv' /\ LatestInv'
    BY DEF RoundInv, FirstRoundInv, NoCollisionInFirstRound, LatestInv, Latest, In, OnFile
  <2>3. AloneInv' /\ FileInv'
    BY DEF AloneInv, FileInv, Latest, In, OnFile
  <2> QED BY <2>1, <2>2, <2>3
<1>2. CASE Emit
  BY <1>2, EmitStep
<1>3. CASE BeginListing \/ Serve
  BY <1>3, ListingStep
<1>4. ASSUME NEW w \in Worker, Add(w) PROVE IInv'
  BY <1>4, TakeStep, GetLatestIndexStep, OpenFileStep, WriteFileStep, AddFailsStep DEF Add
<1> QED BY <1>1, <1>2, <1>3, <1>4 DEF Next

LEMMA Invariance == Spec => []IInv
BY InitIInv, NextIInv, PTL DEF Spec

(* No message is added twice, so that no more are added than were emitted. *)
LEMMA AddedWereEmitted == IInv => Len(added) <= emitted
<1> SUFFICES ASSUME IInv, Len(added) > emitted PROVE FALSE
  BY RoundIsNat DEF IInv, Typed
<1>1. Len(added) \in Nat /\ emitted \in Nat
  BY RoundIsNat DEF IInv, Typed
<1>2. /\ IsFiniteSet(1 .. Len(added)) /\ Cardinality(1 .. Len(added)) = Len(added)
      /\ IsFiniteSet(1 .. emitted) /\ Cardinality(1 .. emitted) = emitted
  <2>1. \A k \in Nat : IsFiniteSet(1 .. k) /\ Cardinality(1 .. k) = k
    <3> TAKE k \in Nat
    <3>1. 1 \in Int /\ k \in Int /\ (IF 1 > k THEN 0 ELSE k - 1 + 1) = k
      OBVIOUS
    <3>2. /\ IsFiniteSet(1 .. k)
          /\ Cardinality(1 .. k) = IF 1 > k THEN 0 ELSE k - 1 + 1
      BY <3>1, FS_Interval, ZenonT(30)
    <3> QED BY <3>1, <3>2
  <2> QED BY <1>1, <2>1
<1> DEFINE f == [n \in 1 .. Len(added) |-> added[n]]
<1>3. f \in [1 .. Len(added) -> 1 .. emitted]
  BY DEF IInv, OnceInv
<1> HIDE DEF f
<1>4. \E m, n \in 1 .. Len(added) : m # n /\ f[m] = f[n]
  BY <1>1, <1>2, <1>3, FS_PigeonHole
<1> QED BY <1>4 DEF IInv, OnceInv, f

(* The types of the store's and the listing's variables; the index, and    *)
(* the positions of a listing, stay within the ring.                       *)
THEOREM TypeCorrect == Spec => []TypeOK
<1>1. IInv => TypeOK
  <2> SUFFICES ASSUME IInv PROVE TypeOK
    OBVIOUS
  <2>1. /\ emitted \in 0 .. MaxMessages /\ queue \subseteq 1 .. emitted
        /\ index \in Slot /\ wrapped \in BOOLEAN /\ MaxMessages \in Nat
    BY RoundIsNat DEF IInv, Typed
  <2>2. queue \subseteq Message
    BY <2>1
  <2>3. work \in [Worker -> Task]
    BY DEF IInv, Typed
  <2>4. \A s \in Slot : file[s].text \in Texts /\ file[s].length \in Nat
    BY DEF IInv, Typed
  <2>5. reader.upper \in Slot /\ reader.at \in 0 .. Limit
    BY DEF IInv, Typed, Listings
  <2> QED BY <2>1, <2>2, <2>3, <2>4, <2>5, AddedWereEmitted DEF TypeOK, Task, Texts
<1> QED BY <1>1, Invariance, PTL

(* No two workers have the same file open before a whole round of messages *)
(* was added: getLatestIndex gives each of them an index of its own.       *)
THEOREM NoEarlyCollision == Spec => []NoCollisionInFirstRound
<1>1. IInv => NoCollisionInFirstRound
  BY DEF IInv, FirstRoundInv
<1> QED BY <1>1, Invariance, PTL

(* What an idle store with no disk error shows is the last round of        *)
(* messages but those that went to activity--1, in whatever order the      *)
(* workers wrote them, unless one was overtaken by a whole round.          *)
THEOREM RingHolds == Spec => []RingShowsLastRound
<1>1. IInv => RingShowsLastRound
  <2> SUFFICES ASSUME IInv, Quiet, ~failed, ~collided
               PROVE  Shown = {added[n] : n \in {k \in 1 .. Len(added) : InRing(k)}}
    BY DEF RingShowsLastRound
  <2>1. /\ Limit \in Nat \ {0} /\ Round = Limit + 1 /\ index \in Slot
        /\ Len(added) \in Nat /\ wrapped \in BOOLEAN
    BY RoundIsNat DEF IInv, Typed, Round
  <2>2. /\ wrapped <=> Len(added) >= Round
        /\ Len(added) < Round => index = Len(added) - 1
        /\ Len(added) >= Round => Len(added) >= Round + index + 1
    BY DEF IInv, RoundInv
  <2>3. \A s \in Slot : /\ Latest(s) \in Int /\ Latest(s) <= Len(added)
                        /\ Latest(s) + Round > Len(added)
    BY <2>1 DEF Latest
  <2>4. \A s \in Slot : Latest(s) >= 1 =>
            file[s].text = added[Latest(s)] /\ Latest(s) % Round = s + 1
    <3>1. \A w \in Worker : ~OnFile(w)
      BY DEF Quiet, Adding, OnFile, In, NoWork
    <3> QED BY <3>1 DEF IInv, FileInv, LatestInv
  <2>5. \A s \in Listed : s \in Slot /\ s # -1 /\ Latest(s) >= 1
    <3> SUFFICES ASSUME NEW s \in Listed
                 PROVE  s \in Slot /\ s # -1 /\ Latest(s) >= 1
      OBVIOUS
    <3>1. CASE wrapped
      BY <2>1, <2>2, <3>1 DEF Listed, Latest
    <3>2. CASE ~wrapped
      BY <2>1, <2>2, <3>2 DEF Listed, Latest
    <3> QED BY <3>1, <3>2
  <2>6. ASSUME NEW s \in Listed
        PROVE  \E n \in 1 .. Len(added) : InRing(n) /\ added[n] = file[s].text
    <3> HIDE DEF Slot
    <3>0. s \in Slot /\ s # -1 /\ Latest(s) >= 1
      BY <2>5
    <3>1. Latest(s) \in 1 .. Len(added) /\ added[Latest(s)] = file[s].text
      BY <2>1, <2>3, <2>4, <3>0
    <3>2. Latest(s) % Round = s + 1 /\ s + 1 # 0
      <4>1. s + 1 # 0
        BY <2>1, <3>0 DEF Slot
      <4> QED BY <2>4, <3>0, <4>1
    <3>3. Latest(s) + Limit + 1 > Len(added)
      BY <2>1, <2>3, <3>0
    <3> QED BY <2>1, <3>1, <3>2, <3>3 DEF InRing
  <2>7. ASSUME NEW n \in 1 .. Len(added), InRing(n)
        PROVE  \E s \in Listed : added[n] = file[s].text
    <3> DEFINE age == Len(added) - n
    <3>1. age \in 0 .. Limit /\ n % Round # 0
      BY <2>1, <2>7 DEF InRing
    <3>2. PICK s : s = IF index - age >= -1 THEN index - age ELSE index - age + Round
      OBVIOUS
    <3>3. s \in Slot /\ Latest(s) = n
      BY <2>1, <3>1, <3>2 DEF Latest
    <3>4. n >= 1 /\ s # -1
      BY <2>1, <2>4, <3>1, <3>3
    <3>5. s \in Listed
      <4>1. CASE wrapped
        BY <2>1, <3>3, <3>4, <4>1 DEF Listed
      <4>2. CASE ~wrapped
        BY <2>1, <2>2, <3>1, <3>2, <3>3, <3>4, <4>2 DEF Listed
      <4> QED BY <4>1, <4>2
    <3> QED BY <2>4, <3>3, <3>4, <3>5
  <2> QED BY <2>6, <2>7 DEF Shown
<1> QED BY <1>1, Invariance, PTL
-----------------------------------------------------------------------------
(* The sum that BodySent folds. *)
Total(s) == FoldLeft(LAMBDA x, y : x + y, 0, s)

LEMMA LeastNumber ==
    ASSUME NEW S, S \subseteq Nat, S # {}
    PROVE  \E n \in S : \A m \in S : n <= m
<1> DEFINE T == {0 .. n : n \in S}
<1>1. T \subseteq FiniteSubsetsOf(Nat) /\ T # {}
  <2>1. \A n \in S : 0 .. n \subseteq Nat /\ IsFiniteSet(0 .. n)
    BY FS_Interval
  <2> QED BY <2>1 DEF FiniteSubsetsOf
<1>2. PICK X \in T : \A Y \in T : ~(<<Y, X>> \in StrictSubsetOrdering(Nat))
  <2> HIDE DEF T
  <2> QED BY <1>1, FS_StrictSubsetOrderingWellFounded, WFMin
<1>3. PICK n \in S : X = 0 .. n
  OBVIOUS
<1>4. ASSUME NEW m \in S, m < n PROVE FALSE
  <2>1. 0 .. m \in T /\ 0 .. m \subseteq 0 .. n /\ 0 .. m # 0 .. n
    BY <1>4
  <2>2. 0 .. m \in SUBSET Nat /\ 0 .. n \in SUBSET Nat
    BY <1>1
  <2>3. <<0 .. m, 0 .. n>> \in StrictSubsetOrdering(Nat)
    BY <2>1, <2>2, Zenon DEF StrictSubsetOrdering
  <2> QED BY <1>2, <1>3, <2>1, <2>3
<1> QED BY <1>4
(* The sums of the subsequences of s, each without its last and with it.   *)
IsSums(iter, s, D) ==
    iter = [t \in SUBSET D |-> IF t = {} THEN 0 ELSE iter[t \ {Max(t)}] + s[Max(t)]]

LEMMA TotalIsSum ==
    ASSUME NEW s
    PROVE  Total(s) = (CHOOSE iter : IsSums(iter, s, DOMAIN s))[DOMAIN s]
BY DEF Total, FoldLeft, MapThenFoldSet, IsSums

LEMMA MaxOfPrefix ==
    ASSUME NEW n \in Nat, NEW t \in SUBSET (1 .. n + 1), n + 1 \in t
    PROVE  Max(t) = n + 1 /\ t \ {Max(t)} \in SUBSET (1 .. n)
<1>1. n + 1 \in t /\ \A y \in t : n + 1 >= y
  OBVIOUS
<1>2. PICK x \in t : x = Max(t) /\ \A y \in t : x >= y
  BY <1>1 DEF Max
<1>3. x = n + 1
  BY <1>1, <1>2
<1> QED BY <1>2, <1>3

LEMMA SumsExist ==
    ASSUME NEW s, NEW n \in Nat
    PROVE  \E iter : IsSums(iter, s, 1 .. n)
<1> DEFINE S == {m \in Nat : ~\E iter : IsSums(iter, s, 1 .. m)}
<1> SUFFICES ASSUME S # {} PROVE FALSE
  OBVIOUS
<1>1. PICK m \in S : \A k \in S : m <= k
  <2>1. S \subseteq Nat
    OBVIOUS
  <2> HIDE DEF S
  <2> QED BY <2>1, LeastNumber
<1>2. CASE m = 0
  <2> DEFINE g == [t \in SUBSET (1 .. m) |-> 0]
  <2>1. 1 .. m = {}
    BY <1>2
  <2>2. IsSums(g, s, 1 .. m)
    BY <2>1 DEF IsSums
  <2> QED BY <1>1, <2>2
<1>3. CASE m # 0
  <2>1. PICK k \in Nat : m = k + 1
    BY <1>3, m \in Nat, m - 1 \in Nat
  <2>2. k \notin S
    BY <1>1, <2>1
  <2>3. PICK g : IsSums(g, s, 1 .. k)
    BY <2>2
  <2> DEFINE h == [t \in SUBSET (1 .. k + 1) |->
                      IF k + 1 \in t THEN g[t \ {k + 1}] + s[k + 1] ELSE g[t]]
  <2>4. \A t \in SUBSET (1 .. k) : h[t] = g[t]
    OBVIOUS
  <2>5. ASSUME NEW t \in SUBSET (1 .. k + 1)
        PROVE  h[t] = IF t = {} THEN 0 ELSE h[t \ {Max(t)}] + s[Max(t)]
    <3>1. CASE k + 1 \in t
      <4>1. Max(t) = k + 1 /\ t \ {Max(t)} \in SUBSET (1 .. k)
        BY <3>1, MaxOfPrefix
      <4> QED BY <2>4, <3>1, <4>1
    <3>2. CASE k + 1 \notin t
      <4>1. t \in SUBSET (1 .. k)
        BY <3>2
      <4>2. g[t] = IF t = {} THEN 0 ELSE g[t \ {Max(t)}] + s[Max(t)]
        BY <2>3, <4>1 DEF IsSums
      <4>3. t \ {Max(t)} \in SUBSET (1 .. k)
        BY <4>1
      <4> QED BY <2>4, <4>1, <4>2, <4>3
    <3> QED BY <3>1, <3>2
  <2>6. IsSums(h, s, 1 .. m)
    <3>1. h = [t \in SUBSET (1 .. k + 1) |-> h[t]]
      OBVIOUS
    <3> HIDE DEF h
    <3>2. h = [t \in SUBSET (1 .. k + 1) |-> IF t = {} THEN 0 ELSE h[t \ {Max(t)}] + s[Max(t)]]
      BY <2>5, <3>1
    <3> QED BY <2>1, <3>2 DEF IsSums
  <2> QED BY <1>1, <2>6
<1> QED BY <1>2, <1>3

(* The fold adds the terms from the first to the last. *)
LEMMA TotalSteps ==
    ASSUME NEW n \in Nat, NEW s, DOMAIN s = 1 .. n
    PROVE  \E acc : /\ acc[0] = 0 /\ acc[n] = Total(s)
                    /\ \A k \in 1 .. n : acc[k] = acc[k - 1] + s[k]
<1>1. PICK iter : IsSums(iter, s, 1 .. n) /\ Total(s) = iter[1 .. n]
  BY SumsExist, TotalIsSum
<1> DEFINE acc == [k \in 0 .. n |-> iter[1 .. k]]
<1>2. \A k \in 0 .. n : acc[k] = iter[1 .. k] /\ 1 .. k \in SUBSET (1 .. n)
  OBVIOUS
<1>3. \A t \in SUBSET (1 .. n) :
          iter[t] = IF t = {} THEN 0 ELSE iter[t \ {Max(t)}] + s[Max(t)]
  BY <1>1 DEF IsSums
<1>4. acc[0] = 0
  <2>1. 1 .. 0 = {} /\ 0 \in 0 .. n
    OBVIOUS
  <2> QED BY <1>2, <1>3, <2>1
<1>5. ASSUME NEW k \in 1 .. n PROVE acc[k] = acc[k - 1] + s[k]
  <2>1. k - 1 \in Nat /\ k = (k - 1) + 1 /\ 1 .. k # {} /\ k \in 1 .. k
    OBVIOUS
  <2>2. Max(1 .. k) = k
    BY <2>1, MaxOfPrefix
  <2>3. (1 .. k) \ {k} = 1 .. k - 1
    OBVIOUS
  <2>4. k \in 0 .. n /\ k - 1 \in 0 .. n
    OBVIOUS
  <2> HIDE DEF acc
  <2>5. acc[k] = iter[1 .. k] /\ 1 .. k \in SUBSET (1 .. n) /\ acc[k - 1] = iter[1 .. k - 1]
    BY <1>2, <2>4
  <2>6. iter[1 .. k] = iter[(1 .. k) \ {Max(1 .. k)}] + s[Max(1 .. k)]
    BY <1>3, <2>1, <2>5
  <2> QED BY <2>2, <2>3, <2>5, <2>6
<1>6. acc[n] = Total(s)
  BY <1>1, <1>2
<1> HIDE DEF acc
<1> QED BY <1>4, <1>5, <1>6

LEMMA TotalOfNone ==
    ASSUME NEW s, DOMAIN s = {}
    PROVE  Total(s) = 0
<1>1. DOMAIN s = 1 .. 0 /\ 0 \in Nat
  OBVIOUS
<1> QED BY <1>1, TotalSteps

LEMMA TotalOfOneMore ==
    ASSUME NEW n \in Nat, NEW s, DOMAIN s = 1 .. n, NEW r, DOMAIN r = 1 .. n + 1,
           \A k \in 1 .. n : r[k] = s[k]
    PROVE  Total(r) = Total(s) + r[n + 1]
<1>1. PICK a : /\ a[0] = 0 /\ a[n] = Total(s)
               /\ \A k \in 1 .. n : a[k] = a[k - 1] + s[k]
  BY TotalSteps
<1>2. PICK b : /\ b[0] = 0 /\ b[n + 1] = Total(r)
               /\ \A k \in 1 .. n + 1 : b[k] = b[k - 1] + r[k]
  <2>1. n + 1 \in Nat
    OBVIOUS
  <2> QED BY <2>1, TotalSteps
<1> DEFINE S == {k \in 0 .. n : a[k] # b[k]}
<1>3. S = {}
  <2> SUFFICES ASSUME S # {} PROVE FALSE
    OBVIOUS
  <2>1. PICK k \in S : \A m \in S : k <= m
    <3>1. S \subseteq Nat
      OBVIOUS
    <3> HIDE DEF S
    <3> QED BY <3>1, LeastNumber
  <2>2. k # 0 /\ k \in 1 .. n /\ k - 1 \in 0 .. n
    BY <1>1, <1>2
  <2>3. a[k - 1] = b[k - 1]
    BY <2>1, <2>2
  <2>4. a[k] = a[k - 1] + s[k] /\ b[k] = b[k - 1] + r[k] /\ r[k] = s[k]
    BY <1>1, <1>2, <2>2
  <2> QED BY <2>1, <2>3, <2>4
<1>4. a[n] = b[n] /\ n + 1 \in 1 .. n + 1 /\ (n + 1) - 1 = n
  BY <1>3
<1>5. b[n + 1] = b[n] + r[n + 1]
  BY <1>2, <1>4
<1> QED BY <1>1, <1>2, <1>4, <1>5
-----------------------------------------------------------------------------
(* Where a listing ends, the lengths and the texts of its first n files. *)
Ends == IF wrapped THEN Limit - 1 ELSE index
Lengths(n) == [k \in 1 .. n |-> file[k - 1].length]
Sent(n) == [k \in 1 .. n |-> file[k - 1].text]

Undisturbed == Listing /\ ~disturbed /\ ~failed /\ ~collided

(* How far an undisturbed listing is, and what it has gathered. *)
Indexing == /\ reader.phase = "indexing" /\ ~wrapped /\ reader.at = 0
            /\ reader.length = 0 /\ reader.regions = <<>> /\ reader.served = <<>>

Measuring == /\ reader.phase = "measuring" /\ reader.upper = Ends
             /\ reader.at <= Ends + 1 /\ reader.length = Total(Lengths(reader.at))
             /\ reader.regions = <<>> /\ reader.served = <<>>

Opening == /\ reader.phase = "opening" /\ reader.upper = Ends
           /\ reader.at <= Ends + 1 /\ reader.length = Total(Lengths(Ends + 1))
           /\ reader.regions = Lengths(reader.at) /\ reader.served = <<>>

Sending == /\ reader.phase = "sending" /\ reader.upper = Ends
           /\ reader.at <= Ends + 1 /\ reader.length = Total(Lengths(Ends + 1))
           /\ reader.regions = Lengths(Ends + 1) /\ reader.served = Sent(reader.at)

Finished == /\ reader.phase = "done" /\ reader.upper = Ends
            /\ reader.length = Total(Lengths(Ends + 1))
            /\ reader.regions = Lengths(Ends + 1) /\ reader.served = Sent(Ends + 1)

Progress == Indexing \/ Measuring \/ Opening \/ Sending \/ Finished

NobodyWrites == \A w \in Worker : ~OnFile(w)

ReaderInv ==
    /\ reader.phase = "idle" => reader = NoListing
    /\ Undisturbed => NobodyWrites /\ Progress

LEMMA RingTyped ==
    ASSUME IInv
    PROVE  /\ Limit \in Nat \ {0} /\ index \in Slot /\ wrapped \in BOOLEAN
           /\ Ends \in Slot /\ Ends + 1 \in 0 .. Limit
           /\ \A s \in Slot : file[s].text \in Texts /\ file[s].length \in Nat
           /\ \A n \in 0 .. Limit : Lengths(n) \in Seq(Nat) /\ Sent(n) \in Seq(Texts)
<1>1. /\ Limit \in Nat \ {0} /\ index \in Slot /\ wrapped \in BOOLEAN
      /\ \A s \in Slot : file[s].text \in Texts /\ file[s].length \in Nat
  BY RoundIsNat DEF IInv, Typed
<1>2. Ends \in Slot /\ Ends + 1 \in 0 .. Limit
  BY <1>1 DEF Ends
<1>3. ASSUME NEW n \in 0 .. Limit PROVE Lengths(n) \in Seq(Nat) /\ Sent(n) \in Seq(Texts)
  <2>1. n \in Nat /\ \A k \in 1 .. n : k - 1 \in Slot
    BY <1>1
  <2>2. Lengths(n) \in [1 .. n -> Nat] /\ Sent(n) \in [1 .. n -> Texts]
    BY <1>1, <2>1 DEF Lengths, Sent
  <2> QED BY <2>1, <2>2
<1> QED BY <1>1, <1>2, <1>3

(* While nobody writes, the files of the listing have messages. *)
LEMMA ListedFiles ==
    ASSUME IInv, NobodyWrites, ~failed, ~collided, NEW s \in 0 .. Ends
    PROVE  s \in Slot /\ file[s] # NoFile
<1>1. /\ Limit \in Nat \ {0} /\ Round = Limit + 1 /\ index \in Slot
      /\ Len(added) \in Nat /\ wrapped \in BOOLEAN /\ added \in Seq(Message)
  BY RoundIsNat DEF IInv, Typed, Round
<1>2. /\ wrapped <=> Len(added) >= Round
      /\ Len(added) < Round => index = Len(added) - 1
      /\ Len(added) >= Round => Len(added) >= Round + index + 1
  BY DEF IInv, RoundInv
<1>3. s \in Slot /\ Latest(s) >= 1 /\ Latest(s) \in 1 .. Len(added)
  <2>1. CASE wrapped
    BY <1>1, <1>2, <2>1 DEF Ends, Latest
  <2>2. CASE ~wrapped
    BY <1>1, <1>2, <2>2 DEF Ends, Latest
  <2> QED BY <2>1, <2>2
<1>4. file[s].text = added[Latest(s)]
  BY <1>3 DEF IInv, FileInv, NobodyWrites
<1>5. file[s].text \in Nat
  <2>1. Message \subseteq Nat
    BY RoundIsNat
  <2> HIDE DEF Message, Slot
  <2>2. added[Latest(s)] \in Message
    BY <1>1, <1>3
  <2> QED BY <1>4, <2>1, <2>2
<1> QED BY <1>3, <1>5, TextAssumption DEF NoFile

(* One file more. *)
LEMMA OneMore ==
    ASSUME IInv, NEW n \in 0 .. Limit - 1
    PROVE  /\ Total(Lengths(n + 1)) = Total(Lengths(n)) + file[n].length
           /\ Append(Lengths(n), file[n].length) = Lengths(n + 1)
           /\ Append(Sent(n), file[n].text) = Sent(n + 1)
<1>1. /\ Limit \in Nat /\ n \in Nat /\ n \in 0 .. Limit /\ n + 1 \in 0 .. Limit
      /\ n + 1 \in 1 .. n + 1 /\ (n + 1) - 1 = n
  BY RoundIsNat
<1>2. /\ Lengths(n) \in Seq(Nat) /\ Sent(n) \in Seq(Texts)
      /\ Lengths(n + 1) \in Seq(Nat) /\ Sent(n + 1) \in Seq(Texts)
  BY <1>1, RingTyped
<1>3. /\ DOMAIN Lengths(n) = 1 .. n /\ DOMAIN Sent(n) = 1 .. n
      /\ DOMAIN Lengths(n + 1) = 1 .. n + 1 /\ DOMAIN Sent(n + 1) = 1 .. n + 1
      /\ \A k \in 1 .. n : /\ Lengths(n + 1)[k] = Lengths(n)[k]
                           /\ Sent(n + 1)[k] = Sent(n)[k]
      /\ Lengths(n + 1)[n + 1] = file[n].length /\ Sent(n + 1)[n + 1] = file[n].text
  BY <1>1 DEF Lengths, Sent
<1>4. Len(Lengths(n)) = n /\ Len(Sent(n)) = n
      /\ Len(Lengths(n + 1)) = n + 1 /\ Len(Sent(n + 1)) = n + 1
  BY <1>1, <1>2, <1>3
<1>5. Total(Lengths(n + 1)) = Total(Lengths(n)) + file[n].length
  BY <1>1, <1>3, TotalOfOneMore
<1>6. Append(Lengths(n), file[n].length) = Lengths(n + 1)
  <2>1. file[n].length \in Nat
    <3>1. n \in Slot
      BY <1>1
    <3> HIDE DEF Slot
    <3> QED BY <3>1, RingTyped
  <2> QED BY <1>1, <1>2, <1>3, <1>4, <2>1
<1>7. Append(Sent(n), file[n].text) = Sent(n + 1)
  <2>1. file[n].text \in Texts
    <3>1. n \in Slot
      BY <1>1
    <3> HIDE DEF Slot
    <3> QED BY <3>1, RingTyped
  <2> QED BY <1>1, <1>2, <1>3, <1>4, <2>1
<1> QED BY <1>5, <1>6, <1>7

LEMMA NoneYet == /\ Total(Lengths(0)) = 0
                 /\ Lengths(0) = <<>> /\ Sent(0) = <<>>
<1>1. DOMAIN Lengths(0) = {} /\ DOMAIN Sent(0) = {}
  BY DEF Lengths, Sent
<1>2. Total(Lengths(0)) = 0
  BY <1>1, TotalOfNone
<1>3. Lengths(0) = <<>> /\ Sent(0) = <<>>
  BY DEF Lengths, Sent
<1> QED BY <1>2, <1>3

(* A step of the listing leaves the ring as it is. *)
LEMMA RingKept ==
    ASSUME UNCHANGED <<storeVars, work>>
    PROVE  /\ Ends' = Ends /\ NobodyWrites' = NobodyWrites /\ wrapped' = wrapped
           /\ \A n \in 0 .. Limit : Lengths(n)' = Lengths(n) /\ Sent(n)' = Sent(n)
<1>1. file' = file /\ index' = index /\ wrapped' = wrapped /\ work' = work
  BY DEF storeVars
<1>2. Ends' = Ends
  BY <1>1 DEF Ends
<1>3. NobodyWrites' = NobodyWrites
  BY <1>1 DEF NobodyWrites, OnFile, In
<1>4. \A n \in 0 .. Limit : Lengths(n)' = Lengths(n) /\ Sent(n)' = Sent(n)
  BY <1>1 DEF Lengths, Sent
<1> QED BY <1>1, <1>2, <1>3, <1>4

LEMMA ServeProgress ==
    ASSUME IInv, NobodyWrites, ~failed, ~collided, Progress, Serve, Listing'
    PROVE  Progress'
<1> HIDE DEF Slot, Message
<1>0. UNCHANGED <<storeVars, work>>
  BY DEF Serve, ReaderStep, ReadIndex, MeasureFile, Measured, OpenRegion,
         FileNotFound, AllOpened, SendRegion, RegionTooLong, AllSent, EndListing
<1>1. PICK e : e = Ends
  OBVIOUS
<1>2. /\ Ends' = e /\ wrapped' = wrapped
      /\ \A n \in 0 .. Limit : Lengths(n)' = Lengths(n) /\ Sent(n)' = Sent(n)
  BY <1>0, <1>1, RingKept
<1>3. e \in -1 .. Limit - 1 /\ e + 1 \in 0 .. Limit /\ Limit \in Nat
  BY <1>1, RingTyped DEF Slot
<1>4. /\ reader \in Listings /\ reader.at \in 0 .. Limit
  BY DEF IInv, Typed, Listings
<1>5. \A s \in 0 .. e : s \in Slot /\ file[s] # NoFile
  BY <1>1, ListedFiles
<1>6. \A n \in 0 .. Limit - 1 :
          /\ Total(Lengths(n + 1)) = Total(Lengths(n)) + file[n].length
          /\ Append(Lengths(n), file[n].length) = Lengths(n + 1)
          /\ Append(Sent(n), file[n].text) = Sent(n + 1)
  BY OneMore
<1>7. CASE ReadIndex
  <2>1. /\ reader.phase = "indexing" /\ ~wrapped /\ reader.at = 0
        /\ reader.length = 0 /\ reader.regions = <<>> /\ reader.served = <<>>
    BY <1>7 DEF ReadIndex, Progress, Indexing, Measuring, Opening, Sending, Finished
  <2>2. /\ reader'.phase = "measuring" /\ reader'.upper = index /\ reader'.at = 0
        /\ reader'.length = 0 /\ reader'.regions = <<>> /\ reader'.served = <<>>
    BY <1>4, <1>7, <2>1 DEF ReadIndex, ReaderStep, Listings
  <2>3. index = e
    BY <1>1, <2>1 DEF Ends
  <2>4. Total(Lengths(0)') = 0
    BY <1>2, <1>3, NoneYet
  <2>5. Measuring'
    BY <1>2, <1>3, <2>2, <2>3, <2>4 DEF Measuring
  <2> QED BY <2>5 DEF Progress
<1>8. CASE MeasureFile
  <2>1. PICK n : n = reader.at
    OBVIOUS
  <2>2. /\ reader.phase = "measuring" /\ reader.upper = e
        /\ reader.length = Total(Lengths(n))
        /\ reader.regions = <<>> /\ reader.served = <<>>
    BY <1>1, <1>8, <2>1 DEF MeasureFile, Progress, Indexing, Measuring, Opening, Sending, Finished
  <2>3. n <= e /\ n \in 0 .. Limit - 1 /\ n + 1 \in 0 .. Limit
    BY <1>3, <1>4, <1>8, <2>1, <2>2 DEF MeasureFile
  <2>4. /\ reader'.phase = "measuring" /\ reader'.upper = e /\ reader'.at = n + 1
        /\ reader'.length = reader.length + file[n].length
        /\ reader'.regions = <<>> /\ reader'.served = <<>>
    BY <1>4, <1>8, <2>1, <2>2 DEF MeasureFile, ReaderStep, Listings
  <2>5. reader'.length = Total(Lengths(n + 1)')
    BY <1>2, <1>6, <2>2, <2>3, <2>4
  <2>6. n + 1 <= e + 1
    BY <1>3, <1>4, <2>1, <2>3
  <2>7. Measuring'
    BY <1>2, <2>4, <2>5, <2>6 DEF Measuring
  <2> QED BY <2>7 DEF Progress
<1>9. CASE Measured
  <2>1. /\ reader.phase = "measuring" /\ reader.upper = e /\ reader.at <= e + 1
        /\ reader.length = Total(Lengths(reader.at))
        /\ reader.regions = <<>> /\ reader.served = <<>> /\ reader.at > e
    BY <1>1, <1>9 DEF Measured, Progress, Indexing, Measuring, Opening, Sending, Finished
  <2>2. reader.at = e + 1
    BY <1>3, <1>4, <2>1
  <2>3. /\ reader'.phase = "opening" /\ reader'.upper = e /\ reader'.at = 0
        /\ reader'.length = reader.length
        /\ reader'.regions = <<>> /\ reader'.served = <<>>
    BY <1>4, <1>9, <2>1 DEF Measured, ReaderStep, Listings
  <2>4. reader'.length = Total(Lengths(e + 1)')
    BY <1>2, <1>3, <2>1, <2>2, <2>3
  <2>5. Lengths(0)' = <<>>
    BY <1>2, <1>3, NoneYet
  <2>6. Opening'
    BY <1>2, <1>3, <2>3, <2>4, <2>5 DEF Opening
  <2> QED BY <2>6 DEF Progress
<1>10. ASSUME OpenRegion \/ FileNotFound \/ AllOpened
       PROVE  Progress'
  <2>1. PICK n : n = reader.at
    OBVIOUS
  <2>2. /\ reader.phase = "opening" /\ reader.upper = e /\ n <= e + 1
        /\ reader.length = Total(Lengths(e + 1))
        /\ reader.regions = Lengths(n) /\ reader.served = <<>>
    BY <1>1, <1>10, <2>1 DEF OpenRegion, FileNotFound, AllOpened,
            Progress, Indexing, Measuring, Opening, Sending, Finished
  <2>3. reader.length = Total(Lengths(e + 1)')
    BY <1>2, <1>3, <2>2
  <2>4. CASE OpenRegion
    <3>1. n <= e /\ n \in 0 .. Limit - 1 /\ n + 1 \in 0 .. Limit /\ n + 1 <= e + 1
      BY <1>3, <1>4, <2>1, <2>2, <2>4 DEF OpenRegion
    <3>2. /\ reader'.phase = "opening" /\ reader'.upper = e /\ reader'.at = n + 1
          /\ reader'.length = reader.length
          /\ reader'.regions = Append(Lengths(n), file[n].length)
          /\ reader'.served = <<>>
      BY <1>4, <2>1, <2>2, <2>4 DEF OpenRegion, ReaderStep, Listings
    <3>3. reader'.regions = Lengths(n + 1)'
      BY <1>2, <1>6, <3>1, <3>2
    <3>4. Opening'
      BY <1>2, <2>3, <3>1, <3>2, <3>3 DEF Opening
    <3> QED BY <3>4 DEF Progress
  <2>5. CASE FileNotFound
    <3>1. n \in 0 .. e
      BY <1>3, <1>4, <2>1, <2>2, <2>5 DEF FileNotFound
    <3> QED BY <1>5, <2>1, <2>5, <3>1 DEF FileNotFound
  <2>6. CASE AllOpened
    <3>1. n = e + 1
      BY <1>3, <1>4, <2>1, <2>2, <2>6 DEF AllOpened
    <3>2. /\ reader'.phase = "sending" /\ reader'.upper = e /\ reader'.at = 0
          /\ reader'.length = reader.length
          /\ reader'.regions = Lengths(n) /\ reader'.served = <<>>
      BY <1>4, <2>1, <2>2, <2>6 DEF AllOpened, ReaderStep, Listings
    <3>3. reader'.regions = Lengths(e + 1)' /\ Sent(0)' = <<>>
      BY <1>2, <1>3, <3>1, <3>2, NoneYet
    <3>4. Sending'
      BY <1>2, <1>3, <2>3, <3>2, <3>3 DEF Sending
    <3> QED BY <3>4 DEF Progress
  <2> QED BY <1>10, <2>4, <2>5, <2>6
<1>11. ASSUME SendRegion \/ RegionTooLong \/ AllSent
       PROVE  Progress'
  <2>1. PICK n : n = reader.at
    OBVIOUS
  <2>2. /\ reader.phase = "sending" /\ reader.upper = e /\ n <= e + 1
        /\ reader.length = Total(Lengths(e + 1))
        /\ reader.regions = Lengths(e + 1) /\ reader.served = Sent(n)
    BY <1>1, <1>11, <2>1 DEF SendRegion, RegionTooLong, AllSent,
            Progress, Indexing, Measuring, Opening, Sending, Finished
  <2>3. /\ reader.length = Total(Lengths(e + 1)')
        /\ reader.regions = Lengths(e + 1)'
    BY <1>2, <1>3, <2>2
  <2>4. CASE SendRegion
    <3>1. n <= e /\ n \in 0 .. Limit - 1 /\ n + 1 \in 0 .. Limit /\ n + 1 <= e + 1
      BY <1>3, <1>4, <2>1, <2>2, <2>4 DEF SendRegion
    <3>2. /\ reader'.phase = "sending" /\ reader'.upper = e /\ reader'.at = n + 1
          /\ reader'.length = reader.length /\ reader'.regions = reader.regions
          /\ reader'.served = Append(Sent(n), file[n].text)
      BY <1>4, <2>1, <2>2, <2>4 DEF SendRegion, ReaderStep, Listings
    <3>3. reader'.served = Sent(n + 1)'
      BY <1>2, <1>6, <3>1, <3>2
    <3>4. Sending'
      BY <1>2, <2>3, <3>1, <3>2, <3>3 DEF Sending
    <3> QED BY <3>4 DEF Progress
  <2>5. CASE RegionTooLong
    <3>1. n \in 0 .. e /\ n + 1 \in 1 .. e + 1 /\ (n + 1) - 1 = n
      BY <1>3, <1>4, <2>1, <2>2, <2>5 DEF RegionTooLong
    <3>2. reader.regions[n + 1] = file[n].length
      BY <2>2, <3>1 DEF Lengths
    <3>3. file[n].length \in Nat
      BY <1>5, <3>1, RingTyped
    <3>4. file[n].length < reader.regions[n + 1]
      BY <2>1, <2>5 DEF RegionTooLong
    <3> QED BY <3>2, <3>3, <3>4
  <2>6. CASE AllSent
    <3>1. n = e + 1
      BY <1>3, <1>4, <2>1, <2>2, <2>6 DEF AllSent
    <3>2. /\ reader'.phase = "done" /\ reader'.upper = e
          /\ reader'.length = reader.length /\ reader'.regions = reader.regions
          /\ reader'.served = Sent(n)
      BY <1>4, <2>1, <2>2, <2>6 DEF AllSent, ReaderStep, Listings
    <3>3. reader'.served = Sent(e + 1)'
      BY <1>2, <1>3, <3>1, <3>2
    <3>4. Finished'
      BY <1>2, <2>3, <3>2, <3>3 DEF Finished
    <3> QED BY <3>4 DEF Progress
  <2> QED BY <1>11, <2>4, <2>5, <2>6
<1>12. CASE EndListing
  <2>1. reader'.phase = "idle"
    BY <1>12 DEF EndListing, NoListing
  <2> QED BY <2>1 DEF Listing
<1> QED BY <1>7, <1>8, <1>9, <1>10, <1>11, <1>12 DEF Serve

LEMMA BeginProgress ==
    ASSUME IInv, reader = NoListing, BeginListing
    PROVE  Progress'
<1> HIDE DEF Slot, Message
<1>1. /\ UNCHANGED <<storeVars, work>>
      /\ reader' = IF wrapped
                   THEN [reader EXCEPT !.upper = Limit - 1, !.phase = "measuring"]
                   ELSE [reader EXCEPT !.phase = "indexing"]
  BY DEF BeginListing
<1>2. /\ Ends' = Ends /\ wrapped' = wrapped /\ Limit \in Nat
      /\ \A n \in 0 .. Limit : Lengths(n)' = Lengths(n) /\ Sent(n)' = Sent(n)
  BY <1>1, RingKept, RoundIsNat
<1>3. CASE wrapped
  <2>1. /\ reader'.phase = "measuring" /\ reader'.upper = Limit - 1 /\ reader'.at = 0
        /\ reader'.length = 0 /\ reader'.regions = <<>> /\ reader'.served = <<>>
    BY <1>1, <1>3 DEF NoListing
  <2>2. Ends = Limit - 1 /\ 0 <= Ends + 1
    BY <1>2, <1>3 DEF Ends
  <2>3. Total(Lengths(0)') = 0
    BY <1>2, NoneYet
  <2>4. Measuring'
    BY <1>2, <2>1, <2>2, <2>3 DEF Measuring
  <2> QED BY <2>4 DEF Progress
<1>4. CASE ~wrapped
  <2>1. /\ reader'.phase = "indexing" /\ reader'.at = 0
        /\ reader'.length = 0 /\ reader'.regions = <<>> /\ reader'.served = <<>>
    BY <1>1, <1>4 DEF NoListing
  <2>2. Indexing'
    BY <1>2, <1>4, <2>1 DEF Indexing
  <2> QED BY <2>2 DEF Progress
<1> QED BY <1>3, <1>4

LEMMA NextReader == IInv /\ ReaderInv /\ [Next]_vars => ReaderInv'
<1> SUFFICES ASSUME IInv, ReaderInv, [Next]_vars PROVE ReaderInv'
  OBVIOUS
<1> HIDE DEF Slot, Message
(* What does not touch the ring or the listing. *)
<1>1. ASSUME UNCHANGED <<storeVars, reader, disturbed, collided>>,
             ~failed' => ~failed,
             NobodyWrites => NobodyWrites'
      PROVE  ReaderInv'
  <2>1. file' = file /\ index' = index /\ wrapped' = wrapped
    BY <1>1 DEF storeVars
  <2>2. Undisturbed' => Undisturbed
    BY <1>1 DEF Undisturbed, Listing
  <2>3. Progress' = Progress
    BY <1>1, <2>1 DEF Progress, Indexing, Measuring, Opening, Sending, Finished,
                      Ends, Lengths, Sent
  <2> QED BY <1>1, <2>2, <2>3 DEF ReaderInv
(* What does, and tells so. *)
<1>2. ASSUME reader' = reader, disturbed' = (disturbed \/ Listing)
      PROVE  ReaderInv'
  BY <1>2 DEF ReaderInv, Undisturbed, Listing
<1>3. CASE UNCHANGED vars
  <2>1. UNCHANGED <<storeVars, work, reader, disturbed, collided, failed>>
    BY <1>3 DEF vars, historyVars
  <2>2. NobodyWrites => NobodyWrites'
    BY <2>1 DEF NobodyWrites, OnFile, In
  <2> QED BY <1>1, <2>1, <2>2
<1>4. CASE Emit
  <2>1. UNCHANGED <<storeVars, work, reader, disturbed, collided, failed>>
    BY <1>4 DEF Emit, historyVars
  <2>2. NobodyWrites => NobodyWrites'
    BY <2>1 DEF NobodyWrites, OnFile, In
  <2> QED BY <1>1, <2>1, <2>2
<1>5. ASSUME NEW w \in Worker, Take(w) PROVE ReaderInv'
  <2>1. UNCHANGED <<storeVars, reader, disturbed, collided, failed>>
    BY <1>5 DEF Take, historyVars
  <2>2. PICK m \in queue : work' = [work EXCEPT ![w] = [NoWork EXCEPT !.message = m,
                                                                     !.phase = "taken"]]
    BY <1>5 DEF Take
  <2>3. \A v \in Worker : OnFile(v)' => OnFile(v)
    <3>1. [NoWork EXCEPT !.message = m, !.phase = "taken"].phase = "taken"
      BY DEF NoWork
    <3> DEFINE t == [NoWork EXCEPT !.message = m, !.phase = "taken"]
    <3> HIDE DEF t
    <3>2. work' = [work EXCEPT ![w] = t] /\ t.phase = "taken"
      BY <2>2, <3>1 DEF t
    <3>3. work \in [Worker -> Task]
      BY DEF IInv, Typed
    <3> QED BY <3>2, <3>3 DEF OnFile, In
  <2> QED BY <1>1, <2>1, <2>3 DEF NobodyWrites
<1>6. ASSUME NEW w \in Worker, AddFails(w) PROVE ReaderInv'
  <2>1. failed' = TRUE /\ reader' = reader
    BY <1>6 DEF AddFails
  <2> QED BY <2>1 DEF ReaderInv, Undisturbed
<1>7. ASSUME NEW w \in Worker, GetLatestIndex(w) \/ OpenFile(w) \/ WriteFile(w)
      PROVE  ReaderInv'
  BY <1>2, <1>7 DEF GetLatestIndex, TakeIndex, OpenFile, WriteFile
<1>8. CASE BeginListing
  <2>1. reader.phase = "idle" /\ reader = NoListing
    BY <1>8 DEF BeginListing, ReaderInv
  <2>2. /\ UNCHANGED <<storeVars, work, collided, failed>>
        /\ disturbed' = \E w \in Worker : OnFile(w)
    BY <1>8 DEF BeginListing
  <2>3. ~disturbed' => NobodyWrites'
    BY <2>2 DEF NobodyWrites, OnFile, In
  <2>4. Progress'
    BY <1>8, <2>1, BeginProgress
  <2>5. reader'.phase # "idle"
    BY <2>4 DEF Progress, Indexing, Measuring, Opening, Sending, Finished
  <2> QED BY <2>3, <2>4, <2>5 DEF ReaderInv, Undisturbed
<1>9. CASE Serve
  <2>1. UNCHANGED <<storeVars, work, collided, failed>>
    BY <1>9 DEF Serve, ReaderStep, ReadIndex, MeasureFile, Measured, OpenRegion,
                FileNotFound, AllOpened, SendRegion, RegionTooLong, AllSent, EndListing,
                historyVars
  <2>2. CASE EndListing
    <3>1. reader' = NoListing /\ NoListing.phase = "idle"
      BY <2>2 DEF EndListing, NoListing
    <3> QED BY <3>1 DEF ReaderInv, Undisturbed, Listing
  <2>3. CASE ~EndListing
    <3>1. disturbed' = disturbed /\ reader.phase # "idle"
      BY <1>9, <2>3 DEF Serve, ReaderStep, ReadIndex, MeasureFile, Measured, OpenRegion,
                FileNotFound, AllOpened, SendRegion, RegionTooLong, AllSent,
                historyVars
    <3>2. reader'.phase # "idle"
      <4>1. reader \in Listings
        BY DEF IInv, Typed
      <4> QED BY <1>9, <2>3, <3>1, <4>1 DEF Serve, ReaderStep, ReadIndex, MeasureFile,
                Measured, OpenRegion, FileNotFound, AllOpened, SendRegion, RegionTooLong,
                AllSent, Listings
    <3>3. Undisturbed' => Undisturbed
      BY <2>1, <3>1 DEF Undisturbed, Listing
    <3>4. ASSUME Undisturbed' PROVE NobodyWrites' /\ Progress'
      <4>1. NobodyWrites /\ Progress /\ ~failed /\ ~collided
        BY <3>3, <3>4 DEF ReaderInv, Undisturbed
      <4>2. NobodyWrites'
        BY <2>1, <4>1, RingKept
      <4>3. Progress'
        BY <1>9, <3>2, <4>1, ServeProgress DEF Listing
      <4> QED BY <4>2, <4>3
    <3> QED BY <3>2, <3>4 DEF ReaderInv
  <2> QED BY <2>2, <2>3
<1> QED BY <1>3, <1>4, <1>5, <1>6, <1>7, <1>8, <1>9 DEF Next, Add

LEMMA InitReader == Init => ReaderInv
BY DEF Init, ReaderInv, Undisturbed, Listing, NoListing

LEMMA ReaderInvariance == Spec => []ReaderInv
BY Invariance, InitReader, NextReader, PTL DEF Spec

(* A listing that no worker disturbs serves every message of the ring, in  *)
(* a body of the length it announced: what it measured, opened and sent is *)
(* the same ring, however many files that is.                              *)
THEOREM ListingIsWhole == Spec => []UndisturbedListingIsWhole
<1>1. IInv /\ ReaderInv => UndisturbedListingIsWhole
  <2> SUFFICES ASSUME IInv, ReaderInv, reader.phase \in {"done", "closed"},
                      ~disturbed, ~failed, ~collided, reader.upper # -1
               PROVE  /\ reader.phase = "done"
                      /\ BodySent = Announced
                      /\ ToSet(reader.served) = Shown
    BY DEF UndisturbedListingIsWhole
  <2>1. Finished
    BY DEF ReaderInv, Undisturbed, Listing, Progress, Indexing, Measuring, Opening,
           Sending
  <2>2. PICK e : e = Ends
    OBVIOUS
  <2>3. e \in Nat /\ e + 1 \in 0 .. Limit /\ reader.upper = e
    BY <2>1, <2>2, RingTyped DEF Finished
  <2>4. BodySent = Announced
    <3>1. PICK t : t = Total(Lengths(e + 1))
      OBVIOUS
    <3>2. reader.length = t /\ Total(reader.regions) = t
      BY <2>1, <2>2, <3>1 DEF Finished
    <3>3. reader.length \in Nat
      BY DEF IInv, Typed, Listings
    <3>4. Commas = e
      BY <2>3 DEF Commas
    <3>5. BodySent = Total(reader.regions) + Commas + 2
      BY DEF BodySent, Total
    <3>6. Announced = reader.length + (reader.upper + 1) + 1
      BY DEF Announced
    <3> QED BY <2>3, <3>2, <3>3, <3>4, <3>5, <3>6
  <2>5. ToSet(reader.served) = Shown
    <3>1. reader.served = Sent(e + 1) /\ Listed = 0 .. e
      BY <2>1, <2>2 DEF Finished, Listed, Ends
    <3>2. ToSet(reader.served) = {file[k - 1].text : k \in 1 .. e + 1}
      BY <3>1 DEF ToSet, Sent
    <3>3. {file[k - 1].text : k \in 1 .. e + 1} = {file[s].text : s \in 0 .. e}
      <4>1. \A s \in 0 .. e : s + 1 \in 1 .. e + 1 /\ (s + 1) - 1 = s
        BY <2>3
      <4>2. \A k \in 1 .. e + 1 : k - 1 \in 0 .. e
        BY <2>3
      <4> QED BY <4>1, <4>2
    <3> QED BY <3>1, <3>2, <3>3 DEF Shown
  <2> QED BY <2>1, <2>4, <2>5 DEF Finished
<1> QED BY <1>1, Invariance, ReaderInvariance, PTL
=============================================================================
