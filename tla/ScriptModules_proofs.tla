------------------------- MODULE ScriptModules_proofs -------------------------
(***************************************************************************)
(* Theorems about ScriptModules and RuntimeCalls, for any files and paths, *)
(* and any number of bootstraps, calls, evaluations, segments of a path    *)
(* and arguments.                                                          *)
(***************************************************************************)
EXTENDS ScriptModules, SequenceTheorems, FiniteSetTheorems, WellFoundedInduction, TLAPS

Load == [file : File, by : Nat, state : {"running", "done", "threw"},
         falsy : BOOLEAN, wasFalsy : BOOLEAN]

(* Every file that was ever evaluated has its entry, whether it was left   *)
(* by an exception or not, and an entry belongs to its file.               *)
CacheInv ==
    /\ \A i \in DOMAIN loads : cache[FileOf(i)] # 0
    /\ \A f \in File : cache[f] # 0 => FileOf(cache[f]) = f

FalsyInv == \A i \in DOMAIN loads : loads[i].falsy => loads[i].wasFalsy

IInv == TypeOK /\ CacheInv /\ FalsyInv /\ EvaluatedOnce

LEMMA BoundsAreNat == MaxAttempts \in Nat /\ MaxCalls \in Nat /\ MaxLoads \in Nat
BY ModulesAssumption

LEMMA InitIInv == Init => IInv
<1> SUFFICES ASSUME Init PROVE IInv
  OBVIOUS
<1>1. loads = <<>> /\ DOMAIN loads = {} /\ Len(loads) = 0 /\ loads \in Seq(Load)
  BY DEF Init
<1>2. /\ needsBootstrap = TRUE /\ caller = "none" /\ attempts = 0 /\ calls = 0
      /\ cache = [f \in File |-> 0] /\ partial = {} /\ throwing = FALSE /\ failures = {}
  BY DEF Init
<1>3. TypeOK
  <2>1. attempts \in 0 .. MaxAttempts /\ calls \in 0 .. MaxCalls
    BY <1>2, BoundsAreNat
  <2>2. cache \in [File -> 0 .. Len(loads)]
    BY <1>1, <1>2
  <2>3. /\ needsBootstrap \in BOOLEAN /\ caller \in {"none", "main", "function"}
        /\ partial \subseteq (0 .. Len(loads)) \X (1 .. Len(loads))
        /\ throwing \in BOOLEAN /\ failures \subseteq {"bootstrap", "call", "caught"}
    BY <1>2, Zenon
  <2> QED BY <1>1, <2>1, <2>2, <2>3 DEF TypeOK, Load
<1>4. CacheInv /\ FalsyInv /\ EvaluatedOnce
  BY <1>1, <1>2 DEF CacheInv, FalsyInv, EvaluatedOnce
<1> QED BY <1>3, <1>4 DEF IInv

LEMMA LoadsTyped ==
    ASSUME TypeOK
    PROVE  /\ loads \in Seq(Load) /\ Len(loads) \in Nat /\ DOMAIN loads = 1 .. Len(loads)
           /\ \A i \in DOMAIN loads : loads[i] \in Load /\ FileOf(i) \in File
           /\ cache \in [File -> 0 .. Len(loads)]
<1>1. loads \in Seq(Load) /\ cache \in [File -> 0 .. Len(loads)]
  BY DEF TypeOK, Load
<1>2. \A i \in DOMAIN loads : loads[i] \in Load
  BY <1>1
<1>3. \A i \in DOMAIN loads : FileOf(i) \in File
  BY <1>2 DEF Load, FileOf
<1> QED BY <1>1, <1>2, <1>3

(* What changes a load but for its file, its exports and whether it had    *)
(* falsy ones, leaves the invariant.                                       *)
LEMMA StateChanged ==
    ASSUME IInv, NEW top \in DOMAIN loads, NEW s \in {"running", "done", "threw"},
           loads' = [loads EXCEPT ![top].state = s],
           UNCHANGED <<needsBootstrap, caller, attempts, calls, cache, partial, failures>>,
           throwing' \in BOOLEAN
    PROVE  IInv'
<1>1. /\ loads \in Seq(Load) /\ Len(loads) \in Nat /\ DOMAIN loads = 1 .. Len(loads)
      /\ loads[top] \in Load
  BY LoadsTyped DEF IInv
<1> DEFINE t == [loads[top] EXCEPT !.state = s]
<1>2. /\ t \in Load /\ t.file = loads[top].file
      /\ t.falsy = loads[top].falsy /\ t.wasFalsy = loads[top].wasFalsy
  BY <1>1 DEF Load
<1>3. loads' = [loads EXCEPT ![top] = t]
  BY <1>1
<1> HIDE DEF t
<1>4. /\ loads' \in Seq(Load) /\ Len(loads') = Len(loads) /\ DOMAIN loads' = DOMAIN loads
      /\ \A i \in DOMAIN loads : /\ loads'[i].file = loads[i].file
                                 /\ loads'[i].falsy = loads[i].falsy
                                 /\ loads'[i].wasFalsy = loads[i].wasFalsy
  BY <1>1, <1>2, <1>3
<1>5. TypeOK'
  BY <1>4 DEF IInv, TypeOK, Load
<1>6. CacheInv' /\ FalsyInv'
  BY <1>1, <1>4, LoadsTyped DEF IInv, CacheInv, FalsyInv, FileOf
<1>7. EvaluatedOnce'
  BY <1>4 DEF IInv, EvaluatedOnce, EverFalsy, FileOf
<1> QED BY <1>5, <1>6, <1>7 DEF IInv

LEMMA RequireStep ==
    ASSUME IInv, NEW top \in 0 .. Len(loads), Require(top)
    PROVE  IInv'
<1>1. PICK f \in File : RequireCached(top, f) \/ LoadModule(top, f)
  BY DEF Require
<1>2. UNCHANGED <<needsBootstrap, caller, attempts, calls, throwing, failures>>
  BY DEF Require
<1>3. /\ loads \in Seq(Load) /\ Len(loads) \in Nat /\ DOMAIN loads = 1 .. Len(loads)
      /\ \A i \in DOMAIN loads : loads[i] \in Load /\ FileOf(i) \in File
      /\ cache \in [File -> 0 .. Len(loads)]
      /\ partial \subseteq (0..Len(loads)) \X (1..Len(loads))
  BY LoadsTyped DEF IInv, TypeOK
<1>4. CASE RequireCached(top, f)
  <2>1. UNCHANGED <<loads, cache>>
    BY <1>4 DEF RequireCached
  <2>2. partial' \subseteq (0..Len(loads)) \X (1..Len(loads))
    <3>1. cache[f] \in 1 .. Len(loads)
      BY <1>3, <1>4 DEF RequireCached, Cached
    <3> QED BY <1>3, <1>4, <3>1 DEF RequireCached
  <2> QED BY <1>2, <2>1, <2>2
          DEF IInv, TypeOK, CacheInv, FalsyInv, EvaluatedOnce, EverFalsy, FileOf
<1>5. CASE LoadModule(top, f)
  <2> DEFINE load == [file |-> f, by |-> top, state |-> "running",
                      falsy |-> FALSE, wasFalsy |-> FALSE]
             n == Len(loads) + 1
  <2>1. load \in Load /\ load.file = f /\ load.falsy = FALSE
    BY <1>3 DEF Load
  <2>2. /\ loads' = Append(loads, load)
        /\ cache' = [cache EXCEPT ![f] = Len(loads')]
        /\ partial' = partial /\ ~Cached(f)
    BY <1>5 DEF LoadModule
  <2> HIDE DEF load
  <2>3. /\ loads' \in Seq(Load) /\ Len(loads') = n /\ DOMAIN loads' = 1 .. n
        /\ loads'[n] = load
        /\ \A i \in DOMAIN loads : i \in 1 .. n /\ loads'[i] = loads[i]
        /\ \A i \in 1 .. n : i \in DOMAIN loads \/ i = n
    BY <1>3, <2>1, <2>2, AppendProperties
  <2>4. cache' \in [File -> 0 .. n] /\ cache'[f] = n
        /\ \A g \in File : g # f => cache'[g] = cache[g]
    BY <1>3, <2>2, <2>3
  <2>5. partial' \subseteq (0..n) \X (1..n)
    BY <1>3, <2>2
  <2>6. TypeOK'
    BY <1>2, <2>3, <2>4, <2>5 DEF IInv, TypeOK, Load
  <2>7. CacheInv'
    <3>1. \A i \in DOMAIN loads : cache[FileOf(i)] # 0
      BY DEF IInv, CacheInv
    <3>2. \A g \in File : cache[g] # 0 => cache[g] \in DOMAIN loads /\ FileOf(cache[g]) = g
      BY <1>3 DEF IInv, CacheInv
    <3>3. n # 0 /\ loads'[n].file = f
      BY <1>3, <2>1, <2>3
    <3>4. \A i \in DOMAIN loads' : cache'[loads'[i].file] # 0
      BY <1>3, <2>3, <2>4, <3>1, <3>3 DEF FileOf
    <3>5. \A g \in File : cache'[g] # 0 => loads'[cache'[g]].file = g
      BY <2>3, <2>4, <3>2, <3>3 DEF FileOf
    <3> QED BY <3>4, <3>5 DEF CacheInv, FileOf
  <2>8. FalsyInv'
    BY <2>1, <2>3 DEF IInv, FalsyInv
  <2>9. EvaluatedOnce'
    <3>1. \A i \in DOMAIN loads : FileOf(i) = f => EverFalsy(f)
      <4> SUFFICES ASSUME NEW i \in DOMAIN loads, FileOf(i) = f
                   PROVE  EverFalsy(f)
        OBVIOUS
      <4>1. cache[f] # 0 /\ cache[f] \in DOMAIN loads /\ FileOf(cache[f]) = f
        BY <1>3 DEF IInv, CacheInv
      <4>2. loads[cache[f]].falsy /\ loads[cache[f]].wasFalsy
        BY <2>2, <4>1 DEF IInv, FalsyInv, Cached
      <4> QED BY <4>1, <4>2 DEF EverFalsy
    <3>2. ASSUME NEW g, EverFalsy(g)
          PROVE  \E k \in DOMAIN loads' : loads'[k].file = g /\ loads'[k].wasFalsy
      <4>1. PICK k \in DOMAIN loads : loads[k].file = g /\ loads[k].wasFalsy
        BY <3>2 DEF EverFalsy, FileOf
      <4>2. k \in DOMAIN loads' /\ loads'[k] = loads[k]
        BY <2>3
      <4> QED BY <4>1, <4>2
    <3> SUFFICES ASSUME NEW i \in DOMAIN loads', NEW j \in DOMAIN loads',
                        i # j, loads'[i].file = loads'[j].file
                 PROVE  \E k \in DOMAIN loads' : /\ loads'[k].file = loads'[i].file
                                                 /\ loads'[k].wasFalsy
      BY DEF EvaluatedOnce, EverFalsy, FileOf
    <3>3. CASE i \in DOMAIN loads /\ j \in DOMAIN loads
      <4>1. loads'[i].file = loads[i].file /\ loads[i].file = loads[j].file
        BY <2>3, <3>3
      <4>2. EverFalsy(loads[i].file)
        BY <3>3, <4>1 DEF IInv, EvaluatedOnce, FileOf
      <4> QED BY <3>2, <4>1, <4>2
    <3>4. CASE i = n \/ j = n
      <4>1. loads'[i].file = f
        BY <2>1, <2>3, <3>4
      <4>2. \E k \in DOMAIN loads : FileOf(k) = f
        <5>1. i \in DOMAIN loads \/ j \in DOMAIN loads
          BY <2>3
        <5>2. loads'[j].file = f
          BY <4>1
        <5> QED BY <2>3, <4>1, <5>1, <5>2 DEF FileOf
      <4> QED BY <3>1, <3>2, <4>1, <4>2
    <3> QED BY <2>3, <3>3, <3>4
  <2> QED BY <2>6, <2>7, <2>8, <2>9 DEF IInv
<1> QED BY <1>1, <1>4, <1>5

LEMMA SetExportsStep ==
    ASSUME IInv, NEW top \in 0 .. Len(loads), NEW falsy \in BOOLEAN, SetExports(top, falsy)
    PROVE  IInv'
<1>1. /\ loads \in Seq(Load) /\ Len(loads) \in Nat /\ DOMAIN loads = 1 .. Len(loads)
      /\ \A i \in DOMAIN loads : loads[i] \in Load /\ FileOf(i) \in File
      /\ cache \in [File -> 0 .. Len(loads)] /\ top \in DOMAIN loads
  BY LoadsTyped DEF IInv, SetExports
<1>2. UNCHANGED <<needsBootstrap, caller, attempts, calls, partial, throwing, failures>>
  BY DEF SetExports
<1> DEFINE w == loads[top].wasFalsy \/ falsy
           t == [loads[top] EXCEPT !.falsy = falsy, !.wasFalsy = w]
<1>3. /\ t \in Load /\ t.file = loads[top].file /\ t.falsy = falsy /\ t.wasFalsy = w
  BY <1>1 DEF Load
<1>4. /\ loads' = [loads EXCEPT ![top] = t]
      /\ cache' = [cache EXCEPT ![FileOf(top)] = top]
  BY <1>1 DEF SetExports, FileOf
<1>5. (falsy => w) /\ (loads[top].wasFalsy => w)
  OBVIOUS
<1> HIDE DEF t, w
<1>6. /\ loads' \in Seq(Load) /\ Len(loads') = Len(loads) /\ DOMAIN loads' = DOMAIN loads
      /\ loads'[top] = t
      /\ \A i \in DOMAIN loads : i # top => loads'[i] = loads[i]
      /\ \A i \in DOMAIN loads : loads'[i].file = FileOf(i)
  BY <1>1, <1>3, <1>4 DEF FileOf
<1>7. /\ cache' \in [File -> 0 .. Len(loads)] /\ cache'[FileOf(top)] = top
      /\ \A f \in File : f # FileOf(top) => cache'[f] = cache[f]
  BY <1>1, <1>4
<1>8. TypeOK'
  BY <1>2, <1>6, <1>7 DEF IInv, TypeOK, Load
<1>9. CacheInv'
  <2>1. \A i \in DOMAIN loads : cache[FileOf(i)] # 0
    BY DEF IInv, CacheInv
  <2>2. \A f \in File : cache[f] # 0 => cache[f] \in DOMAIN loads /\ FileOf(cache[f]) = f
    BY <1>1 DEF IInv, CacheInv
  <2>3. \A i \in DOMAIN loads' : cache'[loads'[i].file] # 0
    BY <1>1, <1>6, <1>7, <2>1
  <2>4. \A f \in File : cache'[f] # 0 => loads'[cache'[f]].file = f
    BY <1>1, <1>6, <1>7, <2>2
  <2> QED BY <2>3, <2>4 DEF CacheInv, FileOf
<1>10. \A i \in DOMAIN loads : loads[i].wasFalsy => loads'[i].wasFalsy
  BY <1>3, <1>5, <1>6
<1>11. FalsyInv'
  BY <1>3, <1>5, <1>6 DEF IInv, FalsyInv
<1>12. EvaluatedOnce'
  BY <1>6, <1>10 DEF IInv, EvaluatedOnce, EverFalsy, FileOf
<1> QED BY <1>8, <1>9, <1>11, <1>12 DEF IInv

LEMMA NextIInv == IInv /\ [Next]_vars => IInv'
<1> SUFFICES ASSUME IInv, [Next]_vars PROVE IInv'
  OBVIOUS
<1>1. ASSUME UNCHANGED <<loads, cache, partial>>, TypeOK' PROVE IInv'
  BY <1>1 DEF IInv, CacheInv, FalsyInv, EvaluatedOnce, EverFalsy, FileOf
<1>2. CASE UNCHANGED vars
  BY <1>1, <1>2 DEF IInv, TypeOK, vars
<1>3. CASE Bootstrap \/ CallFunction \/ Catch
  <2>1. /\ TypeOK /\ attempts \in 0 .. MaxAttempts /\ calls \in 0 .. MaxCalls
    BY DEF IInv, TypeOK
  <2>2. CASE Bootstrap
    <3>1. attempts + 1 \in 0 .. MaxAttempts
      BY <2>1, <2>2, BoundsAreNat DEF Bootstrap
    <3> QED BY <1>1, <2>1, <2>2, <3>1 DEF TypeOK, Bootstrap
  <2>3. CASE CallFunction
    <3>1. calls + 1 \in 0 .. MaxCalls
      BY <2>1, <2>3, BoundsAreNat DEF CallFunction
    <3> QED BY <1>1, <2>1, <2>3, <3>1 DEF TypeOK, CallFunction
  <2>4. CASE Catch
    BY <1>1, <2>1, <2>4 DEF TypeOK, Catch
  <2> QED BY <1>3, <2>2, <2>3, <2>4
<1>4. ASSUME NEW top \in 0 .. Len(loads),
             ModuleThrows(top) \/ CallerThrows(top) \/ Runs(top)
      PROVE  IInv'
  <2>1. CASE Require(top)
    BY <2>1, RequireStep
  <2>2. CASE \E falsy \in BOOLEAN : SetExports(top, falsy)
    BY <2>2, SetExportsStep
  <2>3. top # 0 => top \in DOMAIN loads
    BY LoadsTyped DEF IInv
  <2>4. throwing \in BOOLEAN
    BY DEF IInv, TypeOK
  <2>5. CASE ModuleReturns(top)
    BY <2>3, <2>4, <2>5, StateChanged DEF ModuleReturns
  <2>6. CASE ModuleThrows(top)
    BY <2>3, <2>6, StateChanged DEF ModuleThrows
  <2>7. CASE CallerReturns(top)
    BY <1>1, <2>7 DEF IInv, TypeOK, CallerReturns
  <2>8. CASE CallerThrows(top)
    BY <1>1, <2>8 DEF IInv, TypeOK, CallerThrows
  <2> QED BY <1>4, <2>1, <2>2, <2>5, <2>6, <2>7, <2>8 DEF Runs
<1> QED BY <1>2, <1>3, <1>4 DEF Next

LEMMA Invariance == Spec => []IInv
BY InitIInv, NextIInv, PTL DEF Spec

(* The types of the variables; the cache and what was handed out half      *)
(* loaded name loads that were begun.                                      *)
THEOREM TypeCorrect == Spec => []TypeOK
BY Invariance, PTL DEF IInv

(* However bootstraps fail and are tried again, and whatever main.js and   *)
(* the functions require, a file is evaluated a second time only if it has *)
(* exported a falsy value.                                                 *)
THEOREM OnceEach == Spec => []EvaluatedOnce
BY Invariance, PTL DEF IInv
-----------------------------------------------------------------------------
(* The frames of the engine are nested: a load was begun by one that came  *)
(* before it and runs as long as it does, with nothing running in between. *)
StackInv ==
    /\ Len(loads) <= MaxLoads
    /\ \A i \in DOMAIN loads : loads[i].by < i
    /\ \A i \in Running : loads[i].by \in {0} \cup Running
    /\ \A i, j \in Running : j < i => j <= loads[i].by
    /\ caller = "none" => Running = {} /\ ~throwing

(* What a file threw is on its way down or has been noticed.               *)
FailureInv ==
    (\E i \in DOMAIN loads : loads[i].state = "threw") => throwing \/ failures # {}

FrameInv == IInv /\ StackInv /\ FailureInv

LEMMA LeastNumber ==
    ASSUME NEW S, S \subseteq Nat, S # {}
    PROVE  \E n \in S : \A m \in S : n <= m
<1> DEFINE T == {0 .. n : n \in S}
<1>1. T \subseteq FiniteSubsetsOf(Nat) /\ T # {}
  <2>1. \A n \in S : 0 .. n \subseteq Nat /\ IsFiniteSet(0 .. n)
    BY FS_Interval
  <2> QED BY <2>1 DEF FiniteSubsetsOf
<1>2. PICK X \in T : \A Y \in T : ~(<<Y, X>> \in StrictSubsetOrdering(Nat))
  <2> HIDE DEF T
  <2> QED BY <1>1, FS_StrictSubsetOrderingWellFounded, WFMin
<1>3. PICK n \in S : X = 0 .. n
  OBVIOUS
<1>4. ASSUME NEW m \in S, m < n PROVE FALSE
  <2>1. 0 .. m \in T /\ 0 .. m \subseteq 0 .. n /\ 0 .. m # 0 .. n
    BY <1>4
  <2>2. 0 .. m \in SUBSET Nat /\ 0 .. n \in SUBSET Nat
    BY <1>1
  <2>3. <<0 .. m, 0 .. n>> \in StrictSubsetOrdering(Nat)
    BY <2>1, <2>2, Zenon DEF StrictSubsetOrdering
  <2> QED BY <1>2, <1>3, <2>1, <2>3
<1> QED BY <1>4

(* Below, of any loads l.                                                  *)
BelowIn(l) ==
    CHOOSE f : f = [i \in 0..MaxLoads |->
                       {i} \cup IF i \in DOMAIN l THEN f[l[i].by] ELSE {}]

Nested(l) == \A i \in DOMAIN l : l[i].by \in 0 .. i - 1

(* The recursion that defines Below has a solution: the frames below a     *)
(* frame are those in every set that has it, and with a frame who began it. *)
LEMMA BelowEquation ==
    ASSUME NEW l, Nested(l), NEW i \in 0 .. MaxLoads
    PROVE  /\ i \notin DOMAIN l => BelowIn(l)[i] = {i}
           /\ i \in DOMAIN l => BelowIn(l)[i] = {i} \cup BelowIn(l)[l[i].by]
<1> DEFINE R == 0 .. MaxLoads
           Closed(C) == \A k \in C : k \in DOMAIN l => l[k].by \in C
           Least(k) == {j \in R : \A C \in SUBSET R : k \in C /\ Closed(C) => j \in C}
           g == [k \in R |-> Least(k)]
<1>1. \A k \in R : k \in DOMAIN l => l[k].by \in R
  BY BoundsAreNat DEF Nested
<1>2. ASSUME NEW k \in R
      PROVE  Least(k) = {k} \cup IF k \in DOMAIN l THEN Least(l[k].by) ELSE {}
  <2> DEFINE S == {k} \cup IF k \in DOMAIN l THEN Least(l[k].by) ELSE {}
  <2>1. S \subseteq Least(k)
    BY <1>1
  <2>2. S \in SUBSET R /\ k \in S
    OBVIOUS
  <2>3. Closed(S)
    BY <1>1
  <2>4. Least(k) \subseteq S
    BY <2>2, <2>3
  <2> QED BY <2>1, <2>4
<1>3. g = [k \in R |-> {k} \cup IF k \in DOMAIN l THEN g[l[k].by] ELSE {}]
  <2> HIDE DEF Least
  <2>1. \A k \in R : g[k] = {k} \cup IF k \in DOMAIN l THEN g[l[k].by] ELSE {}
    BY <1>1, <1>2
  <2> QED BY <2>1
<1> HIDE DEF g
<1>4. BelowIn(l) = [k \in 0..MaxLoads |->
                       {k} \cup IF k \in DOMAIN l THEN BelowIn(l)[l[k].by] ELSE {}]
  BY <1>3 DEF BelowIn
<1> QED BY <1>4

(* Who was below a load when it began stays below it, and nobody joins.    *)
LEMMA BelowKept ==
    ASSUME NEW l, NEW m, NEW n \in Nat, n <= MaxLoads, Nested(l), Nested(m),
           DOMAIN l = 1 .. n,
           \A i \in 1 .. n : i \in DOMAIN m /\ m[i].by = l[i].by, 0 \notin DOMAIN m
    PROVE  \A i \in 0 .. n : BelowIn(m)[i] = BelowIn(l)[i]
<1> DEFINE S == {i \in 0 .. n : BelowIn(m)[i] # BelowIn(l)[i]}
<1> SUFFICES ASSUME S # {} PROVE FALSE
  OBVIOUS
<1>1. PICK i \in S : \A j \in S : i <= j
  <2>1. S \subseteq Nat
    OBVIOUS
  <2> HIDE DEF S
  <2> QED BY <2>1, LeastNumber
<1>2. i \in 0 .. MaxLoads /\ i \in 0 .. n
  BY BoundsAreNat
<1>3. CASE i = 0
  <2>1. i \notin DOMAIN l /\ i \notin DOMAIN m
    BY <1>3
  <2>2. BelowIn(l)[i] = {i}
    BY <1>2, <2>1, BelowEquation
  <2>3. BelowIn(m)[i] = {i}
    BY <1>2, <2>1, BelowEquation
  <2> QED BY <1>1, <2>2, <2>3
<1>4. CASE i # 0
  <2>1. i \in DOMAIN l /\ i \in DOMAIN m /\ m[i].by = l[i].by /\ l[i].by \in 0 .. i - 1
    BY <1>2, <1>4 DEF Nested
  <2>2. BelowIn(m)[l[i].by] = BelowIn(l)[l[i].by]
    BY <1>1, <2>1
  <2>3. BelowIn(l)[i] = {i} \cup BelowIn(l)[l[i].by]
    BY <1>2, <2>1, BelowEquation
  <2>4. BelowIn(m)[i] = {i} \cup BelowIn(m)[l[i].by]
    BY <1>2, <2>1, BelowEquation
  <2> QED BY <1>1, <2>2, <2>3, <2>4
<1> QED BY <1>3, <1>4

LEMMA FramesNested ==
    ASSUME FrameInv
    PROVE  /\ Nested(loads) /\ Below = BelowIn(loads)
           /\ Len(loads) \in Nat /\ Len(loads) <= MaxLoads /\ DOMAIN loads = 1 .. Len(loads)
           /\ 0 \notin DOMAIN loads
<1>1. /\ Len(loads) \in Nat /\ Len(loads) <= MaxLoads /\ DOMAIN loads = 1 .. Len(loads)
      /\ \A i \in DOMAIN loads : loads[i].by \in Nat /\ loads[i].by < i
  BY LoadsTyped DEF FrameInv, IInv, StackInv, Load
<1>2. Nested(loads)
  BY <1>1 DEF Nested
<1>3. Below = BelowIn(loads)
  BY DEF Below, BelowIn
<1> QED BY <1>1, <1>2, <1>3

(* Whatever runs is below what runs on top of it.                          *)
LEMMA RunningBelow ==
    ASSUME FrameInv, NEW i \in Running, NEW j \in Running, j <= i
    PROVE  j \in Below[i]
<1> DEFINE S == {k \in Running : \E m \in Running : m <= k /\ m \notin Below[k]}
<1> SUFFICES ASSUME S # {} PROVE FALSE
  OBVIOUS
<1>1. Running \subseteq DOMAIN loads /\ DOMAIN loads \subseteq 0 .. MaxLoads /\ Running \subseteq Nat
  BY FramesNested, BoundsAreNat DEF Running
<1>2. PICK k \in S : \A m \in S : k <= m
  BY <1>1, LeastNumber
<1>3. PICK m \in Running : m <= k /\ m \notin Below[k]
  OBVIOUS
<1>4. k \in DOMAIN loads /\ Below[k] = {k} \cup Below[loads[k].by]
  BY <1>1, <1>2, FramesNested, BelowEquation
<1>5. m < k /\ m \in Nat /\ k \in Nat
  BY <1>1, <1>2, <1>3, <1>4
<1>6. loads[k].by \in Running /\ m <= loads[k].by /\ loads[k].by < k
  <2>1. /\ loads[k].by \in {0} \cup Running /\ m <= loads[k].by
    BY <1>2, <1>3, <1>5 DEF FrameInv, StackInv
  <2>2. loads[k].by \in 0 .. k - 1
    BY <1>4, FramesNested DEF Nested
  <2>3. 0 \notin Running
    BY FramesNested DEF Running
  <2> QED BY <1>5, <2>1, <2>2, <2>3
<1>7. m \in Below[loads[k].by]
  <2>1. loads[k].by \notin S
    <3>1. loads[k].by \in Nat /\ k \in Nat
      BY <1>1, <1>5, <1>6
    <3> HIDE DEF S
    <3> QED BY <1>2, <1>6, <3>1
  <2> QED BY <1>3, <1>6, <2>1
<1> QED BY <1>3, <1>4, <1>7

(* What a step does to the frames.                                         *)
LEMMA StateFields ==
    ASSUME FrameInv, NEW top \in DOMAIN loads, NEW s,
           loads' = [loads EXCEPT ![top].state = s]
    PROVE  /\ Len(loads') = Len(loads) /\ DOMAIN loads' = DOMAIN loads
           /\ loads'[top].state = s
           /\ \A i \in DOMAIN loads : /\ loads'[i].by = loads[i].by
                                      /\ i # top => loads'[i].state = loads[i].state
<1>1. loads \in Seq(Load) /\ loads[top] \in Load
  BY LoadsTyped DEF FrameInv, IInv
<1> DEFINE t == [loads[top] EXCEPT !.state = s]
<1>2. t.by = loads[top].by /\ t.state = s /\ loads' = [loads EXCEPT ![top] = t]
  BY <1>1 DEF Load
<1> HIDE DEF t
<1> QED BY <1>1, <1>2

LEMMA ExportsFields ==
    ASSUME FrameInv, NEW top \in DOMAIN loads, NEW falsy \in BOOLEAN, SetExports(top, falsy)
    PROVE  /\ Len(loads') = Len(loads) /\ DOMAIN loads' = DOMAIN loads
           /\ \A i \in DOMAIN loads : /\ loads'[i].by = loads[i].by
                                      /\ loads'[i].state = loads[i].state
<1>1. loads \in Seq(Load) /\ loads[top] \in Load
  BY LoadsTyped DEF FrameInv, IInv
<1> DEFINE w == loads[top].wasFalsy \/ falsy
           t == [loads[top] EXCEPT !.falsy = falsy, !.wasFalsy = w]
<1>2. t.by = loads[top].by /\ t.state = loads[top].state
  BY <1>1 DEF Load
<1>3. loads' = [loads EXCEPT ![top] = t]
  BY <1>1 DEF SetExports
<1> HIDE DEF t
<1> QED BY <1>1, <1>2, <1>3

LEMMA LoadFields ==
    ASSUME FrameInv, NEW top \in 0 .. Len(loads), NEW f \in File, LoadModule(top, f)
    PROVE  LET n == Len(loads) + 1
           IN  /\ Len(loads') = n /\ DOMAIN loads' = 1 .. n /\ n <= MaxLoads
               /\ n \notin DOMAIN loads
               /\ loads'[n].by = top /\ loads'[n].state = "running"
               /\ \A i \in DOMAIN loads : i \in 1 .. n /\ loads'[i] = loads[i]
               /\ \A i \in 1 .. n : i \in DOMAIN loads \/ i = n
<1> DEFINE load == [file |-> f, by |-> top, state |-> "running",
                    falsy |-> FALSE, wasFalsy |-> FALSE]
           n == Len(loads) + 1
<1>1. loads \in Seq(Load) /\ DOMAIN loads = 1 .. Len(loads) /\ Len(loads) \in Nat
  BY LoadsTyped DEF FrameInv, IInv
<1>2. load \in Load /\ load.by = top /\ load.state = "running"
  BY <1>1 DEF Load
<1>3. loads' = Append(loads, load) /\ Len(loads) < MaxLoads
  BY DEF LoadModule
<1> HIDE DEF load
<1>4. /\ Len(loads') = n /\ DOMAIN loads' = 1 .. n /\ loads'[n] = load
      /\ \A i \in DOMAIN loads : loads'[i] = loads[i]
  BY <1>1, <1>2, <1>3, AppendProperties
<1> QED BY <1>1, <1>2, <1>3, <1>4, BoundsAreNat

(* A step that only tells how the loads end, or what they export.          *)
LEMMA SameFrames ==
    ASSUME FrameInv, Len(loads') = Len(loads), DOMAIN loads' = DOMAIN loads,
           \A i \in DOMAIN loads : loads'[i].by = loads[i].by,
           Running' = Running, caller' = "none" => Running = {} /\ ~throwing'
    PROVE  StackInv'
<1>1. /\ Len(loads) <= MaxLoads
      /\ \A i \in DOMAIN loads : loads[i].by < i
      /\ \A i \in Running : loads[i].by \in {0} \cup Running
      /\ \A i, j \in Running : j < i => j <= loads[i].by
  BY DEF FrameInv, StackInv
<1>2. \A i \in Running : loads'[i].by = loads[i].by
  BY DEF Running
<1>3. /\ Len(loads') <= MaxLoads
      /\ \A i \in DOMAIN loads' : loads'[i].by < i
  BY <1>1
<1>4. /\ \A i \in Running : loads'[i].by \in {0} \cup Running
      /\ \A i, j \in Running : j < i => j <= loads'[i].by
  BY <1>1, <1>2
<1> QED BY <1>3, <1>4 DEF StackInv

LEMMA PopFrame ==
    ASSUME FrameInv, NEW top \in DOMAIN loads, IsTop(top), NEW s, s # "running",
           loads' = [loads EXCEPT ![top].state = s], caller' = caller
    PROVE  StackInv'
<1>1. /\ Len(loads') = Len(loads) /\ DOMAIN loads' = DOMAIN loads
      /\ \A i \in DOMAIN loads : loads'[i].by = loads[i].by
  BY StateFields
<1>2. Running' = Running \ {top}
  BY StateFields DEF Running
<1>3. /\ caller' # "none" /\ top \in Nat /\ Running \subseteq DOMAIN loads
      /\ DOMAIN loads \subseteq Nat /\ \A j \in Running : j <= top
  BY FramesNested DEF IsTop, Running
<1>4. \A i \in Running \ {top} : loads[i].by \in {0} \cup (Running \ {top})
  <2> SUFFICES ASSUME NEW i \in Running \ {top}
               PROVE  loads[i].by \in {0} \cup (Running \ {top})
    OBVIOUS
  <2>1. loads[i].by \in {0} \cup Running
    BY DEF FrameInv, StackInv
  <2>2. loads[i].by \in Nat /\ loads[i].by < i /\ i <= top /\ i \in Nat
    BY <1>3, FramesNested DEF Nested
  <2> QED BY <1>3, <2>1, <2>2
<1>5. \A i, j \in Running : j < i => j <= loads[i].by
  BY DEF FrameInv, StackInv
<1>6. Len(loads) <= MaxLoads /\ \A i \in DOMAIN loads : loads[i].by < i
  BY DEF FrameInv, StackInv
<1> QED BY <1>1, <1>2, <1>3, <1>4, <1>5, <1>6 DEF StackInv

LEMMA PushFrame ==
    ASSUME FrameInv, NEW top \in 0 .. Len(loads), IsTop(top), NEW f \in File,
           LoadModule(top, f), caller' = caller
    PROVE  StackInv'
<1> DEFINE n == Len(loads) + 1
<1>1. /\ Len(loads') = n /\ DOMAIN loads' = 1 .. n /\ n <= MaxLoads
      /\ n \notin DOMAIN loads
      /\ loads'[n].by = top /\ loads'[n].state = "running"
      /\ \A i \in DOMAIN loads : i \in 1 .. n /\ loads'[i] = loads[i]
      /\ \A i \in 1 .. n : i \in DOMAIN loads \/ i = n
  BY LoadFields
<1>2. /\ top < n /\ n \in Nat /\ Running \subseteq DOMAIN loads
      /\ \A i \in DOMAIN loads : i \in Nat /\ i < n
  BY FramesNested DEF Running
<1>3. Running' = Running \cup {n}
  BY <1>1, <1>2 DEF Running
<1>4. caller' # "none" /\ top \in {0} \cup Running /\ \A j \in Running : j <= top
  BY DEF IsTop
<1>5. /\ \A i \in Running : loads[i].by \in {0} \cup Running
      /\ \A i, j \in Running : j < i => j <= loads[i].by
      /\ \A i \in DOMAIN loads : loads[i].by < i
  BY DEF FrameInv, StackInv
<1> HIDE DEF n
<1>6. \A i \in DOMAIN loads' : loads'[i].by < i
  BY <1>1, <1>2, <1>5
<1>7. \A i \in Running \cup {n} : loads'[i].by \in {0} \cup Running \cup {n}
  BY <1>1, <1>2, <1>4, <1>5
<1>8. \A i, j \in Running \cup {n} : j < i => j <= loads'[i].by
  <2> SUFFICES ASSUME NEW i \in Running \cup {n}, NEW j \in Running \cup {n}, j < i
               PROVE  j <= loads'[i].by
    OBVIOUS
  <2>1. j \in Running
    BY <1>2
  <2>2. CASE i = n
    BY <1>1, <1>4, <2>1, <2>2
  <2>3. CASE i # n
    BY <1>1, <1>2, <1>5, <2>1, <2>3
  <2> QED BY <2>2, <2>3
<1> QED BY <1>1, <1>3, <1>4, <1>6, <1>7, <1>8 DEF StackInv

LEMMA InitFrame == Init => FrameInv
<1> SUFFICES ASSUME Init PROVE FrameInv
  OBVIOUS
<1>1. loads = <<>> /\ DOMAIN loads = {} /\ Len(loads) = 0 /\ throwing = FALSE
  BY DEF Init
<1>2. Running = {}
  BY <1>1 DEF Running
<1> QED BY <1>1, <1>2, InitIInv, BoundsAreNat DEF FrameInv, StackInv, FailureInv

LEMMA NextFrame == FrameInv /\ [Next]_vars => FrameInv'
<1> SUFFICES ASSUME FrameInv, [Next]_vars PROVE FrameInv'
  OBVIOUS
<1>1. IInv'
  BY NextIInv DEF FrameInv
<1>2. ASSUME loads' = loads, caller' = "none" => Running = {} /\ ~throwing',
             (throwing \/ failures # {}) => (throwing' \/ failures' # {})
      PROVE  StackInv' /\ FailureInv'
  <2>1. Running' = Running
    BY <1>2 DEF Running
  <2>2. StackInv'
    BY <1>2, <2>1, SameFrames
  <2>3. FailureInv'
    BY <1>2 DEF FrameInv, FailureInv
  <2> QED BY <2>2, <2>3
<1>3. caller = "none" => Running = {} /\ ~throwing
  BY DEF FrameInv, StackInv
<1>4. CASE UNCHANGED vars
  BY <1>1, <1>2, <1>3, <1>4 DEF vars, FrameInv
<1>5. CASE Bootstrap \/ CallFunction
  BY <1>1, <1>2, <1>5 DEF Bootstrap, CallFunction, FrameInv
<1>6. CASE Catch
  <2>1. failures' # {} /\ loads' = loads /\ caller' = caller /\ ~throwing'
    BY <1>6 DEF Catch
  <2> QED BY <1>1, <1>2, <1>3, <2>1 DEF FrameInv
<1>7. ASSUME NEW top \in 0 .. Len(loads), IsTop(top),
             ModuleThrows(top) \/ CallerThrows(top) \/ (~throwing /\ Runs(top))
      PROVE  FrameInv'
  <2>1. caller # "none" /\ (top # 0 => top \in DOMAIN loads)
    BY <1>7, FramesNested DEF IsTop
  <2>2. top = 0 => Running = {}
    <3>1. \A j \in Running : j \in Nat /\ j # 0
      BY FramesNested DEF Running
    <3> QED BY <1>7, <3>1 DEF IsTop
  <2>3. CASE ModuleThrows(top)
    <3>1. top \in DOMAIN loads /\ loads' = [loads EXCEPT ![top].state = "threw"]
          /\ caller' = caller /\ throwing' = TRUE
      BY <2>1, <2>3 DEF ModuleThrows
    <3>2. StackInv'
      BY <1>7, <3>1, PopFrame
    <3>3. FailureInv'
      BY <3>1 DEF FailureInv
    <3> QED BY <1>1, <3>2, <3>3 DEF FrameInv
  <2>4. CASE CallerThrows(top)
    <3>1. Running = {} /\ loads' = loads /\ throwing' = FALSE
      BY <2>2, <2>4 DEF CallerThrows
    <3>2. failures' # {}
      BY <2>4 DEF CallerThrows
    <3> QED BY <1>1, <1>2, <3>1, <3>2 DEF FrameInv
  <2>5. ASSUME NEW f \in File, RequireCached(top, f), Require(top) PROVE FrameInv'
    <3>1. loads' = loads /\ caller' = caller /\ throwing' = throwing /\ failures' = failures
      BY <2>5 DEF RequireCached, Require
    <3> QED BY <1>1, <1>2, <2>1, <3>1 DEF FrameInv
  <2>6. ASSUME NEW f \in File, LoadModule(top, f), Require(top) PROVE FrameInv'
    <3>1. caller' = caller /\ throwing' = throwing /\ failures' = failures
      BY <2>6 DEF Require
    <3>2. StackInv'
      BY <1>7, <2>6, <3>1, PushFrame
    <3>3. \A i \in DOMAIN loads' : loads'[i].state = "threw" =>
                                       i \in DOMAIN loads /\ loads[i].state = "threw"
      BY <2>6, LoadFields
    <3>4. FailureInv'
      BY <3>1, <3>3 DEF FrameInv, FailureInv
    <3> QED BY <1>1, <3>2, <3>4 DEF FrameInv
  <2>7. CASE Require(top)
    BY <2>5, <2>6, <2>7 DEF Require
  <2>8. ASSUME NEW falsy \in BOOLEAN, SetExports(top, falsy) PROVE FrameInv'
    <3>1. top \in DOMAIN loads /\ caller' = caller /\ throwing' = throwing /\ failures' = failures
      BY <2>1, <2>8 DEF SetExports
    <3>2. /\ Len(loads') = Len(loads) /\ DOMAIN loads' = DOMAIN loads
          /\ \A i \in DOMAIN loads : /\ loads'[i].by = loads[i].by
                                     /\ loads'[i].state = loads[i].state
      BY <2>8, <3>1, ExportsFields
    <3>3. Running' = Running
      BY <3>2 DEF Running
    <3>4. StackInv'
      BY <2>1, <3>1, <3>2, <3>3, SameFrames
    <3>5. FailureInv'
      BY <3>1, <3>2 DEF FrameInv, FailureInv
    <3> QED BY <1>1, <3>4, <3>5 DEF FrameInv
  <2>9. CASE ModuleReturns(top)
    <3>1. /\ top \in DOMAIN loads /\ loads' = [loads EXCEPT ![top].state = "done"]
          /\ caller' = caller /\ throwing' = throwing /\ failures' = failures
      BY <2>1, <2>9 DEF ModuleReturns
    <3>2. StackInv'
      BY <1>7, <3>1, PopFrame
    <3>3. \A i \in DOMAIN loads' : loads'[i].state = "threw" =>
                                       i \in DOMAIN loads /\ loads[i].state = "threw"
      BY <3>1, StateFields
    <3>4. FailureInv'
      BY <3>1, <3>3 DEF FrameInv, FailureInv
    <3> QED BY <1>1, <3>2, <3>4 DEF FrameInv
  <2>10. CASE ~throwing /\ CallerReturns(top)
    <3>1. Running = {} /\ loads' = loads /\ throwing' = throwing /\ failures' = failures
      BY <2>2, <2>10 DEF CallerReturns
    <3> QED BY <1>1, <1>2, <2>10, <3>1 DEF FrameInv
  <2> QED BY <1>7, <2>3, <2>4, <2>7, <2>8, <2>9, <2>10 DEF Runs
<1> QED BY <1>4, <1>5, <1>6, <1>7 DEF Next

LEMMA FrameInvariance == Spec => []FrameInv
BY InitFrame, NextFrame, PTL DEF Spec

(* Who was handed out half loaded is below who got it, or has thrown, and  *)
(* then a failure has been noticed.                                        *)
PartialInv == PartialOnlyInCycleOrAfterThrow /\ HalfLoadedWasReported

(* What a step leaves in partial stays as harmless as it was.              *)
LEMMA PartialKept ==
    ASSUME FrameInv, FrameInv', Len(loads) <= Len(loads'),
           \A i \in DOMAIN loads : i \in DOMAIN loads' /\ loads'[i].by = loads[i].by,
           NEW p \in partial
    PROVE  Below'[p[1]] = Below[p[1]]
<1>1. p[1] \in 0 .. Len(loads)
  BY DEF FrameInv, IInv, TypeOK
<1>2. /\ Nested(loads) /\ Below = BelowIn(loads) /\ DOMAIN loads = 1 .. Len(loads)
      /\ Len(loads) \in Nat /\ Len(loads) <= MaxLoads
  BY FramesNested
<1>3. Nested(loads') /\ Below' = BelowIn(loads') /\ 0 \notin DOMAIN loads'
  <2>1. /\ Len(loads') \in Nat /\ DOMAIN loads' = 1 .. Len(loads')
        /\ \A i \in DOMAIN loads' : loads'[i].by \in Nat /\ loads'[i].by < i
    <3>1. loads' \in Seq(Load)
      BY DEF FrameInv, IInv, TypeOK, Load
    <3>2. \A i \in DOMAIN loads' : loads'[i].by < i
      BY DEF FrameInv, StackInv
    <3>3. \A i \in DOMAIN loads' : loads'[i] \in Load
      BY <3>1
    <3> QED BY <3>1, <3>2, <3>3 DEF Load
  <2>2. Below' = BelowIn(loads')
    BY DEF Below, BelowIn
  <2> QED BY <2>1, <2>2 DEF Nested
<1>4. \A i \in 0 .. Len(loads) : BelowIn(loads')[i] = BelowIn(loads)[i]
  BY <1>2, <1>3, BelowKept
<1> QED BY <1>1, <1>2, <1>3, <1>4

LEMMA PartialSame ==
    ASSUME FrameInv, FrameInv', PartialInv, partial' = partial,
           Len(loads) <= Len(loads'),
           \A i \in DOMAIN loads : i \in DOMAIN loads' /\ loads'[i].by = loads[i].by,
           \A i \in DOMAIN loads : loads[i].state = "threw" => loads'[i].state = "threw",
           failures # {} => failures' # {}
    PROVE  PartialInv'
<1>1. \A p \in partial : Below'[p[1]] = Below[p[1]] /\ p[2] \in DOMAIN loads
  <2>1. \A p \in partial : p[2] \in DOMAIN loads
    BY FramesNested DEF FrameInv, IInv, TypeOK
  <2> QED BY <2>1, PartialKept
<1>2. PartialOnlyInCycleOrAfterThrow'
  <2>1. \A p \in partial : p[2] \in Below[p[1]] \/ loads[p[2]].state = "threw"
    BY DEF PartialInv, PartialOnlyInCycleOrAfterThrow
  <2>2. \A p \in partial : p[2] \in Below'[p[1]] \/ loads'[p[2]].state = "threw"
    BY <1>1, <2>1
  <2> QED BY <2>2 DEF PartialOnlyInCycleOrAfterThrow
<1>3. HalfLoadedWasReported'
  <2>1. (\E p \in partial : p[2] \notin Below[p[1]]) => failures # {}
    BY DEF PartialInv, HalfLoadedWasReported
  <2>2. (\E p \in partial : p[2] \notin Below'[p[1]]) => failures' # {}
    BY <1>1, <2>1
  <2> QED BY <2>2 DEF HalfLoadedWasReported
<1> QED BY <1>2, <1>3 DEF PartialInv

(* A module that is in the cache and not whole is one of the frames below  *)
(* the one on top, or has thrown.                                          *)
LEMMA PartialCached ==
    ASSUME FrameInv, FrameInv', PartialInv, NEW top \in 0 .. Len(loads), IsTop(top),
           ~throwing, NEW f \in File, RequireCached(top, f), UNCHANGED failures
    PROVE  PartialInv'
<1> DEFINE c == cache[f]
<1>1. /\ loads' = loads
      /\ partial' = partial \/ (partial' = partial \cup {<<top, c>>} /\ loads[c].state # "done")
      /\ c # 0
  BY DEF RequireCached, Cached
<1>2. c \in DOMAIN loads
  BY <1>1, LoadsTyped DEF FrameInv, IInv
<1>3. Below' = Below
  BY <1>1 DEF Below
<1>4. ASSUME loads[c].state # "done"
      PROVE  c \in Below[top] \/ (loads[c].state = "threw" /\ failures # {})
  <2>1. loads[c].state \in {"running", "done", "threw"}
    BY <1>2, LoadsTyped DEF FrameInv, IInv, Load
  <2>2. CASE loads[c].state = "running"
    <3>1. c \in Running /\ c <= top /\ c \in Nat /\ c # 0
      BY <1>1, <1>2, <2>2, FramesNested DEF Running, IsTop
    <3>2. top \in Running
      BY <3>1 DEF IsTop
    <3> QED BY <3>1, <3>2, RunningBelow
  <2>3. CASE loads[c].state = "threw"
    BY <1>2, <2>3 DEF FrameInv, FailureInv
  <2> QED BY <1>4, <2>1, <2>2, <2>3
<1> HIDE DEF c
<1>5. \A p \in partial' : p \in partial \/ (p = <<top, c>> /\ loads[c].state # "done")
  BY <1>1
<1>6. PartialOnlyInCycleOrAfterThrow'
  <2>1. \A p \in partial : p[2] \in Below[p[1]] \/ loads[p[2]].state = "threw"
    BY DEF PartialInv, PartialOnlyInCycleOrAfterThrow
  <2>2. \A p \in partial' : p[2] \in Below[p[1]] \/ loads[p[2]].state = "threw"
    BY <1>4, <1>5, <2>1
  <2> QED BY <1>1, <1>3, <2>2 DEF PartialOnlyInCycleOrAfterThrow
<1>7. HalfLoadedWasReported'
  <2>1. \A p \in partial : p[2] \notin Below[p[1]] => failures # {}
    BY DEF PartialInv, HalfLoadedWasReported
  <2>2. \A p \in partial' : p[2] \notin Below[p[1]] => failures # {}
    BY <1>4, <1>5, <2>1
  <2> QED BY <1>3, <2>2 DEF HalfLoadedWasReported
<1> QED BY <1>6, <1>7 DEF PartialInv

LEMMA InitPartial == Init => PartialInv
BY DEF Init, PartialInv, PartialOnlyInCycleOrAfterThrow, HalfLoadedWasReported

LEMMA NextPartial == FrameInv /\ FrameInv' /\ PartialInv /\ [Next]_vars => PartialInv'
<1> SUFFICES ASSUME FrameInv, FrameInv', PartialInv, [Next]_vars PROVE PartialInv'
  OBVIOUS
<1>1. Len(loads) \in Nat /\ DOMAIN loads = 1 .. Len(loads)
  BY FramesNested
<1>2. ASSUME loads' = loads, partial' = partial, failures # {} => failures' # {}
      PROVE  PartialInv'
  BY <1>1, <1>2, PartialSame
<1>3. CASE UNCHANGED vars
  BY <1>2, <1>3 DEF vars
<1>4. CASE Bootstrap \/ CallFunction
  BY <1>2, <1>4 DEF Bootstrap, CallFunction
<1>5. CASE Catch
  <2>1. loads' = loads /\ partial' = partial /\ failures' # {}
    BY <1>5 DEF Catch
  <2> QED BY <1>2, <2>1
<1>6. ASSUME NEW top \in 0 .. Len(loads), IsTop(top),
             ModuleThrows(top) \/ CallerThrows(top) \/ (~throwing /\ Runs(top))
      PROVE  PartialInv'
  <2>1. top # 0 => top \in DOMAIN loads
    BY <1>1
  <2>2. ASSUME top # 0, NEW s \in {"done", "threw"}, loads[top].state = "running",
               loads' = [loads EXCEPT ![top].state = s], partial' = partial,
               failures' = failures
        PROVE  PartialInv'
    <3>1. /\ Len(loads') = Len(loads) /\ DOMAIN loads' = DOMAIN loads
          /\ \A i \in DOMAIN loads : /\ loads'[i].by = loads[i].by
                                     /\ i # top => loads'[i].state = loads[i].state
      BY <2>1, <2>2, StateFields
    <3>2. \A i \in DOMAIN loads : loads[i].state = "threw" => loads'[i].state = "threw"
      BY <2>2, <3>1
    <3>3. Len(loads) <= Len(loads')
      BY <1>1, <3>1
    <3> QED BY <2>2, <3>1, <3>2, <3>3, PartialSame
  <2>3. top # 0 => loads[top].state = "running"
    BY <1>6 DEF IsTop, Running
  <2>4. CASE ModuleThrows(top)
    BY <2>2, <2>3, <2>4 DEF ModuleThrows
  <2>5. CASE ModuleReturns(top)
    BY <2>2, <2>3, <2>5 DEF ModuleReturns
  <2>6. CASE CallerThrows(top)
    <3>1. loads' = loads /\ partial' = partial /\ failures' # {}
      BY <2>6 DEF CallerThrows
    <3> QED BY <1>2, <3>1
  <2>7. CASE CallerReturns(top)
    BY <1>2, <2>7 DEF CallerReturns
  <2>8. ASSUME NEW falsy \in BOOLEAN, SetExports(top, falsy) PROVE PartialInv'
    <3>1. top \in DOMAIN loads /\ partial' = partial /\ failures' = failures
      BY <2>1, <2>8 DEF SetExports
    <3>2. /\ Len(loads') = Len(loads) /\ DOMAIN loads' = DOMAIN loads
          /\ \A i \in DOMAIN loads : /\ loads'[i].by = loads[i].by
                                     /\ loads'[i].state = loads[i].state
      BY <2>8, <3>1, ExportsFields
    <3> QED BY <1>1, <3>1, <3>2, PartialSame
  <2>9. ASSUME ~throwing, NEW f \in File, RequireCached(top, f), UNCHANGED failures
        PROVE  PartialInv'
    BY <1>6, <2>9, PartialCached
  <2>10. ASSUME NEW f \in File, LoadModule(top, f), UNCHANGED failures PROVE PartialInv'
    <3>1. partial' = partial
      BY <2>10 DEF LoadModule
    <3>2. /\ Len(loads) <= Len(loads')
          /\ \A i \in DOMAIN loads : i \in DOMAIN loads' /\ loads'[i] = loads[i]
      BY <1>1, <2>10, LoadFields
    <3> QED BY <2>10, <3>1, <3>2, PartialSame
  <2>11. CASE ~throwing /\ Require(top)
    BY <2>9, <2>10, <2>11 DEF Require
  <2> QED BY <1>6, <2>4, <2>5, <2>6, <2>7, <2>8, <2>11 DEF Runs
<1> QED BY <1>3, <1>4, <1>5, <1>6 DEF Next

LEMMA PartialInvariance == Spec => []PartialInv
BY FrameInvariance, InitPartial, NextPartial, PTL DEF Spec

(* Whatever main.js, the modules and the functions require, catch and      *)
(* throw: require returns a module that is not whole only to a frame above *)
(* it, or a module that has thrown.                                        *)
THEOREM PartialOnlyAbove == Spec => []PartialOnlyInCycleOrAfterThrow
BY PartialInvariance, PTL DEF PartialInv

(* Nothing half loaded is taken for whole before a failure was noticed.    *)
THEOREM ReportedFirst == Spec => []HalfLoadedWasReported
BY PartialInvariance, PTL DEF PartialInv
-----------------------------------------------------------------------------
(* One segment of a path. *)
Enter(parts, part) ==
    CASE part \in Up      -> IF parts = <<>> THEN <<>> ELSE Front(parts)
      [] part \in Skipped -> parts
      [] OTHER            -> Append(parts, part)

(* What the library's fold assigns to the subsequences of a path. *)
IsFold(fold, path, D) ==
    fold = [t \in SUBSET D |->
               IF t = {} THEN <<>> ELSE Enter(fold[t \ {Max(t)}], path[Max(t)])]

LEMMA MaxOfPrefix ==
    ASSUME NEW n \in Nat, NEW t \in SUBSET (1 .. n + 1), n + 1 \in t
    PROVE  Max(t) = n + 1 /\ t \ {Max(t)} \in SUBSET (1 .. n)
<1>1. n + 1 \in t /\ \A y \in t : n + 1 >= y
  OBVIOUS
<1>2. PICK x \in t : x = Max(t) /\ \A y \in t : x >= y
  BY <1>1 DEF Max
<1>3. x = n + 1
  BY <1>1, <1>2
<1> QED BY <1>2, <1>3

LEMMA CanonicalPathIsFold ==
    ASSUME NEW path
    PROVE  CanonicalPath(path)
               = (CHOOSE fold : IsFold(fold, path, DOMAIN path))[DOMAIN path]
BY DEF CanonicalPath, FoldLeft, MapThenFoldSet, IsFold, Enter

LEMMA FoldExists ==
    ASSUME NEW path, NEW n \in Nat
    PROVE  \E fold : IsFold(fold, path, 1 .. n)
<1> DEFINE S == {m \in Nat : ~\E fold : IsFold(fold, path, 1 .. m)}
<1> SUFFICES ASSUME S # {} PROVE FALSE
  OBVIOUS
<1>1. PICK m \in S : \A k \in S : m <= k
  <2>1. S \subseteq Nat
    OBVIOUS
  <2> HIDE DEF S
  <2> QED BY <2>1, LeastNumber
<1>2. CASE m = 0
  <2> DEFINE g == [t \in SUBSET (1 .. m) |-> <<>>]
  <2>1. 1 .. m = {}
    BY <1>2
  <2>2. IsFold(g, path, 1 .. m)
    BY <2>1 DEF IsFold
  <2> QED BY <1>1, <2>2
<1>3. CASE m # 0
  <2>1. PICK k \in Nat : m = k + 1
    BY <1>3, m \in Nat, m - 1 \in Nat
  <2>2. k \notin S
    BY <1>1, <2>1
  <2>3. PICK g : IsFold(g, path, 1 .. k)
    BY <2>2
  <2> DEFINE h == [t \in SUBSET (1 .. k + 1) |->
                      IF k + 1 \in t THEN Enter(g[t \ {k + 1}], path[k + 1]) ELSE g[t]]
  <2>4. \A t \in SUBSET (1 .. k) : h[t] = g[t]
    OBVIOUS
  <2>5. ASSUME NEW t \in SUBSET (1 .. k + 1)
        PROVE  h[t] = IF t = {} THEN <<>> ELSE Enter(h[t \ {Max(t)}], path[Max(t)])
    <3>1. CASE k + 1 \in t
      <4>1. Max(t) = k + 1 /\ t \ {Max(t)} \in SUBSET (1 .. k)
        BY <3>1, MaxOfPrefix
      <4> QED BY <2>4, <3>1, <4>1
    <3>2. CASE k + 1 \notin t
      <4>1. t \in SUBSET (1 .. k)
        BY <3>2
      <4>2. g[t] = IF t = {} THEN <<>> ELSE Enter(g[t \ {Max(t)}], path[Max(t)])
        BY <2>3, <4>1 DEF IsFold
      <4>3. t \ {Max(t)} \in SUBSET (1 .. k)
        BY <4>1
      <4> QED BY <2>4, <4>1, <4>2, <4>3
    <3> QED BY <3>1, <3>2
  <2>6. IsFold(h, path, 1 .. m)
    <3>1. h = [t \in SUBSET (1 .. k + 1) |-> h[t]]
      OBVIOUS
    <3> HIDE DEF h
    <3>2. h = [t \in SUBSET (1 .. k + 1) |->
                  IF t = {} THEN <<>> ELSE Enter(h[t \ {Max(t)}], path[Max(t)])]
      BY <2>5, <3>1
    <3> QED BY <2>1, <3>2 DEF IsFold
  <2> QED BY <1>1, <2>6
<1> QED BY <1>2, <1>3

(* The segments that are left after each one of a path. *)
Way(v, path, n) == v[0] = <<>> /\ \A k \in 1 .. n : v[k] = Enter(v[k - 1], path[k])

LEMMA WayExists ==
    ASSUME NEW path, NEW n \in Nat, DOMAIN path = 1 .. n
    PROVE  \E v : Way(v, path, n) /\ CanonicalPath(path) = v[n]
<1> DEFINE g == CHOOSE fold : IsFold(fold, path, 1 .. n)
           v == [k \in 0 .. n |-> g[1 .. k]]
<1>1. IsFold(g, path, 1 .. n)
  BY FoldExists
<1>2. CanonicalPath(path) = g[1 .. n]
  BY CanonicalPathIsFold
<1> HIDE DEF g
<1>3. v[n] = g[1 .. n]
  OBVIOUS
<1>4. v[0] = <<>>
  <2>1. 1 .. 0 = {} /\ {} \in SUBSET (1 .. n)
    OBVIOUS
  <2>2. g[{}] = <<>>
    BY <1>1, <2>1 DEF IsFold
  <2>3. v[0] = g[1 .. 0]
    OBVIOUS
  <2> QED BY <2>1, <2>2, <2>3
<1>5. ASSUME NEW k \in 1 .. n
      PROVE  v[k] = Enter(v[k - 1], path[k])
  <2>1. PICK j \in Nat : k = j + 1
    BY k \in Nat, k - 1 \in Nat
  <2>2. 1 .. k \in SUBSET (1 .. j + 1) /\ j + 1 \in 1 .. k
    BY <2>1
  <2>3. Max(1 .. k) = k /\ (1 .. k) \ {k} = 1 .. k - 1
    <3>1. Max(1 .. k) = j + 1
      BY <2>2, MaxOfPrefix
    <3>2. (1 .. k) \ {k} = 1 .. k - 1
      BY <2>1
    <3> QED BY <2>1, <3>1, <3>2
  <2>4. 1 .. k \in SUBSET (1 .. n) /\ 1 .. k # {}
    <3>1. \A i \in 1 .. k : i \in 1 .. n
      OBVIOUS
    <3>2. 1 \in 1 .. k
      OBVIOUS
    <3> QED BY <3>1, <3>2
  <2>5. g[1 .. k] = Enter(g[(1 .. k) \ {Max(1 .. k)}], path[Max(1 .. k)])
    BY <1>1, <2>4 DEF IsFold
  <2>6. v[k] = g[1 .. k] /\ v[k - 1] = g[1 .. k - 1]
    OBVIOUS
  <2> QED BY <2>3, <2>5, <2>6
<1> HIDE DEF v
<1> QED BY <1>2, <1>3, <1>4, <1>5 DEF Way
-----------------------------------------------------------------------------
(* Where an element of a set of numbers stands, from below and from above. *)
Place(K, i) == Cardinality({k \in K : k <= i})

Above(K, i) == Cardinality({k \in K : k > i})

LEMMA SetOfNumbers ==
    ASSUME NEW m \in Nat, NEW K \in SUBSET (1 .. m)
    PROVE  /\ IsFiniteSet(K) /\ Cardinality(K) \in Nat
           /\ \A i \in Nat : /\ Place(K, i) \in Nat /\ Above(K, i) \in Nat
                             /\ Above(K, i) = 0 <=> \A k \in K : k <= i
<1>1. \A T \in SUBSET (1 .. m) : IsFiniteSet(T) /\ Cardinality(T) \in Nat
  <2>1. IsFiniteSet(1 .. m)
    BY FS_Interval
  <2> QED BY <2>1, FS_Subset, FS_CardinalityType
<1>2. ASSUME NEW i \in Nat
      PROVE  /\ Place(K, i) \in Nat /\ Above(K, i) \in Nat
             /\ Above(K, i) = 0 <=> \A k \in K : k <= i
  <2> DEFINE P == {k \in K : k <= i}
             A == {k \in K : k > i}
  <2>1. P \in SUBSET (1 .. m) /\ A \in SUBSET (1 .. m)
    OBVIOUS
  <2>2. A = {} <=> \A k \in K : k <= i
    <3>1. \A k \in K : k \in Int /\ i \in Int
      OBVIOUS
    <3>2. \A k \in K : ~(k <= i) <=> k > i
      BY <3>1
    <3> QED BY <3>2, Zenon
  <2>3. Place(K, i) = Cardinality(P) /\ Above(K, i) = Cardinality(A)
    BY DEF Place, Above
  <2> HIDE DEF P, A
  <2> QED BY <1>1, <2>1, <2>2, <2>3, FS_EmptySet
<1> QED BY <1>1, <1>2

(* A new element above all others. *)
LEMMA OneMore ==
    ASSUME NEW m \in Nat, NEW K \in SUBSET (1 .. m)
    PROVE  LET L == K \cup {m + 1}
           IN  /\ Cardinality(L) = Cardinality(K) + 1
               /\ Place(L, m + 1) = Cardinality(K) + 1 /\ Above(L, m + 1) = 0
               /\ \A i \in K : /\ Place(L, i) = Place(K, i)
                               /\ Above(L, i) = Above(K, i) + 1
<1> DEFINE L == K \cup {m + 1}
<1>1. IsFiniteSet(K) /\ m + 1 \notin K /\ \A k \in K : k \in Nat /\ k <= m
  <2>1. \A k \in K : k \in 1 .. m
    OBVIOUS
  <2>2. \A k \in K : k \in Nat /\ k <= m
    BY <2>1
  <2>3. m + 1 \notin K
    BY <2>2
  <2> QED BY <2>2, <2>3, SetOfNumbers
<1>2. Cardinality(L) = Cardinality(K) + 1
  BY <1>1, FS_AddElement
<1>3. {k \in L : k <= m + 1} = L /\ {k \in L : k > m + 1} = {}
  <2>1. \A k \in L : k <= m + 1 /\ ~(k > m + 1)
    BY <1>1
  <2> QED BY <2>1
<1>4. Place(L, m + 1) = Cardinality(K) + 1 /\ Above(L, m + 1) = 0
  BY <1>2, <1>3, FS_EmptySet DEF Place, Above
<1>5. ASSUME NEW i \in K
      PROVE  Place(L, i) = Place(K, i) /\ Above(L, i) = Above(K, i) + 1
  <2> DEFINE A == {k \in K : k > i}
  <2>1. {k \in L : k <= i} = {k \in K : k <= i} /\ {k \in L : k > i} = A \cup {m + 1}
    OBVIOUS
  <2>2. IsFiniteSet(A) /\ m + 1 \notin A
    BY <1>1, FS_Subset
  <2>3. Cardinality(A \cup {m + 1}) = Cardinality(A) + 1
    BY <2>2, FS_AddElement
  <2> QED BY <2>1, <2>3 DEF Place, Above
<1> QED BY <1>2, <1>4, <1>5

(* The highest element taken away. *)
LEMMA OneLess ==
    ASSUME NEW m \in Nat, NEW K \in SUBSET (1 .. m), K # {}
    PROVE  LET L == {i \in K : Above(K, i) # 0}
           IN  /\ Cardinality(L) = Cardinality(K) - 1 /\ Cardinality(K) # 0
               /\ \A i \in L : /\ Place(L, i) = Place(K, i)
                               /\ Place(K, i) \in 1 .. Cardinality(L)
                               /\ Above(K, i) = Above(L, i) + 1
<1> DEFINE L == {i \in K : Above(K, i) # 0}
           B == {m - k : k \in K}
<1>1. PICK p \in K : \A k \in K : k <= p
  <2>1. B \subseteq Nat /\ B # {}
    <3>1. \A k \in K : k \in 1 .. m
      OBVIOUS
    <3>2. \A k \in K : m - k \in Nat
      BY <3>1
    <3> QED BY <3>2
  <2>2. PICK b \in B : \A c \in B : b <= c
    <3> HIDE DEF B
    <3> QED BY <2>1, LeastNumber
  <2>3. PICK p \in K : b = m - p
    OBVIOUS
  <2>4. \A k \in K : m - p <= m - k
    BY <2>2, <2>3
  <2> QED BY <2>4
<1>2. IsFiniteSet(K) /\ Cardinality(K) \in Nat
  BY SetOfNumbers
<1>3. L = K \ {p}
  <2>1. \A i \in K : Above(K, i) = 0 <=> i = p
    <3>1. \A i \in K : i \in Nat
      OBVIOUS
    <3>2. \A i \in K : Above(K, i) = 0 <=> \A k \in K : k <= i
      BY <3>1, SetOfNumbers
    <3>3. \A i \in K : i <= p /\ (p <= i => i = p)
      BY <1>1, <3>1
    <3> QED BY <1>1, <3>2, <3>3
  <2> QED BY <2>1
<1>4. IsFiniteSet(L) /\ L \in SUBSET (1 .. m)
  BY <1>2, FS_Subset
<1> HIDE DEF L
<1>5. Cardinality(L) = Cardinality(K) - 1 /\ Cardinality(K) # 0
  BY <1>2, <1>3, FS_RemoveElement, FS_EmptySet
<1>6. ASSUME NEW i \in L
      PROVE  /\ Place(L, i) = Place(K, i)
             /\ Place(K, i) \in 1 .. Cardinality(L)
             /\ Above(K, i) = Above(L, i) + 1
  <2> DEFINE P == {k \in L : k <= i}
             A == {k \in L : k > i}
  <2>1. i \in K /\ i < p /\ i \in Nat /\ p \in Nat
    BY <1>1, <1>3
  <2>2. {k \in K : k <= i} = P /\ {k \in K : k > i} = A \cup {p} /\ p \notin A
    BY <1>1, <1>3, <2>1
  <2>3. P \in SUBSET L /\ A \in SUBSET L /\ i \in P
    BY <2>1
  <2>4. IsFiniteSet(P) /\ IsFiniteSet(A) /\ Cardinality(P) <= Cardinality(L)
    BY <1>4, <2>3, FS_Subset
  <2>5. Cardinality(A \cup {p}) = Cardinality(A) + 1
    BY <2>2, <2>4, FS_AddElement
  <2>6. Cardinality(P) \in Nat /\ Cardinality(P) # 0
    BY <2>3, <2>4, FS_CardinalityType, FS_EmptySet
  <2>7. Place(L, i) = Cardinality(P) /\ Place(K, i) = Cardinality(P)
    BY <2>2 DEF Place
  <2>8. Above(K, i) = Above(L, i) + 1
    BY <2>2, <2>5 DEF Above
  <2>9. Cardinality(L) \in Nat
    BY <1>4, FS_CardinalityType
  <2> HIDE DEF P
  <2> QED BY <2>4, <2>6, <2>7, <2>8, <2>9
<1>7. /\ Cardinality(L) = Cardinality(K) - 1 /\ Cardinality(K) # 0
      /\ \A i \in L : /\ Place(L, i) = Place(K, i)
                      /\ Place(K, i) \in 1 .. Cardinality(L)
                      /\ Above(K, i) = Above(L, i) + 1
  BY <1>5, <1>6
<1> QED BY <1>7 DEF L

LEMMA PlaceInRange ==
    ASSUME NEW m \in Nat, NEW K \in SUBSET (1 .. m), NEW i \in K
    PROVE  Place(K, i) \in 1 .. Cardinality(K)
<1> DEFINE P == {k \in K : k <= i}
<1>1. IsFiniteSet(K) /\ Cardinality(K) \in Nat
  BY SetOfNumbers
<1>2. P \in SUBSET K /\ i \in P
  OBVIOUS
<1>3. IsFiniteSet(P) /\ Cardinality(P) <= Cardinality(K)
  BY <1>1, <1>2, FS_Subset
<1>4. Cardinality(P) \in Nat /\ Cardinality(P) # 0
  BY <1>2, <1>3, FS_CardinalityType, FS_EmptySet
<1>5. Place(K, i) = Cardinality(P)
  BY DEF Place
<1> HIDE DEF P
<1> QED BY <1>1, <1>3, <1>4, <1>5

(* Each place is taken by one element. *)
LEMMA EachPlaceTaken ==
    ASSUME NEW m \in Nat, NEW K \in SUBSET (1 .. m)
    PROVE  \A n \in 1 .. Cardinality(K) : \E i \in K : Place(K, i) = n
<1> DEFINE f == [i \in K |-> Place(K, i)]
           T == 1 .. Cardinality(K)
<1>1. IsFiniteSet(K) /\ Cardinality(K) \in Nat
  BY SetOfNumbers
<1>2. ASSUME NEW i \in K
      PROVE  Place(K, i) \in T
  BY PlaceInRange
<1>3. ASSUME NEW i \in K, NEW j \in K, i < j
      PROVE  Place(K, i) # Place(K, j)
  <2> DEFINE P == {k \in K : k <= i}
             Q == {k \in K : k <= j}
  <2>1. P \in SUBSET Q /\ j \in Q /\ j \notin P /\ Q \in SUBSET K
    <3>1. \A k \in K : k \in Nat
      OBVIOUS
    <3>2. \A k \in K : k <= i => k <= j
      BY <1>3, <3>1
    <3>3. j <= j /\ ~(j <= i)
      BY <1>3, <3>1
    <3> QED BY <3>2, <3>3
  <2>2. IsFiniteSet(Q)
    BY <1>1, <2>1, FS_Subset
  <2>3. Cardinality(P) # Cardinality(Q)
    <3> HIDE DEF P, Q
    <3> QED BY <2>1, <2>2, FS_Subset
  <2> QED BY <2>3 DEF Place
<1>4. f \in Injection(K, T)
  <2>1. f \in [K -> T]
    BY <1>2
  <2>2. \A i, j \in K : f[i] = f[j] => i = j
    <3>1. \A i, j \in K : i < j \/ j < i \/ i = j
      OBVIOUS
    <3> QED BY <1>3, <3>1
  <2> QED BY <2>1, <2>2 DEF Injection, IsInjective
<1>5. IsFiniteSet(T) /\ Cardinality(T) = Cardinality(K)
  BY <1>1, FS_Interval
<1>6. f \in Surjection(K, T)
  <2> HIDE DEF f, T
  <2> QED BY <1>1, <1>4, <1>5, FS_Injection
<1> QED BY <1>6 DEF Surjection
-----------------------------------------------------------------------------
(* The parts of Remaining, for the first m segments of a path. *)
Names(path) == Range(path) \ (Up \cup Skipped)

Counted(path, S, i, j) == Cardinality({k \in i .. j : path[k] \in S})

Held(path, i, j) == Counted(path, Up, i, j) <= Counted(path, Names(path), i, j)

Kept(path, m) ==
    {i \in 1 .. m : path[i] \in Names(path) /\ \A j \in (i + 1) .. m : Held(path, i + 1, j)}

LEMMA CountNext ==
    ASSUME NEW path, NEW S, NEW i \in Nat, NEW j \in Nat, i <= j + 1
    PROVE  /\ Counted(path, S, i, j) \in Nat
           /\ Counted(path, S, i, j + 1)
                  = Counted(path, S, i, j) + (IF path[j + 1] \in S THEN 1 ELSE 0)
<1> DEFINE C == {k \in i .. j : path[k] \in S}
           D == {k \in i .. j + 1 : path[k] \in S}
<1>1. IsFiniteSet(C) /\ j + 1 \notin C
  <2>1. IsFiniteSet(i .. j) /\ C \in SUBSET (i .. j)
    BY FS_Interval
  <2>2. IsFiniteSet(C)
    BY <2>1, FS_Subset
  <2>3. j + 1 \notin i .. j
    OBVIOUS
  <2> QED BY <2>2, <2>3
<1>2. D = IF path[j + 1] \in S THEN C \cup {j + 1} ELSE C
  <2>1. i .. j + 1 = (i .. j) \cup {j + 1}
    OBVIOUS
  <2> QED BY <2>1
<1>3. Cardinality(C) \in Nat /\ Cardinality(C \cup {j + 1}) = Cardinality(C) + 1
  BY <1>1, FS_CardinalityType, FS_AddElement
<1>4. Counted(path, S, i, j) = Cardinality(C) /\ Counted(path, S, i, j + 1) = Cardinality(D)
  BY DEF Counted
<1> HIDE DEF C, D
<1> QED BY <1>2, <1>3, <1>4

LEMMA CountNone ==
    ASSUME NEW path, NEW S, NEW j \in Nat
    PROVE  Counted(path, S, j + 1, j) = 0
<1>1. {k \in j + 1 .. j : path[k] \in S} = {}
  OBVIOUS
<1> QED BY <1>1, FS_EmptySet DEF Counted

(* Which elements one more segment keeps. *)
LEMMA KeptNext ==
    ASSUME NEW path, NEW m \in Nat
    PROVE  Kept(path, m + 1) =
               {i \in Kept(path, m) : Held(path, i + 1, m + 1)}
               \cup (IF path[m + 1] \in Names(path) THEN {m + 1} ELSE {})
<1>1. ASSUME NEW i \in 1 .. m
      PROVE  i \in Kept(path, m + 1) <=> i \in Kept(path, m) /\ Held(path, i + 1, m + 1)
  <2>1. (i + 1) .. (m + 1) = ((i + 1) .. m) \cup {m + 1} /\ i \in 1 .. m + 1
    OBVIOUS
  <2> QED BY <2>1 DEF Kept
<1>2. m + 1 \in Kept(path, m + 1) <=> path[m + 1] \in Names(path)
  <2>1. m + 1 \in 1 .. m + 1 /\ (m + 1 + 1) .. (m + 1) = {}
    OBVIOUS
  <2> QED BY <2>1 DEF Kept
<1>3. Kept(path, m) \subseteq 1 .. m /\ Kept(path, m + 1) \subseteq (1 .. m) \cup {m + 1}
  <2>1. 1 .. m + 1 = (1 .. m) \cup {m + 1}
    OBVIOUS
  <2> QED BY <2>1 DEF Kept
<1>4. m + 1 \notin 1 .. m
  OBVIOUS
<1> QED BY <1>1, <1>2, <1>3, <1>4

(* The segments v are those in the places K of a path. *)
Lists(v, path, K) ==
    /\ v \in Seq(Range(path))
    /\ Len(v) = Cardinality(K)
    /\ \A i \in K : v[Place(K, i)] = path[i]

(* There are as many more names than .. after a name that is kept, as names *)
(* are kept after it.                                                       *)
Balanced(path, m) ==
    \A i \in Kept(path, m) :
        Counted(path, Names(path), i + 1, m)
            = Counted(path, Up, i + 1, m) + Above(Kept(path, m), i)

LEMMA KeptInterval ==
    ASSUME NEW path, NEW m \in Nat
    PROVE  /\ Kept(path, m) \in SUBSET (1 .. m)
           /\ \A i \in Kept(path, m) : /\ i \in Nat /\ i + 1 \in Nat
                                       /\ i + 1 <= m + 1
<1>1. \A i \in Kept(path, m) : i \in 1 .. m
  BY DEF Kept
<1> QED BY <1>1

(* What the next segment adds to the counts. *)
LEMMA CountsNext ==
    ASSUME NEW path, NEW m \in Nat, NEW i \in Kept(path, m), Balanced(path, m)
    PROVE  LET u == Counted(path, Up, i + 1, m)
               a == Above(Kept(path, m), i)
               isUp == IF path[m + 1] \in Up THEN 1 ELSE 0
               isName == IF path[m + 1] \in Names(path) THEN 1 ELSE 0
           IN  /\ u \in Nat /\ a \in Nat
               /\ Counted(path, Up, i + 1, m + 1) = u + isUp
               /\ Counted(path, Names(path), i + 1, m + 1) = u + a + isName
<1>1. i \in Nat /\ i + 1 \in Nat /\ i + 1 <= m + 1 /\ Kept(path, m) \in SUBSET (1 .. m)
  BY KeptInterval
<1>2. Counted(path, Up, i + 1, m) \in Nat /\ Above(Kept(path, m), i) \in Nat
  BY <1>1, CountNext, SetOfNumbers
<1>3. Counted(path, Names(path), i + 1, m)
          = Counted(path, Up, i + 1, m) + Above(Kept(path, m), i)
  BY DEF Balanced
<1>4. /\ Counted(path, Up, i + 1, m + 1)
             = Counted(path, Up, i + 1, m) + (IF path[m + 1] \in Up THEN 1 ELSE 0)
      /\ Counted(path, Names(path), i + 1, m + 1)
             = Counted(path, Names(path), i + 1, m)
               + (IF path[m + 1] \in Names(path) THEN 1 ELSE 0)
  BY <1>1, CountNext
<1> QED BY <1>2, <1>3, <1>4

(* The three cases of a segment. *)
LEMMA SkippedNext ==
    ASSUME NEW path, NEW m \in Nat, NEW v, Balanced(path, m), Lists(v, path, Kept(path, m)),
           path[m + 1] \notin Up, path[m + 1] \in Skipped
    PROVE  /\ Enter(v, path[m + 1]) = v
           /\ Kept(path, m + 1) = Kept(path, m) /\ Balanced(path, m + 1)
<1>1. path[m + 1] \notin Names(path)
  BY DEF Names
<1>2. \A i \in Kept(path, m) : Held(path, i + 1, m + 1)
  BY <1>1, CountsNext DEF Held
<1>3. Kept(path, m + 1) = Kept(path, m)
  BY <1>1, <1>2, KeptNext
<1>4. Balanced(path, m + 1)
  <2>1. \A i \in Kept(path, m) :
            Counted(path, Names(path), i + 1, m + 1)
                = Counted(path, Up, i + 1, m + 1) + Above(Kept(path, m), i)
    BY <1>1, CountsNext
  <2> QED BY <1>3, <2>1 DEF Balanced
<1> QED BY <1>3, <1>4 DEF Enter

LEMMA NameNext ==
    ASSUME NEW path, NEW m \in Nat, NEW v, Balanced(path, m), Lists(v, path, Kept(path, m)),
           path[m + 1] \in Names(path)
    PROVE  /\ Lists(Enter(v, path[m + 1]), path, Kept(path, m + 1))
           /\ Balanced(path, m + 1)
<1> DEFINE K == Kept(path, m)
           L == K \cup {m + 1}
<1>1. path[m + 1] \notin Up /\ path[m + 1] \notin Skipped /\ path[m + 1] \in Range(path)
  BY DEF Names
<1>2. \A i \in K : Held(path, i + 1, m + 1)
  BY <1>1, CountsNext DEF Held
<1>3. Kept(path, m + 1) = L
  BY <1>2, KeptNext
<1>4. K \in SUBSET (1 .. m)
  BY KeptInterval
<1>5. /\ Cardinality(L) = Cardinality(K) + 1
      /\ Place(L, m + 1) = Cardinality(K) + 1 /\ Above(L, m + 1) = 0
      /\ \A i \in K : Place(L, i) = Place(K, i) /\ Above(L, i) = Above(K, i) + 1
  <2> HIDE DEF K
  <2> QED BY <1>4, OneMore
<1>6. Balanced(path, m + 1)
  <2>1. ASSUME NEW i \in K
        PROVE  Counted(path, Names(path), i + 1, m + 1)
                   = Counted(path, Up, i + 1, m + 1) + Above(L, i)
    <3>1. i \in Kept(path, m) /\ Above(L, i) = Above(Kept(path, m), i) + 1
      BY <1>5, <2>1
    <3> HIDE DEF K, L
    <3> QED BY <1>1, <3>1, CountsNext
  <2>2. Counted(path, Names(path), (m + 1) + 1, m + 1)
            = Counted(path, Up, (m + 1) + 1, m + 1) + Above(L, m + 1)
    BY <1>5, CountNone
  <2> HIDE DEF K
  <2> QED BY <1>3, <2>1, <2>2 DEF Balanced
<1>7. Lists(Enter(v, path[m + 1]), path, L)
  <2> DEFINE w == Append(v, path[m + 1])
  <2>1. v \in Seq(Range(path)) /\ Len(v) = Cardinality(K) /\ Len(v) \in Nat
    BY DEF Lists
  <2>2. /\ w \in Seq(Range(path)) /\ Len(w) = Len(v) + 1
        /\ \A n \in 1 .. Len(v) : w[n] = v[n]
        /\ w[Len(v) + 1] = path[m + 1]
    BY <1>1, <2>1
  <2>3. ASSUME NEW i \in K
        PROVE  w[Place(L, i)] = path[i]
    <3>1. Place(K, i) \in 1 .. Cardinality(K)
      BY <1>4, PlaceInRange
    <3> QED BY <1>5, <2>1, <2>2, <3>1 DEF Lists
  <2>4. Enter(v, path[m + 1]) = w
    BY <1>1 DEF Enter
  <2> HIDE DEF w, K
  <2> QED BY <1>5, <2>1, <2>2, <2>3, <2>4 DEF Lists
<1> QED BY <1>3, <1>6, <1>7

LEMMA UpNext ==
    ASSUME NEW path, NEW m \in Nat, NEW v, Balanced(path, m), Lists(v, path, Kept(path, m)),
           path[m + 1] \in Up
    PROVE  /\ Lists(Enter(v, path[m + 1]), path, Kept(path, m + 1))
           /\ Balanced(path, m + 1)
<1> DEFINE K == Kept(path, m)
           L == {i \in K : Above(K, i) # 0}
<1>1. path[m + 1] \notin Names(path) /\ path[m + 1] \notin Skipped
  BY SegmentsAssumption DEF Names
<1>2. \A i \in K : Held(path, i + 1, m + 1) <=> Above(K, i) # 0
  BY <1>1, CountsNext DEF Held
<1>3. Kept(path, m + 1) = L
  BY <1>1, <1>2, KeptNext
<1>4. K \in SUBSET (1 .. m)
  BY KeptInterval
<1>5. v \in Seq(Range(path)) /\ Len(v) = Cardinality(K) /\ Len(v) \in Nat
  BY DEF Lists
<1>6. Enter(v, path[m + 1]) = IF v = <<>> THEN <<>> ELSE Front(v)
  BY <1>1 DEF Enter
<1>7. CASE K = {}
  <2>1. L = {} /\ v = <<>>
    BY <1>5, <1>7, FS_EmptySet
  <2>2. Lists(<<>>, path, {})
    BY FS_EmptySet DEF Lists
  <2>3. Balanced(path, m + 1)
    BY <1>3, <2>1 DEF Balanced
  <2> QED BY <1>3, <1>6, <2>1, <2>2, <2>3
<1>8. CASE K # {}
  <2>1. /\ Cardinality(L) = Cardinality(K) - 1 /\ Cardinality(K) # 0
        /\ \A i \in L : /\ Place(L, i) = Place(K, i)
                        /\ Place(K, i) \in 1 .. Cardinality(L)
                        /\ Above(K, i) = Above(L, i) + 1
    <3> HIDE DEF K
    <3> QED BY <1>4, <1>8, OneLess
  <2>2. Balanced(path, m + 1)
    <3>1. ASSUME NEW i \in L
          PROVE  Counted(path, Names(path), i + 1, m + 1)
                     = Counted(path, Up, i + 1, m + 1) + Above(L, i)
      <4>1. i \in Kept(path, m) /\ Above(Kept(path, m), i) = Above(L, i) + 1
        BY <2>1
      <4>2. Above(L, i) \in Nat
        <5>1. L \in SUBSET (1 .. m) /\ i \in Nat
          BY <1>4
        <5> HIDE DEF L
        <5> QED BY <5>1, SetOfNumbers
      <4> HIDE DEF L, K
      <4> QED BY <1>1, <4>1, <4>2, CountsNext
    <3> HIDE DEF L
    <3> QED BY <1>3, <3>1 DEF Balanced
  <2>3. v # <<>> /\ Len(v) # 0
    BY <1>5, <2>1
  <2>4. /\ Front(v) \in Seq(Range(path)) /\ Len(Front(v)) = Len(v) - 1
        /\ \A n \in 1 .. Len(v) - 1 : Front(v)[n] = v[n]
    BY <1>5, <2>3 DEF Front
  <2>5. ASSUME NEW i \in L
        PROVE  Front(v)[Place(L, i)] = path[i]
    <3>1. v[Place(K, i)] = path[i]
      BY DEF Lists
    <3>2. Place(K, i) \in 1 .. Len(v) - 1
      BY <1>5, <2>1
    <3> HIDE DEF L, K
    <3> QED BY <2>1, <2>4, <3>1, <3>2
  <2>6. Lists(Front(v), path, L)
    <3> HIDE DEF L, K
    <3> QED BY <1>5, <2>1, <2>4, <2>5 DEF Lists
  <2> QED BY <1>3, <1>6, <2>2, <2>3, <2>6
<1> QED BY <1>7, <1>8

(* After every segment, the segments that are left are those that are kept. *)
LEMMA WayKeeps ==
    ASSUME NEW path, NEW n \in Nat, DOMAIN path = 1 .. n, NEW v, Way(v, path, n)
    PROVE  \A m \in 0 .. n : Balanced(path, m) /\ Lists(v[m], path, Kept(path, m))
<1> DEFINE S == {m \in 0 .. n : ~(Balanced(path, m) /\ Lists(v[m], path, Kept(path, m)))}
<1> SUFFICES ASSUME S # {} PROVE FALSE
  OBVIOUS
<1>1. PICK m \in S : \A k \in S : m <= k
  <2>1. S \subseteq Nat
    OBVIOUS
  <2> HIDE DEF S
  <2> QED BY <2>1, LeastNumber
<1>2. CASE m = 0
  <2>1. Kept(path, 0) = {}
    BY DEF Kept
  <2>2. Lists(v[0], path, {})
    BY FS_EmptySet DEF Lists, Way
  <2>3. Balanced(path, 0)
    BY <2>1 DEF Balanced
  <2> QED BY <1>1, <1>2, <2>1, <2>2, <2>3
<1>3. CASE m # 0
  <2>1. PICK k \in 0 .. n : m = k + 1 /\ k \notin S
    <3>1. m - 1 \in 0 .. n /\ m = (m - 1) + 1 /\ m - 1 \notin S
      BY <1>1, <1>3
    <3> QED BY <3>1
  <2>2. Balanced(path, k) /\ Lists(v[k], path, Kept(path, k))
    BY <2>1
  <2>3. k + 1 \in 1 .. n /\ k = (k + 1) - 1 /\ k \in Nat
    BY <1>1, <2>1
  <2>4. v[k + 1] = Enter(v[k], path[k + 1])
    BY <2>3 DEF Way
  <2>5. path[k + 1] \in Range(path)
    BY <2>3 DEF Range
  <2>6. \/ path[k + 1] \in Up
        \/ path[k + 1] \notin Up /\ path[k + 1] \in Skipped
        \/ path[k + 1] \in Names(path)
    BY <2>5 DEF Names
  <2>7. Balanced(path, k + 1) /\ Lists(v[k + 1], path, Kept(path, k + 1))
    BY <2>2, <2>3, <2>4, <2>6, UpNext, SkippedNext, NameNext
  <2> QED BY <1>1, <2>1, <2>7
<1> QED BY <1>2, <1>3

LEMMA CanonicalIsRemaining ==
    ASSUME NEW path, NEW n \in Nat, DOMAIN path = 1 .. n, Len(path) = n
    PROVE  CanonicalPath(path) = Remaining(path)
<1> DEFINE K == Kept(path, n)
<1>1. PICK v : Way(v, path, n) /\ CanonicalPath(path) = v[n]
  BY WayExists
<1>2. Lists(v[n], path, K)
  BY <1>1, WayKeeps
<1>3. Remaining(path)
          = [x \in 1 .. Cardinality(K) |-> path[CHOOSE i \in K : Place(K, i) = x]]
  BY DEF Remaining, Kept, Names, Counted, Held, Place
<1>4. K \in SUBSET (1 .. n)
  BY KeptInterval
<1> HIDE DEF K
<1>5. ASSUME NEW x \in 1 .. Cardinality(K)
      PROVE  v[n][x] = path[CHOOSE i \in K : Place(K, i) = x]
  <2> DEFINE i == CHOOSE i \in K : Place(K, i) = x
  <2>1. i \in K /\ Place(K, i) = x
    BY <1>4, EachPlaceTaken
  <2> QED BY <1>2, <2>1 DEF Lists
<1>6. v[n] = [x \in 1 .. Cardinality(K) |-> v[n][x]]
  BY <1>2 DEF Lists
<1> QED BY <1>1, <1>3, <1>5, <1>6
-----------------------------------------------------------------------------
LEMMA RequireResolves == ResolvesAsPath
<1> DEFINE Segments == Up \cup Skipped \cup DOMAIN Script
<1> SUFFICES ASSUME NEW n \in 0 .. MaxArguments, NEW path \in [1 .. n -> Segments]
             PROVE  ResolveAsFile(path, <<>>) = NormalizeName(Remaining(path))
  BY DEF ResolvesAsPath
<1>1. n \in Nat
  BY BoundsAreNat
<1>2. path \in Seq(Segments) /\ DOMAIN path = 1 .. n /\ Len(path) = n
  BY <1>1
<1>3. <<>> \o path = path
  <2> HIDE DEF Segments
  <2> QED BY <1>2, ConcatEmptySeq
<1>4. CanonicalPath(path) = Remaining(path)
  BY <1>1, <1>2, CanonicalIsRemaining
<1> QED BY <1>3, <1>4 DEF ResolveAsFile

(* The calls that are documented, by their number of arguments. *)
LEMMA DocumentedCalls ==
    ASSUME NEW a, NEW n \in Nat, a \in [1 .. n -> Types], NEW call \in Documented,
           a = call.arguments
    PROVE  \/ n = 2 /\ a[1] = "string" /\ a[2] = "function" /\ call.defines = Route(1, 0, 0, 2)
           \/ /\ n = 3 /\ a[1] = "string" /\ a[2] = "object" /\ a[3] = "function"
              /\ call.defines = Route(1, 0, 2, 3)
           \/ /\ n = 3 /\ a[1] = "string" /\ a[2] = "string" /\ a[3] = "function"
              /\ call.defines = Route(1, 2, 0, 3)
           \/ /\ n = 4 /\ a[1] = "string" /\ a[2] = "string" /\ a[3] = "object"
              /\ a[4] = "function" /\ call.defines = Route(1, 2, 3, 4)
<1>1. Len(a) = n
  OBVIOUS
<1>2. CASE a = <<"string", "function">> /\ call.defines = Route(1, 0, 0, 2)
  BY <1>1, <1>2
<1>3. CASE a = <<"string", "object", "function">> /\ call.defines = Route(1, 0, 2, 3)
  BY <1>1, <1>3
<1>4. CASE a = <<"string", "string", "function">> /\ call.defines = Route(1, 2, 0, 3)
  BY <1>1, <1>4
<1>5. CASE /\ a = <<"string", "string", "object", "function">>
           /\ call.defines = Route(1, 2, 3, 4)
  BY <1>1, <1>5
<1>6. \/ /\ call.arguments = <<"string", "string", "object", "function">>
         /\ call.defines = Route(1, 2, 3, 4)
      \/ /\ call.arguments = <<"string", "object", "function">>
         /\ call.defines = Route(1, 0, 2, 3)
      \/ /\ call.arguments = <<"string", "string", "function">>
         /\ call.defines = Route(1, 2, 0, 3)
      \/ call.arguments = <<"string", "function">> /\ call.defines = Route(1, 0, 0, 2)
  BY DEF Documented
<1> QED BY <1>2, <1>3, <1>4, <1>5, <1>6, Zenon

LEMMA OtherCall ==
    ASSUME NEW a, NEW n \in Nat, a \in [1 .. n -> Types], n \notin {2, 3, 4}
    PROVE  DefinedAsDocumented(a)
<1>1. Len(a) = n /\ DOMAIN a = 1 .. n
  OBVIOUS
<1>2. ASSUME NEW call \in Documented PROVE a # call.arguments
  BY DocumentedCalls
<1>3. CASE n < 2
  <2>1. DefineRoute(a) = Throws
    BY <1>1, <1>3 DEF DefineRoute, Route, Throws
  <2> QED BY <1>2, <2>1 DEF DefinedAsDocumented, Throws
<1>4. CASE n > 4
  BY <1>1, <1>2, <1>4 DEF DefinedAsDocumented
<1> QED BY <1>3, <1>4

LEMMA CallOfTwo ==
    ASSUME NEW a \in [1 .. 2 -> Types]
    PROVE  DefinedAsDocumented(a)
<1> DEFINE d == [arguments |-> <<"string", "function">>, defines |-> Route(1, 0, 0, 2)]
<1>1. Len(a) = 2 /\ a[1] \in Types /\ a[2] \in Types /\ DOMAIN a = 1 .. 2
  OBVIOUS
<1>2. d \in Documented
  BY DEF Documented
<1>3. DefineRoute(a) = IF a[2] \in {"undefined", "null"} \/ a[1] # "string"
                       THEN Throws ELSE Route(1, 0, 0, 2)
  BY <1>1 DEF DefineRoute, AddRoute, Route, Throws
<1>4. ASSUME NEW call \in Documented, a = call.arguments
      PROVE  DefineRoute(a) = call.defines
  <2>1. a[1] = "string" /\ a[2] = "function" /\ call.defines = Route(1, 0, 0, 2)
    BY <1>4, DocumentedCalls
  <2> QED BY <1>3, <2>1
<1>5. ASSUME DefineRoute(a).is = "route", a[2] = "function"
      PROVE  a = d.arguments
  <2>1. a[1] = "string"
    BY <1>3, <1>5 DEF Throws
  <2> QED BY <1>1, <1>5, <2>1
<1>6. DefineRoute(a).is = "route" => DefineRoute(a).callback = 2
  BY <1>3 DEF Route, Throws
<1> QED BY <1>2, <1>4, <1>5, <1>6, Zenon DEF DefinedAsDocumented

LEMMA CallOfThree ==
    ASSUME NEW a \in [1 .. 3 -> Types]
    PROVE  DefinedAsDocumented(a)
<1> DEFINE d == [arguments |-> <<"string", "object", "function">>, defines |-> Route(1, 0, 2, 3)]
           e == [arguments |-> <<"string", "string", "function">>, defines |-> Route(1, 2, 0, 3)]
<1>1. Len(a) = 3 /\ a[1] \in Types /\ a[2] \in Types /\ a[3] \in Types /\ DOMAIN a = 1 .. 3
  OBVIOUS
<1>2. d \in Documented /\ e \in Documented
  BY DEF Documented
<1>3. TypeOf(a, 2) = IF a[2] = "null" THEN "object" ELSE a[2]
  BY <1>1 DEF TypeOf
<1>4. ASSUME a[1] = "string", a[3] \notin {"undefined", "null"}
      PROVE  DefineRoute(a) = CASE a[2] \in {"object", "null"} -> AddRoute(a, Route(1, 0, 2, 3))
                                [] a[2] = "string" -> Route(1, 2, 0, 3)
                                [] OTHER -> Throws
  BY <1>1, <1>3, <1>4 DEF DefineRoute, AddRoute, Route, Throws
<1>5. a[1] # "string" \/ a[3] \in {"undefined", "null"} => DefineRoute(a) = Throws
  BY <1>1, <1>3 DEF DefineRoute, AddRoute, Route, Throws
<1>6. AddRoute(a, Route(1, 0, 2, 3)) =
          IF a[1] = "string" /\ a[2] \in {"object", "function"} THEN Route(1, 0, 2, 3) ELSE Throws
  BY DEF AddRoute, Route
<1>7. ASSUME NEW call \in Documented, a = call.arguments
      PROVE  DefineRoute(a) = call.defines
  <2>1. CASE /\ a[1] = "string" /\ a[2] = "object" /\ a[3] = "function"
             /\ call.defines = Route(1, 0, 2, 3)
    <3>1. AddRoute(a, Route(1, 0, 2, 3)) = Route(1, 0, 2, 3)
      BY <1>6, <2>1
    <3> QED BY <1>4, <2>1, <3>1
  <2>2. CASE /\ a[1] = "string" /\ a[2] = "string" /\ a[3] = "function"
             /\ call.defines = Route(1, 2, 0, 3)
    BY <1>4, <2>2
  <2>3. \/ a[1] = "string" /\ a[2] = "object" /\ a[3] = "function"
           /\ call.defines = Route(1, 0, 2, 3)
        \/ a[1] = "string" /\ a[2] = "string" /\ a[3] = "function"
           /\ call.defines = Route(1, 2, 0, 3)
    <3>1. PICK n \in Nat : n = 3 /\ a \in [1 .. n -> Types]
      OBVIOUS
    <3>2. n # 2 /\ n # 4
      BY <3>1
    <3> QED BY <1>7, <3>1, <3>2, DocumentedCalls, Zenon
  <2> QED BY <2>1, <2>2, <2>3
<1>8. ASSUME DefineRoute(a).is = "route", a[3] = "function"
      PROVE  a = d.arguments \/ a = e.arguments
  <2>1. a[1] = "string"
    BY <1>5, <1>8 DEF Throws
  <2>2. a[2] \in {"object", "string"}
    BY <1>4, <1>6, <1>8, <2>1 DEF Throws
  <2> QED BY <1>1, <1>8, <2>1, <2>2
<1>9. DefineRoute(a).is = "route" => DefineRoute(a).callback = 3
  <2>1. AddRoute(a, Route(1, 0, 2, 3)) \in {Throws, Route(1, 0, 2, 3)}
    BY <1>6
  <2> QED BY <1>4, <1>5, <2>1 DEF Route, Throws
<1> QED BY <1>2, <1>7, <1>8, <1>9, Zenon DEF DefinedAsDocumented

LEMMA CallOfFour ==
    ASSUME NEW a \in [1 .. 4 -> Types]
    PROVE  DefinedAsDocumented(a)
<1> DEFINE d == [arguments |-> <<"string", "string", "object", "function">>,
                 defines |-> Route(1, 2, 3, 4)]
<1>1. /\ Len(a) = 4 /\ DOMAIN a = 1 .. 4
      /\ a[1] \in Types /\ a[2] \in Types /\ a[3] \in Types /\ a[4] \in Types
  OBVIOUS
<1>2. d \in Documented
  BY DEF Documented
<1>3. DefineRoute(a) = IF /\ a[1] = "string" /\ a[2] \in {"string", "null", "undefined"}
                          /\ a[3] \in {"object", "function"}
                          /\ a[4] \notin {"undefined", "null"}
                       THEN Route(1, 2, 3, 4) ELSE Throws
  BY <1>1 DEF DefineRoute, AddRoute, Route, Throws
<1>4. ASSUME NEW call \in Documented, a = call.arguments
      PROVE  DefineRoute(a) = call.defines
  <2>1. /\ a[1] = "string" /\ a[2] = "string" /\ a[3] = "object" /\ a[4] = "function"
        /\ call.defines = Route(1, 2, 3, 4)
    <3>1. PICK n \in Nat : n = 4 /\ a \in [1 .. n -> Types]
      OBVIOUS
    <3>2. n # 2 /\ n # 3
      BY <3>1
    <3> QED BY <1>4, <3>1, <3>2, DocumentedCalls, Zenon
  <2> QED BY <1>3, <2>1
<1>5. ASSUME DefineRoute(a).is = "route", a[4] = "function",
             a[2] \notin {"null", "undefined"}, a[3] # "function"
      PROVE  a = d.arguments
  <2>1. a[1] = "string" /\ a[2] = "string" /\ a[3] = "object"
    BY <1>3, <1>5 DEF Throws
  <2> QED BY <1>1, <1>5, <2>1
<1>6. DefineRoute(a).is = "route" => /\ DefineRoute(a).callback = 4
                                     /\ DefineRoute(a).method = 2
                                     /\ DefineRoute(a).properties = 3
  BY <1>3 DEF Route, Throws
<1>7. 3 # 0 /\ 2 # 0
  OBVIOUS
<1> QED BY <1>2, <1>4, <1>5, <1>6, <1>7, Zenon DEF DefinedAsDocumented

LEMMA DefineDefines == DefinesAsDocumented
<1> SUFFICES ASSUME NEW n \in 0 .. MaxArguments, NEW a \in [1 .. n -> Types]
             PROVE  DefinedAsDocumented(a)
  BY DEF DefinesAsDocumented
<1>1. n \in Nat
  BY BoundsAreNat
<1> QED BY <1>1, OtherCall, CallOfTwo, CallOfThree, CallOfFour

(* Any path names, relative to a script, the file that it names anywhere,  *)
(* and any call of define, the route that its comment promises.            *)
THEOREM Understood == Spec => []CallsUnderstood
<1>1. CallsUnderstood
  BY RequireResolves, DefineDefines DEF CallsUnderstood
<1> QED BY <1>1, PTL
=============================================================================
