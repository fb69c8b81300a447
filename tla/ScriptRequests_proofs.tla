------------------------ MODULE ScriptRequests_proofs ------------------------
(***************************************************************************)
(* Theorems about ScriptRequests and the libraries it has, for any inputs, *)
(* paths and libraries, and any number of requests and errors.             *)
(***************************************************************************)
EXTENDS ScriptRequests, SequenceTheorems, FiniteSetTheorems, WellFoundedInduction, TLAPS

(* An error may have any value, so that the set of the errors recorded is  *)
(* some set or other.                                                      *)
ListsInv == \E S : failed \in Seq(S) /\ lists \in Seq(Seq(S))

(* The list that wrapRequest carries is this request's, and no other. *)
CurrentInv ==
    IF current = 0 THEN failed = <<>>
    ELSE /\ lists[current] = failed
         /\ Len(failed) > 0
         /\ failed[1].request = request

(* A library that was loaded by its proxy is bound, or what a script has   *)
(* bound in its place.                                                     *)
ResolvedInv == \A l \in Lazy : l \in resolved => binding[l] # "proxy"

IInv == TypeOK /\ ListsInv /\ CurrentInv /\ ResolvedInv /\ CallsDirectOnceUsed

LEMMA BoundsAreNat == MaxRequests \in Nat /\ MaxErrors \in Nat
BY RequestsAssumption

LEMMA InitIInv == Init => IInv
<1> SUFFICES ASSUME Init PROVE IInv
  OBVIOUS
<1> USE DEF Init, LibrariesInit
<1>1. ListsInv
  <2>1. failed \in Seq({}) /\ lists \in Seq(Seq({}))
    OBVIOUS
  <2> QED BY <2>1 DEF ListsInv
<1>2. TypeOK
  <2>1. /\ version \in {1, 3} /\ request \in 0 .. MaxRequests /\ running \in BOOLEAN
        /\ callback \in 0 .. request
    <3>1. version \in {1, 3} /\ request = 0 /\ running = FALSE /\ callback = 0
      OBVIOUS
    <3>2. 0 \in 0 .. MaxRequests /\ 0 \in 0 .. 0 /\ FALSE \in BOOLEAN
      BY BoundsAreNat
    <3> HIDE DEF Init
    <3> QED BY <3>1, <3>2, Zenon
  <2>2. current \in 0 .. Len(lists) /\ handed \subseteq DOMAIN lists
    OBVIOUS
  <2>3. input = NoInput
    OBVIOUS
  <2>4. /\ DOMAIN binding = Lazy \cup {"validator"}
        /\ resolved \subseteq Lazy /\ stored \subseteq Lazy
    OBVIOUS
  <2> HIDE DEF Init
  <2> QED BY <2>1, <2>2, <2>3, <2>4 DEF TypeOK
<1>3. CurrentInv /\ ResolvedInv /\ CallsDirectOnceUsed
  BY DEF CurrentInv, ResolvedInv, CallsDirectOnceUsed
<1> QED BY <1>1, <1>2, <1>3 DEF IInv

(* What any script may do with the libraries. *)
LEMMA LibrariesStep ==
    ASSUME IInv, UseLibraries
    PROVE  /\ DOMAIN binding' = Lazy \cup {"validator"}
           /\ resolved' \subseteq Lazy /\ stored' \subseteq Lazy
           /\ ResolvedInv' /\ CallsDirectOnceUsed'
           /\ \A l \in Lazy : binding[l] = "script" /\ binding'[l] # "script" =>
                  /\ binding'[l] = "library"
                  /\ l \in stored \ resolved
                  /\ l \in resolved'
<1> USE DEF ResolvedInv
<1>1. /\ DOMAIN binding = Lazy \cup {"validator"}
      /\ resolved \subseteq Lazy /\ stored \subseteq Lazy /\ call # "wrapped"
      /\ \A l \in Lazy : l \in resolved => binding[l] # "proxy"
  BY DEF IInv, TypeOK, CallsDirectOnceUsed
<1>2. ASSUME NEW l \in Lazy, StoreProxy(l) \/ \E holder \in Holders : SetSetting(l, holder)
      PROVE  /\ UNCHANGED <<binding, resolved, call>> /\ stored' \subseteq Lazy
  BY <1>1, <1>2 DEF StoreProxy, SetSetting
<1>3. ASSUME NEW l \in DOMAIN binding, Rebind(l)
      PROVE  /\ binding' = [binding EXCEPT ![l] = "script"]
             /\ UNCHANGED <<resolved, stored, call>>
  BY <1>3 DEF Rebind
<1>4. ASSUME NEW l \in Lazy, NEW holder \in Holders, IsProxy(l, holder), ResolveLazyTarget(l)
      PROVE  \/ l \in resolved /\ UNCHANGED <<binding, resolved>>
             \/ /\ l \notin resolved /\ resolved' = resolved \cup {l}
                /\ binding' = [binding EXCEPT ![l] = "library"]
                /\ binding[l] = "proxy" \/ l \in stored
  BY <1>4 DEF ResolveLazyTarget, EvalLibrary, IsProxy
<1>5. ASSUME NEW l \in Lazy, NEW holder \in Holders,
             UseProxy(l, holder) \/ CallLibrary(l, holder)
      PROVE  /\ call' # "wrapped" /\ stored' = stored
             /\ \/ UNCHANGED <<binding, resolved>>
                \/ /\ l \notin resolved /\ resolved' = resolved \cup {l}
                   /\ binding' = [binding EXCEPT ![l] = "library"]
                   /\ binding[l] = "proxy" \/ l \in stored
  <2>1. CASE UseProxy(l, holder)
    BY <1>4, <2>1 DEF UseProxy
  <2>2. CASE CallLibrary(l, holder)
    <3>1. IsProxy(l, holder) /\ holder = "global" => l \notin resolved
      BY <1>1 DEF IsProxy
    <3>2. call' # "wrapped"
      BY <2>2, <3>1 DEF CallLibrary, Holders
    <3> QED BY <1>4, <2>2, <3>2 DEF CallLibrary
  <2> QED BY <1>5, <2>1, <2>2
<1>6. CASE UNCHANGED <<binding, resolved, call>> /\ stored' \subseteq Lazy
  BY <1>1, <1>6 DEF CallsDirectOnceUsed
<1>7. CASE \E l \in DOMAIN binding : Rebind(l)
  BY <1>1, <1>3, <1>7 DEF CallsDirectOnceUsed
<1>8. ASSUME NEW l \in Lazy, call' # "wrapped", stored' = stored,
             l \notin resolved, resolved' = resolved \cup {l},
             binding' = [binding EXCEPT ![l] = "library"],
             binding[l] = "proxy" \/ l \in stored
      PROVE  /\ DOMAIN binding' = Lazy \cup {"validator"}
             /\ resolved' \subseteq Lazy /\ stored' \subseteq Lazy
             /\ ResolvedInv' /\ CallsDirectOnceUsed'
             /\ \A k \in Lazy : binding[k] = "script" /\ binding'[k] # "script" =>
                    /\ binding'[k] = "library"
                    /\ k \in stored \ resolved
                    /\ k \in resolved'
  BY <1>1, <1>8 DEF CallsDirectOnceUsed
<1>9. CASE /\ call' # "wrapped" /\ stored' = stored /\ UNCHANGED <<binding, resolved>>
  BY <1>1, <1>9 DEF CallsDirectOnceUsed
<1> QED BY <1>2, <1>5, <1>6, <1>7, <1>8, <1>9 DEF UseLibraries

(* What the validator does when checks of this request have failed. *)
LEMMA PushErrorsStep ==
    ASSUME IInv, NEW S, NEW errors \in Seq(S), Len(errors) > 0,
           errors[1].request = request, request' = request,
           PushErrors(errors), failed' = failed \o errors
    PROVE  /\ ListsInv' /\ CurrentInv'
           /\ current' \in 0 .. Len(lists') /\ DOMAIN lists \subseteq DOMAIN lists'
           /\ \A l \in DOMAIN lists : l # current => lists'[l] = lists[l]
<1>1. PICK T : failed \in Seq(T) /\ lists \in Seq(Seq(T))
  BY DEF IInv, ListsInv
<1> DEFINE U == S \cup T
<1>2. errors \in Seq(U) /\ failed \in Seq(U) /\ lists \in Seq(Seq(U))
  <2>1. Seq(S) \subseteq Seq(U) /\ Seq(T) \subseteq Seq(U)
    BY SeqMonotonic
  <2>2. Seq(Seq(T)) \subseteq Seq(Seq(U))
    BY <2>1, SeqMonotonic
  <2> QED BY <1>1, <2>1, <2>2
<1> HIDE DEF U
<1>3. failed' \in Seq(U) /\ Len(failed') = Len(failed) + Len(errors)
      /\ (Len(failed) > 0 => failed'[1] = failed[1])
  BY <1>2, ConcatProperties
<1>4. CASE current = 0
  <2>1. lists' = Append(lists, errors) /\ current' = Len(lists') /\ failed = <<>>
    BY <1>4 DEF PushErrors, IInv, CurrentInv
  <2>2. failed' = errors
    BY <1>2, <2>1
  <2>3. /\ lists' \in Seq(Seq(U)) /\ Len(lists') = Len(lists) + 1
        /\ lists'[Len(lists')] = errors
        /\ \A l \in 1 .. Len(lists) : lists'[l] = lists[l]
    BY <1>2, <2>1, AppendProperties
  <2>4. ListsInv'
    BY <1>3, <2>3 DEF ListsInv
  <2>5. CurrentInv'
    BY <1>2, <2>1, <2>2, <2>3 DEF CurrentInv
  <2> QED BY <1>2, <2>1, <2>3, <2>4, <2>5
<1>5. CASE current # 0
  <2>1. lists' = [lists EXCEPT ![current] = @ \o errors] /\ current' = current
    BY <1>5 DEF PushErrors
  <2>2. /\ current \in 1 .. Len(lists) /\ lists[current] = failed
        /\ Len(failed) > 0 /\ failed[1].request = request
    BY <1>2, <1>5 DEF IInv, TypeOK, CurrentInv
  <2>3. lists' = [lists EXCEPT ![current] = failed']
    BY <2>1, <2>2
  <2>4. /\ lists' \in Seq(Seq(U)) /\ Len(lists') = Len(lists)
        /\ lists'[current] = failed'
        /\ \A l \in DOMAIN lists : l # current => lists'[l] = lists[l]
    BY <1>2, <1>3, <2>2, <2>3
  <2>5. ListsInv'
    BY <1>3, <2>4 DEF ListsInv
  <2>6. CurrentInv'
    BY <1>2, <1>3, <1>5, <2>1, <2>2, <2>4 DEF CurrentInv
  <2> QED BY <1>2, <2>1, <2>2, <2>4, <2>5, <2>6
<1> QED BY <1>4, <1>5

(* What a check, of a parameter or against a schema, does. *)
LEMMA CheckStep ==
    ASSUME IInv,
           CheckJsonSchema \/ \E location \in Locations, path \in Path, optional \in BOOLEAN,
                                 verdict \in {"accepts", "rejects", "throws"} :
                                     CheckParam(location, path, optional, verdict)
    PROVE  /\ running' \in BOOLEAN
           /\ UNCHANGED <<version, request, input, callback, handed, libraryVars>>
           /\ \/ UNCHANGED <<lists, current, failed>>
              \/ \E S : \E errors \in Seq(S) :
                     /\ Len(errors) > 0 /\ errors[1].request = request
                     /\ PushErrors(errors) /\ failed' = failed \o errors
<1>1. CASE CheckJsonSchema
  <2>1. UNCHANGED <<version, request, input, callback, handed, libraryVars>>
    BY <1>1 DEF CheckJsonSchema
  <2>2. running' \in BOOLEAN
    BY <1>1 DEF CheckJsonSchema, IInv, TypeOK
  <2>3. CASE UNCHANGED <<lists, current, failed>>
    BY <2>1, <2>2, <2>3
  <2>4. ASSUME NEW n \in 1 .. 2,
               PushErrors([i \in 1 .. n |-> Error(<<i>>, Undefined)]),
               failed' = failed \o [i \in 1 .. n |-> Error(<<i>>, Undefined)]
        PROVE  \E S : \E errors \in Seq(S) :
                     /\ Len(errors) > 0 /\ errors[1].request = request
                     /\ PushErrors(errors) /\ failed' = failed \o errors
    <3> DEFINE errors == [i \in 1 .. n |-> Error(<<i>>, Undefined)]
               S == {Error(<<i>>, Undefined) : i \in 1 .. n}
    <3>1. errors \in Seq(S) /\ Len(errors) = n
      OBVIOUS
    <3>2. errors[1].request = request
      BY DEF Error
    <3>3. PushErrors(errors) /\ failed' = failed \o errors
      BY <2>4
    <3>4. Len(errors) > 0
      BY <3>1
    <3> HIDE DEF errors, S
    <3> QED BY <3>1, <3>2, <3>3, <3>4
  <2> QED BY <1>1, <2>1, <2>2, <2>3, <2>4 DEF CheckJsonSchema
<1>2. ASSUME NEW location \in Locations, NEW path \in Path, NEW optional \in BOOLEAN,
             NEW verdict \in {"accepts", "rejects", "throws"},
             CheckParam(location, path, optional, verdict)
      PROVE  /\ running' \in BOOLEAN
             /\ UNCHANGED <<version, request, input, callback, handed, libraryVars>>
             /\ \/ UNCHANGED <<lists, current, failed>>
                \/ \E S : \E errors \in Seq(S) :
                       /\ Len(errors) > 0 /\ errors[1].request = request
                       /\ PushErrors(errors) /\ failed' = failed \o errors
  <2> DEFINE error == Error(path, Value(location, path))
  <2>1. /\ running' \in BOOLEAN
        /\ UNCHANGED <<version, request, input, callback, handed, libraryVars>>
    BY <1>2 DEF CheckParam
  <2>2. \/ UNCHANGED <<lists, current, failed>>
        \/ PushErrors(<<error>>) /\ failed' = Append(failed, error)
    BY <1>2 DEF CheckParam
  <2>3. error.request = request
    BY DEF Error
  <2> HIDE DEF error
  <2>4. <<error>> \in Seq({error}) /\ Len(<<error>>) = 1 /\ <<error>>[1] = error
    OBVIOUS
  <2>5. Append(failed, error) = failed \o <<error>>
    <3>1. PICK T : failed \in Seq(T)
      BY DEF IInv, ListsInv
    <3>2. failed \in Seq(T \cup {error})
      BY <3>1, SeqMonotonic
    <3> QED BY <3>2, AppendIsConcat
  <2>6. CASE PushErrors(<<error>>) /\ failed' = Append(failed, error)
    <3> DEFINE errors == <<error>>
    <3>1. /\ errors \in Seq({error}) /\ Len(errors) > 0 /\ errors[1].request = request
      BY <2>3, <2>4
    <3>2. PushErrors(errors) /\ failed' = failed \o errors
      BY <2>5, <2>6
    <3> HIDE DEF errors
    <3> QED BY <2>1, <3>1, <3>2
  <2> QED BY <2>1, <2>2, <2>6
<1> QED BY <1>1, <1>2

LEMMA NextIInv == IInv /\ [Next]_vars => IInv'
<1> SUFFICES ASSUME IInv, [Next]_vars PROVE IInv'
  OBVIOUS
<1>1. CASE UNCHANGED vars
  BY <1>1 DEF IInv, TypeOK, ListsInv, CurrentInv, ResolvedInv, CallsDirectOnceUsed,
              vars, requestVars, libraryVars
<1>2. CASE UNCHANGED libraryVars /\ Next
  <2>1. ResolvedInv' /\ CallsDirectOnceUsed'
    BY <1>2 DEF IInv, ResolvedInv, CallsDirectOnceUsed, libraryVars
  <2>2. TypeOK /\ CurrentInv /\ ListsInv
    BY DEF IInv
  <2>3. ASSUME NEW in \in Input, CallFunction(in)
        PROVE  TypeOK' /\ ListsInv' /\ CurrentInv'
    <3>1. PICK S : failed \in Seq(S) /\ lists \in Seq(Seq(S))
      BY <2>2 DEF ListsInv
    <3>2. ListsInv'
      BY <2>3, <3>1 DEF CallFunction, ListsInv
    <3>3. CurrentInv'
      BY <2>3 DEF CallFunction, CurrentInv
    <3>4. TypeOK'
      BY <2>2, <2>3, <3>1, BoundsAreNat DEF CallFunction, TypeOK, libraryVars
    <3> QED BY <3>2, <3>3, <3>4
  <2>4. ASSUME FunctionEnds \/ OnValidationError \/ ValidationErrors
        PROVE  TypeOK' /\ ListsInv' /\ CurrentInv'
    <3>1. UNCHANGED <<version, request, input, lists, current, failed, libraryVars>>
      BY <2>4 DEF FunctionEnds, OnValidationError, ValidationErrors
    <3>2. ListsInv' /\ CurrentInv'
      BY <2>2, <3>1 DEF ListsInv, CurrentInv
    <3>3. PICK S : lists \in Seq(Seq(S))
      BY <2>2 DEF ListsInv
    <3>4. running' \in BOOLEAN /\ callback' \in 0 .. request /\ handed' \subseteq DOMAIN lists
      <4>1. /\ running \in BOOLEAN /\ request \in Nat /\ callback \in 0 .. request
            /\ handed \subseteq DOMAIN lists /\ current \in 0 .. Len(lists)
            /\ DOMAIN lists = 1 .. Len(lists)
        BY <2>2, <3>3, BoundsAreNat DEF TypeOK
      <4>2. CASE FunctionEnds
        BY <4>1, <4>2 DEF FunctionEnds
      <4>3. CASE OnValidationError
        BY <4>1, <4>3 DEF OnValidationError
      <4>4. CASE ValidationErrors
        BY <4>1, <4>4 DEF ValidationErrors
      <4> QED BY <2>4, <4>2, <4>3, <4>4
    <3>5. TypeOK'
      BY <2>2, <3>1, <3>4 DEF TypeOK, libraryVars
    <3> QED BY <3>2, <3>5
  <2>5. ASSUME CheckJsonSchema \/
               \E location \in Locations, path \in Path, optional \in BOOLEAN,
                  verdict \in {"accepts", "rejects", "throws"} :
                      CheckParam(location, path, optional, verdict)
        PROVE  TypeOK' /\ ListsInv' /\ CurrentInv'
    <3>1. /\ running' \in BOOLEAN
          /\ UNCHANGED <<version, request, input, callback, handed, libraryVars>>
      BY <2>5, CheckStep
    <3>2. CASE UNCHANGED <<lists, current, failed>>
      BY <2>2, <3>1, <3>2 DEF TypeOK, ListsInv, CurrentInv, libraryVars
    <3>3. ASSUME NEW S, NEW errors \in Seq(S), Len(errors) > 0,
                 errors[1].request = request,
                 PushErrors(errors), failed' = failed \o errors
          PROVE  TypeOK' /\ ListsInv' /\ CurrentInv'
      <4>1. /\ ListsInv' /\ CurrentInv'
            /\ current' \in 0 .. Len(lists') /\ DOMAIN lists \subseteq DOMAIN lists'
        BY <3>1, <3>3, PushErrorsStep
      <4> QED BY <2>2, <3>1, <4>1 DEF TypeOK, libraryVars
    <3> QED BY <2>5, <3>2, <3>3, CheckStep
  <2>6. ASSUME UseLibrary PROVE TypeOK' /\ ListsInv' /\ CurrentInv'
    BY <1>2, <2>2, <2>6 DEF UseLibrary, requestVars, libraryVars, TypeOK, ListsInv, CurrentInv
  <2> QED BY <1>2, <2>1, <2>3, <2>4, <2>5, <2>6 DEF Next, IInv
<1>3. CASE UseLibrary
  <2>1. UNCHANGED requestVars /\ UseLibraries
    BY <1>3 DEF UseLibrary
  <2>2. /\ DOMAIN binding' = Lazy \cup {"validator"}
        /\ resolved' \subseteq Lazy /\ stored' \subseteq Lazy
        /\ ResolvedInv' /\ CallsDirectOnceUsed'
    BY <2>1, LibrariesStep
  <2>3. TypeOK' /\ ListsInv' /\ CurrentInv'
    BY <2>1, <2>2 DEF requestVars, IInv, TypeOK, ListsInv, CurrentInv
  <2> QED BY <2>2, <2>3 DEF IInv
<1>4. Next => UNCHANGED libraryVars \/ UseLibrary
  BY DEF Next, CallFunction, FunctionEnds, CheckParam, CheckJsonSchema,
         OnValidationError, ValidationErrors
<1> QED BY <1>1, <1>2, <1>3, <1>4

LEMMA Invariance == Spec => []IInv
BY InitIInv, NextIInv, PTL DEF Spec

(* The types of the variables; every list a script was given exists.       *)
THEOREM TypeCorrect == Spec => []TypeOK
BY Invariance, PTL DEF IInv

(* What a function reads as its request's errors is exactly what its own   *)
(* checks have left, though wrapCallback hands the same object to all.     *)
THEOREM ErrorsAreOwn == Spec => []ErrorsAreFailedChecks
<1>1. IInv => ErrorsAreFailedChecks
  BY DEF IInv, CurrentInv, ErrorsAreFailedChecks
<1> QED BY <1>1, Invariance, PTL

(* A list that a script has kept only changes while the request whose      *)
(* errors it has is served.                                                *)
THEOREM ListsKept == Spec => EarlierErrorsKept
<1>1. ASSUME IInv, [Next]_vars
      PROVE  [\A l \in handed :
                 lists'[l] # lists[l] => lists[l][1].request = request']_vars
  <2> SUFFICES ASSUME Next, NEW l \in handed, lists'[l] # lists[l]
               PROVE  lists[l][1].request = request'
    BY <1>1
  <2>1. PICK S : lists \in Seq(Seq(S))
    BY <1>1 DEF IInv, ListsInv
  <2>2. l \in DOMAIN lists
    BY <1>1 DEF IInv, TypeOK
  <2>3. CheckJsonSchema \/ \E location \in Locations, path \in Path, optional \in BOOLEAN,
                              verdict \in {"accepts", "rejects", "throws"} :
                                  CheckParam(location, path, optional, verdict)
    BY DEF Next, CallFunction, FunctionEnds, OnValidationError, ValidationErrors,
           UseLibrary, requestVars
  <2>4. request' = request
    BY <1>1, <2>3, CheckStep
  <2>5. PICK T : \E errors \in Seq(T) :
                     /\ Len(errors) > 0 /\ errors[1].request = request
                     /\ PushErrors(errors) /\ failed' = failed \o errors
    BY <1>1, <2>3, CheckStep
  <2>6. l = current
    BY <1>1, <2>2, <2>4, <2>5, PushErrorsStep
  <2>7. l # 0
    BY <2>1, <2>2
  <2> QED BY <1>1, <2>4, <2>6, <2>7 DEF IInv, CurrentInv
<1> QED BY <1>1, Invariance, PTL DEF Spec, EarlierErrorsKept

(* A library is called with what the script has written, but for its very  *)
(* first use and by a proxy that was stored.                               *)
THEOREM CallsDirect == Spec => []CallsDirectOnceUsed
BY Invariance, PTL DEF IInv

(* A script's own value of a library's global is replaced only by the      *)
(* first use of a proxy that was stored before.                            *)
THEOREM BindingKept == Spec => BindingTakenOnlyByStoredProxy
<1>1. ASSUME IInv, [Next]_vars
      PROVE  [RebindingLost => \E l \in Lazy : /\ binding'[l] = "library"
                                               /\ l \in stored \ resolved
                                               /\ l \in resolved']_libraryVars
  <2> SUFFICES ASSUME Next, ~UNCHANGED libraryVars, NEW l \in Lazy,
                      binding[l] = "script", binding'[l] # "script"
               PROVE  /\ binding'[l] = "library"
                      /\ l \in stored \ resolved
                      /\ l \in resolved'
    BY <1>1 DEF RebindingLost, vars
  <2>1. UseLibraries
    BY DEF Next, CallFunction, FunctionEnds, CheckParam, CheckJsonSchema,
           OnValidationError, ValidationErrors, UseLibrary
  <2> QED BY <1>1, <2>1, LibrariesStep
<1> QED BY <1>1, Invariance, PTL DEF Spec, BindingTakenOnlyByStoredProxy
-----------------------------------------------------------------------------
(* A set of numbers has a least one: what an induction is here.            *)
LEMMA LeastNumber ==
    ASSUME NEW S, S \subseteq Nat, S # {}
    PROVE  \E n \in S : \A m \in S : n <= m
<1> DEFINE T == {0 .. n : n \in S}
<1>1. T \subseteq FiniteSubsetsOf(Nat) /\ T # {}
  <2>1. \A n \in S : 0 .. n \subseteq Nat /\ IsFiniteSet(0 .. n)
    BY FS_Interval
  <2> QED BY <2>1 DEF FiniteSubsetsOf
<1>2. PICK X \in T : \A Y \in T : ~(<<Y, X>> \in StrictSubsetOrdering(Nat))
  <2> HIDE DEF T
  <2> QED BY <1>1, FS_StrictSubsetOrderingWellFounded, WFMin
<1>3. PICK n \in S : X = 0 .. n
  OBVIOUS
<1>4. ASSUME NEW m \in S, m < n PROVE FALSE
  <2>1. 0 .. m \in T /\ 0 .. m \subseteq 0 .. n /\ 0 .. m # 0 .. n
    BY <1>4
  <2>2. 0 .. m \in SUBSET Nat /\ 0 .. n \in SUBSET Nat
    BY <1>1
  <2>3. <<0 .. m, 0 .. n>> \in StrictSubsetOrdering(Nat)
    BY <2>1, <2>2, Zenon DEF StrictSubsetOrdering
  <2> QED BY <1>2, <1>3, <2>1, <2>3
<1> QED BY <1>4

LEMMA MaxOfPrefix ==
    ASSUME NEW n \in Nat, NEW t \in SUBSET (1 .. n + 1), n + 1 \in t
    PROVE  Max(t) = n + 1 /\ t \ {Max(t)} \in SUBSET (1 .. n)
<1>1. n + 1 \in t /\ \A y \in t : n + 1 >= y
  OBVIOUS
<1>2. PICK x \in t : x = Max(t) /\ \A y \in t : x >= y
  BY <1>1 DEF Max
<1>3. x = n + 1
  BY <1>1, <1>2
<1> QED BY <1>2, <1>3

OrEmpty(v) == IF v \in {Undefined, Null} THEN Empty ELSE v

(* The value of a member, where every value has every member. *)
Plain(v, item) ==
    IF v.type = "object" /\ item \in DOMAIN v.members THEN v.members[item] ELSE Undefined

(* The three walks along a path, and where each begins. *)
Step(walk, location, value, item) ==
    CASE walk = "extract" ->
            IF value = TypeError THEN TypeError
            ELSE IF value = Undefined THEN Getter(location, item)
            ELSE Member(value, item)
      [] walk = "orEmpty" ->
            IF value = Undefined THEN OrEmpty(Getter(location, item))
            ELSE OrEmpty(Member(value, item))
      [] OTHER -> Plain(value, item)

Start(walk, location) == IF walk = "at" THEN input[location] ELSE Undefined

(* What the library's fold assigns to the subsequences of a path. *)
IsFold(fold, walk, location, path, D) ==
    fold = [t \in SUBSET D |->
               IF t = {} THEN Start(walk, location)
               ELSE Step(walk, location, fold[t \ {Max(t)}], path[Max(t)])]

Walked(walk, location, path) ==
    (CHOOSE fold : IsFold(fold, walk, location, path, DOMAIN path))[DOMAIN path]

LEMMA WalksAreFolds ==
    ASSUME NEW location, NEW path
    PROVE  /\ Extract(location, path) = Walked("extract", location, path)
           /\ ExtractOrEmpty(location, path) = Walked("orEmpty", location, path)
           /\ At(location, path) = Walked("at", location, path)
<1>1. Extract(location, path) = Walked("extract", location, path)
  BY DEF Extract, FoldLeft, MapThenFoldSet, Walked, IsFold, Start, Step
<1>2. ExtractOrEmpty(location, path) = Walked("orEmpty", location, path)
  BY DEF ExtractOrEmpty, FoldLeft, MapThenFoldSet, Walked, IsFold, Start, Step, OrEmpty
<1>3. At(location, path) = Walked("at", location, path)
  BY DEF At, FoldLeft, MapThenFoldSet, Walked, IsFold, Start, Step, Plain
<1> QED BY <1>1, <1>2, <1>3

LEMMA FoldExists ==
    ASSUME NEW walk, NEW location, NEW path, NEW n \in Nat
    PROVE  \E fold : IsFold(fold, walk, location, path, 1 .. n)
<1> DEFINE S == {m \in Nat : ~\E fold : IsFold(fold, walk, location, path, 1 .. m)}
<1> SUFFICES ASSUME S # {} PROVE FALSE
  OBVIOUS
<1>1. PICK m \in S : \A k \in S : m <= k
  <2>1. S \subseteq Nat
    OBVIOUS
  <2> HIDE DEF S
  <2> QED BY <2>1, LeastNumber
<1>2. CASE m = 0
  <2> DEFINE g == [t \in SUBSET (1 .. m) |-> Start(walk, location)]
  <2>1. 1 .. m = {}
    BY <1>2
  <2>2. IsFold(g, walk, location, path, 1 .. m)
    BY <2>1 DEF IsFold
  <2> QED BY <1>1, <2>2
<1>3. CASE m # 0
  <2>1. PICK k \in Nat : m = k + 1
    BY <1>3, m \in Nat, m - 1 \in Nat
  <2>2. k \notin S
    BY <1>1, <2>1
  <2>3. PICK g : IsFold(g, walk, location, path, 1 .. k)
    BY <2>2
  <2> DEFINE h == [t \in SUBSET (1 .. k + 1) |->
                      IF k + 1 \in t
                      THEN Step(walk, location, g[t \ {k + 1}], path[k + 1]) ELSE g[t]]
  <2>4. \A t \in SUBSET (1 .. k) : h[t] = g[t]
    OBVIOUS
  <2>5. ASSUME NEW t \in SUBSET (1 .. k + 1)
        PROVE  h[t] = IF t = {} THEN Start(walk, location)
                      ELSE Step(walk, location, h[t \ {Max(t)}], path[Max(t)])
    <3>1. CASE k + 1 \in t
      <4>1. Max(t) = k + 1 /\ t \ {Max(t)} \in SUBSET (1 .. k)
        BY <3>1, MaxOfPrefix
      <4> QED BY <2>4, <3>1, <4>1
    <3>2. CASE k + 1 \notin t
      <4>1. t \in SUBSET (1 .. k)
        BY <3>2
      <4>2. g[t] = IF t = {} THEN Start(walk, location)
                   ELSE Step(walk, location, g[t \ {Max(t)}], path[Max(t)])
        BY <2>3, <4>1 DEF IsFold
      <4>3. t \ {Max(t)} \in SUBSET (1 .. k)
        BY <4>1
      <4> QED BY <2>4, <4>1, <4>2, <4>3
    <3> QED BY <3>1, <3>2
  <2>6. IsFold(h, walk, location, path, 1 .. m)
    <3>1. h = [t \in SUBSET (1 .. k + 1) |-> h[t]]
      OBVIOUS
    <3> HIDE DEF h
    <3>2. h = [t \in SUBSET (1 .. k + 1) |->
                  IF t = {} THEN Start(walk, location)
                  ELSE Step(walk, location, h[t \ {Max(t)}], path[Max(t)])]
      BY <2>5, <3>1
    <3> QED BY <2>1, <3>2 DEF IsFold
  <2> QED BY <1>1, <2>6
<1> QED BY <1>2, <1>3

(* The values on the way along a path. *)
Way(v, walk, location, path, n) ==
    /\ v[0] = Start(walk, location)
    /\ \A k \in 1 .. n : v[k] = Step(walk, location, v[k - 1], path[k])

LEMMA WayExists ==
    ASSUME NEW walk, NEW location, NEW path, NEW n \in Nat, DOMAIN path = 1 .. n
    PROVE  \E v : /\ Way(v, walk, location, path, n)
                  /\ Walked(walk, location, path) = v[n]
<1> DEFINE g == CHOOSE fold : IsFold(fold, walk, location, path, 1 .. n)
           v == [k \in 0 .. n |-> g[1 .. k]]
<1>1. IsFold(g, walk, location, path, 1 .. n)
  BY FoldExists
<1>2. Walked(walk, location, path) = g[1 .. n]
  BY DEF Walked
<1> HIDE DEF g
<1>3. v[n] = g[1 .. n]
  OBVIOUS
<1>4. v[0] = Start(walk, location)
  <2>1. 1 .. 0 = {} /\ {} \in SUBSET (1 .. n)
    OBVIOUS
  <2>2. g[{}] = Start(walk, location)
    BY <1>1, <2>1 DEF IsFold
  <2>3. v[0] = g[1 .. 0]
    OBVIOUS
  <2> QED BY <2>1, <2>2, <2>3
<1>5. ASSUME NEW k \in 1 .. n
      PROVE  v[k] = Step(walk, location, v[k - 1], path[k])
  <2>1. PICK j \in Nat : k = j + 1
    BY k \in Nat, k - 1 \in Nat
  <2>2. 1 .. k \in SUBSET (1 .. j + 1) /\ j + 1 \in 1 .. k
    BY <2>1
  <2>3. Max(1 .. k) = k /\ (1 .. k) \ {k} = 1 .. k - 1
    <3>1. Max(1 .. k) = j + 1
      BY <2>2, MaxOfPrefix
    <3>2. (1 .. k) \ {k} = 1 .. k - 1
      BY <2>1
    <3> QED BY <2>1, <3>1, <3>2
  <2>4. 1 .. k \in SUBSET (1 .. n) /\ 1 .. k # {}
    <3>1. \A i \in 1 .. k : i \in 1 .. n
      OBVIOUS
    <3>2. 1 \in 1 .. k
      OBVIOUS
    <3> QED BY <3>1, <3>2
  <2>5. g[1 .. k] = Step(walk, location, g[(1 .. k) \ {Max(1 .. k)}], path[Max(1 .. k)])
    BY <1>1, <2>4 DEF IsFold
  <2>6. v[k] = g[1 .. k] /\ v[k - 1] = g[1 .. k - 1]
    OBVIOUS
  <2> QED BY <2>3, <2>5, <2>6
<1> HIDE DEF v
<1> QED BY <1>2, <1>3, <1>4, <1>5 DEF Way

LEMMA WayOnce ==
    ASSUME NEW walk, NEW location, NEW path, NEW other, NEW v, NEW w, NEW n \in Nat,
           Way(v, walk, location, path, n), Way(w, walk, location, other, n),
           \A k \in 1 .. n : path[k] = other[k]
    PROVE  v[n] = w[n]
<1> DEFINE S == {k \in 0 .. n : v[k] # w[k]}
<1> SUFFICES ASSUME S # {} PROVE FALSE
  OBVIOUS
<1>1. PICK k \in S : \A j \in S : k <= j
  <2>1. S \subseteq Nat
    OBVIOUS
  <2> HIDE DEF S
  <2> QED BY <2>1, LeastNumber
<1>2. CASE k = 0
  BY <1>1, <1>2 DEF Way
<1>3. CASE k # 0
  <2>1. k \in 1 .. n /\ k - 1 \in 0 .. n /\ k - 1 \notin S
    BY <1>1, <1>3
  <2>2. v[k - 1] = w[k - 1]
    BY <2>1
  <2>3. v[k] = w[k]
    BY <2>1, <2>2 DEF Way
  <2> QED BY <1>1, <2>3
<1> QED BY <1>2, <1>3

(* The values on the way are those at the shorter paths. *)
LEMMA AtOnTheWay ==
    ASSUME NEW location, NEW path \in Seq(Name), NEW v,
           Way(v, "at", location, path, Len(path)), NEW n \in 1 .. Len(path)
    PROVE  At(location, SubSeq(path, 1, n)) = v[n]
<1> DEFINE p == SubSeq(path, 1, n)
<1>1. \A i \in 1 .. n : path[i] \in Name
  BY ElementOfSeq, LenProperties
<1>2. p \in Seq(Name) /\ Len(p) = n /\ \A i \in 1 .. n : p[i] = path[i]
  <2>1. /\ p \in Seq(Name) /\ Len(p) = IF 1 <= n THEN n - 1 + 1 ELSE 0
        /\ \A i \in 1 .. n - 1 + 1 : p[i] = path[1 + i - 1]
    BY <1>1, SubSeqProperties
  <2> HIDE DEF p
  <2> QED BY <2>1
<1> HIDE DEF p
<1>3. DOMAIN p = 1 .. n /\ n \in Nat
  BY <1>2, LenProperties
<1>4. PICK w : Way(w, "at", location, p, n) /\ Walked("at", location, p) = w[n]
  BY <1>3, WayExists
<1>5. Way(v, "at", location, path, n)
  BY LenProperties DEF Way
<1>6. w[n] = v[n]
  BY <1>2, <1>3, <1>4, <1>5, WayOnce
<1> QED BY <1>4, <1>6, WalksAreFolds DEF p

(* What may be met on the way: data, or undefined for what is missing. *)
Known == Data \cup {Undefined}

LEMMA KnownCases ==
    ASSUME NEW d \in Known
    PROVE  /\ d # TypeError
           /\ \/ d \in {Undefined, Null}
              \/ d.type = "text" /\ d \notin {Undefined, Null}
              \/ /\ d.type = "object" /\ d \notin {Undefined, Null, Empty}
                 /\ \A n \in DOMAIN d.members : d.members[n] \in Data
<1>1. \/ d \in {Undefined, Null} \/ d.type = "text"
      \/ d.type = "object" /\ \A n \in DOMAIN d.members : d.members[n] \in Data
  BY InputAssumption DEF Known
<1>2. /\ Undefined.type = "undefined" /\ Null.type = "null" /\ TypeError.type = "TypeError"
      /\ Empty.type = "text"
  BY DEF Undefined, Null, TypeError, Empty, Text
<1> QED BY <1>1, <1>2

LEMMA PlainOfKnown ==
    ASSUME NEW d \in Known, NEW item
    PROVE  /\ Plain(d, item) \in Known
           /\ d \in {Undefined, Null} \/ d.type = "text" => Plain(d, item) = Undefined
           /\ d \notin {Undefined, Null} => Member(d, item) = Plain(d, item)
<1>1. d \in {Undefined, Null} \/ d.type = "text" => d.type # "object"
  BY DEF Undefined, Null
<1>2. Plain(d, item) \in Known
  BY KnownCases, <1>1 DEF Plain, Known
<1>3. d \notin {Undefined, Null} => Member(d, item) = Plain(d, item)
  BY DEF Member, Plain
<1> QED BY <1>1, <1>2, <1>3 DEF Plain

(* The first step, by a getter. *)
LEMMA GetterIsPlain ==
    ASSUME NEW l \in Parts, NEW item, input \in Input
    PROVE  /\ OrEmpty(Getter(l, item)) = OrEmpty(Plain(input[l], item))
           /\ input[l] # Null =>
                 \/ Getter(l, item) = Plain(input[l], item)
                 \/ Getter(l, item) = Empty /\ Plain(input[l], item) \in {Undefined, Null}
<1>1. input[l] \in Known
  BY InputAssumption DEF Known
<1>2. Empty \notin {Undefined, Null} /\ Undefined # Null /\ Empty.type = "text"
  BY DEF Empty, Undefined, Null, Text
<1>3. CASE l = "headers"
  <2> DEFINE h == input.headers
  <2>1. input[l] = h /\ h.type = "object" /\ h \in Known /\ h \notin {Undefined, Null}
    BY <1>1, <1>3, InputAssumption, KnownCases DEF Undefined, Null
  <2>2. Getter(l, item) = IF Truthy(Member(h, item)) THEN Member(h, item) ELSE Empty
    BY <1>3 DEF Getter, CheckHeader
  <2>3. Member(h, item) = Plain(h, item)
    BY <2>1, PlainOfKnown
  <2> HIDE DEF h
  <2> QED BY <1>2, <2>1, <2>2, <2>3 DEF Truthy, OrEmpty
<1>4. CASE l # "headers"
  <2>1. Getter(l, item) = IF Truthy(input[l]) THEN Member(input[l], item) ELSE input[l]
    BY <1>4 DEF Getter, Parts, MemberIfTruthy
  <2>2. CASE Truthy(input[l])
    <3>1. Getter(l, item) = Plain(input[l], item)
      BY <1>1, <2>1, <2>2, PlainOfKnown DEF Truthy
    <3> QED BY <3>1
  <2>3. CASE ~Truthy(input[l])
    <3>1. Getter(l, item) = input[l] /\ input[l] \in {Undefined, Null, Empty}
      BY <2>1, <2>3 DEF Truthy
    <3>2. Plain(input[l], item) = Undefined
      BY <1>1, <1>2, <3>1, PlainOfKnown
    <3> QED BY <1>2, <3>1, <3>2 DEF OrEmpty
  <2> QED BY <2>2, <2>3
<1> QED BY <1>3, <1>4

LEMMA StepOfAt ==
    ASSUME NEW l, NEW v, NEW item
    PROVE  Step("at", l, v, item) = Plain(v, item)
BY DEF Step

LEMMA AtKnown ==
    ASSUME NEW l \in Parts, NEW path, NEW n \in Nat, NEW a, Way(a, "at", l, path, n),
           input \in Input, NEW k \in 0 .. n
    PROVE  a[k] \in Known
<1> DEFINE S == {i \in 0 .. n : a[i] \notin Known}
<1> SUFFICES ASSUME S # {} PROVE FALSE
  OBVIOUS
<1>1. PICK i \in S : \A j \in S : i <= j
  <2>1. S \subseteq Nat
    OBVIOUS
  <2> HIDE DEF S
  <2> QED BY <2>1, LeastNumber
<1>2. CASE i = 0
  <2>1. a[0] = input[l]
    BY DEF Way, Start
  <2> QED BY <1>1, <1>2, <2>1, InputAssumption DEF Known
<1>3. CASE i # 0
  <2>1. i \in 1 .. n /\ i - 1 \in 0 .. n /\ i - 1 \notin S
    BY <1>1, <1>3
  <2>2. a[i - 1] \in Known
    BY <2>1
  <2>3. a[i] = Plain(a[i - 1], path[i])
    BY <2>1, StepOfAt DEF Way
  <2> QED BY <1>1, <2>2, <2>3, PlainOfKnown
<1> QED BY <1>2, <1>3

(* Version 3: the empty text for what is missing. *)
LEMMA OrEmptyOnTheWay ==
    ASSUME NEW l \in Parts, NEW path, NEW n \in Nat, NEW a, NEW e,
           Way(a, "at", l, path, n), Way(e, "orEmpty", l, path, n),
           input \in Input, NEW k \in 1 .. n
    PROVE  e[k] = OrEmpty(a[k])
<1>1. /\ Empty \notin {Undefined, Null} /\ Empty.type = "text"
      /\ \A v : OrEmpty(v) # Undefined
  BY DEF OrEmpty, Empty, Undefined, Null, Text
<1> DEFINE S == {i \in 1 .. n : e[i] # OrEmpty(a[i])}
<1> SUFFICES ASSUME S # {} PROVE FALSE
  OBVIOUS
<1>2. PICK i \in S : \A j \in S : i <= j
  <2>1. S \subseteq Nat
    OBVIOUS
  <2> HIDE DEF S
  <2> QED BY <2>1, LeastNumber
<1>3. i \in 1 .. n /\ e[i] # OrEmpty(a[i])
  BY <1>2
<1>4. a[i] = Plain(a[i - 1], path[i])
  BY <1>3, StepOfAt DEF Way
<1>5. e[i] = IF e[i - 1] = Undefined THEN OrEmpty(Getter(l, path[i]))
             ELSE OrEmpty(Member(e[i - 1], path[i]))
  BY <1>3 DEF Way, Step
<1>6. CASE i = 1
  <2>1. e[i - 1] = Undefined /\ a[i - 1] = input[l]
    BY <1>6 DEF Way, Start
  <2> QED BY <1>3, <1>4, <1>5, <2>1, GetterIsPlain
<1>7. CASE i # 1
  <2>1. i - 1 \in 1 .. n /\ i - 1 \in 0 .. n /\ i - 1 \notin S
    BY <1>2, <1>3, <1>7
  <2>2. e[i - 1] = OrEmpty(a[i - 1]) /\ a[i - 1] \in Known
    BY <2>1, AtKnown
  <2>3. e[i] = OrEmpty(Member(OrEmpty(a[i - 1]), path[i]))
    BY <1>1, <1>5, <2>2
  <2>4. CASE a[i - 1] \in {Undefined, Null}
    <3>1. OrEmpty(a[i - 1]) = Empty /\ Plain(a[i - 1], path[i]) = Undefined
      BY <2>2, <2>4, PlainOfKnown DEF OrEmpty
    <3>2. Member(Empty, path[i]) = Undefined
      BY <1>1 DEF Member
    <3> QED BY <1>3, <1>4, <2>3, <3>1, <3>2
  <2>5. CASE a[i - 1] \notin {Undefined, Null}
    <3>1. OrEmpty(a[i - 1]) = a[i - 1] /\ Member(a[i - 1], path[i]) = Plain(a[i - 1], path[i])
      BY <2>2, <2>5, PlainOfKnown DEF OrEmpty
    <3> QED BY <1>3, <1>4, <2>3, <3>1
  <2> QED BY <2>4, <2>5
<1> QED BY <1>6, <1>7

Unbroken(v, n) == \A i \in 1 .. n - 1 : v[i] \notin {Undefined, Null}

(* The older versions, along a way that is not broken. *)
LEMMA ExtractOnTheWay ==
    ASSUME NEW l \in Parts, NEW path, NEW n \in Nat, NEW a, NEW e,
           Way(a, "at", l, path, n), Way(e, "extract", l, path, n),
           input \in Input, input[l] # Null,
           Unbroken(a, n),
           NEW k \in 1 .. n
    PROVE  e[k] = a[k] \/ (e[k] = Empty /\ a[k] \in {Undefined, Null})
<1>1. Undefined # TypeError
  BY DEF Undefined, TypeError
<1> DEFINE Same(i) == e[i] = a[i] \/ (e[i] = Empty /\ a[i] \in {Undefined, Null})
           S == {i \in 1 .. n : ~Same(i)}
<1> SUFFICES ASSUME S # {} PROVE FALSE
  OBVIOUS
<1>2. PICK i \in S : \A j \in S : i <= j
  <2>1. S \subseteq Nat
    OBVIOUS
  <2> HIDE DEF S
  <2> QED BY <2>1, LeastNumber
<1>3. i \in 1 .. n /\ ~Same(i)
  BY <1>2
<1>4. a[i] = Plain(a[i - 1], path[i])
  BY <1>3, StepOfAt DEF Way
<1>5. e[i] = IF e[i - 1] = TypeError THEN TypeError
             ELSE IF e[i - 1] = Undefined THEN Getter(l, path[i])
             ELSE Member(e[i - 1], path[i])
  BY <1>3 DEF Way, Step
<1>6. CASE i = 1
  <2>1. e[i - 1] = Undefined /\ a[i - 1] = input[l]
    BY <1>6 DEF Way, Start
  <2>2. e[i] = Getter(l, path[i]) /\ a[i] = Plain(input[l], path[i])
    BY <1>1, <1>4, <1>5, <2>1
  <2> QED BY <1>3, <2>2, GetterIsPlain
<1>7. CASE i # 1
  <2>1. i - 1 \in 1 .. n /\ i - 1 \in 1 .. n - 1 /\ i - 1 \in 0 .. n /\ i - 1 \notin S
    BY <1>2, <1>3, <1>7
  <2>2. Same(i - 1)
    BY <2>1
  <2>3. a[i - 1] \notin {Undefined, Null} /\ a[i - 1] \in Known
    BY <2>1, AtKnown DEF Unbroken
  <2>4. e[i - 1] = a[i - 1] /\ a[i - 1] # TypeError
    BY <2>2, <2>3, KnownCases
  <2>5. e[i] = Member(a[i - 1], path[i])
    BY <1>5, <2>3, <2>4
  <2>6. e[i] = a[i]
    BY <1>4, <2>3, <2>5, PlainOfKnown
  <2> QED BY <1>3, <2>6
<1> QED BY <1>6, <1>7

LEMMA ValueAtPath ==
    ASSUME input \in Input, version \in {1, 3}, NEW l \in Parts, NEW path \in Path
    PROVE  LET broken == \E n \in 1..(Len(path) - 1) :
                             At(l, SubSeq(path, 1, n)) \in {Undefined, Null}
           IN  \/ Value(l, path) = At(l, path)
               \/ Value(l, path) = Empty /\ At(l, path) \in {Undefined, Null}
               \/ version = 1 /\ (broken \/ input[l] = Null)
<1> DEFINE m == Len(path)
<1>1. path \in Seq(Name) /\ path # <<>>
  BY RequestsAssumption
<1>2. m \in Nat /\ m \in 1 .. m /\ DOMAIN path = 1 .. m
  BY <1>1, EmptySeq, LenProperties
<1>3. PICK a : Way(a, "at", l, path, m) /\ Walked("at", l, path) = a[m]
  BY <1>2, WayExists
<1>4. At(l, path) = a[m]
  BY <1>3, WalksAreFolds
<1>5. CASE version = 3
  <2>1. PICK e : Way(e, "orEmpty", l, path, m) /\ Walked("orEmpty", l, path) = e[m]
    BY <1>2, WayExists
  <2>2. Value(l, path) = e[m]
    BY <1>5, <2>1, WalksAreFolds DEF Value
  <2>3. e[m] = OrEmpty(a[m])
    BY <1>2, <1>3, <2>1, OrEmptyOnTheWay
  <2> QED BY <1>4, <2>2, <2>3 DEF OrEmpty
<1>6. CASE version = 1
  <2> SUFFICES ASSUME input[l] # Null,
                      ~\E n \in 1 .. (Len(path) - 1) :
                          At(l, SubSeq(path, 1, n)) \in {Undefined, Null}
               PROVE  \/ Value(l, path) = At(l, path)
                      \/ Value(l, path) = Empty /\ At(l, path) \in {Undefined, Null}
    BY <1>6
  <2>1. PICK e : Way(e, "extract", l, path, m) /\ Walked("extract", l, path) = e[m]
    BY <1>2, WayExists
  <2>2. Value(l, path) = e[m]
    BY <1>6, <2>1, WalksAreFolds DEF Value
  <2>3. ASSUME NEW i \in 1 .. m - 1
        PROVE  a[i] \notin {Undefined, Null}
    <3>1. i \in 1 .. m
      BY <1>2
    <3>2. At(l, SubSeq(path, 1, i)) = a[i]
      BY <1>1, <1>3, <3>1, AtOnTheWay
    <3> QED BY <3>2
  <2>4. e[m] = a[m] \/ (e[m] = Empty /\ a[m] \in {Undefined, Null})
    <3>1. Unbroken(a, m)
      BY <2>3 DEF Unbroken
    <3>2. m \in Nat /\ m \in 1 .. m /\ Way(a, "at", l, path, m) /\ Way(e, "extract", l, path, m)
      BY <1>2, <1>3, <2>1
    <3> HIDE DEF m
    <3> QED BY <3>1, <3>2, ExtractOnTheWay
  <2> QED BY <1>4, <2>2, <2>4
<1> QED BY <1>5, <1>6

(* While a function runs, its request's parts are those that came. *)
InputInv == version \in {1, 3} /\ (running => input \in Input)

(* A check of version 3 takes the value at the path, or the empty text for  *)
(* none; one of the older versions does, too, unless the way is broken.    *)
THEOREM ChecksTakeValues == Spec => []ValueIsAtPath
<1>1. Init => InputInv
  BY DEF Init, InputInv
<1>2. InputInv /\ [Next]_vars => InputInv'
  <2> SUFFICES ASSUME InputInv, [Next]_vars PROVE InputInv'
    OBVIOUS
  <2>1. ASSUME NEW in \in Input, CallFunction(in) PROVE InputInv'
    BY <2>1 DEF InputInv, CallFunction
  <2>2. CASE \/ FunctionEnds \/ OnValidationError \/ ValidationErrors \/ CheckJsonSchema
             \/ UseLibrary \/ UNCHANGED vars
    <3>1. UNCHANGED <<version, input>> /\ (running' => running)
      BY <2>2 DEF vars, requestVars, FunctionEnds, CheckJsonSchema, OnValidationError,
                  ValidationErrors, UseLibrary
    <3> QED BY <3>1 DEF InputInv
  <2>3. ASSUME NEW location, NEW path, NEW optional, NEW verdict,
               CheckParam(location, path, optional, verdict)
        PROVE  InputInv'
    <3>1. UNCHANGED <<version, input>> /\ running
      BY <2>3 DEF CheckParam
    <3> QED BY <3>1 DEF InputInv
  <2> QED BY <2>1, <2>2, <2>3 DEF Next
<1>3. InputInv => ValueIsAtPath
  BY ValueAtPath DEF InputInv, ValueIsAtPath
<1> QED BY <1>1, <1>2, <1>3, PTL DEF Spec
=============================================================================
