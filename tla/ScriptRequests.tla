---------------------------- MODULE ScriptRequests -----------------------------
(***************************************************************************)
(* The requests that a script context serves, one after the other, and the *)
(* validation of what they carry.  All of them reach the scripts as one    *)
(* object, to which the request's members are copied before its function   *)
(* is called; what else is on it, the callback for errors among it, stays. *)
(*                                                                         *)
(* A value is undefined, null, a text or an object; of texts the model     *)
(* tells apart the empty one and whether the validator that is asked       *)
(* accepts it.  version is the runtime version of the definition: 3 and    *)
(* the two older ones differ in how a value is looked up.                  *)
(***************************************************************************)
EXTENDS ScriptLibraries, Sequences, SequencesExt

CONSTANTS
    Data,          \* the values in requests, with the members of each
    Input,         \* what a request may carry: its params, query, body, headers
    Name,          \* the names of parameters
    Path,          \* the paths of parameters that scripts check
    MaxRequests,   \* bound on the requests
    MaxErrors      \* bound on the errors recorded

ASSUME RequestsAssumption ==
    /\ MaxRequests \in Nat /\ MaxErrors \in Nat
    /\ \A p \in Path : p # <<>> /\ p \in Seq(Name)

VARIABLES
    version,       \* 1 (and 2, which is the same) or 3
    request,       \* the number of the request that is served
    running,       \* its function runs
    input,         \* wrappedRequest's copied members
    lists,         \* the lists of errors that were made, oldest first
    current,       \* wrappedRequest._validationErrors: one of them, or 0
    callback,      \* onErrorCallback: the request whose script set it, or 0
    handed,        \* the lists that scripts were given
    failed         \* the checks of this request that failed, in order

requestVars == <<version, request, running, input, lists, current, callback, handed,
                 failed>>
vars == <<requestVars, libraryVars>>

Undefined == [type |-> "undefined"]
Null == [type |-> "null"]
Text(t) == [type |-> "text", text |-> t]
Object(m) == [type |-> "object", members |-> m]
TypeError == [type |-> "TypeError"]

Empty == Text("")

Parts == {"params", "query", "body", "headers"}

NoInput == [l \in Parts |-> Undefined]

(* A request has headers, which are members by their names. *)
ASSUME InputAssumption ==
    /\ \A d \in Data :
          \/ d \in {Undefined, Null}
          \/ d.type = "text"
          \/ d.type = "object" /\ \A n \in DOMAIN d.members : d.members[n] \in Data
    /\ \A in \in Input : /\ \A l \in Parts : in[l] \in Data
                         /\ in.headers.type = "object"

Truthy(v) == v \notin {Undefined, Null, Empty}

(* v[item].  No text has a member of the names that are checked.           *)
Member(v, item) ==
    IF v \in {Undefined, Null} THEN TypeError
    ELSE IF v.type = "object" /\ item \in DOMAIN v.members THEN v.members[item]
    ELSE Undefined

-----------------------------------------------------------------------------
(* a && a[item] *)
MemberIfTruthy(v, item) == IF Truthy(v) THEN Member(v, item) ELSE v

(* The getters of req.check, checkBody, checkParams, checkQuery and        *)
(* checkHeader.  The first one answers with the name it was asked for.     *)
Check(item) ==
    IF \E l \in {"params", "body", "query"} : Truthy(MemberIfTruthy(input[l], item))
    THEN Text(item) ELSE Undefined

CheckHeader(item) ==
    LET toCheck == Member(input.headers, item)
    IN  IF Truthy(toCheck) THEN toCheck ELSE Empty

Getter(location, item) ==
    CASE location = "check"   -> Check(item)
      [] location = "headers" -> CheckHeader(item)
      [] OTHER                -> MemberIfTruthy(input[location], item)

(* "Extract value from params": the value at a path, as the older versions *)
(* look it up and as version 3 does.                                       *)
Extract(location, path) ==
    LET Step(value, item) ==
            IF value = TypeError THEN TypeError
            ELSE IF value = Undefined THEN Getter(location, item)
            ELSE Member(value, item)
    IN  FoldLeft(Step, Undefined, path)

(* Mutant: version 3 without the default.                                  *)
MutantExtractOrEmpty(location, path) == Extract(location, path)

ExtractOrEmpty(location, path) ==
    LET OrEmpty(v) == IF v \in {Undefined, Null} THEN Empty ELSE v
        Step(value, item) ==
            IF value = Undefined THEN OrEmpty(Getter(location, item))
            ELSE OrEmpty(Member(value, item))
    IN  FoldLeft(Step, Undefined, path)

Value(location, path) ==
    IF version = 3 THEN ExtractOrEmpty(location, path) ELSE Extract(location, path)

(* What a validator may say of a value: it accepts some of the names that  *)
(* Check answers with.  Version 3 has one that throws for what is no text. *)
Verdicts(value) ==
    IF value.type # "text" THEN {IF version = 3 THEN "throws" ELSE "rejects"}
    ELSE CASE value.text = "good"      -> {"accepts"}
           [] value.text \in {"", "bad"} -> {"rejects"}
           [] OTHER                    -> {"accepts", "rejects"}
-----------------------------------------------------------------------------
Init ==
    /\ LibrariesInit
    /\ version \in {1, 3}
    /\ request = 0
    /\ running = FALSE
    /\ input = NoInput
    /\ lists = <<>>
    /\ current = 0
    /\ callback = 0
    /\ handed = {}
    /\ failed = <<>>

(* Mutant: the errors of the object's last request stay on it.             *)
MutantCallFunction(in) ==
    /\ ~running
    /\ request < MaxRequests
    /\ request' = request + 1
    /\ running' = TRUE
    /\ input' = in
    /\ failed' = <<>>
    /\ UNCHANGED <<version, lists, current, callback, handed, libraryVars>>

(* Mutant: they are cleared by emptying the list.                          *)
MutantCallFunctionEmpties(in) ==
    /\ ~running
    /\ request < MaxRequests
    /\ request' = request + 1
    /\ running' = TRUE
    /\ input' = in
    /\ lists' = IF current = 0 THEN lists ELSE [lists EXCEPT ![current] = <<>>]
    /\ failed' = <<>>
    /\ UNCHANGED <<version, current, callback, handed, libraryVars>>

(* wrapCallback: the members of the request are copied, and its errors     *)
(* cleared, before the function is called.                                 *)
CallFunction(in) ==
    /\ ~running
    /\ request < MaxRequests
    /\ request' = request + 1
    /\ running' = TRUE
    /\ input' = in
    /\ current' = 0
    /\ failed' = <<>>
    /\ UNCHANGED <<version, lists, callback, handed, libraryVars>>

FunctionEnds ==
    /\ running
    /\ running' = FALSE
    /\ UNCHANGED <<version, request, input, lists, current, callback, handed, failed,
                   libraryVars>>

(* Errors are added to the request's list, which the first of them makes.  *)
(* calls is the callback that was told of each.                            *)
PushErrors(errors) ==
    /\ IF current = 0
       THEN /\ lists' = Append(lists, errors)
            /\ current' = Len(lists')
       ELSE /\ lists' = [lists EXCEPT ![current] = @ \o errors]
            /\ UNCHANGED current

Recorded == FoldLeft(LAMBDA n, list : n + Len(list), 0, lists)

Error(path, value) == [request |-> request, param |-> path, value |-> value]

(* req.check(path, msg).isEmail(), or another method of the validator, and *)
(* with optional() before it.  A lookup or a validator that throws, or a   *)
(* script's own validator without the method, ends the function unless it  *)
(* catches what is thrown.                                                 *)
CheckParam(location, path, optional, verdict) ==
    LET value == Value(location, path)
        skipped == optional /\ value = Undefined
        throws == value = TypeError \/ binding["validator"] = "script"
                  \/ (~skipped /\ verdict = "throws")
        error == Error(path, value)
    IN  /\ running
        /\ Recorded < MaxErrors
        /\ verdict \in Verdicts(value)
        /\ running' \in IF throws THEN BOOLEAN ELSE {TRUE}
        /\ IF throws \/ skipped \/ verdict = "accepts"
           THEN UNCHANGED <<lists, current, failed>>
           ELSE /\ PushErrors(<<error>>)
                /\ failed' = Append(failed, error)
        /\ UNCHANGED <<version, request, input, callback, handed, libraryVars>>

(* The schema's file is missing, or the body fails it in some places.      *)
CheckJsonSchema ==
    /\ running
    /\ \/ /\ running' \in BOOLEAN
          /\ UNCHANGED <<lists, current, failed>>
       \/ \E n \in 1..2 :
              LET errors == [i \in 1..n |-> Error(<<i>>, Undefined)]
              IN  /\ Recorded + n <= MaxErrors
                  /\ PushErrors(errors)
                  /\ failed' = failed \o errors
                  /\ UNCHANGED running
    /\ UNCHANGED <<version, request, input, callback, handed, libraryVars>>

OnValidationError ==
    /\ running
    /\ callback' = request
    /\ UNCHANGED <<version, request, running, input, lists, current, handed, failed,
                   libraryVars>>

(* validationErrors() returns the list itself, which a script may keep.    *)
ValidationErrors ==
    /\ running
    /\ current # 0
    /\ handed' = handed \cup {current}
    /\ UNCHANGED <<version, request, running, input, lists, current, callback, failed,
                   libraryVars>>

UseLibrary ==
    /\ running
    /\ UseLibraries
    /\ UNCHANGED requestVars

Locations == {"check"} \cup Parts

Next ==
    \/ \E in \in Input : CallFunction(in)
    \/ FunctionEnds
    \/ \E location \in Locations, path \in Path, optional \in BOOLEAN,
          verdict \in {"accepts", "rejects", "throws"} :
           CheckParam(location, path, optional, verdict)
    \/ CheckJsonSchema
    \/ OnValidationError
    \/ ValidationErrors
    \/ UseLibrary

Spec == Init /\ [][Next]_vars
-----------------------------------------------------------------------------
TypeOK ==
    /\ version \in {1, 3}
    /\ request \in 0..MaxRequests
    /\ running \in BOOLEAN
    /\ input \in Input \cup {NoInput}
    /\ current \in 0..Len(lists)
    /\ callback \in 0..request
    /\ handed \subseteq DOMAIN lists
    /\ DOMAIN binding = Lazy \cup {"validator"}
    /\ resolved \subseteq Lazy /\ stored \subseteq Lazy

(* "clear validation errors for each request": what a function reads as    *)
(* its request's errors is exactly its own failed checks, in their order,  *)
(* though the object that carries them has served other requests.          *)
ErrorsAreFailedChecks ==
    (IF current = 0 THEN <<>> ELSE lists[current]) = failed

(* A list of errors that a script was given and has kept, or has put into  *)
(* a response's body, does not change when later requests are checked.     *)
EarlierErrorsKept ==
    [][\A l \in handed :
           lists'[l] # lists[l] => lists[l][1].request = request']_vars

(* The value at a path, in plain terms.                                    *)
At(location, path) ==
    LET In(v, item) == IF v.type = "object" /\ item \in DOMAIN v.members
                       THEN v.members[item] ELSE Undefined
    IN  FoldLeft(In, input[location], path)

(* A check of the params, query, body or headers takes the value at the    *)
(* path, with version 3 the empty text for none.  The older versions do    *)
(* not if the way there is broken: they start again with the rest of the   *)
(* path, and throw for null.                                               *)
ValueIsAtPath ==
    running => \A l \in Parts, path \in Path :
        LET broken == \E n \in 1..(Len(path) - 1) :
                          At(l, SubSeq(path, 1, n)) \in {Undefined, Null}
        IN  \/ Value(l, path) = At(l, path)
            \/ Value(l, path) = Empty /\ At(l, path) \in {Undefined, Null}
            \/ version = 1 /\ (broken \/ input[l] = Null)

(* "Extract value from params": so does req.check, which looks into the    *)
(* params, the body and the query.  Violated: its getter answers with the  *)
(* parameter's name, which is what is validated.                           *)
CheckTakesValue ==
    running => \A path \in Path :
        Len(path) = 1 =>
            Value("check", path) \in {At(l, path) : l \in {"params", "body", "query"}}
                                     \cup {Undefined, Empty}
=============================================================================
