---------------------------- MODULE RuntimeCalls -----------------------------
(***************************************************************************)
(* What scripts pass to the functions that the runtime gives them: the     *)
(* path that require resolves, and the arguments that Sandbox.define takes *)
(* by their number and type.                                               *)
(*                                                                         *)
(* A path is a sequence of segments.  An argument is abstracted to its     *)
(* type, and a result says which argument it takes as what, by its         *)
(* position; 0 is a default.                                               *)
(***************************************************************************)
EXTENDS Naturals, FiniteSets, TLC, SequencesExt

CONSTANTS
    Up,            \* the segments that begin with two dots
    Skipped,       \* the others that begin with a dot, and the empty one
    Script         \* Script[s]: the segment s, that has no extension, with .js

ASSUME SegmentsAssumption == Up \cap Skipped = {}

(* Mutant: the last directory below the root is not left.                  *)
MutantCanonicalPath(path) ==
    LET Step(parts, part) ==
            CASE part \in Up      -> IF Len(parts) <= 1 THEN parts ELSE Front(parts)
              [] part \in Skipped -> parts
              [] OTHER            -> Append(parts, part)
    IN  FoldLeft(Step, <<>>, path)

(* The segments of the file that a path names.  .. at the root is ignored. *)
CanonicalPath(path) ==
    LET Step(parts, part) ==
            CASE part \in Up      -> IF parts = <<>> THEN <<>> ELSE Front(parts)
              [] part \in Skipped -> parts
              [] OTHER            -> Append(parts, part)
    IN  FoldLeft(Step, <<>>, path)

NormalizeName(path) ==
    IF path # <<>> /\ Last(path) \in DOMAIN Script
    THEN [path EXCEPT ![Len(path)] = Script[@]]
    ELSE path

(* The file that id names in a script of the directory root.               *)
ResolveAsFile(id, root) == NormalizeName(CanonicalPath(root \o id))

(* The segments of a path that are left once each .. has taken away the    *)
(* nearest one before it that no other .. takes away.                      *)
Remaining(path) ==
    LET Count(S, i, j) == Cardinality({k \in i..j : path[k] \in S})
        Names == Range(path) \ (Up \cup Skipped)
        Kept == {i \in DOMAIN path :
                    /\ path[i] \in Names
                    /\ \A j \in (i + 1)..Len(path) :
                           Count(Up, i + 1, j) <= Count(Names, i + 1, j)}
        Place(i) == Cardinality({k \in Kept : k <= i})
    IN  [n \in 1..Cardinality(Kept) |-> path[CHOOSE i \in Kept : Place(i) = n]]
-----------------------------------------------------------------------------
Types == {"string", "object", "null", "function", "undefined"}

Route(path, method, properties, callback) ==
    [is |-> "route", path |-> path, method |-> method, properties |-> properties,
     callback |-> callback]

Throws == [is |-> "exception"]

(* typeof *)
TypeOf(arguments, i) ==
    IF i > Len(arguments) THEN "undefined"
    ELSE IF arguments[i] = "null" THEN "object"
    ELSE arguments[i]

(* ScriptObject.define.  The path and the method are converted to strings  *)
(* and the properties to a map, undefined as well as null to Java's null,  *)
(* which neither the path nor the properties may be; a route whose method  *)
(* is null is put, and no request matches it.                              *)
AddRoute(a, route) ==
    IF /\ a[route.path] = "string"
       /\ route.method = 0 \/ a[route.method] \in {"string", "null", "undefined"}
       /\ route.properties = 0 \/ a[route.properties] \in {"object", "function"}
    THEN route ELSE Throws

(* Mutant: the type of the second argument is not looked at.               *)
MutantDefineRoute(a) ==
    CASE Len(a) = 4 -> AddRoute(a, Route(1, 2, 3, 4))
      [] Len(a) = 3 -> AddRoute(a, Route(1, 0, 2, 3))
      [] Len(a) = 2 -> AddRoute(a, Route(1, 0, 0, 2))
      [] OTHER      -> Throws

(* mock.define.  Its first exception's message needs a method, which there *)
(* is none, so that another one is thrown.                                 *)
DefineRoute(a) ==
    LET route == CASE Len(a) = 4 -> Route(1, 2, 3, 4)
                   [] Len(a) = 3 /\ TypeOf(a, 2) = "object" -> Route(1, 0, 2, 3)
                   [] Len(a) = 3 /\ TypeOf(a, 2) = "string" -> Route(1, 2, 0, 3)
                   [] Len(a) = 3 /\ TypeOf(a, 2) \notin {"object", "string"} -> Throws
                   [] OTHER -> Route(1, 0, 0, 2)
    IN  IF route = Throws \/ route.callback > Len(a) THEN Throws
        ELSE IF a[route.callback] \in {"undefined", "null"} THEN Throws
        ELSE AddRoute(a, route)

(* The four shapes that the comment above define lists.                    *)
Documented ==
    {[arguments |-> <<"string", "string", "object", "function">>, defines |-> Route(1, 2, 3, 4)],
     [arguments |-> <<"string", "object", "function">>, defines |-> Route(1, 0, 2, 3)],
     [arguments |-> <<"string", "string", "function">>, defines |-> Route(1, 2, 0, 3)],
     [arguments |-> <<"string", "function">>, defines |-> Route(1, 0, 0, 2)]}

(* "<path> <method> <properties {}> <callback>" and the shorter shapes: a  *)
(* call of one of them defines that route, and no argument is taken for    *)
(* another.  A call of any other shape defines no route, unless what is in *)
(* the callback's place is neither a function nor null or undefined, which *)
(* is noticed when a request calls it, the method is null or undefined,    *)
(* which no request matches, the properties are a function, whose own they *)
(* then are, or there are more arguments than four, when all but two are   *)
(* ignored.                                                                *)
DefinedAsDocumented(a) ==
    LET route == DefineRoute(a)
    IN  /\ \A call \in Documented : a = call.arguments => route = call.defines
        /\ route.is = "route" =>
               \/ \E call \in Documented : a = call.arguments
               \/ a[route.callback] # "function"
               \/ route.method # 0 /\ a[route.method] \in {"null", "undefined"}
               \/ route.properties # 0 /\ a[route.properties] = "function"
               \/ Len(a) > 4
=============================================================================
