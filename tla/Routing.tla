------------------------------- MODULE Routing -------------------------------
(***************************************************************************)
(* How one context routes its requests.  main.js defines routes, which a   *)
(* hash map keeps in an order of its own (routes have the identity's hash  *)
(* code); the IO pool looks a request up in the routing table, a copy that *)
(* is sorted by the first look-up; the engine then looks the function up   *)
(* in the hash map.                                                        *)
(*                                                                         *)
(* A path is a sequence of segments: numbers for literal texts, Variable   *)
(* for {name} or :name; AnyPath is "*".  0 is the slash, and the empty     *)
(* text; the texts that sort before the slash are below it.                *)
(***************************************************************************)
EXTENDS Naturals, Integers, Sequences, FiniteSets, SequencesExt

CONSTANTS
    Path,          \* the paths of definitions, with AnyPath
    Variable,      \* a segment that is a path parameter
    AnyPath,       \* the path that every URL matches
    Url,           \* the URLs of requests: sequences of literals
    Property,      \* the properties a route may require
    MaxRoutes      \* bound on the routes defined

ASSUME RoutingAssumption ==
    /\ Variable \notin Int
    /\ \A p \in Path \ {AnyPath} : p # <<>> /\ p \in Seq(Int \cup {Variable})
    /\ \A u \in Url : u # <<>> /\ u # AnyPath /\ u \in Seq(Int)
    /\ MaxRoutes \in Nat

Route == [method : {"GET", "OPTIONS", "ALL"}, path : Path,
          properties : SUBSET Property]
Request == [method : {"GET", "OPTIONS"}, url : Url,
            properties : SUBSET Property]

VARIABLES
    routes,        \* the routes in the order of the hash map
    table,         \* the routing table: positions in routes
    sorted,        \* routesSorted
    request,       \* the request that is served
    phase,         \* how far it is
    matched,       \* the route of the table it matched, or 0
    ran,           \* the route whose function the engine ran, or 0
    answer         \* what the answer is

vars == <<routes, table, sorted, request, phase, matched, ran, answer>>

Init ==
    /\ routes = <<>>
    /\ table = <<>>
    /\ sorted = FALSE
    /\ request \in Request
    /\ phase = "defining"
    /\ matched = 0
    /\ ran = 0
    /\ answer = "none"
-----------------------------------------------------------------------------
MethodsMatch(m1, m2) == "ALL" \in {m1, m2} \/ m1 = m2

PropertiesMatch(required, given) == required \subseteq given

(* A path parameter is not empty. *)
TemplateMatches(path, url) ==
    \/ path = AnyPath
    \/ /\ Len(path) = Len(url)
       /\ \A i \in DOMAIN url : path[i] = url[i] \/ (path[i] = Variable /\ url[i] # 0)

IsMatch(route, method, url, properties) ==
    /\ MethodsMatch(route.method, method)
    /\ PropertiesMatch(route.properties, properties)
    /\ TemplateMatches(route.path, url)

(* getProcessingKey: the literal characters, each segment's slash and its  *)
(* text if it is one.                                                      *)
ProcessingKey(path) ==
    IF path = AnyPath THEN <<0>>
    ELSE FlattenSeq([i \in DOMAIN path |->
                        IF path[i] \in {Variable, 0} THEN <<0>> ELSE <<0, path[i]>>])

(* String.compareTo: key comes after other. *)
After(key, other) ==
    \E i \in DOMAIN key :
        /\ i - 1 <= Len(other)
        /\ SubSeq(key, 1, i - 1) = SubSeq(other, 1, i - 1)
        /\ i > Len(other) \/ key[i] > other[i]

Key(i) == ProcessingKey(routes[i].path)

(* Mutant: in ascending order. *)
MutantBefore(i, j) == After(Key(j), Key(i)) \/ (Key(i) = Key(j) /\ i < j)

(* The sort is in descending order of the keys, and stable. *)
Before(i, j) == After(Key(i), Key(j)) \/ (Key(i) = Key(j) /\ i < j)

(* S in that order: the n-th is the one that n - 1 of S are before. *)
InOrder(S) ==
    [n \in 1 .. Cardinality(S) |->
        CHOOSE i \in S : Cardinality({j \in S : Before(j, i)}) = n - 1]

(* Mutant: routes with the same key are taken for one. *)
MutantSortedTable ==
    InOrder({i \in DOMAIN routes : \A j \in 1 .. i - 1 : Key(j) # Key(i)})

SortedTable == IF sorted THEN table ELSE InOrder(DOMAIN routes)

(* findMatch, in the order of the table: the first that matches, or 0. *)
FindMatch(order, method, url, properties) ==
    LET n == SelectInSeq(order, LAMBDA i : IsMatch(routes[i], method, url, properties))
    IN  IF n = 0 THEN 0 ELSE order[n]

(* Mutant: the properties are not compared. *)
MutantGetMatchedFunction ==
    SelectInSeq(routes, LAMBDA r : IsMatch(r, request.method, request.url, Property))

(* getMatchedFunction, in the hash map: any of those that match is first.  *)
GetMatchedFunction ==
    SelectInSeq(routes, LAMBDA r : IsMatch(r, request.method, request.url, request.properties))
-----------------------------------------------------------------------------
(* main.js defines a route, of which there may be several alike. *)
Define(route) ==
    /\ phase = "defining"
    /\ Len(routes) < MaxRoutes
    /\ \E i \in 1 .. Len(routes) + 1 : routes' = InsertAt(routes, i, route)
    /\ UNCHANGED <<table, sorted, request, phase, matched, ran, answer>>

(* The table takes the routes as the hash map lists them. *)
GenerateTable ==
    /\ phase = "defining"
    /\ table' = [i \in DOMAIN routes |-> i]
    /\ phase' = "matching"
    /\ UNCHANGED <<routes, sorted, request, matched, ran, answer>>

(* findMatchedRoute, on the IO pool: an OPTIONS request that no route      *)
(* matches is let through when it would match with another method.         *)
FindMatchedRoute ==
    /\ phase = "matching"
    /\ sorted' = TRUE
    /\ LET order == SortedTable
           match == FindMatch(order, request.method, request.url, request.properties)
           preflight == /\ match = 0
                        /\ request.method = "OPTIONS"
                        /\ FindMatch(order, "ALL", request.url, request.properties) # 0
       IN  /\ table' = order
           /\ matched' = match
           /\ IF match # 0 \/ preflight
              THEN phase' = "running" /\ UNCHANGED answer
              ELSE phase' = "answered" /\ answer' = "invalid route"
    /\ UNCHANGED <<routes, request, ran>>

(* doExecute, on the engine. *)
RunFunction ==
    /\ phase = "running"
    /\ ran' = GetMatchedFunction
    /\ answer' = CASE GetMatchedFunction # 0 -> "function"
                   [] request.method = "OPTIONS" /\ GetMatchedFunction = 0 -> "default"
                   [] OTHER -> "no definition"
    /\ phase' = "answered"
    /\ UNCHANGED <<routes, table, sorted, request, matched>>

(* The next request comes. *)
Receive ==
    /\ phase = "answered"
    /\ request' \in Request
    /\ phase' = "matching"
    /\ matched' = 0
    /\ ran' = 0
    /\ answer' = "none"
    /\ UNCHANGED <<routes, table, sorted>>

Next ==
    \/ GenerateTable \/ FindMatchedRoute \/ RunFunction \/ Receive
    \/ \E route \in Route : Define(route)

Spec == Init /\ [][Next]_vars
-----------------------------------------------------------------------------
TypeOK ==
    /\ Len(routes) <= MaxRoutes /\ ToSet(routes) \subseteq Route
    /\ phase # "defining" => /\ Len(table) = Len(routes)
                             /\ ToSet(table) = DOMAIN routes
    /\ sorted \in BOOLEAN
    /\ request \in Request
    /\ phase \in {"defining", "matching", "running", "answered"}
    /\ {matched, ran} \subseteq 0 .. Len(routes)
    /\ answer \in {"none", "invalid route", "function", "default", "no definition"}

Answered == phase = "answered"

(* The routes that match the request, and those that would if it had their *)
(* method.                                                                 *)
Matching == {i \in DOMAIN routes :
                IsMatch(routes[i], request.method, request.url, request.properties)}
MatchingButMethod ==
    {i \in DOMAIN routes :
        /\ routes[i].properties \subseteq request.properties
        /\ TemplateMatches(routes[i].path, request.url)}

(* The two look-ups agree on whether there is an answer: the function of a *)
(* route that matches, 200 for an OPTIONS request that only its method     *)
(* keeps from one, and otherwise 404; the engine never fails to find what  *)
(* the IO pool has found.                                                  *)
AnsweredAsDefined ==
    Answered =>
        /\ answer = CASE Matching # {} -> "function"
                      [] Matching = {} /\ request.method = "OPTIONS"
                            /\ MatchingButMethod # {} -> "default"
                      [] OTHER -> "invalid route"
        /\ answer = "function" => {matched, ran} \subseteq Matching

(* A route whose path is the URL itself is preferred to those that match   *)
(* with parameters, wherever main.js defines them, if the texts of the URL *)
(* sort after the slash that a parameter leaves in their place.            *)
LiteralRouteFirst ==
    /\ matched # 0
    /\ \E i \in Matching : routes[i].path = request.url
    /\ \A i \in DOMAIN request.url : request.url[i] > 0
    => routes[matched].path = request.url

(* "we want the BEST match": the function that runs is that of the route   *)
(* that was matched, with whose parameters it is called.  Violated: the    *)
(* engine takes the first of the hash map.                                 *)
FunctionOfBestMatch == answer = "function" => ran = matched
=============================================================================
