--------------------------- MODULE MCScriptRequests ---------------------------
(* Inputs in which a parameter is where it is looked for, is missing on the  *)
(* way to another one that is there, or is null, and a body that is null.    *)
EXTENDS ScriptRequests

const_Lazy == {"lodash"}
const_Name == {"a", "b"}
const_Path == {<<"a">>, <<"a", "b">>}

None == Object(<<>>)
A(v) == Object([a |-> v])

const_Data ==
    {None, Null} \cup {Text(t) : t \in {"good", "bad"}}
        \cup {A(v) : v \in {Null, Text("good"), Text("bad"), Object([b |-> Text("bad")])}}
        \cup {Object([b |-> Text(t)]) : t \in {"good", "bad"}}

const_Input ==
    {[params |-> A(Text("good")), query |-> None, headers |-> A(Text("bad")),
      body |-> A(Object([b |-> Text("bad")]))],
     [params |-> None, query |-> A(Text("bad")), headers |-> None,
      body |-> Object([b |-> Text("good")])],
     [params |-> None, query |-> A(Null), headers |-> A(Text("good")), body |-> Null]}
=============================================================================
