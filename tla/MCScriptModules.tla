---------------------------- MODULE MCScriptModules ----------------------------
(* Two modules, one of them in a directory, that can require each other and  *)
(* themselves by relative paths.                                             *)
EXTENDS ScriptModules

const_File == {<<"a.js">>, <<"lib", "b.js">>}
const_Id == {<<".", "a">>, <<"..", "a">>, <<".", "b.js">>, <<"lib", "b">>}
const_Script == [s \in {"a", "b"} |-> s \o ".js"]
=============================================================================
