----------------------------- MODULE MCRouting ------------------------------
(***************************************************************************)
(* A small instance of Routing: paths that overlap in every way two        *)
(* segments allow, and URLs that several of them match, the root and one   *)
(* that sorts before it among them.                                        *)
(***************************************************************************)
EXTENDS Routing

MCPath == {<<0>>, <<Variable>>, <<1, 2>>, <<Variable, 2>>, <<1, Variable>>, AnyPath}
MCUrl == {<<0>>, <<-1>>, <<1, 2>>}
=============================================================================
