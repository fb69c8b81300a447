------------------------ MODULE MCDefinitionReload --------------------------
(***************************************************************************)
(* Small instances of DefinitionReload: the requests are interchangeable.  *)
(***************************************************************************)
EXTENDS DefinitionReload, TLC

RequestSymmetry == Permutations(Request)
=============================================================================
