-------------------------- MODULE MCActivityStore ---------------------------
(***************************************************************************)
(* Small instances of ActivityStore: texts of two lengths, so that one may *)
(* be written over another that is longer.                                 *)
(***************************************************************************)
EXTENDS ActivityStore, TLC

MCSize(m) == 1 + (m % 2)

Workers == Permutations(Worker)
=============================================================================
