------------------------- MODULE MCStatePersistence -------------------------
(***************************************************************************)
(* Small instances of StatePersistence.                                    *)
(***************************************************************************)
EXTENDS StatePersistence
=============================================================================
