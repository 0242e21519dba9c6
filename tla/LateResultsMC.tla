--------------------------- MODULE LateResultsMC ---------------------------
(***************************************************************************)
(* Small instances of LateResults for TLC.                                  *)
(***************************************************************************)
EXTENDS LateResults, TLC

CONSTANT c1

=============================================================================
