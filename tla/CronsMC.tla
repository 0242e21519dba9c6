------------------------------ MODULE CronsMC ------------------------------
(***************************************************************************)
(* Small instances of Crons for TLC.                                        *)
(***************************************************************************)
EXTENDS Crons, TLC

=============================================================================
