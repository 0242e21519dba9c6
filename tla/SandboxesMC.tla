---------------------------- MODULE SandboxesMC ----------------------------
(***************************************************************************)
(* Small instances of Sandboxes for TLC.                                    *)
(***************************************************************************)
EXTENDS Sandboxes, TLC

CONSTANTS r1, r2, r3, s1, s2, m1, m2, m3

=============================================================================
