-------------------------- MODULE SandboxMeterMC --------------------------
(* A machine of two sizes: the baseline every MicroVM has, and a larger one. *)
EXTENDS SandboxMeter

TwoSizes == {"baseline", "large"}

=============================================================================
