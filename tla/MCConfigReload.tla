---------------------------- MODULE MCConfigReload ----------------------------
(* Instances of ConfigReload for TLC. *)
EXTENDS ConfigReload

CONSTANTS r1, r2
=============================================================================
