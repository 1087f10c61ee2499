-------------------------- MODULE MCPermitLifecycle --------------------------
(* Instances of PermitLifecycle for TLC: the constants are in the cfg files. *)
EXTENDS PermitLifecycle
=============================================================================
