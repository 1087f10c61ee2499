--------------------------- MODULE MCPermitRequests --------------------------
(* Instances of PermitRequests for TLC: two workers that may be exchanged.  *)
EXTENDS PermitRequests, TLC

WorkerSymmetry == Permutations(Workers)
=============================================================================
