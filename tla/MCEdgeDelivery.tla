--------------------------- MODULE MCEdgeDelivery ----------------------------
(* EdgeDelivery on a small instance.  Workers are interchangeable.         *)
EXTENDS EdgeDelivery, TLC

CONSTANTS w1, w2
MCWorkers == {w1, w2}
MCEvents  == 1..2
MCThree   == 1..3
Symmetry  == Permutations(MCWorkers)
=============================================================================
