----------------------------- MODULE MCGasAlarms ------------------------------
(* GasAlarms on a small instance.  One worker serves all requests next to  *)
(* the users, or two workers serve requests of one detector at once.       *)
EXTENDS GasAlarms

CONSTANTS d1, w1, w2, u1
MCPermits  == 1..2
MCAlarmIds == 1..3
MCAlertIds == 1..3

VARIABLE shift
\* Bounds on the readings and on what users do when two workers serve them.
MCReadings == 3
MCActs     == 1

MCInit == Init /\ shift \in {"one", "two"}

MCNext ==
    /\ Next /\ UNCHANGED shift
    /\ \/ shift = "one" /\ \A w \in Workers \ {w1} : req'[w] = Free
       \/ shift = "two" /\ user' = user /\ acts' <= MCActs /\ readings' <= MCReadings

MCSpec == MCInit /\ [][MCNext]_<<vars, shift>> /\ \A w \in Workers : WF_vars(Step(w))
=============================================================================
