----------------------------- MODULE MCEvacuation ------------------------------
(***************************************************************************)
(* Instances of Evacuation for TLC.  A behaviour of the site follows the   *)
(* tags, their rows and the sweep while no report is asked for, or a short *)
(* evacuation of one worker with several officers, or two requests that    *)
(* process readings of one worker at once.                                 *)
(***************************************************************************)
EXTENDS Evacuation

CONSTANTS
    w1, w2, t1, t2, p1, p2, o1, o2,
    TagReadings   \* bound on the readings while a behaviour follows the tags

VARIABLE part

siteVars == <<vars, part>>

SiteInit == part \in {"tags", "officers", "overlap"} /\ EvacuationInit

(* One worker with one tag. *)
OneWorker ==
    /\ spent'.desk <= 1
    /\ \A t \in Tags : tags'[t] \in {InStock} \cup (IF t = t1 THEN {WornTag(w1)} ELSE {})
    /\ correction' \in {Idle} \cup [step : {"row"}, worker : {w1}, on : BOOLEAN]

(* One reading, and no tick. *)
Short == OneWorker /\ clock' = clock /\ spent'.readings <= 1

SiteNext ==
    /\ EvacuationNext /\ UNCHANGED part
    /\ part # "officers" => UNCHANGED command /\ spent'.corrections = 0
    /\ part # "overlap" => \A p \in Ingests \ {p1} : ingest'[p] = Idle
    /\ part = "officers" => Short
    /\ part = "overlap" => OneWorker
    /\ part = "tags" => spent'.readings <= TagReadings

SiteSpec == SiteInit /\ [][SiteNext]_siteVars /\ SweepFairness
=============================================================================
