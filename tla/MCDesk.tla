------------------------------- MODULE MCDesk -------------------------------
(***************************************************************************)
(* The desk of the control room and of the safety officer: the alert       *)
(* console, the dashboard, the editor of a camera's red zones, the review  *)
(* of violations, an incident or a log is open.  They share nothing; a     *)
(* behaviour follows one of them and leaves the others as they are at      *)
(* first.                                                                  *)
(***************************************************************************)
EXTENDS AlertConsole, DashboardLive, RedZones, ViolationReview, IncidentRecords,
        LogDrafts, TLC

VARIABLE tab

deskVars == <<consoleVars, dashVars, zonesVars, reviewVars, incidentVars, draftVars, tab>>

OneOf(S) == CHOOSE x \in S : TRUE

DeskInit ==
    /\ tab \in {"alerts", "dashboard", "zones", "violations", "incident", "log"}
    /\ ConsoleInit /\ (tab # "alerts" => unlocked)
    /\ DashInit
    /\ ZonesInit
    /\ ReviewInit /\ (tab # "violations" => listing = OneOf(PageOf(Violations)))
    /\ IncidentInit /\ (tab # "incident" => incident.status = "open")
    /\ DraftsInit /\ (tab # "log" => kind = "vehicle")

DeskNext ==
    \/ /\ tab = "alerts" /\ ConsoleNext
       /\ UNCHANGED <<dashVars, zonesVars, reviewVars, incidentVars, draftVars, tab>>
    \/ /\ tab = "dashboard" /\ DashNext
       /\ UNCHANGED <<consoleVars, zonesVars, reviewVars, incidentVars, draftVars, tab>>
    \/ /\ tab = "zones" /\ ZonesNext
       /\ UNCHANGED <<consoleVars, dashVars, reviewVars, incidentVars, draftVars, tab>>
    \/ /\ tab = "violations" /\ ReviewNext
       /\ UNCHANGED <<consoleVars, dashVars, zonesVars, incidentVars, draftVars, tab>>
    \/ /\ tab = "incident" /\ IncidentNext
       /\ UNCHANGED <<consoleVars, dashVars, zonesVars, reviewVars, draftVars, tab>>
    \/ /\ tab = "log" /\ DraftsNext
       /\ UNCHANGED <<consoleVars, dashVars, zonesVars, reviewVars, incidentVars, tab>>

DeskSpec == DeskInit /\ [][DeskNext]_deskVars

(* The alerts of the dashboard are alike.                                  *)
FeedSymmetry == Permutations(FeedAlerts)
=============================================================================
