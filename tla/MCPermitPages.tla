---------------------------- MODULE MCPermitPages ----------------------------
(***************************************************************************)
(* The two sides of a permit's page: the crew of a draft, chosen among     *)
(* workers whose documents change, or the console with its buttons, from a *)
(* signed page on.  A behaviour follows one side; the other stays as it is *)
(* at first.  The console is followed with reloads of the page and one     *)
(* transaction at a time, or with transactions that overlap and no reload. *)
(***************************************************************************)
EXTENDS PermitConsole, CrewReadiness, TLC

VARIABLE side

permitVars == <<consoleVars, docVars, crewVars, side>>

HotAndCold == [hot |-> {"welder"}, cold |-> {"helper"}]

MandatoryWelder == [hot |-> {"welder"}, cold |-> {}]

MedicalFitness ==
    [hot  |-> [welder |-> {[doc |-> "medical", verified |-> TRUE]}, helper |-> {}],
     cold |-> [helper |-> {[doc |-> "medical", verified |-> FALSE]}, welder |-> {}]]

OneOf(S) == CHOOSE x \in S : TRUE

PermitInit ==
    /\ side \in {"console", "overlap", "crew"}
    /\ ConsoleInit
    /\ side = "overlap" => crewed
    /\ side = "crew" => row = OneOf(Opened) /\ docs /\ pass = Never /\ ~crewed /\ ~ticked
    /\ CrewInit

OneAtATime ==
    \A t \in Writers : loaded[t] # Idle =>
        writing = Idle /\ \A u \in Writers \ {t} : loaded[u] = Idle

PermitNext ==
    \/ side = "console" /\ ConsoleNext /\ OneAtATime' /\ UNCHANGED <<docVars, crewVars, side>>
    \/ side = "overlap" /\ ConsoleNext /\ UNCHANGED <<reads, docs, crewed, docVars, crewVars, side>>
    \/ side = "crew" /\ CrewNext /\ UNCHANGED <<consoleVars, side>>

PermitSpec == PermitInit /\ [][PermitNext]_permitVars

(* The documents are alike.                                                *)
DocSymmetry == Permutations(Docs)
=============================================================================
