------------------------------- MODULE Evacuation ------------------------------
(***************************************************************************)
(* The evacuation reports of EvacuationService over the live positions:    *)
(* an officer triggers, which freezes who is on site into a roster; the    *)
(* requests that process readings account for the workers they see at a    *)
(* muster point or leaving by a gate; officers account by hand and close.  *)
(* Every request of an officer reads first and writes later.               *)
(***************************************************************************)
EXTENDS Positions

CONSTANTS Officers, MaxReports   \* requests of officers, and a bound of the reports

ASSUME EvacuationAssumption == MaxReports \in Nat

VARIABLES
    reports,    \* evacuation_reports with their entries
    found,      \* what a request that processes a reading is about to account
    command,    \* the request of each officer, with what it read
    overtaken   \* history: what another request wrote since one that processes a
                \* reading looked: "row" the row it loaded, "log" a passage of its worker

evacuationVars == <<reports, found, command>>
vars == <<positionVars, evacuationVars, overtaken>>

(* An entry is "absent" for a worker who is not on the roster. *)
Entry == {"absent", "unaccounted", "muster_reader", "gate_exit", "manual"}
Nothing == [step |-> "nothing"]

Report == [status : {"open", "closed"}, forced : BOOLEAN, noted : BOOLEAN, roster : [Crew -> Entry]]

(* What a request is about to account, and the requests of the officers. *)
Found == [step : {"tick"}, report : DOMAIN reports, source : Entry \ {"absent", "unaccounted"}]
Request ==
    {Nothing} \cup [step : {"trigger"}]
    \cup [step : {"mark"}, report : DOMAIN reports, worker : Crew]
    \cup [step : {"count"}, report : DOMAIN reports, force : BOOLEAN, note : BOOLEAN]
    \cup [step : {"close"}, report : DOMAIN reports, note : BOOLEAN, forced : BOOLEAN]

(* Every value has its type, and a request that is about to account for a      *)
(* worker knows the entry (EvacuationService, autoAccountEvacuation).          *)
EvacuationTypeOK ==
    /\ PositionsTypeOK
    /\ reports \in Seq(Report)
    /\ found \in [Ingests -> {Nothing} \cup Found]
    /\ \A p \in Ingests : ingest[p].step = "tick" => found[p] \in Found
    /\ command \in [Officers -> Request]
    /\ overtaken \in [Ingests -> SUBSET {"row", "log"}]

EvacuationInit ==
    /\ PositionsInit
    /\ reports = <<>>
    /\ found = [p \in Ingests |-> Nothing]
    /\ command = [o \in Officers |-> Nothing]
    /\ overtaken = [p \in Ingests |-> {}]

Open(r) == reports[r].status = "open"
OpenReports == {r \in DOMAIN reports : Open(r)}

-----------------------------------------------------------------------------
(* autoAccountEvacuation, the end of a request that processes a reading.   *)
-----------------------------------------------------------------------------
Source(p) ==
    CASE ingest[p].zone = "muster" -> "muster_reader"
      [] ingest[p].zone = "gate" /\ ~ingest[p].held.onSite -> "gate_exit"
      [] OTHER -> "none"

(* The newest open report, where the worker is not accounted for. *)
EntryToTick(p) ==
    {r \in OpenReports : /\ \A q \in OpenReports : q <= r
                         /\ reports[r].roster[ingest[p].worker] = "unaccounted"}

LookUpEntry(p) ==
    /\ ingest[p].step = "account"
    /\ IF EntryToTick(p) = {} \/ Source(p) = "none"
       THEN End(p) /\ UNCHANGED found
       ELSE \E r \in EntryToTick(p) :
              /\ Goto(p, "tick")
              /\ found' = [found EXCEPT ![p] =
                   [step |-> "tick", report |-> r, source |-> Source(p)]]
    /\ UNCHANGED <<rows, lastRow, logs, present, crowded, spent, reports, command>> /\ Only(p)

SetEntry(r, w, to) == reports' = [reports EXCEPT ![r].roster[w] = to]

TickEntry(p) ==
    /\ ingest[p].step = "tick" /\ End(p)
    /\ SetEntry(found[p].report, ingest[p].worker, found[p].source)
    /\ found' = [found EXCEPT ![p] = Nothing]
    /\ UNCHANGED <<rows, lastRow, logs, present, crowded, spent, command>> /\ Only(p)

DieAny(p) == Die(p) /\ found' = [found EXCEPT ![p] = Nothing] /\ UNCHANGED <<reports, command>>

-----------------------------------------------------------------------------
(* The requests of the officers.                                           *)
-----------------------------------------------------------------------------
Ask(o, request) == command' = [command EXCEPT ![o] = request]
Asked(o, step) == command[o].step = step

(* trigger finds no open report ... *)
AskTrigger(o) ==
    /\ command[o] = Nothing /\ OpenReports = {}
    /\ Len(reports) + Cardinality({q \in Officers : Asked(q, "trigger")}) < MaxReports
    /\ Ask(o, [step |-> "trigger"])
    /\ UNCHANGED <<reports, found>>

OnSite == {i \in DOMAIN rows : rows[i].onSite}

(* ... and creates one, with the workers who are on site.  The index on report
   and worker refuses a worker twice, and the transaction is undone. *)
Trigger(o) ==
    /\ Asked(o, "trigger") /\ Ask(o, Nothing)
    /\ IF \E i, j \in OnSite : i # j /\ rows[i].worker = rows[j].worker
       THEN UNCHANGED reports
       ELSE reports' = Append(reports, [status |-> "open", forced |-> FALSE, noted |-> FALSE,
              roster |-> [w \in Crew |-> IF \E i \in OnSite : rows[i].worker = w
                                         THEN "unaccounted" ELSE "absent"]])
    /\ UNCHANGED found

(* accountManual: the entry as it is loaded with the request, its report open. *)
AskMark(o) ==
    /\ command[o] = Nothing
    /\ \E r \in OpenReports, w \in Crew :
         /\ reports[r].roster[w] = "unaccounted"
         /\ Ask(o, [step |-> "mark", report |-> r, worker |-> w])
    /\ UNCHANGED <<reports, found>>

Mark(o) ==
    /\ Asked(o, "mark") /\ Ask(o, Nothing)
    /\ SetEntry(command[o].report, command[o].worker, "manual")
    /\ UNCHANGED found

(* close: the report is loaded, its entries are counted, it is written. *)
AskClose(o) ==
    /\ command[o] = Nothing
    /\ \E r \in OpenReports, force, note \in BOOLEAN :
         Ask(o, [step |-> "count", report |-> r, force |-> force, note |-> note])
    /\ UNCHANGED <<reports, found>>

(* Mutant of Missing: the entries of the newest report are counted. *)
MissingNewest(r) == \E w \in Crew : reports[Len(reports)].roster[w] = "unaccounted"

Missing(r) == \E w \in Crew : reports[r].roster[w] = "unaccounted"

Count(o) ==
    /\ Asked(o, "count")
    /\ LET c == command[o]
           refused == (Missing(c.report) /\ ~c.force) \/ (c.force /\ ~c.note)
       IN Ask(o, IF refused THEN Nothing
                 ELSE [step |-> "close", report |-> c.report, note |-> c.note,
                       forced |-> c.force /\ Missing(c.report)])
    /\ UNCHANGED <<reports, found>>

(* The columns that differ from the report as it was loaded, open and with
   neither force nor note. *)
ClosedAs(report, c) ==
    [report EXCEPT !.status = "closed", !.forced = c.forced \/ @, !.noted = c.note \/ @]

Close(o) ==
    /\ Asked(o, "close") /\ Ask(o, Nothing)
    /\ reports' = [reports EXCEPT ![command[o].report] = ClosedAs(@, command[o])]
    /\ UNCHANGED found

-----------------------------------------------------------------------------
(* In this step another request than q saves the row that q holds, or logs a
   passage of the worker of q, who has looked for one. *)
Ends(p, step) == ingest[p].step = step /\ ingest'[p].step # step
Overtakes(q) ==
    {what \in {"row", "log"} :
       \E p \in Ingests \ {q} :
         IF what = "row"
         THEN Ends(p, "save") /\ ingest[p].row = ingest[q].row /\ rows' # rows
         ELSE /\ Ends(p, "log") /\ ingest[p].worker = ingest[q].worker /\ logs' # logs
              /\ ingest[q].step = "log"}

Witness ==
    overtaken' = [q \in Ingests |-> IF ingest'[q].step \in {"gate", "log", "save"}
                                    THEN overtaken[q] \cup Overtakes(q) ELSE {}]

IngestStep ==
    /\ \E p \in Ingests :
         \/ (Receive(p) \/ Find(p) \/ Create(p) \/ Gate(p) \/ LogPassage(p) \/ Save(p) \/ Rules(p))
            /\ UNCHANGED evacuationVars
         \/ LookUpEntry(p) \/ TickEntry(p) \/ DieAny(p)
    /\ Witness

SweepStep == (SweepStart \/ SweepRow \/ SweepLog) /\ UNCHANGED <<evacuationVars, overtaken>>

OfficerStep ==
    /\ \E o \in Officers :
         \/ AskTrigger(o) \/ Trigger(o) \/ AskMark(o) \/ Mark(o)
         \/ AskClose(o) \/ Count(o) \/ Close(o)
    /\ UNCHANGED <<positionVars, overtaken>>

EvacuationNext ==
    \/ IngestStep \/ SweepStep \/ OfficerStep
    \/ /\ Tick \/ Correct \/ CorrectRow \/ Assign \/ Unassign \/ Replace
       /\ UNCHANGED <<evacuationVars, overtaken>>

EvacuationSpec == EvacuationInit /\ [][EvacuationNext]_vars

(* The scheduler runs the sweep every hour, and a sweep that began goes on. *)
SweepFairness == WF_vars(SweepStep)

-----------------------------------------------------------------------------
(* Doc 09:255, "requires zero unaccounted, OR force": a report is closed with  *)
(* everyone on its roster accounted for, or was forced with a note, though     *)
(* the count is taken before the report is written, while readings and other   *)
(* officers account, and close it too (EvacuationService::close).              *)
ClosedAccounted ==
    \A r \in DOMAIN reports :
      reports[r].status = "closed" =>
        \/ reports[r].forced /\ reports[r].noted
        \/ \A w \in Crew : reports[r].roster[w] # "unaccounted"

(* Doc 09:40, "One assigned tag per worker", who has its row: whoever assigns, *)
(* replaces and takes back tags while readings create and move rows, a tag     *)
(* that is worn has one row, of its wearer, and a worker wears one.            *)
AssignedTracked ==
    /\ \A t \in Tags : tags[t].status = "assigned" =>
         \E i \in DOMAIN rows : RowsOf(t) = {i} /\ rows[i].worker = tags[t].worker
    /\ \A w \in Crew, s, t \in Tags : s \in WornBy(w) /\ t \in WornBy(w) => s = t

Passes(p) == ingest[p].step = "log" /\ ingest'[p].step = "save"
LoggedApart ==
    \A i, j \in DOMAIN logs' :
      /\ logs'[i].worker = logs'[j].worker /\ {logs'[i].source, logs'[j].source} = {"gate"}
      /\ i \in DOMAIN logs /\ j \notin DOMAIN logs
      => logs'[j].at - logs'[i].at >= Debounce

(* Doc 09:175, the debounce: a worker who lingers at the gate does not go in   *)
(* and out.  A passage is logged as far from all that were logged before it as *)
(* the debounce, whatever order the readings come in, however tags change      *)
(* hands, and wherever a request dies: only a request that another one         *)
(* overtook, after it had looked for the last passage, may log one too close   *)
(* (TrackingService::applyGateLogic).                                          *)
PassagesApart == [][\A p \in Ingests : Passes(p) => "log" \in overtaken[p] \/ LoggedApart]_vars

Saves(p) == ingest[p].step = "save" /\ ingest'[p] # ingest[p]
Forward == \A i \in DOMAIN rows \cap DOMAIN rows' : rows'[i].seen >= rows[i].seen

(* Doc 09:56, "advances forward only": no reading sets a row back to an older  *)
(* one (the desk that assigns the tag anew does), unless another request saved *)
(* the row after this one had loaded it: whatever the desk, the sweep and      *)
(* corrections write to it meanwhile (TrackingService::advanceLiveState).      *)
SeenForward == [][\A p \in Ingests : Saves(p) => "row" \in overtaken[p] \/ Forward]_vars

(* Doc 09:183, "auto-resolves when the count drops back under": with no request *)
(* at work the alert of the bay is live only while the bay is too full.         *)
CrowdedOnlyWhenFull ==
    (\A p \in Ingests : ingest[p] = Idle) /\ crowded => Occupants > Limit

(* Doc 09:222, the absence sweep: a worker whose tag is unseen for so long is   *)
(* not counted on site for ever; the row is swept, seen again or taken away.    *)
AbsentSwept ==
    \A i \in RowIds :
      (i \in DOMAIN rows /\ Unseen(i)) ~> ~(i \in DOMAIN rows /\ Unseen(i))
=============================================================================
