---------------------------- MODULE IncidentRecords ----------------------------
(***************************************************************************)
(* One HSE incident: IncidentService, which loads the incident with the    *)
(* request, checks its status and saves what changed, without a lock, and  *)
(* the detail page of every officer (incidents/show.tsx) with the buttons  *)
(* its status offers.                                                      *)
(***************************************************************************)
EXTENDS Naturals, FiniteSets

CONSTANTS
    Officers,  \* the users with the page open
    Workers,   \* workers a classification may name
    MaxPosted  \* bound of the requests sent

ASSUME IncidentAssumption == IsFiniteSet(Officers) /\ MaxPosted \in Nat

VARIABLES
    incident,      \* status; whether type, severity and actions are set; the note
    involved,      \* the curated personnel
    notes,         \* whether evidence was attached after the incident was closed
    seen,          \* the incident as the page of each officer has it
    pickedWorker,  \* the involved worker chosen on each page
    posted,        \* requests at the server
    sentCalls

incidentVars == <<incident, involved, notes, seen, pickedWorker, posted, sentCalls>>

Nobody == "nobody"
IncidentStatuses == {"open", "under_review", "classified", "closed"}
Record == [status : IncidentStatuses, classified : BOOLEAN, note : BOOLEAN]
Operations == {"classify", "reopen", "close", "dismiss", "attach"}

Call == [officer : Officers, op : Operations, worker : Workers \cup {Nobody},
         loaded : Record, phase : {"asked", "loaded"}]

(* A manual incident is open; one from an alert is under review. *)
IncidentInit ==
    /\ incident \in [status : {"open", "under_review"}, classified : {FALSE},
                     note : {FALSE}]
    /\ involved = {} /\ notes = FALSE
    /\ seen = [o \in Officers |-> incident]
    /\ pickedWorker = [o \in Officers |-> Nobody]
    /\ posted = {} /\ sentCalls = 0

-----------------------------------------------------------------------------
(* The page.                                                               *)

Reviewable == {"open", "under_review"}

(* canClassifyNow, canReopen, canCloseClassified, canFalseAlarmClose, and the
   note form of an incident that is not closed. *)
ButtonsFor(op) ==
    CASE op \in {"classify", "dismiss"} -> Reviewable
      [] op \in {"reopen", "close"} -> {"classified"}
      [] op = "attach" -> IncidentStatuses \ {"closed"}

Choose(o, w) ==
    /\ seen[o].status \in Reviewable /\ w # pickedWorker[o]
    /\ pickedWorker' = [pickedWorker EXCEPT ![o] = w]
    /\ UNCHANGED <<incident, involved, notes, seen, posted, sentCalls>>

(* Each form disables its own button while it is processing. *)
PressAction(o, op) ==
    /\ seen[o].status \in ButtonsFor(op) /\ sentCalls < MaxPosted
    /\ \A c \in posted : ~ (c.officer = o /\ c.op = op)
    /\ sentCalls' = sentCalls + 1
    /\ posted' = posted \cup {[officer |-> o, op |-> op, worker |-> pickedWorker[o],
                             loaded |-> incident, phase |-> "asked"]}
    /\ UNCHANGED <<incident, involved, notes, seen, pickedWorker>>

-----------------------------------------------------------------------------
(* IncidentService.                                                        *)

LoadIncident(c) ==
    /\ c.phase = "asked"
    /\ posted' = (posted \ {c}) \cup {[c EXCEPT !.loaded = incident, !.phase = "loaded"]}
    /\ UNCHANGED <<incident, involved, notes, seen, pickedWorker, sentCalls>>

(* Mutant of Allowed: classify does not assert the transition. *)
AllowedAlways(op, status) ==
    CASE op = "classify" -> TRUE
      [] op = "reopen" -> status = "classified"
      [] op = "close" -> status = "classified"
      [] OTHER -> status # "closed"

(* What the loaded status allows; to close a closed incident does nothing. *)
Allowed(op, status) ==
    CASE op = "classify" -> status \in Reviewable \cup {"classified"}
      [] op = "reopen" -> status = "classified"
      [] op = "close" -> status = "classified"
      [] OTHER -> status # "closed"

(* Mutant of Saved: a reopened incident loses its classification. *)
SavedReset(c) ==
    CASE c.op = "classify" -> [incident EXCEPT !.status = "classified", !.classified = TRUE]
      [] c.op = "reopen" -> [incident EXCEPT !.status = "under_review", !.classified = FALSE]
      [] c.op = "close" -> [incident EXCEPT !.status = "closed"]
      [] c.op = "dismiss" -> [incident EXCEPT !.status = "closed", !.note = TRUE]
      [] OTHER -> incident

(* save() writes the attributes that differ from the loaded ones.  With the
   note of a false alarm the server closes whatever status it loaded. *)
Saved(c) ==
    CASE c.op = "classify" ->
            [incident EXCEPT !.status = IF c.loaded.status = "classified" THEN @
                                        ELSE "classified", !.classified = TRUE]
      [] c.op = "reopen" -> [incident EXCEPT !.status = "under_review"]
      [] c.op = "close" -> [incident EXCEPT !.status = "closed"]
      [] c.op = "dismiss" -> [incident EXCEPT !.status = "closed", !.note = TRUE]
      [] OTHER -> incident

(* syncCuratedPersonnel: the one worker of the form, or none, replaces the
   curated personnel. *)
Curated(c) == IF c.op # "classify" THEN involved
              ELSE IF c.worker = Nobody THEN {} ELSE {c.worker}

(* A request that loaded a status its transition allows saves, the others are
   refused; both answers bring the page the incident as it is. *)
SaveIncident(c) ==
    /\ c.phase = "loaded" /\ posted' = posted \ {c}
    /\ IF Allowed(c.op, c.loaded.status)
       THEN /\ incident' = Saved(c) /\ involved' = Curated(c)
            /\ notes' = (notes \/ (c.op = "attach" /\ incident.status = "closed"))
       ELSE UNCHANGED <<incident, involved, notes>>
    /\ seen' = [seen EXCEPT ![c.officer] = incident']
    /\ UNCHANGED <<pickedWorker, sentCalls>>

(* The page is opened anew: the classification starts with nobody chosen. *)
RevisitIncident(o) ==
    /\ \A c \in posted : c.officer # o
    /\ seen' = [seen EXCEPT ![o] = incident] /\ pickedWorker' = [pickedWorker EXCEPT ![o] = Nobody]
    /\ UNCHANGED <<incident, involved, notes, posted, sentCalls>>

IncidentNext ==
    \/ \E o \in Officers :
          \/ \E w \in Workers \cup {Nobody} : Choose(o, w)
          \/ \E op \in Operations : PressAction(o, op)
          \/ RevisitIncident(o)
    \/ \E c \in posted : LoadIncident(c) \/ SaveIncident(c)

IncidentSpec == IncidentInit /\ [][IncidentNext]_incidentVars

-----------------------------------------------------------------------------
(* Types; an incident is never worked on by more requests than were sent. *)
IncidentTypeOK ==
    /\ incident \in Record /\ involved \subseteq Workers
    /\ seen \in [Officers -> Record]
    /\ pickedWorker \in [Officers -> Workers \cup {Nobody}]
    /\ posted \subseteq Call /\ Cardinality(posted) <= sentCalls
    /\ Cardinality(involved) <= 1
    /\ notes \in BOOLEAN

(* Doc 14:139, "This keeps the 'every incident has an action taken'          *)
(* guarantee": an incident that is closed was classified with its actions,   *)
(* or closed with a note, whatever officers classify, reopen and close at    *)
(* the same time from incidents they loaded before (IncidentService:close).  *)
ClosedIsAccounted ==
    /\ incident.status = "closed" => incident.classified \/ incident.note
    /\ incident.status = "classified" => incident.classified

(* Nothing that reaches the server after an incident was closed opens it     *)
(* again; only a request that had loaded it before can (assertTransition).   *)
ClosedIsFinal ==
    [][incident.status = "closed" /\ incident'.status # "closed"
       => \E c \in posted \ posted' : c.phase = "loaded" /\ c.loaded.status # "closed"]_incidentVars

(* A closed incident is accounted for, and only a request that loaded it    *)
(* before it was closed can open it again.                                 *)
ClosedStands == [](IncidentTypeOK /\ ClosedIsAccounted) /\ ClosedIsFinal
=============================================================================
