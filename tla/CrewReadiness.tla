---------------------------- MODULE CrewReadiness ----------------------------
(***************************************************************************)
(* The crew of a permit and the documents it needs.  A receiver fills the  *)
(* crew rows of the request page (permits/create.tsx) or of the draft      *)
(* (permits/show.tsx); both offer only workers that were ready for the     *)
(* role when the page was read.  PermitService asks for the documents      *)
(* again when the crew is saved, on submit, issue and renewal.  Inspection,*)
(* gas tests and approval between submit and issue are PermitLifecycle's.  *)
(***************************************************************************)
EXTENDS WorkerDocuments, Sequences, SequencesExt

CONSTANTS
    PermitTypes,   \* active permit types
    CrewRoles,     \* permit type -> its roles
    Mandatory,     \* permit type -> the roles of which at least one is needed
    Requirements,  \* permit type -> role -> [doc, verified] needed
    MaxCrew        \* bound of the crew rows of a form

ASSUME CrewAssumption ==
    /\ Mandatory \in [PermitTypes -> SUBSET UNION {CrewRoles[t] : t \in PermitTypes}]
    /\ MaxCrew \in Nat \ {0}

VARIABLES
    permit,       \* the permit, or NoPermit
    crewForm,     \* the page with its crew rows, or Away
    ready         \* the workers, by role, that the page shows as ready

crewVars == <<permit, crewForm, ready>>

NoPermit == [status |-> "none"]
Away     == [at |-> "away"]
Nobody   == "nobody"
NoRole   == "no role"
BlankRow == [role |-> NoRole, worker |-> Nobody]

AllRoles == UNION {CrewRoles[t] : t \in PermitTypes}
Person   == [role : AllRoles, worker : Workers]
CrewRow  == [role : AllRoles \cup {NoRole}, worker : Workers \cup {Nobody}]

Permit == [status : {"draft", "pending", "active", "suspended", "rejected"},
           type : PermitTypes, crew : SUBSET Person, renewals : 0..1]

CrewTypeOK ==
    /\ DocumentsTypeOK
    /\ permit \in Permit \cup {NoPermit}
    /\ \/ crewForm = Away
       \/ /\ crewForm.at \in {"create", "show"} /\ crewForm.type \in PermitTypes
          /\ crewForm.rows \in BoundedSeq(CrewRow, MaxCrew) /\ crewForm.rows # <<>>
    /\ ready \subseteq Person

-----------------------------------------------------------------------------
(* Readiness.  Where equal documents may be looked at in any order, a worker *)
(* may be found ready or not.                                                *)

MayBeReady(p, t) ==
    \A req \in Requirements[t][p.role] :
       \E d \in Considered(p.worker, req.doc) : Fulfils(d, req)

SurelyReady(p, t) ==
    \A req \in Requirements[t][p.role] :
       LET looks == Considered(p.worker, req.doc)
       IN  looks # {} /\ \A d \in looks : Fulfils(d, req)

Of(t) == {p \in Person : p.role \in CrewRoles[t]}

(* The deferred prop "workers", read for the type the page is about. *)
ReadWorkers(t) ==
    LET sure == {p \in Of(t) : SurelyReady(p, t)}
        open == {p \in Of(t) : MayBeReady(p, t)} \ sure
    IN  \E some \in SUBSET open : ready' = sure \cup some

-----------------------------------------------------------------------------
(* The form.                                                               *)

FormChanges(rows) ==
    /\ crewForm' = [crewForm EXCEPT !.rows = rows]
    /\ UNCHANGED <<permit, ready>> /\ UNCHANGED docVars

OpenCreate(t) ==
    /\ crewForm = Away /\ permit = NoPermit
    /\ crewForm' = [at |-> "create", type |-> t, rows |-> <<BlankRow>>]
    /\ ReadWorkers(t)
    /\ UNCHANGED permit /\ UNCHANGED docVars

StoredRows == IF permit.crew = {} THEN <<BlankRow>> ELSE SetToSeq(permit.crew)

OpenShow ==
    /\ crewForm = Away /\ permit.status \in {"draft", "rejected"}
    /\ crewForm' = [at |-> "show", type |-> permit.type, rows |-> StoredRows]
    /\ ReadWorkers(permit.type)
    /\ UNCHANGED permit /\ UNCHANGED docVars

LeavePage ==
    /\ crewForm # Away
    /\ crewForm' = Away
    /\ UNCHANGED <<permit, ready>> /\ UNCHANGED docVars

(* The page asks for its props again, after an event of the permit. *)
ReloadPage ==
    /\ crewForm # Away /\ crewForm.at = "show"
    /\ ReadWorkers(crewForm.type)
    /\ UNCHANGED <<permit, crewForm>> /\ UNCHANGED docVars

(* Mutant of ChooseType: the crew rows stay. *)
ChooseTypeKeeps(t) ==
    /\ crewForm # Away /\ crewForm.at = "create" /\ t # crewForm.type
    /\ crewForm' = [crewForm EXCEPT !.type = t]
    /\ ReadWorkers(t)
    /\ UNCHANGED permit /\ UNCHANGED docVars

(* The prop holds every type, so nothing is read again; it is read anew here
   because only the pairs of one type are kept. *)
ChooseType(t) ==
    /\ crewForm # Away /\ crewForm.at = "create" /\ t # crewForm.type
    /\ crewForm' = [crewForm EXCEPT !.type = t, !.rows = <<BlankRow>>]
    /\ ReadWorkers(t)
    /\ UNCHANGED permit /\ UNCHANGED docVars

AddRow ==
    /\ crewForm # Away /\ Len(crewForm.rows) < MaxCrew
    /\ FormChanges(Append(crewForm.rows, BlankRow))

RemoveRow(i) ==
    /\ crewForm # Away /\ i \in DOMAIN crewForm.rows
    /\ Len(crewForm.rows) > 1
    /\ FormChanges(RemoveAt(crewForm.rows, i))

(* A new role empties the worker of its row. *)
ChooseRole(i, r) ==
    /\ crewForm # Away /\ i \in DOMAIN crewForm.rows
    /\ r \in CrewRoles[crewForm.type] \cup {NoRole}
    /\ FormChanges([crewForm.rows EXCEPT ![i] = [role |-> r, worker |-> Nobody]])

ChooseWorker(i, w) ==
    /\ crewForm # Away /\ i \in DOMAIN crewForm.rows
    /\ crewForm.rows[i].role # NoRole
    /\ w = Nobody \/ [role |-> crewForm.rows[i].role, worker |-> w] \in ready
    /\ FormChanges([crewForm.rows EXCEPT ![i].worker = w])

(* The rows that are sent: all but the blank ones. *)
PostedRows == {i \in DOMAIN crewForm.rows : crewForm.rows[i] # BlankRow}
PostedCrew == {crewForm.rows[i] : i \in PostedRows}

Named(rows) == {row \in ToSet(rows) : row.role # NoRole /\ row.worker # Nobody}

-----------------------------------------------------------------------------
(* The server.                                                             *)

(* Every row names a role and a worker, and none twice: the table has a unique
   index. *)
WellFormed ==
    /\ PostedCrew \subseteq Named(crewForm.rows)
    /\ \A i, j \in PostedRows : crewForm.rows[i] = crewForm.rows[j] => i = j

Saved(t) == WellFormed /\ \A p \in PostedCrew : MayBeReady(p, t)

MayRefuse(t) == ~ WellFormed \/ \E p \in Named(crewForm.rows) : ~ SurelyReady(p, t)

(* Mutant of RolledBack: what was written before the refusal stays. *)
WrittenSoFar(old, t) == {p \in Named(crewForm.rows) : SurelyReady(p, t)}

(* updateDraft deletes the crew and writes the rows one by one; the transaction
   of a refused save leaves the crew as it was. *)
RolledBack(old, t) == old

CreateDraft ==
    /\ crewForm # Away /\ crewForm.at = "create" /\ permit = NoPermit
    /\ Saved(crewForm.type)
    /\ permit' = [status |-> "draft", type |-> crewForm.type, renewals |-> 0,
                  crew |-> PostedCrew]
    /\ crewForm' = [at |-> "show", type |-> crewForm.type,
                    rows |-> IF permit'.crew = {} THEN <<BlankRow>>
                             ELSE SetToSeq(permit'.crew)]
    /\ ReadWorkers(crewForm.type)
    /\ UNCHANGED docVars

UpdateDraft ==
    /\ crewForm # Away /\ crewForm.at = "show"
    /\ permit.status \in {"draft", "rejected"}
    /\ \/ /\ Saved(permit.type)
          /\ permit' = [permit EXCEPT !.crew = PostedCrew]
       \/ /\ MayRefuse(permit.type)
          /\ permit' = [permit EXCEPT !.crew = RolledBack(@, permit.type)]
    /\ ReadWorkers(crewForm.type)
    /\ UNCHANGED crewForm /\ UNCHANGED docVars

(* A request that is refused, and a save that comes after the permit left the
   draft: the rows stay, the props are read again. *)
SaveRefused ==
    /\ crewForm # Away
    /\ IF crewForm.at = "create" THEN MayRefuse(crewForm.type)
       ELSE permit.status \notin {"draft", "rejected"}
    /\ ReadWorkers(crewForm.type)
    /\ UNCHANGED <<permit, crewForm>> /\ UNCHANGED docVars

Staffed(crew, t) == \A r \in Mandatory[t] : \E p \in crew : p.role = r

(* Mutant of Checked: nobody asks for the documents. *)
CheckedRoles(p) == Staffed(p.crew, p.type)

(* assertMandatoryRoles and assertAllPersonnelDocuments of the stored crew. *)
Checked(p) ==
    /\ Staffed(p.crew, p.type)
    /\ \A person \in p.crew : MayBeReady(person, p.type)

(* The button is offered when the rows of the form have no blocker; the server
   looks at the stored crew. *)
SubmitPermit ==
    /\ crewForm # Away /\ crewForm.at = "show"
    /\ permit.status \in {"draft", "rejected"}
    /\ LET shown == Named(crewForm.rows) IN
       /\ Staffed(shown, crewForm.type) /\ shown # {} /\ shown \subseteq ready
    /\ Checked(permit)
    /\ permit' = [permit EXCEPT !.status = "pending"]
    /\ UNCHANGED <<crewForm, ready>> /\ UNCHANGED docVars

PermitMoves(from, to) ==
    /\ permit.status = from
    /\ permit' = [permit EXCEPT !.status = to]
    /\ UNCHANGED <<crewForm, ready>> /\ UNCHANGED docVars

Issue == permit.status = "pending" /\ Checked(permit) /\ PermitMoves("pending", "active")

Reject == PermitMoves("pending", "rejected")

Suspend == PermitMoves("active", "suspended")

(* resume looks at the gas test only. *)
Resume == PermitMoves("suspended", "active")

(* renew asks for the documents, not for the roles. *)
Renew ==
    /\ permit.status = "active" /\ permit.renewals = 0
    /\ \A person \in permit.crew : MayBeReady(person, permit.type)
    /\ permit' = [permit EXCEPT !.renewals = 1]
    /\ UNCHANGED <<crewForm, ready>> /\ UNCHANGED docVars

CrewInit ==
    /\ DocumentsInit
    /\ permit = NoPermit /\ crewForm = Away /\ ready = {}

CrewNext ==
    \/ DocumentsNext /\ UNCHANGED crewVars
    \/ \E t \in PermitTypes : OpenCreate(t) \/ ChooseType(t)
    \/ OpenShow \/ LeavePage \/ ReloadPage \/ AddRow
    \/ \E i \in 1..MaxCrew :
          \/ RemoveRow(i)
          \/ \E r \in AllRoles \cup {NoRole} : ChooseRole(i, r)
          \/ \E w \in Workers \cup {Nobody} : ChooseWorker(i, w)
    \/ CreateDraft \/ UpdateDraft \/ SaveRefused \/ SubmitPermit
    \/ Issue \/ Reject \/ Suspend \/ Resume \/ Renew

CrewSpec == CrewInit /\ [][CrewNext]_<<docVars, crewVars>>

-----------------------------------------------------------------------------
(* Properties.                                                             *)

Holds(p, req) ==
    \E d \in DocumentsOf(p.worker, req.doc) : InDate(d) /\ Fulfils(d, req)

(* Doc 22, "Issue / renew: re-run the check for every permit_personnel row".
   When a permit is issued or renewed, everybody on it holds in date what the
   role requires, however long ago the crew was saved and whatever happened to
   the documents since. *)
IssuedCrewReady ==
    [][/\ permit # NoPermit
       /\ \/ permit.status = "pending" /\ permit'.status = "active"
          \/ permit'.renewals > permit.renewals
       => \A p \in permit.crew : \A req \in Requirements[permit.type][p.role] :
             Holds(p, req)]_<<docVars, crewVars>>

(* updateDraft deletes the crew before it adds the posted rows: a crew that
   changes becomes exactly the posted one, and only before submission. *)
SaveIsWhole ==
    [][permit # NoPermit /\ permit'.crew # permit.crew
       => /\ permit'.crew = PostedCrew
          /\ permit.status \in {"draft", "rejected"}]_<<docVars, crewVars>>

(* The server takes any role code; that nobody is on a permit in a role of
   another type, for which no document would be asked, is up to the page. *)
CrewOfType == permit # NoPermit => permit.crew \subseteq Of(permit.type)

(* The panel and the permit gate read the documents by different rules: who may
   fill a role shows a verified badge for all the role wants verified. *)
ReadyShowsVerified ==
    \A t \in PermitTypes : \A p \in Of(t) :
       MayBeReady(p, t)
       => \A req \in Requirements[t][p.role] :
             req.verified => Badge(p.worker, req.doc) = {"verified"}

(* A permit has the crew that was saved, of its type, chosen among workers whose
   panel shows them verified. *)
CrewAsSaved == [](CrewTypeOK /\ CrewOfType /\ ReadyShowsVerified) /\ SaveIsWhole
=============================================================================
