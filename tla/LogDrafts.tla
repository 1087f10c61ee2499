------------------------------- MODULE LogDrafts -------------------------------
(***************************************************************************)
(* The dialogs that log a safety record: an incident, a life saving rule   *)
(* (LSR) or a vehicle violation.  Their drafts are kept by useForm in the  *)
(* page, not in the dialog; the first two may be filled from an alert the  *)
(* page was opened with (prefill), and are set again by an effect.         *)
(***************************************************************************)
EXTENDS Naturals, Sequences

CONSTANTS MaxLogOpens, MaxLogPosts   \* bounds of the dialogs opened, and of the requests

(* A page opened from an alert opens with one dialog. *)
ASSUME DraftsAssumption == MaxLogOpens \in Nat \ {0} /\ MaxLogPosts \in Nat

VARIABLES
    kind,       \* the register
    prefill,    \* the page was given an alert
    fromAlert,  \* what the page of the incidents remembers of it
    logOpen,    \* the dialog is open
    draft,      \* the text of the form, and the alert it is linked to
    errors,     \* the form shows errors
    logPosts,   \* requests that are out, with the title the dialog had
    answer,     \* the answer on its way
    records,    \* what was logged
    opens       \* dialogs opened so far, the one the page opens with included

draftVars == <<kind, prefill, fromAlert, logOpen, draft, errors, logPosts, answer,
               records, opens>>

Registers == {"incident", "lsr", "vehicle"}
BlankDraft == [text |-> "blank", link |-> FALSE]
Prefilled == [text |-> "prefilled", link |-> TRUE]
LogDraft == [text : {"blank", "prefilled", "typed"}, link : BOOLEAN]

(* Mutant of TitledFromAlert: the title does not ask how the dialog was opened. *)
TitledByPrefill == prefill /\ kind # "vehicle"

(* The title: "from alert" for what an alert prefilled. *)
TitledFromAlert ==
    CASE kind = "incident" -> fromAlert /\ prefill
      [] kind = "lsr" -> prefill
      [] OTHER -> FALSE

(* The draft the effect sets: buildLogForm, for an LSR the prefill itself. *)
FreshDraft(kept, given) ==
    IF given /\ (kind = "lsr" \/ (kind = "incident" /\ kept)) THEN Prefilled ELSE BlankDraft

DraftsInit ==
    /\ kind \in Registers
    /\ prefill \in BOOLEAN /\ (kind = "vehicle" => ~prefill)
    /\ fromAlert = prefill /\ logOpen = prefill
    /\ draft = FreshDraft(fromAlert, prefill)
    /\ errors = FALSE /\ logPosts = <<>> /\ answer = "none" /\ records = <<>>
    /\ opens = IF logOpen THEN 1 ELSE 0

(* The Log button.  The effect sets the draft of an incident or LSR again;
   the draft of a vehicle stays as the user left it. *)
OpenLog ==
    /\ ~logOpen /\ opens < MaxLogOpens
    /\ logOpen' = TRUE /\ opens' = opens + 1
    /\ fromAlert' = FALSE
    /\ IF kind = "vehicle" THEN UNCHANGED <<draft, errors>>
       ELSE draft' = FreshDraft(FALSE, prefill) /\ errors' = FALSE
    /\ UNCHANGED <<kind, prefill, logPosts, answer, records>>

TypeLog ==
    /\ logOpen /\ draft' = [draft EXCEPT !.text = "typed"]
    /\ UNCHANGED <<kind, prefill, fromAlert, logOpen, errors, logPosts, answer, records, opens>>

(* The button, Escape, or a click outside: the request that is out stays out. *)
CancelLog ==
    /\ logOpen /\ logOpen' = FALSE
    /\ UNCHANGED <<kind, prefill, fromAlert, draft, errors, logPosts, answer, records, opens>>

Processing == logPosts # <<>> \/ answer # "none"

(* Mutant of Ready: the button stays enabled. *)
ReadyAlways == TRUE

(* The form is useForm's, so a dialog opened again is still processing. *)
Ready == ~Processing

(* Required fields are checked before anything is sent. *)
SubmitLog ==
    /\ logOpen /\ Ready /\ Len(logPosts) < MaxLogPosts
    /\ \/ /\ draft.text = "blank" /\ errors' = TRUE /\ UNCHANGED logPosts
       \/ /\ draft.text # "blank" /\ UNCHANGED errors
          /\ logPosts' = Append(logPosts, [link |-> draft.link, titled |-> TitledFromAlert])
    /\ UNCHANGED <<kind, prefill, fromAlert, logOpen, draft, answer, records, opens>>

(* Nothing is saved but what was submitted; the server may refuse it. *)
HandlePost ==
    /\ logPosts # <<>> /\ answer = "none"
    /\ logPosts' = Tail(logPosts)
    /\ \/ answer' = "logged" /\ records' = Append(records, Head(logPosts))
       \/ answer' = "refused" /\ UNCHANGED records
    /\ UNCHANGED <<kind, prefill, fromAlert, logOpen, draft, errors, opens>>

(* Logged: the incident page is left for the record, and the user comes back
   to a page without an alert; the other two shut the dialog, and the LSR page
   is visited again without the alert. *)
Logged ==
    /\ answer = "logged" /\ answer' = "none"
    /\ prefill' = FALSE /\ fromAlert' = FALSE /\ logOpen' = FALSE
    /\ draft' = BlankDraft /\ errors' = FALSE
    /\ UNCHANGED <<kind, logPosts, records, opens>>

(* Mutant of Rerun: the effect runs after every answer. *)
RerunAlways == logOpen

(* The effect runs again when the alert it depends on comes as a new object. *)
Rerun == logOpen /\ prefill /\ kind # "vehicle"

(* Refused: the answer brings the props anew, and the errors. *)
Refused ==
    /\ answer = "refused" /\ answer' = "none"
    /\ draft' = IF Rerun THEN FreshDraft(fromAlert, prefill) ELSE draft
    /\ errors' = ~Rerun
    /\ UNCHANGED <<kind, prefill, fromAlert, logOpen, logPosts, records, opens>>

DraftsNext == OpenLog \/ TypeLog \/ CancelLog \/ SubmitLog \/ HandlePost \/ Logged \/ Refused

DraftsSpec == DraftsInit /\ [][DraftsNext]_draftVars

-----------------------------------------------------------------------------
(* Types, and one answer at a time.                                        *)
DraftsTypeOK ==
    /\ kind \in Registers /\ draft \in LogDraft
    /\ logPosts \in Seq([link : BOOLEAN, titled : BOOLEAN])
    /\ records \in Seq([link : BOOLEAN, titled : BOOLEAN])
    /\ answer \in {"none", "logged", "refused"}
    /\ (logPosts # <<>> => answer = "none") /\ opens \in 0..MaxLogOpens

(* incidents/index.tsx, "Alerts never create a record on their own": a record *)
(* carries the alert exactly when the dialog it was submitted from said so,   *)
(* however dialogs were cancelled, reopened and refused before.               *)
LinkAsTitled == \A i \in DOMAIN records : records[i].link = records[i].titled

(* One dialog logs one record at most, also when it is cancelled and opened   *)
(* again while its request is out (form.processing of the page's useForm).    *)
OneRecordEach == Len(records) <= opens

(* What the user typed survives a refusal and stays with its errors, unless   *)
(* the page was opened from an alert: then the effect sets the draft again    *)
(* and the text is lost, until the record is logged (Rerun).                  *)
DraftKept ==
    [][answer = "refused" /\ answer' = "none" /\ (~prefill)
       => draft' = draft /\ errors']_draftVars

(* A dialog logs what its user meant: one record, with the alert it named,  *)
(* and a refusal loses nothing that was typed, but on a page opened from an *)
(* alert.                                                                   *)
RecordsAsMeant ==
    /\ [](DraftsTypeOK /\ LinkAsTitled /\ OneRecordEach)
    /\ DraftKept
=============================================================================
