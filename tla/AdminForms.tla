------------------------------ MODULE AdminForms ------------------------------
(***************************************************************************)
(* A manager at one of the registers of FormCatalogue: a table of rows, a  *)
(* CrudFormDialog to add or edit one, a ConfirmActionDialog to switch or   *)
(* delete one, while other managers work at the same register.  The fields *)
(* of a form do not influence each other, so a behaviour follows one field *)
(* of one form.                                                            *)
(***************************************************************************)
EXTENDS FormCatalogue, Naturals, Sequences, SequencesExt, FiniteSetsExt

CONSTANTS
    FormNames,   \* the forms to look at
    Slots,       \* the rows a register may hold
    MaxOpens,    \* bound of the dialogs opened
    MaxSent,     \* bound of the requests the server has not handled
    MaxOthers    \* bound of what the other managers do

ASSUME FormsAssumption ==
    /\ FormNames \subseteq DOMAIN Forms
    /\ MaxOpens \in Nat /\ MaxSent \in Nat /\ MaxOthers \in Nat

VARIABLES
    form,        \* the form, and
    field,       \* the field of it, this behaviour follows
    rows,        \* the field in every row of the table, Gone where there is none
    props,       \* the same as the page last received it
    dialog,      \* the dialog that is open, or Shut
    page,        \* the page state behind the field
    dom,         \* the input of the mounted form
    touched,     \* the user changed the field in this dialog
    sent,        \* requests the server has not handled
    visit,       \* what the page waits for, or Idle
    made,        \* rows made by every dialog opened so far
    others       \* operations of other managers so far

formVars == <<form, field, rows, props, dialog, page, dom, touched, sent, visit,
              made, others>>

Gone == "gone"
Shut == [kind |-> "shut"]
Idle == [result |-> "none"]

it == Forms[form].fields[field]

Value(f) == IF f.flag THEN {"on", "off"} ELSE {"blank", "a"}
Opposite(v) == IF v = "on" THEN "off" ELSE "on"
Offers(op) == op \in Forms[form].offers

Confirmations == {"switch", "set", "flip", "delete"}
Kinds == {"add", "edit"} \cup Confirmations

Dialog == [kind : Kinds, at : Slots,
           seen : Value(it) \cup {Gone}, serial : 1..MaxOpens]

(* stated is what the dialog told its user the row will have. *)
Request == [kind : Kinds, at : Slots,
            seen : Value(it) \cup {Gone}, serial : 1..MaxOpens,
            posted : Value(it) \cup {"absent"}, stated : Value(it) \cup {Gone},
            touched : BOOLEAN]

FormsTypeOK ==
    /\ form \in FormNames
    /\ field \in DOMAIN Forms[form].fields
    /\ rows \in [Slots -> Value(it) \cup {Gone}]
    /\ props \in [Slots -> Value(it) \cup {Gone}]
    /\ dialog = Shut \/ dialog \in Dialog
    /\ page \in Value(it) /\ dom \in Value(it)
    /\ touched \in BOOLEAN
    /\ sent \in Seq(Request) /\ Len(sent) <= MaxSent
    /\ \/ visit = Idle
       \/ visit \in [result : {"waiting", "done", "refused", "missing"},
                     serial : 1..MaxOpens]
    /\ made \in Seq(Nat) /\ Len(made) <= MaxOpens
    /\ others \in 0..MaxOthers

(* Fields of one kind behave alike where the table offers the same operations
   and the same buttons set them: one of each is followed. *)
Behind(f, g) ==
    LET r == Forms[f] IN <<r.offers, r.fields[g], g \in r.editSets, g \in r.addSets>>

FormFields == UNION {{<<f, g>> : g \in DOMAIN Forms[f].fields} : f \in FormNames}

Followed ==
    {CHOOSE p \in FormFields : Behind(p[1], p[2]) = Behind(q[1], q[2]) : q \in FormFields}

FormsInit ==
    /\ \E p \in Followed : form = p[1] /\ field = p[2]
    /\ \E s \in Slots, v \in Value(it) :
          rows = [x \in Slots |-> IF x = s THEN v ELSE Gone]
    /\ props = rows
    /\ dialog = Shut
    /\ page = it.first /\ dom = it.first
    /\ touched = FALSE
    /\ sent = <<>>
    /\ visit = Idle
    /\ made = <<>>
    /\ others = 0

-----------------------------------------------------------------------------
(* Dialogs.                                                                *)

Open(kind, s) ==
    /\ dialog = Shut /\ Len(made) < MaxOpens
    /\ dialog' = [kind |-> kind, at |-> s, seen |-> props[s], serial |-> Len(made) + 1]
    /\ made' = Append(made, 0)
    /\ touched' = FALSE
    /\ UNCHANGED <<form, field, rows, props, sent, visit, others>>

OpenAdd ==
    /\ Offers("add")
    /\ Open("add", CHOOSE s \in Slots : TRUE)
    /\ page' = IF field \in Forms[form].addSets THEN it.first ELSE page
    /\ dom' = it.first

OpenEdit(s) ==
    /\ Offers("edit") /\ props[s] # Gone
    /\ Open("edit", s)
    /\ page' = IF field \in Forms[form].editSets THEN props[s] ELSE page
    /\ dom' = props[s]

OpenConfirm(kind, s) ==
    /\ kind \in Confirmations
    /\ Offers(kind) /\ props[s] # Gone
    /\ kind = "set" => props[s] = "off"
    /\ Open(kind, s)
    /\ UNCHANGED <<page, dom>>

Change(v) ==
    /\ dialog # Shut /\ dialog.kind \in {"add", "edit"}
    /\ touched' = TRUE
    /\ IF it.holder = "page" THEN page' = v /\ UNCHANGED dom
       ELSE dom' = v /\ UNCHANGED page
    /\ UNCHANGED <<form, field, rows, props, dialog, sent, visit, made, others>>

(* The user may leave while the request is out; the visit goes on. *)
Cancel ==
    /\ dialog # Shut
    /\ dialog' = Shut
    /\ UNCHANGED <<form, field, rows, props, page, dom, touched, sent, visit, made,
                   others>>

shownValue == IF it.holder = "page" THEN page ELSE dom

Stated == CASE dialog.kind = "delete" -> Gone
            [] dialog.kind = "set" -> "on"
            [] dialog.kind \in {"switch", "flip"} -> Opposite(dialog.seen)
            [] OTHER -> shownValue

unticked == it.holder = "dom" /\ it.flag /\ dom = "off"

(* Mutant of Posted: the form has no transform, and posts its inputs. *)
PostedInputs == IF dialog.kind \in {"switch", "set"} THEN Stated
                ELSE IF unticked \/ dialog.kind \in {"flip", "delete"} THEN "absent"
                ELSE dom

Posted == IF dialog.kind \in {"switch", "set"} THEN Stated
          ELSE IF unticked \/ dialog.kind \in {"flip", "delete"} THEN "absent"
          ELSE shownValue

Send ==
    /\ dialog # Shut /\ Len(sent) < MaxSent
    /\ sent' = Append(sent, [kind |-> dialog.kind, at |-> dialog.at,
                             seen |-> dialog.seen, serial |-> dialog.serial,
                             posted |-> Posted, stated |-> Stated,
                             touched |-> touched])
    /\ visit' = [result |-> "waiting", serial |-> dialog.serial]
    /\ UNCHANGED <<form, field, rows, props, dialog, page, dom, touched, made, others>>

(* Mutant of Submit: the button stays enabled while the form is processing. *)
SubmitAgain == Send

(* The button is disabled while this mounted form waits.  A visit that starts
   takes the place of the one before, whose answer is dropped; its request is
   not. *)
Submit ==
    /\ dialog # Shut
    /\ ~ (visit # Idle /\ visit.serial = dialog.serial)
    /\ Send

-----------------------------------------------------------------------------
(* The server and the answer.                                              *)

Without(i) == RemoveAt(sent, i)

Finish(r, result) ==
    visit' = IF visit # Idle /\ visit.serial = r.serial /\ visit.result = "waiting"
             THEN [visit EXCEPT !.result = result] ELSE visit

(* What the validated request makes of an unticked box. *)
Taken(r) ==
    IF r.posted # "absent" THEN r.posted
    ELSE LET rule == IF r.kind = "add" THEN it.onAdd ELSE it.onEdit
         IN  IF rule = "keep" THEN rows[r.at] ELSE rule

Insert(v) ==
    \E s \in Slots :
       /\ rows[s] = Gone
       /\ s = CHOOSE x \in Slots : rows[x] = Gone
       /\ rows' = [rows EXCEPT ![s] = v]

Handle(i) ==
    LET r == sent[i] IN
    /\ sent' = Without(i)
    /\ \/ /\ r.kind = "add"
          /\ Insert(Taken(r))
          /\ made' = [made EXCEPT ![r.serial] = @ + 1]
          /\ Finish(r, "done")
       \/ /\ r.kind # "add" /\ rows[r.at] # Gone
          /\ rows' = [rows EXCEPT ![r.at] =
                        CASE r.kind = "delete" -> Gone
                          [] r.kind = "flip" -> Opposite(@)
                          [] OTHER -> Taken(r)]
          /\ made' = made
          /\ Finish(r, "done")
       \/ /\ r.kind # "add" /\ rows[r.at] = Gone
          /\ Finish(r, "missing")
          /\ UNCHANGED <<rows, made>>
       \/ /\ r.kind \in {"add", "edit"}
          /\ Finish(r, "refused")
          /\ UNCHANGED <<rows, made>>
    /\ UNCHANGED <<form, field, props, dialog, page, dom, touched, others>>

(* A saved or refused form redirects back and brings the rows as they are
   now; onSuccess shuts the dialog the page has open, whichever it is.  A row
   that is gone answers 404, which changes nothing of the page. *)
Answer ==
    /\ visit # Idle /\ visit.result # "waiting"
    /\ props' = IF visit.result = "missing" THEN props ELSE rows
    /\ dialog' = IF visit.result = "done" THEN Shut ELSE dialog
    /\ visit' = Idle
    /\ UNCHANGED <<form, field, rows, page, dom, touched, sent, made, others>>

OtherManager(s, v) ==
    /\ rows[s] # Gone /\ v # rows[s] /\ others < MaxOthers
    /\ others' = others + 1
    /\ rows' = [rows EXCEPT ![s] = v]
    /\ UNCHANGED <<form, field, props, dialog, page, dom, touched, sent, visit, made>>

FormsNext ==
    \/ OpenAdd
    \/ \E s \in Slots : OpenEdit(s)
    \/ \E s \in Slots, kind \in Confirmations : OpenConfirm(kind, s)
    \/ \E v \in Value(it) : Change(v)
    \/ Cancel
    \/ Submit
    \/ \E i \in DOMAIN sent : Handle(i)
    \/ Answer
    \/ \E s \in Slots, v \in Value(it) \cup {Gone} : OtherManager(s, v)

FormsSpec == FormsInit /\ [][FormsNext]_formVars

-----------------------------------------------------------------------------
(* Properties.                                                             *)

(* The server carries out the i-th request in this step. *)
CarriesOut(i) == i \in DOMAIN sent /\ sent' = Without(i) /\ rows' # rows

(* A dialog to add a row starts from the defaults of the form, whatever was
   edited on the page before.  The permit flag of a zone is the exception:
   the add button does not set it. *)
AddStartsFresh ==
    dialog # Shut /\ dialog.kind = "add" /\ ~ touched
       /\ <<form, field>> # <<"zone", "requires_permit">>
    => shownValue = it.first

(* A save never writes a field its user did not change, other than back to
   what the page showed when the dialog was opened.  Crew roles are the
   exception: saving an optional one makes it mandatory. *)
UntouchedFieldsKept ==
    [][\A i \in DOMAIN sent :
          CarriesOut(i) /\ sent[i].kind = "edit" /\ ~ sent[i].touched
            /\ <<form, field>> \notin {"role", "crew_role"} \X {"is_mandatory"}
          => rows'[sent[i].at] = sent[i].seen]_formVars

(* The server saves the i-th request in this step, also where it leaves the row
   as it was and only the answer tells. *)
Succeeds(i) ==
    \/ CarriesOut(i)
    \/ /\ i \in DOMAIN sent /\ sent' = Without(i)
       /\ visit' # visit /\ visit'.result = "done"

(* Nothing is posted for a box that is not ticked, and the server takes for it
   what the row has, or a tick. *)
UntickLost(r) ==
    r.posted = "absent" /\ (IF r.kind = "add" THEN it.onAdd ELSE it.onEdit) # "off"

(* What a user changed is saved as the form showed it, in the row that was
   opened or in the one that is added: a save that succeeds drops nothing.  The
   exception are boxes the user unticked where the server has no "off" for a
   box that is not posted. *)
SavedAsShown ==
    [][\A i \in DOMAIN sent :
          Succeeds(i) /\ sent[i].touched /\ ~ UntickLost(sent[i])
          => \E s \in Slots :
                /\ IF sent[i].kind = "add" THEN rows[s] = Gone ELSE s = sent[i].at
                /\ rows'[s] = sent[i].stated]_formVars

(* One dialog never adds two rows, however often its button is pressed, also
   when its answer is late or refused. *)
AddsOnce == \A n \in DOMAIN made : made[n] <= 1

(* cameras/index.tsx, the text of the dialog: "This camera will stop
   generating PPE and fall detections".  A confirmed dialog leaves the row as
   it announced, also when another manager was faster. *)
ConfirmedAsAnnounced ==
    [][\A i \in DOMAIN sent :
          CarriesOut(i) /\ sent[i].kind \in Confirmations
          => rows'[sent[i].at] = sent[i].stated]_formVars

(* A dialog to add a row is a new one and adds one, and the server writes what
   a manager changed and saw, and nothing else.  The parts name what the code
   loses: a box unticked where the server has no "off" for it, the optional crew
   role that a save makes mandatory, the permit flag the last zone left. *)
DialogsAsShown ==
    /\ [](FormsTypeOK /\ AddStartsFresh /\ AddsOnce)
    /\ UntouchedFieldsKept
    /\ SavedAsShown
    /\ ConfirmedAsAnnounced
=============================================================================
