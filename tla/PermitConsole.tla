---------------------------- MODULE PermitConsole ----------------------------
(***************************************************************************)
(* The page of one permit (pages/workforce/permits/show.tsx) over the row  *)
(* of that permit: what the page shows, which buttons it offers, what      *)
(* PermitService makes of a press, and how the page learns of what other   *)
(* people and the scheduler did.                                           *)
(*                                                                         *)
(* Every operation of PermitService runs in a transaction, which loads the *)
(* row without a lock, decides, and writes; from its write to its commit   *)
(* it locks the row, so that transactions overlap but their writes do not. *)
(* The saved hook of Permit broadcasts PermitUpdated inside, so the event  *)
(* leaves before the commit; "writing" is a row between the two.  The      *)
(* page answers an event with a partial reload (useLivePartialReload),     *)
(* which reads the committed row and may come back after a newer answer.   *)
(*                                                                         *)
(* Time stands still: gas tests and renewals are made "now", and a permit  *)
(* expires when the scheduler says so.  PermitLifecycle has the clock.     *)
(***************************************************************************)
EXTENDS PermitRow, Sequences

CONSTANTS
    Grants,      \* the permissions of the user at the page
    Others,      \* the transactions of everyone else that may overlap
    MaxOps,      \* bound of the operations people and the scheduler attempt
    MaxSent,     \* bound of the presses the server has not answered
    MaxReads     \* bound of the partial reloads under way

Permission == {"create-permits", "update-permits", "create-permit-gas-tests"}

ASSUME ConsoleAssumption ==
    /\ Grants \subseteq Permission
    /\ Others \cap {"page", "nobody"} = {}
    /\ MaxOps \in Nat /\ MaxSent \in Nat /\ MaxReads \in Nat

VARIABLES
    row,         \* the committed row of the permit
    docs,        \* the mandatory documents of the crew are valid now
    pass,        \* time of the latest passing gas test, Never if none
    loaded,      \* of each transaction: the operation and the row it loaded
    writing,     \* a row written and broadcast but not committed, or Idle
    shown,       \* the props of the page: row and readiness of the documents
    crewed,      \* local state: the crew rows of the form fill the roles
    ticked,      \* local state: the mandatory checklist items are ticked
    sent,        \* presses the server has not answered, oldest first
    heard,       \* PermitUpdated events on their way to the page
    reads,       \* partial reloads under way: the props read, or Unfetched
    recent,      \* a reload was started less than throttleMs ago
    ops,         \* operations attempted so far
    raced        \* history: a write met a row that was not the one it had loaded

tableVars == <<row, docs, pass, loaded, writing, raced>>
screenVars == <<shown, crewed, ticked, sent>>
reloadVars == <<heard, reads, recent>>
consoleVars == <<tableVars, screenVars, reloadVars, ops>>

filled == crewed /\ ticked

Idle   == [by |-> "nobody"]
Unfetched == [row |-> "unread"]

Op == {"save", "submit", "sign_issuer", "sign_receiver", "gas_pass",
       "gas_fail", "approve", "issue", "renew", "close", "suspend", "cancel",
       "resume", "reject", "expire"}

Press == [op : Op, seen : Status, filled : BOOLEAN]

Writers == Others \cup {"page"}
Transaction == [op : Op, filled : BOOLEAN, row : Row]

Props == [row : Row, docs : BOOLEAN]

ConsoleTypeOK ==
    /\ row \in Row
    /\ docs \in BOOLEAN
    /\ pass \in {Never, 0}
    /\ loaded \in [Writers -> {Idle} \cup Transaction]
    /\ writing = Idle \/ writing \in [by : Writers, op : Op, row : Row]
    /\ raced \in BOOLEAN
    /\ shown \in Props
    /\ crewed \in BOOLEAN /\ ticked \in BOOLEAN
    /\ sent \in Seq(Press) /\ Len(sent) <= MaxSent
    /\ heard \in Nat
    /\ reads \in Seq(Props \cup {Unfetched}) /\ Len(reads) <= MaxReads
    /\ recent \in BOOLEAN
    /\ ops \in 0..MaxOps

-----------------------------------------------------------------------------
(* PermitService, behind the routes of PermitController, and the tick that *)
(* expires: for every operation, when it is accepted of the row r that is  *)
(* loaded, and the row it leaves of the row r in the table, when s is the  *)
(* one it loaded; x is the box of the form that extends the permit.        *)

Accepts(r, f, d, p) ==
    [save          |-> CanUpdateDraft(r, f, d),
     submit        |-> CanSubmit(r, d),
     sign_issuer   |-> CanInspect(r),
     sign_receiver |-> CanInspect(r),
     gas_pass      |-> TRUE,
     gas_fail      |-> TRUE,
     approve       |-> CanApprove(r),
     issue         |-> CanIssue(r, d),
     renew         |-> CanRenew(r, d, 0),
     close         |-> CanClose(r),
     suspend       |-> CanSuspend(r),
     cancel        |-> CanCancel(r),
     resume        |-> CanResume(r, p, 0),
     reject        |-> CanReject(r),
     expire        |-> r.status = "active"]

Outcome(s, r, f, x) ==
    [save          |-> UpdateDraftRow(s, r, x, f),
     submit        |-> SubmitRow(s, r),
     sign_issuer   |-> InspectRow(s, r, "issuer"),
     sign_receiver |-> InspectRow(s, r, "receiver"),
     gas_pass      |-> GasTestRow(s, r, TRUE),
     gas_fail      |-> GasTestRow(s, r, FALSE),
     approve       |-> ApproveRow(r),
     issue         |-> IssueRow(r, 0),
     renew         |-> RenewRow(s, r, 0),
     close         |-> CloseRow(r),
     suspend       |-> SuspendRow(r),
     cancel        |-> CancelRow(r),
     resume        |-> ResumeRow(r),
     reject        |-> RejectRow(r),
     expire        |-> ExpireRow(r)]

(* The saved hook of Permit broadcasts when one of the columns of the board
   card changed.  A save may have changed the task or the zone. *)
Broadcasts(op, r, r2) ==
    LET changed == r.status # r2.status \/ r.renewal_count # r2.renewal_count
    IN  {changed, changed \/ op = "save"}

-----------------------------------------------------------------------------
(* What the page offers.                                                   *)

May(permission) == permission \in Grants

(* blockers is empty: nothing of the form keeps the draft from being
   submitted, as far as the page can see. *)
Unblocked == filled /\ shown.docs

Preparing(s) == IF May("create-permits") /\ Editable(s)
                THEN {"save"} \cup (IF Unblocked THEN {"submit"} ELSE {})
                ELSE {}

Signing(s) ==
    IF s.status # "pending_inspection" THEN {}
    ELSE (IF May("update-permits") /\ "issuer" \notin s.signed
          THEN {"sign_issuer"} ELSE {})
         \cup (IF May("create-permits") /\ "receiver" \notin s.signed
               THEN {"sign_receiver"} ELSE {})

Testing(s) ==
    IF May("create-permit-gas-tests") /\ s.status = "pending_gas_test"
    THEN {"gas_pass", "gas_fail"} ELSE {}

(* The buttons of the issuer by status. *)
Authorising(s) ==
    IF ~ May("update-permits") THEN {}
    ELSE CASE s.status = "pending_approval" -> {"approve"}
           [] s.status = "pending_issue"    -> {"issue"}
           [] s.status = "active"    -> {"renew", "close", "suspend", "cancel"}
           [] s.status = "suspended" -> {"resume"}
           [] OTHER -> {}

(* Mutant of Rejecting: the list of the statuses without the button misses
   the active one. *)
RejectingActive(s) ==
    IF May("update-permits")
         /\ s.status \notin {"closed", "cancelled", "rejected", "expired"}
    THEN {"reject"} ELSE {}

(* Mutant of Rejecting: the button is kept for the pending statuses. *)
RejectingPending(s) ==
    IF May("update-permits") /\ s.status \in {"pending_approval", "pending_issue"}
    THEN {"reject"} ELSE {}

Rejecting(s) ==
    IF May("update-permits")
         /\ s.status \notin {"active", "closed", "cancelled", "rejected", "expired"}
    THEN {"reject"} ELSE {}

Offered(s) == Preparing(s) \cup Signing(s) \cup Testing(s)
                \cup Authorising(s) \cup Rejecting(s)

(* buildFlowSteps: the steps in order, those this permit has, and the one its
   status stands for; the steps before it are drawn as done, none if the permit
   does not have it. *)
FlowRank == [draft |-> 1, inspection |-> 2, gas |-> 3, approval |-> 4, issue |-> 5, active |-> 6]

FlowSteps(s) ==
    {"draft", "issue", "active"}
      \cup (IF RequiresInspection THEN {"inspection"} ELSE {})
      \cup (IF RequiresGasTest THEN {"gas"} ELSE {})
      \cup (IF NeedsApprover(s) THEN {"approval"} ELSE {})

FlowStep(s) ==
    CASE s.status \in {"draft", "rejected"} -> "draft"
      [] s.status = "pending_inspection" -> "inspection"
      [] s.status = "pending_gas_test"   -> "gas"
      [] s.status = "pending_approval"   -> "approval"
      [] s.status = "pending_issue"      -> "issue"
      [] OTHER -> "active"

DoneSteps(s) ==
    {x \in FlowSteps(s) : /\ FlowStep(s) \in FlowSteps(s)
                          /\ FlowRank[x] < FlowRank[FlowStep(s)]}

-----------------------------------------------------------------------------
(* The page.                                                               *)

(* A permit is opened at any point of its life: the rows of a permit whose
   gates were passed in order, with its crew and checklist complete. *)
OpenedAt(e, st) ==
    [(IF st \in {"active", "suspended", "expired"}
      THEN IssueRow(Draft(e, TRUE), 0) ELSE Draft(e, TRUE))
     EXCEPT !.status = st,
            !.signed = IF RequiresInspection /\ st # "pending_inspection"
                       THEN Signatory ELSE {},
            !.approved = /\ NeedsApprover(Draft(e, TRUE))
                         /\ st \in {"pending_issue", "active", "suspended", "expired"}]

Opened ==
    {Draft(e, c) : e, c \in BOOLEAN}
      \cup {OpenedAt(e, st) : e \in BOOLEAN, st \in Status \cap
               ({"pending_issue", "active", "suspended", "expired"}
                 \cup (IF RequiresInspection THEN {"pending_inspection"} ELSE {})
                 \cup (IF RequiresGasTest THEN {"pending_gas_test"} ELSE {}))}
      \cup {OpenedAt(e, "pending_approval") : e \in {x \in BOOLEAN : x \/ RequiresApprover}}

ConsoleInit ==
    /\ row \in Opened
    /\ docs \in BOOLEAN
    /\ pass \in {Never, 0}
    /\ loaded = [t \in Writers |-> Idle] /\ writing = Idle /\ raced = FALSE
    /\ shown = [row |-> row, docs |-> docs]
    /\ crewed \in BOOLEAN /\ ticked \in BOOLEAN
    /\ filled = row.complete
    /\ sent = <<>>
    /\ heard = 0
    /\ reads = <<>>
    /\ recent = FALSE
    /\ ops = 0

(* Crew rows and checklist ticks are local state; props that change later do
   not reset them.  Choosing another role clears the worker of the row. *)
EditCrew ==
    /\ May("create-permits") /\ Editable(shown.row)
    /\ crewed' = ~ crewed
    /\ UNCHANGED <<tableVars, shown, ticked, sent, reloadVars, ops>>

ToggleChecklistItem ==
    /\ May("create-permits") /\ Editable(shown.row)
    /\ ticked' = ~ ticked
    /\ UNCHANGED <<tableVars, shown, crewed, sent, reloadVars, ops>>

(* postAction and the form's submit.  Only the form disables its button while
   a request is out; a second press interrupts the first visit, not its
   request. *)
PressButton(op) ==
    /\ op \in Offered(shown.row)
    /\ Len(sent) < MaxSent
    /\ op = "save" => \A i \in DOMAIN sent : sent[i].op # "save"
    /\ ops < MaxOps
    /\ ops' = ops + 1
    /\ sent' = Append(sent, [op |-> op, seen |-> shown.row.status,
                             filled |-> filled])
    /\ UNCHANGED <<tableVars, shown, crewed, ticked, reloadVars>>

(* The server takes the oldest press, when it is done with the one before. *)
Served == sent # <<>> /\ loaded["page"] = Idle /\ writing.by # "page"

(* A transaction begins: it loads the row and decides on it. *)
Load(t, op, f) ==
    /\ Accepts(row, f, docs, pass)[op]
    /\ loaded' = [loaded EXCEPT ![t] = [op |-> op, filled |-> f, row |-> row]]
    /\ UNCHANGED <<row, docs, pass, writing, raced, screenVars, reloadVars>>

Handle ==
    /\ Served /\ Load("page", Head(sent).op, Head(sent).filled)
    /\ UNCHANGED ops

(* Everyone else: another page, or the scheduler that expires the permit. *)
Other(t, op) ==
    /\ loaded[t] = Idle /\ writing.by # t /\ Load(t, op, TRUE)
    /\ ops < MaxOps /\ ops' = ops + 1

(* It writes the row, which may be another one by now, and broadcasts what it
   changed of the row it loaded. *)
Write(t) ==
    /\ loaded[t] # Idle /\ writing = Idle
    /\ LET op == loaded[t].op
           s == loaded[t].row
       IN \E x \in IF op = "save" THEN BOOLEAN ELSE {s.is_extended} :
            /\ writing' = [by |-> t, op |-> op, row |-> Outcome(s, row, loaded[t].filled, x)[op]]
            /\ \E b \in Broadcasts(op, s, Outcome(s, s, loaded[t].filled, x)[op]) :
                  heard' = IF b THEN heard + 1 ELSE heard
            /\ raced' = (raced \/ s # row)
    /\ loaded' = [loaded EXCEPT ![t] = Idle]
    /\ UNCHANGED <<row, docs, pass, screenVars, reads, recent, ops>>

(* The redirect back renders the page from the committed row; the answer to
   an interrupted visit is not used. *)
Answer(r) ==
    /\ sent' = Tail(sent)
    /\ shown' = IF Len(sent) = 1 THEN [row |-> r, docs |-> docs] ELSE shown

(* A ValidationException redirects back as well. *)
Refuse ==
    /\ Served
    /\ ~ Accepts(row, Head(sent).filled, docs, pass)[Head(sent).op]
    /\ Answer(row)
    /\ UNCHANGED <<tableVars, crewed, ticked, reloadVars, ops>>

Commit ==
    /\ writing # Idle /\ writing' = Idle
    /\ row' = writing.row
    /\ pass' = IF writing.op = "gas_pass" THEN 0 ELSE pass
    /\ IF writing.by = "page" THEN Answer(writing.row)
       ELSE UNCHANGED <<sent, shown>>
    /\ UNCHANGED <<docs, loaded, raced, crewed, ticked, reloadVars, ops>>

DocumentsChange ==
    /\ ops < MaxOps
    /\ ops' = ops + 1
    /\ docs' = ~ docs
    /\ UNCHANGED <<row, pass, loaded, writing, raced, screenVars, reloadVars>>

-----------------------------------------------------------------------------
(* The live update.                                                        *)

(* An event within throttleMs of the last reload is dropped, not deferred. *)
Hear ==
    /\ heard > 0
    /\ heard' = heard - 1
    /\ IF recent THEN UNCHANGED <<recent, reads>>
       ELSE /\ Len(reads) < MaxReads
            /\ recent' = TRUE
            /\ reads' = Append(reads, Unfetched)
    /\ UNCHANGED <<tableVars, screenVars, ops>>

Lose ==
    /\ heard > 0
    /\ heard' = heard - 1
    /\ UNCHANGED <<tableVars, screenVars, reads, recent, ops>>

ThrottleEnds ==
    /\ recent
    /\ recent' = FALSE
    /\ UNCHANGED <<tableVars, screenVars, heard, reads, ops>>

ReadProps(i) ==
    /\ reads[i] = Unfetched
    /\ reads' = [reads EXCEPT ![i] = [row |-> row, docs |-> docs]]
    /\ UNCHANGED <<tableVars, screenVars, heard, recent, ops>>

(* The answers of two reloads may come in either order, and after the answer
   to a press that is newer than what they read. *)
ReloadArrives(i) ==
    /\ reads[i] # Unfetched
    /\ shown' = reads[i]
    /\ reads' = SubSeq(reads, 1, i - 1) \o SubSeq(reads, i + 1, Len(reads))
    /\ UNCHANGED <<tableVars, crewed, ticked, sent, heard, recent, ops>>

Machine == \/ Handle \/ Refuse \/ Commit \/ Hear \/ ThrottleEnds
           \/ \E t \in Writers : Write(t)
           \/ \E i \in DOMAIN reads : ReadProps(i) \/ ReloadArrives(i)

ConsoleNext ==
    \/ Machine
    \/ EditCrew \/ ToggleChecklistItem
    \/ \E op \in Op : PressButton(op) \/ \E t \in Others : Other(t, op)
    \/ DocumentsChange
    \/ Lose

ConsoleSpec == ConsoleInit /\ [][ConsoleNext]_consoleVars

-----------------------------------------------------------------------------
(* Properties.                                                             *)

Current == shown = [row |-> row, docs |-> docs] /\ filled = row.complete

(* The guards of the buttons and the guards of PermitService are written
   twice.  They agree: on a page that shows the permit as it is, with the form
   saved, a button is only refused for what the page does not know: the
   renewals used up, a type whose validity exceeds its limit, documents and gas
   tests that lapsed, and a crew that a save made incomplete while the permit
   was submitted. *)
OfferedIsAccepted ==
    Current => \A op \in Offered(shown.row) :
                  \/ Accepts(row, filled, TRUE, 0)[op]
                  \/ op = "renew" /\ (\/ row.renewal_count = MaxRenewals
                                      \/ Validity > MaxTotal /\ ~ row.is_extended)
                  \/ op = "issue" /\ raced /\ ~ row.complete

(* A permit on its way to work or at work is never stuck for a user with all
   permissions: whatever lapsed, the page offers an operation that the server
   accepts and that takes the permit out of the status it is in. *)
NeverStuck ==
    Current /\ Grants = Permission
       /\ row.status \in {"pending_inspection", "pending_gas_test",
                          "pending_approval", "pending_issue", "active", "suspended"}
    => \E op \in Offered(shown.row) :
          /\ Accepts(row, filled, docs, pass)[op]
          /\ Outcome(row, row, filled, row.is_extended)[op].status # row.status

(* The flow bar derives the gates passed from the status alone.  A gate drawn
   as done carries its signatures, however transactions overlap: both of the
   joint inspection, and the approver's unless one extended the permit while
   another took it past the approval. *)
DoneStepsSigned ==
    /\ "inspection" \in DoneSteps(shown.row) => shown.row.signed = Signatory
    /\ "approval" \in DoneSteps(shown.row) => shown.row.approved \/ raced

(* Operations that bring a permit nearer to work, or keep work going. *)
Advancing == {"sign_issuer", "sign_receiver", "approve", "issue", "renew", "resume"}

(* A page may be stale when a button is pressed.  A press that advances the
   permit is carried out only at the status its user saw, or by a transaction
   that had loaded it at that status when another one overtook it; any other
   press that was overtaken goes through only if it stops the work, saves or
   submits a draft, or records a gas test. *)
StalePressNeverAdvances ==
    [][writing = Idle /\ writing' # Idle /\ writing'.by = "page"
          /\ Head(sent).op \in Advancing
       => \/ row.status = Head(sent).seen
          \/ loaded["page"].row.status = Head(sent).seen /\ loaded["page"].row # row]_consoleVars

(* What the page of a permit offers and draws fits the permit it shows, and a
   press on a page that does not show it as it is does no harm. *)
ButtonsFitPermit ==
    /\ [](ConsoleTypeOK /\ OfferedIsAccepted /\ NeverStuck /\ DoneStepsSigned)
    /\ StalePressNeverAdvances
=============================================================================
