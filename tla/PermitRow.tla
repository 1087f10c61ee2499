------------------------------ MODULE PermitRow ------------------------------
(***************************************************************************)
(* The row of one permit to work and what each operation of PermitService  *)
(* does to it.  Every operation is a pair: a guard over the row the        *)
(* handler loaded, and a write.  A write takes two rows, the row s the     *)
(* handler loaded and the row r in the database: Eloquent computes with s  *)
(* and its UPDATE touches only the columns it changes, so every other      *)
(* column keeps the value it has in r.  When the handler runs alone, s = r *)
(* (PermitLifecycle); when requests overlap, s is stale (PermitRequests).  *)
(*                                                                         *)
(* Abstractions.  The two joint-inspection columns are the set "signed" of *)
(* the roles that hold a signature; approver_id is the flag "approved";    *)
(* "complete" stands for the checklist answered and the crew-role minimums *)
(* met, and two overlapping saves leave the flag of the later one; times   *)
(* are minutes.  The permit type is fixed (the catalogue is edited far     *)
(* more rarely than a permit lives) and is the CONSTANTS.                  *)
(***************************************************************************)
EXTENDS Integers

CONSTANTS
    RequiresInspection,  \* permit_types.requires_joint_inspection
    RequiresGasTest,     \* permits.gas_test_required, copied from the type
    RequiresApprover,    \* permit_types.requires_approver
    Validity,            \* permit_types.default_validity_minutes
    MaxRenewals,         \* permit_types.max_renewals
    MaxTotal,            \* permit_types.max_total_minutes
    RetestInterval       \* permit_types.retest_interval_minutes, or NoInterval

Never == -1        \* a null timestamp
NoInterval == -1   \* a null retest interval

ASSUME PermitTypeAssumption ==
    /\ RequiresInspection \in BOOLEAN
    /\ RequiresGasTest \in BOOLEAN
    /\ RequiresApprover \in BOOLEAN
    /\ Validity \in Nat
    /\ MaxRenewals \in Nat
    /\ MaxTotal \in Nat
    /\ RetestInterval \in Nat \cup {NoInterval}

Status == {"draft", "pending_inspection", "pending_gas_test",
           "pending_approval", "pending_issue", "active", "suspended",
           "expired", "closed", "cancelled", "rejected"}

Signatory == {"issuer", "receiver"}

Row == [status        : Status,
        is_extended   : BOOLEAN,
        complete      : BOOLEAN,
        signed        : SUBSET Signatory,
        approved      : BOOLEAN,
        valid_from    : Nat \cup {Never},
        valid_to      : Nat \cup {Never},
        renewal_count : Nat]

(* createDraft: the row of a new draft; the crew's documents were checked
   while the crew was attached, so a crew is only there if they were valid. *)
Draft(extended, filled) ==
    [status |-> "draft", is_extended |-> extended, complete |-> filled,
     signed |-> {}, approved |-> FALSE, valid_from |-> Never,
     valid_to |-> Never, renewal_count |-> 0]

Editable(s) == s.status \in {"draft", "rejected"}

NeedsApprover(s) == s.is_extended \/ RequiresApprover

AfterGasTest(s) ==
    IF NeedsApprover(s) THEN "pending_approval" ELSE "pending_issue"

AfterInspection(s) ==
    IF RequiresGasTest THEN "pending_gas_test" ELSE AfterGasTest(s)

(* Mutant of AfterSubmit: a resubmitted permit that already carries both
   signatures is not inspected again. *)
AfterSubmitSkipping(s) ==
    IF RequiresInspection /\ s.signed # Signatory
    THEN "pending_inspection" ELSE AfterInspection(s)

AfterSubmit(s) ==
    IF RequiresInspection THEN "pending_inspection" ELSE AfterInspection(s)

-----------------------------------------------------------------------------
(* Requester's side.                                                       *)

(* updateDraft replaces the crew only by people whose documents are valid. *)
CanUpdateDraft(s, filled, docs) ==
    Editable(s) /\ (filled => s.complete \/ docs)

UpdateDraftRow(s, r, extended, filled) ==
    [r EXCEPT !.is_extended = IF extended = s.is_extended THEN @ ELSE extended,
              !.complete = filled]

CanSubmit(s, docs) == Editable(s) /\ s.complete /\ docs

SubmitRow(s, r) == [r EXCEPT !.status = AfterSubmit(s)]

-----------------------------------------------------------------------------
(* Sign-offs that lead to work.                                            *)

CanInspect(s) == s.status = "pending_inspection"

(* Mutant of InspectionComplete: one signature is enough. *)
InspectionCompleteAlone(s, as) == s.signed \cup {as} # {}

InspectionComplete(s, as) == s.signed \cup {as} = Signatory

InspectRow(s, r, as) ==
    [r EXCEPT !.signed = @ \cup {as},
              !.status = IF InspectionComplete(s, as)
                         THEN AfterInspection(s) ELSE @]

(* A gas test may be recorded at any status; a pass only advances a permit
   that waits for one. *)
GasTestAdvances(s, passed) == passed /\ s.status = "pending_gas_test"

GasTestRow(s, r, passed) ==
    [r EXCEPT !.status = IF GasTestAdvances(s, passed)
                         THEN AfterGasTest(s) ELSE @]

CanApprove(s) == s.status = "pending_approval"

ApproveRow(r) == [r EXCEPT !.status = "pending_issue", !.approved = TRUE]

CanIssue(s, docs) == s.status = "pending_issue" /\ s.complete /\ docs

IssueRow(r, t) ==
    [r EXCEPT !.status = "active", !.valid_from = t, !.valid_to = t + Validity]

-----------------------------------------------------------------------------
(* Operations on work in progress.                                         *)

(* Suspending a suspended permit returns before it writes. *)
CanSuspend(s) == s.status = "active"

SuspendRow(r) == [r EXCEPT !.status = "suspended"]

(* pass is the time of the latest passing gas test, Never if there is none. *)
GasFresh(pass, t) ==
    /\ pass # Never
    /\ RetestInterval # NoInterval => pass >= t - RetestInterval

(* Mutant of CanResume: resume only looks at the gas test. *)
CanResumeAnywhere(s, pass, t) == RequiresGasTest => GasFresh(pass, t)

CanResume(s, pass, t) ==
    s.status = "suspended" /\ (RequiresGasTest => GasFresh(pass, t))

ResumeRow(r) == [r EXCEPT !.status = "active"]

(* Mutants of CanRenew: without the renewal limit, and with the duration
   measured up to now instead of up to the proposed end. *)
CanRenewUnlimited(s, docs, t) ==
    /\ s.status = "active"
    /\ (t + Validity) - s.valid_from <= MaxTotal \/ s.is_extended
    /\ docs

CanRenewElapsed(s, docs, t) ==
    /\ s.status = "active"
    /\ s.renewal_count < MaxRenewals
    /\ t - s.valid_from <= MaxTotal \/ s.is_extended
    /\ docs

CanRenew(s, docs, t) ==
    /\ s.status = "active"
    /\ s.renewal_count < MaxRenewals
    /\ (t + Validity) - s.valid_from <= MaxTotal \/ s.is_extended
    /\ docs

RenewRow(s, r, t) ==
    [r EXCEPT !.renewal_count = s.renewal_count + 1, !.valid_to = t + Validity]

CanCancel(s) == s.status \in {"active", "suspended"}

CancelRow(r) == [r EXCEPT !.status = "cancelled"]

CanClose(s) == s.status \in {"active", "expired", "suspended"}

CloseRow(r) == [r EXCEPT !.status = "closed"]

(* Rejecting a rejected permit returns before it writes.  The mutant lets a
   cancelled permit be rejected, and so be edited and submitted again. *)
CanRejectCancelled(s) == s.status \notin {"rejected", "active", "closed"}

CanReject(s) == s.status \notin {"rejected", "active", "closed", "cancelled"}

RejectRow(r) == [r EXCEPT !.status = "rejected"]

-----------------------------------------------------------------------------
(* What the minute tick selects.                                           *)

Overdue(s, t) == s.status = "active" /\ s.valid_to # Never /\ s.valid_to < t

ExpireRow(r) == [r EXCEPT !.status = "expired"]

GasStale(s, pass, t) ==
    /\ s.status = "active"
    /\ RequiresGasTest
    /\ RetestInterval # NoInterval
    /\ ~ GasFresh(pass, t)
=============================================================================
