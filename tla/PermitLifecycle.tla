--------------------------- MODULE PermitLifecycle ---------------------------
(***************************************************************************)
(* The life of one permit to work (PermitService) when every operation is  *)
(* one atomic step: requests of receivers, issuers, testers and approvers, *)
(* and the scheduled tick that expires overdue permits and suspends those  *)
(* whose gas test is stale.  Permits do not share a row, so one permit     *)
(* stands for all of them.  PermitRequests has the same operations as      *)
(* overlapping database transactions.                                      *)
(***************************************************************************)
EXTENDS PermitRow

CONSTANT MaxNow     \* bound of the clock, in minutes

ASSUME MaxNowAssumption == MaxNow \in Nat

VARIABLES
    row,            \* the row of the permit
    pass,           \* permit_gas_tests: time of the latest passing test
    docs,           \* the mandatory documents of the crew are valid now
    now,            \* the clock
    tick,           \* what the scheduled tick still has to do this minute
    cleared,        \* history: the sign-offs given since the last submit
    activeSince     \* history: when the permit last became active

vars == <<row, pass, docs, now, tick, cleared, activeSince>>

Sign == Signatory \cup {"gas", "approval"}

TypeOK ==
    /\ row \in Row
    /\ row.renewal_count <= MaxRenewals
    /\ pass \in Nat \cup {Never}
    /\ docs \in BOOLEAN
    /\ now \in Nat
    /\ tick \in {"expire", "gas", "done"}
    /\ cleared \in SUBSET Sign
    /\ activeSince \in Nat \cup {Never}

Init ==
    /\ docs \in BOOLEAN
    /\ \E extended, filled \in BOOLEAN :
          /\ filled => docs
          /\ row = Draft(extended, filled)
    /\ pass = Never
    /\ now = 0
    /\ tick = "expire"
    /\ cleared = {}
    /\ activeSince = Never

-----------------------------------------------------------------------------
(* Requests.                                                               *)

UpdateDraft(extended, filled) ==
    /\ CanUpdateDraft(row, filled, docs)
    /\ row' = UpdateDraftRow(row, row, extended, filled)
    /\ UNCHANGED <<pass, docs, now, tick, cleared, activeSince>>

Submit ==
    /\ CanSubmit(row, docs)
    /\ row' = SubmitRow(row, row)
    /\ cleared' = {}
    /\ UNCHANGED <<pass, docs, now, tick, activeSince>>

RecordJointInspection(as) ==
    /\ CanInspect(row)
    /\ row' = InspectRow(row, row, as)
    /\ cleared' = cleared \cup {as}
    /\ UNCHANGED <<pass, docs, now, tick, activeSince>>

RecordGasTest(passed) ==
    /\ row' = GasTestRow(row, row, passed)
    /\ pass' = IF passed THEN now ELSE pass
    /\ cleared' = IF GasTestAdvances(row, passed)
                  THEN cleared \cup {"gas"} ELSE cleared
    /\ UNCHANGED <<docs, now, tick, activeSince>>

Approve ==
    /\ CanApprove(row)
    /\ row' = ApproveRow(row)
    /\ cleared' = cleared \cup {"approval"}
    /\ UNCHANGED <<pass, docs, now, tick, activeSince>>

Issue ==
    /\ CanIssue(row, docs)
    /\ row' = IssueRow(row, now)
    /\ activeSince' = now
    /\ UNCHANGED <<pass, docs, now, tick, cleared>>

Suspend ==
    /\ CanSuspend(row)
    /\ row' = SuspendRow(row)
    /\ UNCHANGED <<pass, docs, now, tick, cleared, activeSince>>

Resume ==
    /\ CanResume(row, pass, now)
    /\ row' = ResumeRow(row)
    /\ activeSince' = now
    /\ UNCHANGED <<pass, docs, now, tick, cleared>>

Renew ==
    /\ CanRenew(row, docs, now)
    /\ row' = RenewRow(row, row, now)
    /\ UNCHANGED <<pass, docs, now, tick, cleared, activeSince>>

Cancel ==
    /\ CanCancel(row)
    /\ row' = CancelRow(row)
    /\ UNCHANGED <<pass, docs, now, tick, cleared, activeSince>>

Close ==
    /\ CanClose(row)
    /\ row' = CloseRow(row)
    /\ UNCHANGED <<pass, docs, now, tick, cleared, activeSince>>

Reject ==
    /\ CanReject(row)
    /\ row' = RejectRow(row)
    /\ UNCHANGED <<pass, docs, now, tick, cleared, activeSince>>

-----------------------------------------------------------------------------
(* The scheduler: in each minute the closure of ir4:permits-tick runs      *)
(* expireOverdue, then suspendStaleGasTests.  The tick is persistent and   *)
(* guarded by withoutOverlapping, so the next minute finds it finished.    *)

(* Mutant of ExpireOverdue: extended permits are left out of the sweep. *)
ExpireOverdueShiftOnly ==
    /\ tick = "expire"
    /\ tick' = "gas"
    /\ row' = IF Overdue(row, now) /\ ~ row.is_extended
              THEN ExpireRow(row) ELSE row
    /\ UNCHANGED <<pass, docs, now, cleared, activeSince>>

ExpireOverdue ==
    /\ tick = "expire"
    /\ tick' = "gas"
    /\ row' = IF Overdue(row, now) THEN ExpireRow(row) ELSE row
    /\ UNCHANGED <<pass, docs, now, cleared, activeSince>>

(* Mutant of SuspendStaleGasTests: the comparison is off by one minute. *)
SuspendStaleGasTestsLate ==
    /\ tick = "gas"
    /\ tick' = "done"
    /\ row' = IF GasStale(row, pass, now - 1) THEN SuspendRow(row) ELSE row
    /\ UNCHANGED <<pass, docs, now, cleared, activeSince>>

SuspendStaleGasTests ==
    /\ tick = "gas"
    /\ tick' = "done"
    /\ row' = IF GasStale(row, pass, now) THEN SuspendRow(row) ELSE row
    /\ UNCHANGED <<pass, docs, now, cleared, activeSince>>

NextMinute ==
    /\ tick = "done"
    /\ now < MaxNow
    /\ now' = now + 1
    /\ tick' = "expire"
    /\ UNCHANGED <<row, pass, docs, cleared, activeSince>>

(* Documents of the crew expire, are rejected, or are uploaded and verified. *)
DocumentsChange ==
    /\ docs' = ~ docs
    /\ UNCHANGED <<row, pass, now, tick, cleared, activeSince>>

Next ==
    \/ \E extended, filled \in BOOLEAN : UpdateDraft(extended, filled)
    \/ Submit
    \/ \E as \in Signatory : RecordJointInspection(as)
    \/ \E passed \in BOOLEAN : RecordGasTest(passed)
    \/ Approve
    \/ Issue
    \/ Suspend
    \/ Resume
    \/ Renew
    \/ Cancel
    \/ Close
    \/ Reject
    \/ ExpireOverdue
    \/ SuspendStaleGasTests
    \/ NextMinute
    \/ DocumentsChange

(* Only the scheduler is fair: it runs whatever people do.                  *)
Fairness ==
    /\ WF_vars(ExpireOverdue)
    /\ WF_vars(SuspendStaleGasTests)
    /\ WF_vars(NextMinute)

Spec == Init /\ [][Next]_vars /\ Fairness

-----------------------------------------------------------------------------
(* Properties.                                                             *)

(* Statuses a permit only has after it was ready to issue. *)
Issuable == {"pending_issue", "active", "suspended", "expired"}

(* A permit that can be issued, or was, has every sign-off its type demands,
   and has it from the current submission: a permit that was rejected and
   submitted again passes the gas test and the approver again, and at least
   one of the two inspecting parties signs again (recordJointInspection,
   recordGasTest, approve, and the next-status rules of submit). *)
GatesClearedThisRound ==
    row.status \in Issuable =>
        /\ RequiresInspection => cleared \cap Signatory # {}
        /\ RequiresInspection => row.signed = Signatory
        /\ RequiresGasTest => "gas" \in cleared
        /\ NeedsApprover(row) => "approval" \in cleared

(* The window of work stays within the limits of the type however often the
   permit is suspended, resumed, renewed, rejected and issued again: only an
   extended permit, or one that was never renewed, may exceed the maximum. *)
WindowWithinLimits ==
    row.status \in {"active", "suspended", "expired"} =>
        \/ row.is_extended
        \/ row.valid_to - row.valid_from <= MaxTotal
        \/ row.valid_to - row.valid_from = Validity

(* expireOverdue: a permit does not stay active more than one minute past
   its validity, or past the resumption that made it active again. *)
OverdueExposureBounded ==
    Overdue(row, now) =>
        now <= row.valid_to + 1 \/ now <= activeSince + 1

(* suspendStaleGasTests: a permit does not stay active on a stale gas test
   for more than one minute after the test became stale or the permit active. *)
StaleGasExposureBounded ==
    GasStale(row, pass, now) =>
        \/ pass # Never /\ now <= pass + RetestInterval + 1
        \/ now <= activeSince + 1

(* A permit is not in force past its validity, or on a stale gas test, for
   longer than the scheduler takes to look (ExpireOverdue, SuspendStaleGasTests). *)
ExposureBounded == OverdueExposureBounded /\ StaleGasExposureBounded

(* A cancelled permit is void and a closed one is filed: no sequence of
   operations, of people or of the scheduler, changes its row again. *)
VoidIsFinal ==
    [][row.status \in {"cancelled", "closed"} => row' = row]_vars

(* Liveness of the tick: whatever people do, an overdue active permit does
   not stay overdue (said of the minutes before the bound of the clock, after
   which no tick follows). *)
OverdueIsExpired ==
    Overdue(row, now) /\ now < MaxNow ~> ~ Overdue(row, now)
=============================================================================
