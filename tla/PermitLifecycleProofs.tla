------------------------ MODULE PermitLifecycleProofs ------------------------
(***************************************************************************)
(* Theorems about PermitLifecycle, for every permit type and every bound   *)
(* of the clock.                                                           *)
(***************************************************************************)
EXTENDS PermitLifecycle, TLAPS

(* The next-status rules of submit, inspection and gas test only lead to the
   statuses in which a permit waits. *)
LEMMA NextStatus ==
    ASSUME NEW s
    PROVE  /\ AfterGasTest(s) \in {"pending_approval", "pending_issue"}
           /\ AfterInspection(s) \in {"pending_gas_test", "pending_approval",
                                      "pending_issue"}
           /\ AfterSubmit(s) \in {"pending_inspection", "pending_gas_test",
                                  "pending_approval", "pending_issue"}
  BY DEF AfterGasTest, AfterInspection, AfterSubmit

(* Every write of PermitService turns a row into a row. *)
LEMMA WritesKeepRows ==
    ASSUME NEW s \in Row, NEW r \in Row, NEW t \in Nat
    PROVE  /\ SubmitRow(s, r) \in Row
           /\ ApproveRow(r) \in Row
           /\ IssueRow(r, t) \in Row
           /\ SuspendRow(r) \in Row
           /\ ResumeRow(r) \in Row
           /\ RenewRow(s, r, t) \in Row
           /\ CancelRow(r) \in Row
           /\ CloseRow(r) \in Row
           /\ RejectRow(r) \in Row
           /\ ExpireRow(r) \in Row
           /\ \A x, f \in BOOLEAN : UpdateDraftRow(s, r, x, f) \in Row
           /\ \A as \in Signatory : InspectRow(s, r, as) \in Row
           /\ \A p \in BOOLEAN : GasTestRow(s, r, p) \in Row
  <1>1. SubmitRow(s, r) \in Row
    BY NextStatus DEF SubmitRow, Row, Status
  <1>2. ApproveRow(r) \in Row
    BY DEF ApproveRow, Row, Status
  <1>a. t + Validity \in Nat
    BY PermitTypeAssumption
  <1>b. s.renewal_count + 1 \in Nat
    BY DEF Row
  <1>3. IssueRow(r, t) \in Row
    BY <1>a DEF IssueRow, Row, Status
  <1>4. RenewRow(s, r, t) \in Row
    BY <1>a, <1>b DEF RenewRow, Row
  <1>5. /\ SuspendRow(r) \in Row
        /\ ResumeRow(r) \in Row
        /\ CancelRow(r) \in Row
        /\ CloseRow(r) \in Row
        /\ RejectRow(r) \in Row
        /\ ExpireRow(r) \in Row
    BY DEF SuspendRow, ResumeRow, CancelRow, CloseRow, RejectRow, ExpireRow,
           Row, Status
  <1>6. \A x, f \in BOOLEAN : UpdateDraftRow(s, r, x, f) \in Row
    BY DEF UpdateDraftRow, Row
  <1>7. \A as \in Signatory : InspectRow(s, r, as) \in Row
    BY NextStatus DEF InspectRow, Row, Status
  <1>8. \A p \in BOOLEAN : GasTestRow(s, r, p) \in Row
    BY NextStatus DEF GasTestRow, Row, Status
  <1> QED
    BY <1>1, <1>2, <1>3, <1>4, <1>5, <1>6, <1>7, <1>8

(* Renewal is the only write of the renewal count. *)
LEMMA WritesKeepRenewals ==
    ASSUME NEW s \in Row, NEW r \in Row, NEW t \in Nat
    PROVE  /\ SubmitRow(s, r).renewal_count = r.renewal_count
           /\ ApproveRow(r).renewal_count = r.renewal_count
           /\ IssueRow(r, t).renewal_count = r.renewal_count
           /\ SuspendRow(r).renewal_count = r.renewal_count
           /\ ResumeRow(r).renewal_count = r.renewal_count
           /\ CancelRow(r).renewal_count = r.renewal_count
           /\ CloseRow(r).renewal_count = r.renewal_count
           /\ RejectRow(r).renewal_count = r.renewal_count
           /\ ExpireRow(r).renewal_count = r.renewal_count
           /\ \A x, f : UpdateDraftRow(s, r, x, f).renewal_count = r.renewal_count
           /\ \A as : InspectRow(s, r, as).renewal_count = r.renewal_count
           /\ \A p : GasTestRow(s, r, p).renewal_count = r.renewal_count
           /\ RenewRow(s, r, t).renewal_count = s.renewal_count + 1
  BY DEF SubmitRow, ApproveRow, IssueRow, SuspendRow, ResumeRow, CancelRow,
         CloseRow, RejectRow, ExpireRow, UpdateDraftRow, InspectRow, GasTestRow,
         RenewRow, Row

-----------------------------------------------------------------------------
(* Type correctness.                                                       *)

LEMMA InitType == Init => TypeOK
  <1> SUFFICES ASSUME Init PROVE TypeOK
    OBVIOUS
  <1>1. PICK x, f \in BOOLEAN : row = Draft(x, f)
    BY DEF Init
  <1>2. row \in Row /\ row.renewal_count = 0
    BY <1>1 DEF Draft, Row, Status
  <1> QED
    BY <1>2, PermitTypeAssumption DEF Init, TypeOK

LEMMA NextType == TypeOK /\ [Next]_vars => TypeOK'
  <1> SUFFICES ASSUME TypeOK, [Next]_vars PROVE TypeOK'
    OBVIOUS
  <1> USE DEF TypeOK
  <1>1. ASSUME NEW x \in BOOLEAN, NEW f \in BOOLEAN, UpdateDraft(x, f)
        PROVE  TypeOK'
    <2>1. UpdateDraftRow(row, row, x, f) \in Row
      BY WritesKeepRows
    <2>2. UpdateDraftRow(row, row, x, f).renewal_count = row.renewal_count
      BY WritesKeepRenewals
    <2> QED
      BY <1>1, <2>1, <2>2 DEF UpdateDraft
  <1>2. CASE Submit
    BY <1>2, WritesKeepRows, WritesKeepRenewals DEF Submit
  <1>3. ASSUME NEW as \in Signatory, RecordJointInspection(as)
        PROVE  TypeOK'
    <2>1. InspectRow(row, row, as) \in Row
      BY WritesKeepRows
    <2>2. InspectRow(row, row, as).renewal_count = row.renewal_count
      BY WritesKeepRenewals
    <2> QED
      BY <1>3, <2>1, <2>2 DEF RecordJointInspection, Sign
  <1>4. ASSUME NEW p \in BOOLEAN, RecordGasTest(p)
        PROVE  TypeOK'
    <2>1. GasTestRow(row, row, p) \in Row
      BY WritesKeepRows
    <2>2. GasTestRow(row, row, p).renewal_count = row.renewal_count
      BY WritesKeepRenewals
    <2> QED
      BY <1>4, <2>1, <2>2 DEF RecordGasTest, Sign
  <1>5. CASE Approve
    BY <1>5, WritesKeepRows, WritesKeepRenewals DEF Approve, Sign
  <1>6. CASE Issue
    BY <1>6, WritesKeepRows, WritesKeepRenewals DEF Issue
  <1>7. CASE Suspend
    BY <1>7, WritesKeepRows, WritesKeepRenewals DEF Suspend
  <1>8. CASE Resume
    BY <1>8, WritesKeepRows, WritesKeepRenewals DEF Resume
  <1>9. CASE Renew
    <2>1. row' \in Row /\ row'.renewal_count = row.renewal_count + 1
      BY <1>9, WritesKeepRows, WritesKeepRenewals DEF Renew
    <2>2. row.renewal_count < MaxRenewals /\ row.renewal_count \in Nat
      BY <1>9 DEF Renew, CanRenew, Row
    <2> QED
      BY <1>9, <2>1, <2>2, PermitTypeAssumption DEF Renew
  <1>10. CASE Cancel
    BY <1>10, WritesKeepRows, WritesKeepRenewals DEF Cancel
  <1>11. CASE Close
    BY <1>11, WritesKeepRows, WritesKeepRenewals DEF Close
  <1>12. CASE Reject
    BY <1>12, WritesKeepRows, WritesKeepRenewals DEF Reject
  <1>13. CASE ExpireOverdue
    BY <1>13, WritesKeepRows, WritesKeepRenewals DEF ExpireOverdue
  <1>14. CASE SuspendStaleGasTests
    BY <1>14, WritesKeepRows, WritesKeepRenewals DEF SuspendStaleGasTests
  <1>15. CASE NextMinute
    BY <1>15 DEF NextMinute
  <1>16. CASE DocumentsChange
    BY <1>16 DEF DocumentsChange
  <1>17. CASE UNCHANGED vars
    BY <1>17 DEF vars
  <1> QED
    BY <1>1, <1>2, <1>3, <1>4, <1>5, <1>6, <1>7, <1>8, <1>9, <1>10, <1>11,
       <1>12, <1>13, <1>14, <1>15, <1>16, <1>17 DEF Next

(* Every reachable state is well typed, and the renewal count never exceeds
   the maximum of the permit type. *)
THEOREM TypeCorrect == Spec => []TypeOK
  BY InitType, NextType, PTL DEF Spec

-----------------------------------------------------------------------------
(* The gates of a permit.                                                  *)

(* GatesClearedThisRound is not inductive: issue and approve only look at the
   status, so the sign-offs must already be there while the permit waits.
   Each gate is therefore stated from the status that follows it. *)
GatesInv ==
    /\ row.status \in Issuable \cup {"pending_gas_test", "pending_approval"}
          /\ RequiresInspection
       => cleared \cap Signatory # {} /\ row.signed = Signatory
    /\ row.status \in Issuable \cup {"pending_approval"} /\ RequiresGasTest
       => "gas" \in cleared
    /\ row.status \in Issuable /\ NeedsApprover(row) => "approval" \in cleared

LEMMA InitGates == Init => GatesInv
  BY DEF Init, Draft, GatesInv, Issuable

LEMMA NextGates == TypeOK /\ GatesInv /\ [Next]_vars => GatesInv'
  <1> SUFFICES ASSUME TypeOK, GatesInv, [Next]_vars PROVE GatesInv'
    OBVIOUS
  <1> USE DEF TypeOK, GatesInv, Issuable, NeedsApprover, Row
  <1>1. ASSUME NEW x \in BOOLEAN, NEW f \in BOOLEAN, UpdateDraft(x, f)
        PROVE  GatesInv'
    BY <1>1 DEF UpdateDraft, CanUpdateDraft, Editable, UpdateDraftRow
  <1>2. CASE Submit
    BY <1>2 DEF Submit, SubmitRow, AfterSubmit, AfterInspection, AfterGasTest
  <1>3. ASSUME NEW as \in Signatory, RecordJointInspection(as)
        PROVE  GatesInv'
    BY <1>3 DEF RecordJointInspection, CanInspect, InspectRow,
                InspectionComplete, AfterInspection, AfterGasTest, Signatory
  <1>4. ASSUME NEW p \in BOOLEAN, RecordGasTest(p)
        PROVE  GatesInv'
    BY <1>4 DEF RecordGasTest, GasTestRow, GasTestAdvances, AfterGasTest
  <1>5. CASE Approve
    BY <1>5 DEF Approve, CanApprove, ApproveRow
  <1>6. CASE Issue
    BY <1>6 DEF Issue, CanIssue, IssueRow
  <1>7. CASE Suspend
    BY <1>7 DEF Suspend, CanSuspend, SuspendRow
  <1>8. CASE Resume
    BY <1>8 DEF Resume, CanResume, ResumeRow
  <1>9. CASE Renew
    BY <1>9 DEF Renew, RenewRow
  <1>10. CASE Cancel
    BY <1>10 DEF Cancel, CancelRow
  <1>11. CASE Close
    BY <1>11 DEF Close, CloseRow
  <1>12. CASE Reject
    BY <1>12 DEF Reject, RejectRow
  <1>13. CASE ExpireOverdue
    BY <1>13 DEF ExpireOverdue, Overdue, ExpireRow
  <1>14. CASE SuspendStaleGasTests
    BY <1>14 DEF SuspendStaleGasTests, GasStale, SuspendRow
  <1>15. CASE NextMinute
    BY <1>15 DEF NextMinute
  <1>16. CASE DocumentsChange
    BY <1>16 DEF DocumentsChange
  <1>17. CASE UNCHANGED vars
    BY <1>17 DEF vars
  <1> QED
    BY <1>1, <1>2, <1>3, <1>4, <1>5, <1>6, <1>7, <1>8, <1>9, <1>10, <1>11,
       <1>12, <1>13, <1>14, <1>15, <1>16, <1>17 DEF Next

(* A permit that can be issued, or was, has the gas test and the approval that its
   type demands from the current submission, and both signatures, one of them at
   least from it: after a rejection one is all that signInspection waits for. *)
THEOREM GatesCleared == Spec => []GatesClearedThisRound
  <1>1. GatesInv => GatesClearedThisRound
    BY DEF GatesInv, GatesClearedThisRound, Issuable
  <1> QED
    BY <1>1, InitType, NextType, InitGates, NextGates, PTL DEF Spec

-----------------------------------------------------------------------------
(* Void permits.                                                           *)

LEMMA VoidStep ==
    TypeOK /\ [Next]_vars
      => (row.status \in {"cancelled", "closed"} => row' = row)
  <1> SUFFICES ASSUME TypeOK, [Next]_vars,
                      row.status \in {"cancelled", "closed"}
               PROVE  row' = row
    OBVIOUS
  <1>1. row = [row EXCEPT !.status = @]
    BY DEF TypeOK, Row
  <1> USE DEF TypeOK
  <1>2. ASSUME NEW x \in BOOLEAN, NEW f \in BOOLEAN, UpdateDraft(x, f)
        PROVE  row' = row
    BY <1>2 DEF UpdateDraft, CanUpdateDraft, Editable
  <1>3. ASSUME NEW p \in BOOLEAN, RecordGasTest(p)
        PROVE  row' = row
    BY <1>1, <1>3 DEF RecordGasTest, GasTestRow, GasTestAdvances
  <1>4. ASSUME NEW as \in Signatory, RecordJointInspection(as)
        PROVE  row' = row
    BY <1>4 DEF RecordJointInspection, CanInspect
  <1>5. CASE Submit \/ Approve \/ Issue
    BY <1>5 DEF Submit, CanSubmit, Editable, Approve, CanApprove, Issue, CanIssue
  <1>6. CASE Suspend \/ Resume \/ Renew
    BY <1>6 DEF Suspend, CanSuspend, Resume, CanResume, Renew, CanRenew
  <1>7. CASE Cancel \/ Close \/ Reject
    BY <1>7 DEF Cancel, CanCancel, Close, CanClose, Reject, CanReject
  <1>8. CASE ExpireOverdue \/ SuspendStaleGasTests
    BY <1>8 DEF ExpireOverdue, Overdue, SuspendStaleGasTests, GasStale
  <1>9. CASE NextMinute \/ DocumentsChange \/ UNCHANGED vars
    BY <1>9 DEF NextMinute, DocumentsChange, vars
  <1> QED
    BY <1>2, <1>3, <1>4, <1>5, <1>6, <1>7, <1>8, <1>9 DEF Next

(* No operation changes a cancelled or a closed permit. *)
THEOREM VoidForever == Spec => VoidIsFinal
  BY InitType, NextType, VoidStep, PTL DEF Spec, VoidIsFinal

-----------------------------------------------------------------------------
(* The window of work.                                                     *)

LEMMA NextWindow ==
    TypeOK /\ WindowWithinLimits /\ [Next]_vars => WindowWithinLimits'
  <1> SUFFICES ASSUME TypeOK, WindowWithinLimits, [Next]_vars
               PROVE  WindowWithinLimits'
    OBVIOUS
  <1> USE DEF TypeOK, WindowWithinLimits, Row
  <1>1. ASSUME NEW x \in BOOLEAN, NEW f \in BOOLEAN, UpdateDraft(x, f)
        PROVE  WindowWithinLimits'
    BY <1>1 DEF UpdateDraft, CanUpdateDraft, Editable, UpdateDraftRow
  <1>2. CASE Submit
    BY <1>2, NextStatus DEF Submit, SubmitRow
  <1>3. ASSUME NEW as \in Signatory, RecordJointInspection(as)
        PROVE  WindowWithinLimits'
    BY <1>3, NextStatus DEF RecordJointInspection, InspectRow
  <1>4. ASSUME NEW p \in BOOLEAN, RecordGasTest(p)
        PROVE  WindowWithinLimits'
    BY <1>4, NextStatus DEF RecordGasTest, GasTestRow
  <1>5. CASE Issue
    <2>1. row'.valid_from = now /\ row'.valid_to = now + Validity
      BY <1>5 DEF Issue, IssueRow
    <2>2. (now + Validity) - now = Validity
      BY PermitTypeAssumption
    <2>3. row'.valid_to - row'.valid_from = Validity
      BY <2>1, <2>2
    <2> QED
      BY <2>3
  <1>6. CASE Renew
    <2>1. /\ row'.valid_from = row.valid_from
          /\ row'.valid_to = now + Validity
          /\ row'.is_extended = row.is_extended
      BY <1>6 DEF Renew, RenewRow
    <2>2. (now + Validity) - row.valid_from <= MaxTotal \/ row.is_extended
      BY <1>6 DEF Renew, CanRenew
    <2>3. row'.valid_to - row'.valid_from <= MaxTotal \/ row'.is_extended
      BY <2>1, <2>2
    <2> QED
      BY <2>3
  <1>7. CASE Approve \/ Suspend \/ Resume
    BY <1>7 DEF Approve, ApproveRow, Suspend, CanSuspend, SuspendRow,
                Resume, CanResume, ResumeRow
  <1>8. CASE Cancel \/ Close \/ Reject
    BY <1>8 DEF Cancel, CancelRow, Close, CloseRow, Reject, RejectRow
  <1>9. CASE ExpireOverdue \/ SuspendStaleGasTests
    BY <1>9 DEF ExpireOverdue, Overdue, ExpireRow,
                SuspendStaleGasTests, GasStale, SuspendRow
  <1>10. CASE NextMinute \/ DocumentsChange \/ UNCHANGED vars
    BY <1>10 DEF NextMinute, DocumentsChange, vars
  <1> QED
    BY <1>1, <1>2, <1>3, <1>4, <1>5, <1>6, <1>7, <1>8, <1>9, <1>10 DEF Next

(* However often a permit is suspended, resumed, renewed, rejected and issued
   again, its window stays within the limits of its type. *)
THEOREM WindowLimited == Spec => []WindowWithinLimits
  <1>1. Init => WindowWithinLimits
    BY DEF Init, Draft, WindowWithinLimits
  <1> QED
    BY <1>1, InitType, NextType, NextWindow, PTL DEF Spec

-----------------------------------------------------------------------------
(* Exposure: how long work goes on that the tick should have stopped.      *)

(* The bounds are inductive only together with what the tick of this minute
   has already done: after expireOverdue only a permit made active in this
   very minute can be overdue, and after suspendStaleGasTests only such a
   permit can be on a stale test. *)
ExposureInv ==
    /\ Overdue(row, now) =>
          \/ activeSince = now
          \/ tick = "expire" /\ (now <= row.valid_to + 1 \/ now <= activeSince + 1)
    /\ GasStale(row, pass, now) =>
          \/ activeSince = now
          \/ /\ tick \in {"expire", "gas"}
             /\ \/ pass # Never /\ now <= pass + RetestInterval + 1
                \/ now <= activeSince + 1

LEMMA NextExposure ==
    TypeOK /\ ExposureInv /\ [Next]_vars => ExposureInv'
  <1> SUFFICES ASSUME TypeOK, ExposureInv, [Next]_vars PROVE ExposureInv'
    OBVIOUS
  <1> USE PermitTypeAssumption
      DEF TypeOK, ExposureInv, Row, Overdue, GasStale, GasFresh, Never, NoInterval
  <1>1. ASSUME NEW x \in BOOLEAN, NEW f \in BOOLEAN, UpdateDraft(x, f)
        PROVE  ExposureInv'
    BY <1>1 DEF UpdateDraft, CanUpdateDraft, Editable, UpdateDraftRow
  <1>2. CASE Submit
    BY <1>2, NextStatus DEF Submit, SubmitRow
  <1>3. ASSUME NEW as \in Signatory, RecordJointInspection(as)
        PROVE  ExposureInv'
    BY <1>3, NextStatus DEF RecordJointInspection, CanInspect, InspectRow
  <1>4. ASSUME NEW p \in BOOLEAN, RecordGasTest(p)
        PROVE  ExposureInv'
    BY <1>4, NextStatus DEF RecordGasTest, GasTestAdvances, GasTestRow
  <1>5. CASE Issue \/ Resume
    BY <1>5 DEF Issue, IssueRow, Resume, ResumeRow
  <1>6. CASE Renew
    BY <1>6 DEF Renew, CanRenew, RenewRow
  <1>7. CASE Approve \/ Suspend
    BY <1>7 DEF Approve, ApproveRow, Suspend, SuspendRow
  <1>8. CASE Cancel \/ Close \/ Reject
    BY <1>8 DEF Cancel, CancelRow, Close, CloseRow, Reject, RejectRow
  <1>9. CASE ExpireOverdue
    BY <1>9 DEF ExpireOverdue, ExpireRow
  <1>10. CASE SuspendStaleGasTests
    BY <1>10 DEF SuspendStaleGasTests, SuspendRow
  <1>11. CASE NextMinute
    BY <1>11 DEF NextMinute
  <1>12. CASE DocumentsChange \/ UNCHANGED vars
    BY <1>12 DEF DocumentsChange, vars
  <1> QED
    BY <1>1, <1>2, <1>3, <1>4, <1>5, <1>6, <1>7, <1>8, <1>9, <1>10, <1>11,
       <1>12 DEF Next

LEMMA ExposureAlways == Spec => []ExposureInv
  <1>1. Init => ExposureInv
    BY DEF Init, Draft, ExposureInv, Overdue, GasStale
  <1> QED
    BY <1>1, InitType, NextType, NextExposure, PTL DEF Spec

(* A permit is active past its validity, or on a stale gas test, for at most
   one minute. *)
THEOREM ExposureLimited == Spec => []ExposureBounded
  <1>1. TypeOK /\ ExposureInv => OverdueExposureBounded
    BY DEF TypeOK, ExposureInv, OverdueExposureBounded
  <1>2. TypeOK /\ ExposureInv => StaleGasExposureBounded
    BY DEF TypeOK, ExposureInv, StaleGasExposureBounded
  <1>3. TypeOK /\ ExposureInv => ExposureBounded
    BY <1>1, <1>2 DEF ExposureBounded
  <1> QED
    BY <1>3, InitType, NextType, ExposureAlways, PTL DEF Spec
=============================================================================
