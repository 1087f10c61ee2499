--------------------------- MODULE PermitRequests ----------------------------
(***************************************************************************)
(* The operations of PermitService as they run on the server: each request *)
(* is a database transaction of a PHP worker that first loads the permit   *)
(* (reload: a plain SELECT, which takes no lock) and decides, and then     *)
(* writes by primary key.  Requests on one permit overlap, and the         *)
(* scheduled tick runs beside them: expireOverdue writes the permits of a  *)
(* chunk it selected before, without looking at them again, and            *)
(* suspendStaleGasTests calls suspend, which loads the permit again.       *)
(*                                                                         *)
(* Not here: failed gas tests (they write no permit) and the crew's        *)
(* documents (a request whose documents are invalid ends before it writes).*)
(***************************************************************************)
EXTENDS PermitRow

CONSTANTS
    Workers,     \* PHP workers that serve requests on the permit
    MaxNow,      \* bound of the clock
    MaxOverlap   \* bound on the writes that can pass one request by

ASSUME RequestsAssumption == MaxNow \in Nat /\ MaxOverlap \in Nat

VARIABLES
    row,        \* the row of the permit
    pass,       \* time of the latest passing gas test
    now,        \* the clock
    req,        \* what each worker is doing
    tick        \* how far the scheduled tick of this minute is

vars == <<row, pass, now, req, tick>>

Operation == {"update_plain", "update_extended", "submit", "inspect_issuer",
              "inspect_receiver", "gas_pass", "approve", "issue", "suspend",
              "resume", "renew", "cancel", "close", "reject"}

Idle == [op |-> "none"]

Request == [op : Operation, loaded : Row, missed : Nat]

Phase == {"expire", "expiring", "gas", "reload", "suspending", "done", "failed"}

TypeOK ==
    /\ row \in Row
    /\ row.renewal_count <= MaxRenewals
    /\ pass \in Nat \cup {Never}
    /\ now \in Nat
    /\ req \in [Workers -> Request \cup {Idle}]
    /\ tick \in Phase

Init ==
    /\ \E extended \in BOOLEAN : row = Draft(extended, TRUE)
    /\ pass = Never
    /\ now = 0
    /\ req = [w \in Workers |-> Idle]
    /\ tick = "expire"

-----------------------------------------------------------------------------
(* The guard of an operation over the row s it loaded, and the row after   *)
(* its write, where s is what it loaded and r what the table holds now.    *)

Allowed(op, s) ==
    \/ op \in {"update_plain", "update_extended"} /\ Editable(s)
    \/ op = "submit" /\ CanSubmit(s, TRUE)
    \/ op \in {"inspect_issuer", "inspect_receiver"} /\ CanInspect(s)
    \/ op = "gas_pass"
    \/ op = "approve" /\ CanApprove(s)
    \/ op = "issue" /\ CanIssue(s, TRUE)
    \/ op = "suspend" /\ CanSuspend(s)
    \/ op = "resume" /\ CanResume(s, pass, now)
    \/ op = "renew" /\ CanRenew(s, TRUE, now)
    \/ op = "cancel" /\ CanCancel(s)
    \/ op = "close" /\ CanClose(s)
    \/ op = "reject" /\ CanReject(s)

Written(op, s, r) ==
    CASE op = "update_plain"     -> UpdateDraftRow(s, r, FALSE, TRUE)
      [] op = "update_extended"  -> UpdateDraftRow(s, r, TRUE, TRUE)
      [] op = "submit"           -> SubmitRow(s, r)
      [] op = "inspect_issuer"   -> InspectRow(s, r, "issuer")
      [] op = "inspect_receiver" -> InspectRow(s, r, "receiver")
      [] op = "gas_pass"         -> GasTestRow(s, r, TRUE)
      [] op = "approve"          -> ApproveRow(r)
      [] op = "issue"            -> IssueRow(r, now)
      [] op = "suspend"          -> SuspendRow(r)
      [] op = "resume"           -> ResumeRow(r)
      [] op = "renew"            -> RenewRow(s, r, now)
      [] op = "cancel"           -> CancelRow(r)
      [] op = "close"            -> CloseRow(r)
      [] op = "reject"           -> RejectRow(r)

Busy(w) == req[w] # Idle

(* Every other request in flight misses the write that is made now. *)
OthersMiss(W) ==
    /\ \A v \in W : Busy(v) => req[v].missed < MaxOverlap
    /\ req' = [v \in Workers |->
                 IF v \notin W THEN Idle
                 ELSE IF Busy(v) THEN [req[v] EXCEPT !.missed = @ + 1]
                 ELSE Idle]

-----------------------------------------------------------------------------
(* Requests.                                                               *)

Load(w, op) ==
    /\ ~ Busy(w)
    /\ Allowed(op, row)
    /\ req' = [req EXCEPT ![w] = [op |-> op, loaded |-> row, missed |-> 0]]
    /\ UNCHANGED <<row, pass, now, tick>>

Commit(w) ==
    /\ Busy(w)
    /\ row' = Written(req[w].op, req[w].loaded, row)
    /\ pass' = IF req[w].op = "gas_pass" THEN now ELSE pass
    /\ OthersMiss(Workers \ {w})
    /\ UNCHANGED <<now, tick>>

(* A worker dies, or its transaction is rolled back: nothing was written. *)
Rollback(w) ==
    /\ Busy(w)
    /\ req' = [req EXCEPT ![w] = Idle]
    /\ UNCHANGED <<row, pass, now, tick>>

-----------------------------------------------------------------------------
(* The scheduled tick.                                                     *)

SelectOverdue ==
    /\ tick = "expire"
    /\ tick' = IF Overdue(row, now) THEN "expiring" ELSE "gas"
    /\ UNCHANGED <<row, pass, now, req>>

(* The chunk was selected before: the status of the row is not read again. *)
WriteExpired ==
    /\ tick = "expiring"
    /\ tick' = "gas"
    /\ row' = ExpireRow(row)
    /\ OthersMiss(Workers)
    /\ UNCHANGED <<pass, now>>

SelectStaleGas ==
    /\ tick = "gas"
    /\ tick' = IF GasStale(row, pass, now) THEN "reload" ELSE "done"
    /\ UNCHANGED <<row, pass, now, req>>

(* suspend refuses a permit that left active meanwhile, and the exception
   ends the tick, detection included. *)
ReloadForSuspend ==
    /\ tick = "reload"
    /\ tick' = CASE row.status = "active" -> "suspending"
                 [] row.status = "suspended" -> "done"
                 [] OTHER -> "failed"
    /\ UNCHANGED <<row, pass, now, req>>

WriteSuspended ==
    /\ tick = "suspending"
    /\ tick' = "done"
    /\ row' = SuspendRow(row)
    /\ OthersMiss(Workers)
    /\ UNCHANGED <<pass, now>>

NextMinute ==
    /\ tick \in {"done", "failed"}
    /\ now < MaxNow
    /\ now' = now + 1
    /\ tick' = "expire"
    /\ UNCHANGED <<row, pass, req>>

Next ==
    \/ \E w \in Workers, op \in Operation : Load(w, op)
    \/ \E w \in Workers : Commit(w)
    \/ \E w \in Workers : Rollback(w)
    \/ SelectOverdue
    \/ WriteExpired
    \/ SelectStaleGas
    \/ ReloadForSuspend
    \/ WriteSuspended
    \/ NextMinute

Spec == Init /\ [][Next]_vars

-----------------------------------------------------------------------------
(* Properties.                                                             *)

Void == {"cancelled", "closed"}

(* What no overlap of requests can break: a permit that is ready to issue,
   in force or stopped carries both inspection signatures, a passing gas test
   and an approval wherever its type demands them, and work that was started
   has a validity window.  Every sign-off only ever adds to the row or to the
   list of tests, so a stale write cannot take one back. *)
NoUngatedWork ==
    row.status \in {"pending_issue", "active", "suspended", "expired"} =>
        /\ RequiresInspection => row.signed = Signatory
        /\ RequiresGasTest => pass # Never
        /\ RequiresApprover => row.approved
        /\ row.status # "pending_issue" => row.valid_to # Never

(* However transactions overlap, the renewals of a permit stay within their
   limit, and nobody works on a permit that is not cleared (PermitService). *)
OverlapIsSafe == TypeOK /\ NoUngatedWork

(* A closed or cancelled permit changes only by the write of a transaction,
   or of a tick, that loaded it before it became void: a request that starts
   afterwards finds it void and leaves it alone.  Recording a gas test writes
   no permit that is void. *)
VoidChangedOnlyByStale ==
    [][row.status \in Void /\ row' # row =>
          \/ \E w \in Workers : /\ Busy(w) /\ req'[w] = Idle
                                /\ req[w].loaded.status \notin Void
          \/ tick \in {"expiring", "suspending"}]_vars
=============================================================================
