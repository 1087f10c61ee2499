------------------------ MODULE PermitRequestsProofs -------------------------
(***************************************************************************)
(* Theorems about PermitRequests: for every number of workers, every       *)
(* permit type and every overlap of transactions.                          *)
(***************************************************************************)
EXTENDS PermitRequests, TLAPS

(* What a permit has earned when it reaches status st, said of the row r and
   of the gas tests p that exist now.  Nothing in the code takes any of it
   back, which is why it can be said of the status that a request loaded
   earlier and of the row that it will write later. *)
Earned(st, r, p) ==
    /\ RequiresInspection
          /\ st \in {"pending_gas_test", "pending_approval", "pending_issue",
                     "active", "suspended", "expired"}
       => r.signed = Signatory
    /\ RequiresGasTest
          /\ st \in {"pending_approval", "pending_issue", "active",
                     "suspended", "expired"}
       => p # Never
    /\ RequiresApprover
          /\ st \in {"pending_issue", "active", "suspended", "expired"}
       => r.approved
    /\ st \in {"active", "suspended", "expired"} => r.valid_to # Never

(* The status that the guard of an operation found when the request loaded
   the permit. *)
Found(op, s) ==
    /\ op \in {"update_plain", "update_extended", "submit"} => Editable(s)
    /\ op \in {"inspect_issuer", "inspect_receiver"} => CanInspect(s)
    /\ op = "approve" => CanApprove(s)
    /\ op = "issue" => s.status = "pending_issue"
    /\ op \in {"suspend", "renew"} => s.status = "active"
    /\ op = "resume" => s.status = "suspended"
    /\ op = "renew" => s.renewal_count < MaxRenewals
    /\ op = "cancel" => CanCancel(s)
    /\ op = "close" => CanClose(s)
    /\ op = "reject" => CanReject(s)

Inv ==
    /\ TypeOK
    /\ Earned(row.status, row, pass)
    /\ \A w \in Workers : Busy(w) =>
          /\ Found(req[w].op, req[w].loaded)
          /\ Earned(req[w].loaded.status, row, pass)
          /\ req[w].loaded.signed \subseteq row.signed
    /\ tick \in {"expiring", "suspending"} => Earned("active", row, pass)

-----------------------------------------------------------------------------

(* What r has that n may not lack. *)
Grows(r, n) ==
    /\ r.signed \subseteq n.signed
    /\ r.approved => n.approved
    /\ r.valid_to # Never => n.valid_to # Never

LEMMA EarnedGrows ==
    ASSUME NEW r \in Row, NEW n \in Row, Grows(r, n),
           NEW p, NEW q, p # Never => q # Never,
           NEW st, Earned(st, r, p)
    PROVE  Earned(st, n, q)
  <1>1. n.signed \subseteq Signatory
    BY DEF Row
  <1> QED
    BY <1>1 DEF Earned, Grows

(* A write loses nothing, and the status it leaves is earned. *)
LEMMA WriteEarns ==
    ASSUME now \in Nat,
           NEW s \in Row, NEW r \in Row, NEW p,
           NEW op \in Operation, Found(op, s),
           Earned(s.status, r, p), Earned(r.status, r, p),
           s.signed \subseteq r.signed,
           r.renewal_count <= MaxRenewals
    PROVE  LET n == Written(op, s, r)
               q == IF op = "gas_pass" THEN now ELSE p
           IN  /\ n \in Row
               /\ n.renewal_count <= MaxRenewals
               /\ Grows(r, n)
               /\ Earned(n.status, n, q)
  <1> DEFINE n == Written(op, s, r)
             q == IF op = "gas_pass" THEN now ELSE p
  <1> SUFFICES /\ n \in Row
               /\ n.renewal_count <= MaxRenewals
               /\ Grows(r, n)
               /\ Earned(n.status, n, q)
    OBVIOUS
  <1> USE DEF Row
  <1>1. CASE op \in {"update_plain", "update_extended"}
    <2>1. PICK x \in BOOLEAN :
             n = [r EXCEPT !.is_extended = x, !.complete = TRUE]
      BY <1>1 DEF Written, UpdateDraftRow
    <2> QED
      BY <1>1, <2>1 DEF Grows, Earned
  <1>2. CASE op = "submit"
    <2>1. n = [r EXCEPT !.status = AfterSubmit(s)]
      BY <1>2 DEF Written, SubmitRow
    <2> QED
      BY <1>2, <2>1 DEF AfterSubmit, AfterInspection, AfterGasTest,
         NeedsApprover, Grows, Earned, Status
  <1>3. ASSUME NEW as \in Signatory, op \in {"inspect_issuer", "inspect_receiver"},
               n = InspectRow(s, r, as)
        PROVE  /\ n \in Row
               /\ n.renewal_count <= MaxRenewals
               /\ Grows(r, n)
               /\ Earned(n.status, n, q)
    <2>1. CASE InspectionComplete(s, as)
      <3>1. n = [r EXCEPT !.signed = Signatory, !.status = AfterInspection(s)]
        BY <1>3, <2>1 DEF InspectRow, InspectionComplete
      <3> QED
        BY <3>1, <1>3 DEF AfterInspection, AfterGasTest, NeedsApprover, Grows,
           Earned, Status
    <2>2. CASE ~ InspectionComplete(s, as)
      <3>1. n = [r EXCEPT !.signed = r.signed \cup {as}]
        BY <1>3, <2>2 DEF InspectRow
      <3>2. /\ r.signed \cup {as} \subseteq Signatory
            /\ r.signed = Signatory => r.signed \cup {as} = Signatory
        OBVIOUS
      <3> QED
        BY <3>1, <3>2, <1>3 DEF Grows, Earned
    <2> QED
      BY <2>1, <2>2
  <1>4. CASE op = "inspect_issuer"
    BY <1>3, <1>4 DEF Written, Signatory
  <1>5. CASE op = "inspect_receiver"
    BY <1>3, <1>5 DEF Written, Signatory
  <1>6. CASE op = "gas_pass"
    <2>1. n = [r EXCEPT !.status = IF s.status = "pending_gas_test"
                                   THEN AfterGasTest(s) ELSE r.status]
      BY <1>6 DEF Written, GasTestRow, GasTestAdvances
    <2>2. q # Never
      BY <1>6 DEF Never
    <2> QED
      BY <1>6, <2>1, <2>2 DEF AfterGasTest, NeedsApprover, Grows, Earned, Status
  <1>7. CASE op = "approve"
    BY <1>7 DEF Written, ApproveRow, Found, CanApprove, Grows, Earned, Status
  <1>8. CASE op = "issue"
    <2>1. now + Validity \in Nat /\ now + Validity # Never
      BY PermitTypeAssumption DEF Never
    <2>2. n = [r EXCEPT !.status = "active", !.valid_from = now,
                        !.valid_to = now + Validity]
      BY <1>8 DEF Written, IssueRow
    <2> QED
      BY <1>8, <2>1, <2>2 DEF Found, Grows, Earned, Status
  <1>9. CASE op = "suspend"
    BY <1>9 DEF Written, SuspendRow, Found, Grows, Earned, Status
  <1>10. CASE op = "resume"
    BY <1>10 DEF Written, ResumeRow, Found, Grows, Earned, Status
  <1>11. CASE op = "renew"
    <2>1. now + Validity \in Nat /\ now + Validity # Never
      BY PermitTypeAssumption DEF Never
    <2>2. n = [r EXCEPT !.renewal_count = s.renewal_count + 1,
                        !.valid_to = now + Validity]
      BY <1>11 DEF Written, RenewRow
    <2>3. s.renewal_count + 1 \in Nat /\ s.renewal_count + 1 <= MaxRenewals
      BY <1>11, PermitTypeAssumption DEF Found
    <2> QED
      BY <1>11, <2>1, <2>2, <2>3 DEF Grows, Earned
  <1>12. CASE op \in {"cancel", "close", "reject"}
    BY <1>12 DEF Written, CancelRow, CloseRow, RejectRow, Grows, Earned, Status
  <1> QED
    BY <1>1, <1>2, <1>4, <1>5, <1>6, <1>7, <1>8, <1>9, <1>10, <1>11, <1>12
       DEF Operation

-----------------------------------------------------------------------------

LEMMA InitInv == Init => Inv
  <1> SUFFICES ASSUME Init PROVE Inv
    OBVIOUS
  <1>1. PICK x \in BOOLEAN : row = Draft(x, TRUE)
    BY DEF Init
  <1>2. row \in Row /\ row.status = "draft" /\ row.renewal_count = 0
    BY <1>1 DEF Draft, Row, Status
  <1>a. req \in [Workers -> Request \cup {Idle}]
    BY DEF Init
  <1>b. row.renewal_count <= MaxRenewals
    BY <1>2, PermitTypeAssumption
  <1>c. /\ pass \in Nat \cup {Never}
        /\ now \in Nat
        /\ tick \in Phase
    BY DEF Init, Phase
  <1>3. TypeOK
    BY <1>2, <1>a, <1>b, <1>c, Zenon DEF TypeOK
  <1> QED
    BY <1>2, <1>3 DEF Init, Inv, Earned, Busy

(* A request that is in flight keeps what it loaded when others write. *)
LEMMA InFlight ==
    ASSUME TypeOK, NEW W \in SUBSET Workers, OthersMiss(W),
           NEW w \in Workers, Busy(w)'
    PROVE  Busy(w) /\ req'[w].op = req[w].op /\ req'[w].loaded = req[w].loaded
  <1>1. w \in W /\ Busy(w)
    BY DEF OthersMiss, Busy
  <1>2. req'[w] = [req[w] EXCEPT !.missed = @ + 1]
    BY <1>1 DEF OthersMiss
  <1>3. req[w] \in Request
    BY <1>1 DEF TypeOK, Busy
  <1> QED
    BY <1>1, <1>2, <1>3 DEF Request

LEMMA MissKeepsType ==
    ASSUME TypeOK, NEW W \in SUBSET Workers, OthersMiss(W)
    PROVE  req' \in [Workers -> Request \cup {Idle}]
  <1>1. \A w \in Workers : Busy(w) => req[w] \in Request
    BY DEF TypeOK, Busy
  <1>2. \A w \in Workers : Busy(w) =>
          [req[w] EXCEPT !.missed = @ + 1] \in Request
    BY <1>1 DEF Request
  <1> QED
    BY <1>2 DEF OthersMiss

(* If a step writes the row, loses nothing and leaves an earned status, while
   the other requests miss it, the invariant is kept. *)
LEMMA WriteKeepsInv ==
    ASSUME Inv, NEW W \in SUBSET Workers, OthersMiss(W),
           row' \in Row, row'.renewal_count <= MaxRenewals,
           pass' \in Nat \cup {Never}, pass # Never => pass' # Never,
           Grows(row, row'), Earned(row'.status, row', pass'),
           now' = now, tick' \in Phase,
           tick' \in {"expiring", "suspending"} => tick' = tick
    PROVE  Inv'
  <1>1. TypeOK'
    BY MissKeepsType DEF Inv, TypeOK
  <1>2. \A st : Earned(st, row, pass) => Earned(st, row', pass')
    BY EarnedGrows DEF Inv, TypeOK
  <1>3. ASSUME NEW w \in Workers, Busy(w)'
        PROVE  /\ Found(req'[w].op, req'[w].loaded)
               /\ Earned(req'[w].loaded.status, row', pass')
               /\ req'[w].loaded.signed \subseteq row'.signed
    <2>1. Busy(w) /\ req'[w].op = req[w].op /\ req'[w].loaded = req[w].loaded
      BY <1>3, InFlight DEF Inv
    <2> QED
      BY <2>1, <1>2 DEF Inv, Grows
  <1>4. tick' \in {"expiring", "suspending"} => Earned("active", row', pass')
    BY <1>2 DEF Inv
  <1> QED
    BY <1>1, <1>3, <1>4 DEF Inv

LEMMA NextInv == Inv /\ [Next]_vars => Inv'
  <1> SUFFICES ASSUME Inv, [Next]_vars PROVE Inv'
    OBVIOUS
  <1>t. TypeOK
    BY DEF Inv
  <1>1. ASSUME NEW w \in Workers, NEW op \in Operation, Load(w, op)
        PROVE  Inv'
    <2>1. Found(op, row)
      BY <1>1 DEF Load, Allowed, Found, CanSubmit, CanIssue, CanSuspend,
                  CanResume, CanRenew
    <2>2. [op |-> op, loaded |-> row, missed |-> 0] \in Request
      BY <1>t DEF TypeOK, Request
    <2>3. TypeOK'
      BY <1>1, <1>t, <2>2 DEF Load, TypeOK
    <2>4. \A v \in Workers : req'[v] = IF v = w
               THEN [op |-> op, loaded |-> row, missed |-> 0] ELSE req[v]
      BY <1>1, <1>t DEF Load, TypeOK
    <2> QED
      BY <1>1, <2>1, <2>3, <2>4 DEF Load, Inv, Busy
  <1>2. ASSUME NEW w \in Workers, Commit(w)
        PROVE  Inv'
    <2>1. req[w] \in Request
      BY <1>2, <1>t DEF Commit, Busy, TypeOK
    <2> DEFINE op == req[w].op
               s == req[w].loaded
    <2>2. op \in Operation /\ s \in Row
      BY <2>1 DEF Request
    <2>3. /\ Found(op, s)
          /\ Earned(s.status, row, pass)
          /\ s.signed \subseteq row.signed
      BY <1>2 DEF Commit, Inv
    <2>4. /\ row' = Written(op, s, row)
          /\ pass' = IF op = "gas_pass" THEN now ELSE pass
          /\ OthersMiss(Workers \ {w})
          /\ now' = now
          /\ tick' = tick
      BY <1>2 DEF Commit
    <2>6. pass' \in Nat \cup {Never} /\ (pass # Never => pass' # Never)
      BY <2>4, <1>t DEF TypeOK, Never
    <2>7. /\ row \in Row
          /\ row.renewal_count <= MaxRenewals
          /\ now \in Nat
          /\ Earned(row.status, row, pass)
          /\ tick \in Phase
      BY <1>t DEF TypeOK, Inv
    <2> HIDE DEF op, s
    <2>8. /\ row' \in Row
          /\ row'.renewal_count <= MaxRenewals
          /\ Grows(row, row')
          /\ Earned(row'.status, row', pass')
      BY <2>2, <2>3, <2>4, <2>7, WriteEarns
    <2> QED
      BY <2>4, <2>6, <2>7, <2>8, WriteKeepsInv
  <1>3. ASSUME NEW w \in Workers, Rollback(w)
        PROVE  Inv'
    <2>1. TypeOK'
      BY <1>3, <1>t DEF Rollback, TypeOK
    <2>2. \A v \in Workers : req'[v] = IF v = w THEN Idle ELSE req[v]
      BY <1>3, <1>t DEF Rollback, TypeOK
    <2> QED
      BY <1>3, <2>1, <2>2 DEF Rollback, Inv, Busy
  <1>4. CASE SelectOverdue
    BY <1>4 DEF SelectOverdue, Overdue, Inv, TypeOK, Phase, Busy
  <1>5. CASE WriteExpired
    <2>1. Earned("active", row, pass)
      BY <1>5 DEF WriteExpired, Inv
    <2>2. /\ row' \in Row
          /\ row'.renewal_count <= MaxRenewals
          /\ Grows(row, row')
          /\ Earned(row'.status, row', pass')
      BY <1>5, <1>t, <2>1 DEF WriteExpired, ExpireRow, TypeOK, Row, Status,
                              Grows, Earned
    <2> QED
      BY <1>5, <1>t, <2>2, WriteKeepsInv DEF WriteExpired, TypeOK, Phase
  <1>6. CASE SelectStaleGas
    BY <1>6 DEF SelectStaleGas, Inv, TypeOK, Phase, Busy
  <1>7. CASE ReloadForSuspend
    BY <1>7 DEF ReloadForSuspend, Inv, TypeOK, Phase, Busy
  <1>8. CASE WriteSuspended
    <2>1. Earned("active", row, pass)
      BY <1>8 DEF WriteSuspended, Inv
    <2>2. /\ row' \in Row
          /\ row'.renewal_count <= MaxRenewals
          /\ Grows(row, row')
          /\ Earned(row'.status, row', pass')
      BY <1>8, <1>t, <2>1 DEF WriteSuspended, SuspendRow, TypeOK, Row, Status,
                              Grows, Earned
    <2> QED
      BY <1>8, <1>t, <2>2, WriteKeepsInv DEF WriteSuspended, TypeOK, Phase
  <1>9. CASE NextMinute
    BY <1>9 DEF NextMinute, Inv, TypeOK, Phase, Busy
  <1>10. CASE UNCHANGED vars
    BY <1>10 DEF vars, Inv, TypeOK, Busy
  <1> QED
    BY <1>1, <1>2, <1>3, <1>4, <1>5, <1>6, <1>7, <1>8, <1>9, <1>10 DEF Next

(* Every reachable state is well typed, and no overlap of renewals lets the
   stored count exceed the maximum of the permit type. *)
THEOREM RequestsTypeCorrect == Spec => []TypeOK
  <1>1. Inv => TypeOK
    BY DEF Inv
  <1> QED
    BY <1>1, InitInv, NextInv, PTL DEF Spec

(* No overlap of requests and ticks puts a permit in force, or leaves it ready
   for issue, without the signatures, the gas test and the approval of its
   type. *)
THEOREM NoOverlapUngatesWork == Spec => []NoUngatedWork
  <1>1. Inv => NoUngatedWork
    BY DEF Inv, Earned, NoUngatedWork
  <1> QED
    BY <1>1, InitInv, NextInv, PTL DEF Spec

(* Both at once, for every number of overlapping transactions. *)
THEOREM OverlapsAreSafe == Spec => []OverlapIsSafe
  BY RequestsTypeCorrect, NoOverlapUngatesWork, PTL DEF OverlapIsSafe

-----------------------------------------------------------------------------

LEMMA VoidStep ==
    Inv /\ [Next]_vars =>
      (row.status \in Void /\ row' # row =>
          \/ \E w \in Workers : /\ Busy(w) /\ req'[w] = Idle
                                /\ req[w].loaded.status \notin Void
          \/ tick \in {"expiring", "suspending"})
  <1> SUFFICES ASSUME Inv, [Next]_vars, row' # row,
                      tick \notin {"expiring", "suspending"}
               PROVE  \E w \in Workers : /\ Busy(w) /\ req'[w] = Idle
                                         /\ req[w].loaded.status \notin Void
    OBVIOUS
  <1>1. PICK w \in Workers : Commit(w)
    BY DEF Next, Load, Rollback, SelectOverdue, WriteExpired, SelectStaleGas,
           ReloadForSuspend, WriteSuspended, NextMinute, vars
  <1>2. Busy(w) /\ req'[w] = Idle
    BY <1>1 DEF Commit, OthersMiss
  <1>3. /\ Found(req[w].op, req[w].loaded)
        /\ req[w] \in Request
    BY <1>2 DEF Inv, TypeOK, Busy
  <1>4. CASE req[w].op = "gas_pass"
    <2>1. row' = GasTestRow(req[w].loaded, row, TRUE)
      BY <1>1, <1>4 DEF Commit, Written
    <2>2. row \in Row
      BY DEF Inv, TypeOK
    <2>3. req[w].loaded.status = "pending_gas_test"
      BY <2>1, <2>2 DEF GasTestRow, GasTestAdvances, Row
    <2> QED
      BY <1>2, <2>3 DEF Void
  <1>5. CASE req[w].op # "gas_pass"
    BY <1>2, <1>3, <1>5 DEF Request, Operation, Found, Void, Editable,
       CanInspect, CanApprove, CanCancel, CanClose, CanReject
  <1> QED
    BY <1>4, <1>5

(* A void permit is only ever changed by a transaction, or a tick, that read
   it before it became void. *)
THEOREM VoidOnlyByStale == Spec => VoidChangedOnlyByStale
  BY InitInv, NextInv, VoidStep, PTL DEF Spec, VoidChangedOnlyByStale
=============================================================================
