---------------------------- MODULE ViolationReview ----------------------------
(***************************************************************************)
(* Review of camera detections: the lists of PPE and red zone violations,  *)
(* where rows are ticked and judged in bulk, the detail page of one        *)
(* violation, and PpeViolationService and RoiViolationService, which write *)
(* one verdict after the other, without a transaction, and resolve the     *)
(* alert of a false positive.  The equipment register ticks rows the same  *)
(* way.  Only the review of a violation resolves its alert here.           *)
(***************************************************************************)
EXTENDS Naturals, FiniteSets

CONSTANTS
    Violations,
    PageRows,    \* rows on one page of the list
    MaxTurns,    \* bound of the pages and filters visited, and pages opened
    MaxReviews   \* bound of the requests, those of other reviewers included

ASSUME ReviewAssumption ==
    IsFiniteSet(Violations) /\ {PageRows, MaxTurns, MaxReviews} \subseteq Nat

VARIABLES
    review,      \* review_status of every violation
    silenced,    \* violations whose alert is resolved
    listing,     \* rows of the list
    ticked,      \* the ids in the selection, on this page or another
    detail,      \* violations a detail page offers to review
    requests,    \* reviews being carried out
    marked,      \* violations somebody called false positives
    turns

reviewVars == <<review, silenced, listing, ticked, detail, requests, marked, turns>>

Verdicts == {"confirmed", "false_positive"}

ReviewRequest == [verdict : Verdicts, ids : SUBSET Violations,
            owes : SUBSET Violations, serial : 1..MaxReviews]

Matching(filter) == {v \in Violations : filter = "all" \/ review[v] = filter}

(* One page of a list: full, or the last one. *)
PageOf(rows) ==
    {page \in SUBSET rows : Cardinality(page) <= PageRows /\ (page = {} => rows = {})}

ReviewInit ==
    /\ review = [v \in Violations |-> "unreviewed"]
    /\ silenced = {} /\ marked = {} /\ detail = {}
    /\ listing \in PageOf(Violations)
    /\ ticked = {} /\ requests = {} /\ turns = 0

-----------------------------------------------------------------------------
(* The list.  A visit, and a live reload, keep the state of the page.      *)

VisitList ==
    /\ turns < MaxTurns /\ turns' = turns + 1
    /\ \E filter \in {"all", "unreviewed"} \cup Verdicts : listing' \in PageOf(Matching(filter))
    /\ UNCHANGED <<review, silenced, ticked, detail, requests, marked>>

Toggle(v) ==
    /\ v \in listing
    /\ ticked' = IF v \in ticked THEN ticked \ {v} ELSE ticked \cup {v}
    /\ UNCHANGED <<review, silenced, listing, detail, requests, marked, turns>>

(* The header box compares lengths only, whatever rows are ticked. *)
HeaderChecked == listing # {} /\ Cardinality(ticked) = Cardinality(listing)

ToggleAll ==
    /\ ticked' = IF HeaderChecked THEN {} ELSE listing
    /\ UNCHANGED <<review, silenced, listing, detail, requests, marked, turns>>

OpenDetail(v) ==
    /\ turns < MaxTurns /\ turns' = turns + 1
    /\ review[v] = "unreviewed" /\ detail' = detail \cup {v}
    /\ UNCHANGED <<review, silenced, listing, ticked, requests, marked>>

-----------------------------------------------------------------------------
(* Requests. *)

(* Mutant of Posted: the form posts the rows on the page. *)
PostedListing == listing

(* A hidden input for every ticked row: the ones no longer listed too. *)
PostedReviews == ticked

AskReview(verdict, ids) ==
    LET n == Cardinality(requests) + 1
    IN  /\ n <= MaxReviews
        /\ requests' = requests \cup
              {[verdict |-> verdict, ids |-> ids, owes |-> {}, serial |-> n]}

Bulk(verdict) ==
    /\ ticked # {} /\ AskReview(verdict, PostedReviews)
    /\ marked' = IF verdict = "false_positive" THEN marked \cup ticked ELSE marked
    /\ UNCHANGED <<review, silenced, listing, ticked, detail, turns>>

(* The two forms of the detail page, offered while it shows "unreviewed". *)
ReviewOne(v, verdict) ==
    /\ v \in detail /\ AskReview(verdict, {v})
    /\ detail' = detail \ {v}
    /\ marked' = IF verdict = "false_positive" THEN marked \cup {v} ELSE marked
    /\ UNCHANGED <<review, silenced, listing, ticked, turns>>

(* Mutant of Owed: the alert is resolved for a first verdict only. *)
OwedFirst(r, v) ==
    IF r.verdict = "false_positive" /\ review[v] = "unreviewed" THEN {v} ELSE {}

Owed(r, v) == IF r.verdict = "false_positive" THEN {v} ELSE {}

(* review(): the verdict is saved, whatever it was before ... *)
Judge(r, v) ==
    /\ v \in r.ids /\ r.owes = {}
    /\ review' = [review EXCEPT ![v] = r.verdict]
    /\ requests' = (requests \ {r}) \cup
                      {[r EXCEPT !.ids = @ \ {v}, !.owes = Owed(r, v)]}
    /\ UNCHANGED <<silenced, listing, ticked, detail, marked, turns>>

(* ... and then the alert of a false positive is resolved. *)
ResolveViolationAlert(r, v) ==
    /\ v \in r.owes
    /\ silenced' = silenced \cup {v}
    /\ requests' = (requests \ {r}) \cup {[r EXCEPT !.owes = {}]}
    /\ UNCHANGED <<review, listing, ticked, detail, marked, turns>>

ReviewNext ==
    \/ VisitList \/ ToggleAll
    \/ \E v \in Violations : Toggle(v) \/ OpenDetail(v)
    \/ \E verdict \in Verdicts :
          Bulk(verdict) \/ \E v \in Violations : ReviewOne(v, verdict)
    \/ \E r \in requests, v \in Violations : Judge(r, v) \/ ResolveViolationAlert(r, v)

ReviewSpec == ReviewInit /\ [][ReviewNext]_reviewVars

-----------------------------------------------------------------------------
(* Types; at most one alert waits to be resolved in every request. *)
ReviewTypeOK ==
    /\ review \in [Violations -> {"unreviewed"} \cup Verdicts]
    /\ listing \subseteq Violations /\ Cardinality(listing) <= PageRows
    /\ ticked \subseteq Violations /\ detail \subseteq Violations
    /\ requests \subseteq ReviewRequest
    /\ \A r \in requests : Cardinality(r.owes) <= 1
    /\ silenced \subseteq Violations /\ marked \subseteq Violations

(* Doc 10:160, "the linked alert resolves on FP": whatever verdicts other    *)
(* reviewers give before, between and after, a violation that stands as a    *)
(* false positive has its alert resolved once no request is between the two  *)
(* writes (PpeViolationService.php:110-123).                                 *)
FalsePositiveSilenced ==
    \A v \in Violations :
       review[v] = "false_positive" /\ (\A r \in requests : v \notin r.owes) => v \in silenced

(* An alert is silenced by a reviewer's choice only: nothing is resolved for  *)
(* a violation that was not ticked, or open, when somebody pressed the false  *)
(* positive button, however pages were turned and rows ticked since.          *)
SilencedByChoice == silenced \subseteq marked

(* The alerts of violations are resolved for false positives, all of them, *)
(* and by choice.                                                          *)
AlertsFollowVerdicts == ReviewTypeOK /\ FalsePositiveSilenced /\ SilencedByChoice
=============================================================================
