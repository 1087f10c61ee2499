------------------------------ MODULE DeskProofs ------------------------------
(***************************************************************************)
(* Theorems about the pages of the control room and of the safety officer: *)
(* for every number of violations, reviewers, officers, workers, dialogs   *)
(* and requests.                                                           *)
(***************************************************************************)
EXTENDS ViolationReview, IncidentRecords, LogDrafts, RedZones, AlertConsole,
        DashboardLive, FiniteSetTheorems, SequenceTheorems, TLAPS

-----------------------------------------------------------------------------
(* ViolationReview.                                                        *)
-----------------------------------------------------------------------------
(* A request owes the alert of one violation at most. *)
OwesOne(r) == r.owes = {} \/ \E v \in Violations : r.owes = {v}

(* What a request still has to judge, and the alert it owes, were called false
   positives by whoever sent it; a confirmation owes nothing. *)
Chosen(r) ==
    /\ r.verdict = "false_positive" => r.ids \cup r.owes \subseteq marked
    /\ r.verdict # "false_positive" => r.owes = {}

ReviewInv ==
    /\ ReviewTypeOK
    /\ IsFiniteSet(requests)
    /\ \A r \in requests : OwesOne(r) /\ Chosen(r)
    /\ FalsePositiveSilenced
    /\ SilencedByChoice


LEMMA PageFits ==
    ASSUME NEW rows \in SUBSET Violations, NEW pg \in PageOf(rows)
    PROVE  pg \subseteq Violations /\ Cardinality(pg) <= PageRows
  BY DEF PageOf

LEMMA OwesOneFits ==
    ASSUME NEW r, OwesOne(r)
    PROVE  Cardinality(r.owes) <= 1
  <1>1. CASE r.owes = {}
    BY <1>1, FS_EmptySet
  <1>2. ASSUME NEW v \in Violations, r.owes = {v}
        PROVE  Cardinality(r.owes) <= 1
    BY <1>2, FS_Singleton
  <1> QED
    BY <1>1, <1>2 DEF OwesOne

(* Replacing a request by what is left of it. *)
LEMMA ReplaceFits ==
    ASSUME IsFiniteSet(requests), requests \subseteq ReviewRequest,
           \A q \in requests : OwesOne(q),
           NEW r \in requests, NEW s \in ReviewRequest, OwesOne(s),
           requests' = (requests \ {r}) \cup {s}
    PROVE  /\ requests' \subseteq ReviewRequest
           /\ IsFiniteSet(requests')
           /\ \A q \in requests' : OwesOne(q) /\ Cardinality(q.owes) <= 1
  <1>1. IsFiniteSet(requests \ {r})
    BY FS_Difference
  <1>2. IsFiniteSet(requests')
    BY <1>1, FS_AddElement
  <1> QED
    BY <1>2, OwesOneFits

LEMMA ReviewInitInv == ReviewInit => ReviewInv
  <1> SUFFICES ASSUME ReviewInit PROVE ReviewInv
    OBVIOUS
  <1>1. IsFiniteSet(requests)
    BY FS_EmptySet DEF ReviewInit
  <1>2. listing \subseteq Violations /\ Cardinality(listing) <= PageRows
    BY PageFits DEF ReviewInit
  <1> QED
    BY <1>1, <1>2
    DEF ReviewInit, ReviewInv, ReviewTypeOK, FalsePositiveSilenced, SilencedByChoice

(* A new request: it owes nothing, and its sender called its violations what
   its verdict says. *)
LEMMA ReviewAskInv ==
    ASSUME ReviewInv, NEW verdict \in Verdicts, NEW ids \in SUBSET Violations,
           AskReview(verdict, ids),
           marked' = IF verdict = "false_positive" THEN marked \cup ids ELSE marked,
           detail' \subseteq detail, UNCHANGED <<review, silenced, listing, ticked>>
    PROVE  ReviewInv'
  <1> DEFINE n == Cardinality(requests) + 1
             s == [verdict |-> verdict, ids |-> ids, owes |-> {}, serial |-> n]
  <1>1. n \in 1..MaxReviews
    <2>1. Cardinality(requests) \in Nat
      BY FS_CardinalityType DEF ReviewInv
    <2>2. n <= MaxReviews
      BY DEF AskReview
    <2> QED
      BY <2>1, <2>2, ReviewAssumption
  <1>2. requests' = requests \cup {s} /\ s \in ReviewRequest
    BY <1>1 DEF AskReview, ReviewRequest
  <1>3. IsFiniteSet(requests')
    BY <1>2, FS_AddElement DEF ReviewInv
  <1>4. \A q \in requests' : OwesOne(q) /\ Cardinality(q.owes) <= 1
    BY <1>2, OwesOneFits DEF ReviewInv, OwesOne
  <1>5. \A q \in requests' : Chosen(q)'
    BY <1>2 DEF ReviewInv, Chosen
  <1>6. ReviewTypeOK'
    BY <1>2, <1>4 DEF ReviewInv, ReviewTypeOK
  <1>7. FalsePositiveSilenced'
    BY <1>2 DEF ReviewInv, FalsePositiveSilenced
  <1>8. SilencedByChoice'
    BY DEF ReviewInv, SilencedByChoice
  <1> QED
    BY <1>3, <1>4, <1>5, <1>6, <1>7, <1>8 DEF ReviewInv, OwesOne

LEMMA ReviewJudgeInv ==
    ASSUME ReviewInv, NEW r \in requests, NEW v \in Violations, Judge(r, v)
    PROVE  ReviewInv'
  <1> DEFINE s == [r EXCEPT !.ids = @ \ {v}, !.owes = Owed(r, v)]
  <1>1. r \in ReviewRequest /\ v \in r.ids /\ r.owes = {}
    BY DEF ReviewInv, ReviewTypeOK, Judge
  <1>2. s \in ReviewRequest /\ OwesOne(s)
    BY <1>1 DEF ReviewRequest, Owed, OwesOne
  <1>3. requests' = (requests \ {r}) \cup {s}
    BY DEF Judge
  <1>4. /\ requests' \subseteq ReviewRequest
        /\ IsFiniteSet(requests')
        /\ \A q \in requests' : OwesOne(q) /\ Cardinality(q.owes) <= 1
    BY <1>2, <1>3, ReplaceFits DEF ReviewInv, ReviewTypeOK
  <1>5. \A q \in requests' : Chosen(q)'
    <2>1. Chosen(r)
      BY DEF ReviewInv
    <2>2. Chosen(s)
      BY <1>1, <2>1 DEF Chosen, Owed, ReviewRequest
    <2> QED
      BY <1>3, <2>2 DEF ReviewInv, Chosen, Judge
  <1>6. ReviewTypeOK'
    BY <1>1, <1>4 DEF ReviewInv, ReviewTypeOK, Judge, ReviewRequest
  <1>7. FalsePositiveSilenced'
    <2> SUFFICES ASSUME NEW w \in Violations, review'[w] = "false_positive",
                        \A q \in requests' : w \notin q.owes
                 PROVE  w \in silenced'
      BY DEF FalsePositiveSilenced
    <2>1. w # v
      <3> SUFFICES ASSUME w = v PROVE FALSE
        OBVIOUS
      <3>1. r.verdict = "false_positive"
        BY DEF Judge, ReviewInv, ReviewTypeOK
      <3>2. v \in s.owes
        BY <1>1, <3>1 DEF Owed, ReviewRequest
      <3> QED
        BY <1>3, <3>2
    <2>2. review[w] = "false_positive"
      BY <2>1 DEF Judge, ReviewInv, ReviewTypeOK
    <2>3. \A q \in requests : w \notin q.owes
      BY <1>1, <1>3
    <2> QED
      BY <2>2, <2>3 DEF ReviewInv, FalsePositiveSilenced, Judge
  <1>8. SilencedByChoice'
    BY DEF ReviewInv, SilencedByChoice, Judge
  <1> QED
    BY <1>4, <1>5, <1>6, <1>7, <1>8 DEF ReviewInv, OwesOne

LEMMA ReviewResolveInv ==
    ASSUME ReviewInv, NEW r \in requests, NEW v \in Violations, ResolveViolationAlert(r, v)
    PROVE  ReviewInv'
  <1> DEFINE s == [r EXCEPT !.owes = {}]
  <1>1. r \in ReviewRequest /\ r.owes = {v}
    BY DEF ReviewInv, ReviewTypeOK, ResolveViolationAlert, OwesOne
  <1>2. s \in ReviewRequest /\ OwesOne(s)
    BY <1>1 DEF ReviewRequest, OwesOne
  <1>3. requests' = (requests \ {r}) \cup {s}
    BY DEF ResolveViolationAlert
  <1>4. /\ requests' \subseteq ReviewRequest
        /\ IsFiniteSet(requests')
        /\ \A q \in requests' : OwesOne(q) /\ Cardinality(q.owes) <= 1
    BY <1>2, <1>3, ReplaceFits DEF ReviewInv, ReviewTypeOK
  <1>5. Chosen(r)
    BY DEF ReviewInv
  <1>6. \A q \in requests' : Chosen(q)'
    BY <1>1, <1>3, <1>5 DEF ReviewInv, Chosen, ResolveViolationAlert, ReviewRequest
  <1>7. ReviewTypeOK'
    BY <1>4 DEF ReviewInv, ReviewTypeOK, ResolveViolationAlert
  <1>8. FalsePositiveSilenced'
    BY <1>1, <1>3 DEF ReviewInv, FalsePositiveSilenced, ResolveViolationAlert
  <1>9. SilencedByChoice'
    BY <1>1, <1>5 DEF ReviewInv, SilencedByChoice, Chosen, ResolveViolationAlert
  <1> QED
    BY <1>4, <1>6, <1>7, <1>8, <1>9 DEF ReviewInv, OwesOne

LEMMA ReviewNextInv == ReviewInv /\ [ReviewNext]_reviewVars => ReviewInv'
  <1> SUFFICES ASSUME ReviewInv, [ReviewNext]_reviewVars PROVE ReviewInv'
    OBVIOUS
  <1> USE DEF ReviewInv, ReviewTypeOK, FalsePositiveSilenced, SilencedByChoice, OwesOne, Chosen
  <1>1. CASE VisitList
    <2>1. listing' \subseteq Violations /\ Cardinality(listing') <= PageRows
      <3>1. PICK filter \in {"all", "unreviewed"} \cup Verdicts :
               listing' \in PageOf(Matching(filter))
        BY <1>1 DEF VisitList
      <3> QED
        BY <3>1, PageFits DEF Matching
    <2> QED
      BY <1>1, <2>1 DEF VisitList
  <1>2. CASE ToggleAll
    BY <1>2 DEF ToggleAll
  <1>3. ASSUME NEW v \in Violations, Toggle(v) \/ OpenDetail(v) PROVE ReviewInv'
    BY <1>3 DEF Toggle, OpenDetail
  <1>4. ASSUME NEW verdict \in Verdicts, Bulk(verdict) PROVE ReviewInv'
    BY <1>4, ReviewAskInv DEF Bulk, PostedReviews
  <1>5. ASSUME NEW verdict \in Verdicts, NEW v \in Violations, ReviewOne(v, verdict)
        PROVE  ReviewInv'
    BY <1>5, ReviewAskInv DEF ReviewOne
  <1>6. ASSUME NEW r \in requests, NEW v \in Violations,
               Judge(r, v) \/ ResolveViolationAlert(r, v)
        PROVE  ReviewInv'
    BY <1>6, ReviewJudgeInv, ReviewResolveInv
  <1>7. CASE UNCHANGED reviewVars
    BY <1>7 DEF reviewVars
  <1> QED
    BY <1>1, <1>2, <1>3, <1>4, <1>5, <1>6, <1>7 DEF ReviewNext


(* However many reviewers judge the same violations, one by one or in bulk,
   from lists they turned since, with verdicts that contradict each other: a
   violation that stands as a false positive has its alert resolved once no
   request is between the two writes, and no alert is resolved that nobody
   called a false positive (PpeViolationService, RoiViolationService). *)
THEOREM VerdictsFollowed == ReviewSpec => []AlertsFollowVerdicts
  <1>1. ReviewInv => AlertsFollowVerdicts
    BY DEF ReviewInv, AlertsFollowVerdicts
  <1> QED
    BY <1>1, ReviewInitInv, ReviewNextInv, PTL DEF ReviewSpec

-----------------------------------------------------------------------------
(* IncidentRecords.                                                        *)
-----------------------------------------------------------------------------
(* What a request loaded is still so as far as it matters: a classification
   once made is not taken back, so a request that found the incident classified
   may close it whatever became of the status. *)
LoadedHolds(c) ==
    /\ c.loaded.status = "classified" => c.loaded.classified
    /\ c.loaded.classified => incident.classified

IncidentInv ==
    /\ IncidentTypeOK
    /\ ClosedIsAccounted
    /\ sentCalls \in Nat
    /\ IsFiniteSet(posted)
    /\ \A c \in posted : LoadedHolds(c)


LEMMA CuratedFits ==
    ASSUME IncidentTypeOK, NEW c \in posted
    PROVE  Curated(c) \subseteq Workers /\ Cardinality(Curated(c)) <= 1
  <1>1. c \in Call
    BY DEF IncidentTypeOK
  <1>2. CASE c.op # "classify"
    BY <1>2 DEF Curated, IncidentTypeOK
  <1>3. CASE c.op = "classify" /\ c.worker = Nobody
    BY <1>3, FS_EmptySet DEF Curated
  <1>4. CASE c.op = "classify" /\ c.worker # Nobody
    <2>1. Curated(c) = {c.worker} /\ c.worker \in Workers
      BY <1>1, <1>4 DEF Curated, Call
    <2>2. Cardinality({c.worker}) = 1
      BY FS_Singleton
    <2>3. Cardinality(Curated(c)) = 1
      BY <2>1, <2>2, Zenon
    <2> QED
      BY <2>1, <2>3
  <1> QED
    BY <1>2, <1>3, <1>4

(* What a request that its status allows writes. *)
LEMMA SavedFits ==
    ASSUME IncidentInv, NEW c \in posted, Allowed(c.op, c.loaded.status)
    PROVE  /\ Saved(c) \in Record
           /\ Saved(c).status = "closed" => Saved(c).classified \/ Saved(c).note
           /\ Saved(c).status = "classified" => Saved(c).classified
           /\ incident.classified => Saved(c).classified
  <1>1. c \in Call /\ incident \in Record /\ LoadedHolds(c)
    BY DEF IncidentInv, IncidentTypeOK
  <1>2. c.loaded \in Record /\ c.op \in Operations
    BY <1>1 DEF Call
  <1>3. CASE c.op = "classify"
    BY <1>1, <1>2, <1>3 DEF Saved, Record, IncidentStatuses
  <1>4. CASE c.op = "reopen"
    BY <1>1, <1>2, <1>4 DEF Saved, Record, IncidentStatuses
  <1>5. CASE c.op = "close"
    BY <1>1, <1>2, <1>5 DEF Saved, Record, IncidentStatuses, Allowed, LoadedHolds
  <1>6. CASE c.op = "dismiss"
    BY <1>1, <1>2, <1>6 DEF Saved, Record, IncidentStatuses
  <1>7. CASE c.op = "attach"
    BY <1>1, <1>2, <1>7 DEF Saved, IncidentInv, ClosedIsAccounted
  <1> QED
    BY <1>2, <1>3, <1>4, <1>5, <1>6, <1>7 DEF Operations

LEMMA IncidentInitInv == IncidentInit => IncidentInv
  <1> SUFFICES ASSUME IncidentInit PROVE IncidentInv
    OBVIOUS
  <1>1. incident \in Record
        /\ incident.status \in {"open", "under_review"} /\ ~ incident.classified
    BY DEF IncidentInit, Record, IncidentStatuses
  <1>2. IsFiniteSet(posted) /\ Cardinality(posted) = 0 /\ Cardinality(involved) = 0
    BY FS_EmptySet DEF IncidentInit
  <1>3. Cardinality(posted) <= sentCalls /\ Cardinality(involved) <= 1
    BY <1>2 DEF IncidentInit
  <1>4. pickedWorker \in [Officers -> Workers \cup {Nobody}]
    BY DEF IncidentInit
  <1>5. IncidentTypeOK
    BY <1>1, <1>3, <1>4 DEF IncidentInit, IncidentTypeOK
  <1> QED
    BY <1>1, <1>2, <1>5 DEF IncidentInit, IncidentInv, ClosedIsAccounted

LEMMA IncidentPressInv ==
    ASSUME IncidentInv, NEW o \in Officers, NEW op \in Operations, PressAction(o, op)
    PROVE  IncidentInv'
  <1> DEFINE c == [officer |-> o, op |-> op, worker |-> pickedWorker[o],
                   loaded |-> incident, phase |-> "asked"]
  <1>1. c \in Call
    BY DEF IncidentInv, IncidentTypeOK, Call
  <1>2. posted' = posted \cup {c} /\ sentCalls' = sentCalls + 1
    BY DEF PressAction
  <1>3. IsFiniteSet(posted') /\ Cardinality(posted') <= sentCalls'
    <2>1. /\ IsFiniteSet(posted \cup {c})
          /\ Cardinality(posted \cup {c}) = Cardinality(posted)
             \/ Cardinality(posted \cup {c}) = Cardinality(posted) + 1
      BY FS_AddElement DEF IncidentInv
    <2>2. Cardinality(posted) \in Nat
      BY FS_CardinalityType DEF IncidentInv
    <2> QED
      BY <1>2, <2>1, <2>2 DEF IncidentInv, IncidentTypeOK
  <1>4. LoadedHolds(c)'
    BY DEF LoadedHolds, IncidentInv, ClosedIsAccounted, PressAction
  <1> QED
    BY <1>1, <1>2, <1>3, <1>4
    DEF IncidentInv, IncidentTypeOK, ClosedIsAccounted, LoadedHolds, PressAction

LEMMA IncidentLoadInv ==
    ASSUME IncidentInv, NEW c \in posted, LoadIncident(c)
    PROVE  IncidentInv'
  <1> DEFINE d == [c EXCEPT !.loaded = incident, !.phase = "loaded"]
  <1>1. c \in Call /\ d \in Call /\ d.loaded = incident
    BY DEF IncidentInv, IncidentTypeOK, Call
  <1>2. posted' = (posted \ {c}) \cup {d}
    BY DEF LoadIncident
  <1>3. IsFiniteSet(posted') /\ Cardinality(posted') <= sentCalls
    <2>1. /\ IsFiniteSet(posted \ {c})
          /\ Cardinality(posted \ {c}) = Cardinality(posted) - 1
      BY FS_RemoveElement DEF IncidentInv
    <2>2. /\ IsFiniteSet((posted \ {c}) \cup {d})
          /\ Cardinality((posted \ {c}) \cup {d}) = Cardinality(posted \ {c})
             \/ Cardinality((posted \ {c}) \cup {d}) = Cardinality(posted \ {c}) + 1
      BY <2>1, FS_AddElement
    <2>3. Cardinality(posted) \in Nat
      BY FS_CardinalityType DEF IncidentInv
    <2> QED
      BY <1>2, <2>1, <2>2, <2>3 DEF IncidentInv, IncidentTypeOK
  <1>4. LoadedHolds(d)'
    BY <1>1 DEF LoadedHolds, IncidentInv, ClosedIsAccounted, LoadIncident
  <1> QED
    BY <1>1, <1>2, <1>3, <1>4
    DEF IncidentInv, IncidentTypeOK, ClosedIsAccounted, LoadedHolds, LoadIncident

LEMMA IncidentSaveInv ==
    ASSUME IncidentInv, NEW c \in posted, SaveIncident(c)
    PROVE  IncidentInv'
  <1>1. IsFiniteSet(posted') /\ Cardinality(posted') <= sentCalls
    <2>1. /\ IsFiniteSet(posted \ {c})
          /\ Cardinality(posted \ {c}) = Cardinality(posted) - 1
      BY FS_RemoveElement DEF IncidentInv
    <2>2. Cardinality(posted) \in Nat
      BY FS_CardinalityType DEF IncidentInv
    <2> QED
      BY <2>1, <2>2 DEF IncidentInv, IncidentTypeOK, SaveIncident
  <1>2. /\ incident' \in Record
        /\ incident'.status = "closed" => incident'.classified \/ incident'.note
        /\ incident'.status = "classified" => incident'.classified
        /\ incident.classified => incident'.classified
    BY SavedFits DEF SaveIncident, IncidentInv, IncidentTypeOK, ClosedIsAccounted
  <1>3. involved' \subseteq Workers /\ Cardinality(involved') <= 1
    BY CuratedFits DEF SaveIncident, IncidentInv, IncidentTypeOK
  <1>4. \A d \in posted' : LoadedHolds(d)'
    BY <1>2 DEF SaveIncident, IncidentInv, LoadedHolds
  <1>5. seen' \in [Officers -> Record] /\ notes' \in BOOLEAN
    BY <1>2 DEF SaveIncident, IncidentInv, IncidentTypeOK, Call
  <1> QED
    BY <1>1, <1>2, <1>3, <1>4, <1>5
    DEF SaveIncident, IncidentInv, IncidentTypeOK, ClosedIsAccounted

LEMMA IncidentNextInv == IncidentInv /\ [IncidentNext]_incidentVars => IncidentInv'
  <1> SUFFICES ASSUME IncidentInv, [IncidentNext]_incidentVars PROVE IncidentInv'
    OBVIOUS
  <1>1. ASSUME NEW o \in Officers, NEW w \in Workers \cup {Nobody}, Choose(o, w)
        PROVE  IncidentInv'
    BY <1>1 DEF Choose, IncidentInv, IncidentTypeOK, ClosedIsAccounted, LoadedHolds
  <1>2. ASSUME NEW o \in Officers, RevisitIncident(o) PROVE IncidentInv'
    BY <1>2 DEF RevisitIncident, IncidentInv, IncidentTypeOK, ClosedIsAccounted, LoadedHolds
  <1>3. CASE UNCHANGED incidentVars
    BY <1>3 DEF incidentVars, IncidentInv, IncidentTypeOK, ClosedIsAccounted, LoadedHolds
  <1> QED
    BY <1>1, <1>2, <1>3, IncidentPressInv, IncidentLoadInv, IncidentSaveInv DEF IncidentNext

(* Only a save changes the incident, and one that loaded it closed is refused,
   or leaves it as it is. *)
LEMMA ClosedStep ==
    ASSUME IncidentInv, [IncidentNext]_incidentVars,
           incident.status = "closed", incident'.status # "closed"
    PROVE  \E c \in posted \ posted' : c.phase = "loaded" /\ c.loaded.status # "closed"
  <1>1. PICK c \in posted : SaveIncident(c)
    BY DEF IncidentNext, incidentVars, Choose, PressAction, RevisitIncident, LoadIncident
  <1>2. Allowed(c.op, c.loaded.status) /\ incident' = Saved(c)
    BY <1>1 DEF SaveIncident
  <1>3. c \in Call /\ incident \in Record
    BY DEF IncidentInv, IncidentTypeOK
  <1>4. c.loaded.status # "closed"
    BY <1>2, <1>3 DEF Allowed, Saved, Call, Record, Reviewable, Operations
  <1> QED
    BY <1>1, <1>4 DEF SaveIncident


(* Doc 14:139.  Whatever officers classify, reopen, dismiss and close at the
   same time from incidents they loaded before, a closed incident was
   classified or carries the note of a false alarm, and no request that loads
   it closed opens it again (IncidentService). *)
THEOREM IncidentStands == IncidentSpec => ClosedStands
  <1>1. IncidentInv => IncidentTypeOK /\ ClosedIsAccounted
    BY DEF IncidentInv
  <1>2. IncidentInv /\ [IncidentNext]_incidentVars =>
          [incident.status = "closed" /\ incident'.status # "closed"
           => \E c \in posted \ posted' :
                 c.phase = "loaded" /\ c.loaded.status # "closed"]_incidentVars
    BY ClosedStep
  <1> QED
    BY <1>1, <1>2, IncidentInitInv, IncidentNextInv, PTL
    DEF IncidentSpec, ClosedStands, ClosedIsFinal

-----------------------------------------------------------------------------
(* LogDrafts.                                                              *)
-----------------------------------------------------------------------------
LogEntry == [link : BOOLEAN, titled : BOOLEAN]

(* The title and the link of the draft are set together, whether the dialog is
   open or not; nobody else fills the alert in. *)
DraftAsTitled ==
    /\ prefill \in BOOLEAN /\ fromAlert \in BOOLEAN
    /\ kind = "vehicle" => ~prefill
    /\ draft.link = TitledFromAlert

(* A record may still come of the request that is out, or of the dialog that is
   open, but not of both, and of neither once the request is logged. *)
MayLog == logPosts # <<>> \/ (logOpen /\ answer # "logged")

DraftInv ==
    /\ DraftsTypeOK
    /\ DraftAsTitled
    /\ Len(logPosts) <= 1
    /\ \A i \in DOMAIN logPosts : logPosts[i].link = logPosts[i].titled
    /\ LinkAsTitled
    /\ OneRecordEach
    /\ MayLog => Len(records) < opens


LEMMA FreshFits ==
    ASSUME NEW kept, NEW given
    PROVE  /\ FreshDraft(kept, given) \in LogDraft
           /\ FreshDraft(kept, given).link
                <=> given /\ (kind = "lsr" \/ (kind = "incident" /\ kept))
  BY DEF FreshDraft, Prefilled, BlankDraft, LogDraft

LEMMA OnlyOne ==
    ASSUME NEW S, NEW s \in Seq(S), s # <<>>, Len(s) <= 1
    PROVE  /\ Len(s) = 1 /\ 1 \in DOMAIN s
           /\ Head(s) \in S /\ Head(s) = s[1]
           /\ Tail(s) = <<>>
  <1>1. \A t \in Seq(S) : t # <<>> => Len(t) \in Nat \ {0}
    BY EmptySeq, Zenon
  <1>2. Len(s) \in Nat \ {0}
    BY <1>1, Zenon
  <1>3. DOMAIN s = 1..Len(s) /\ Len(s) = 1
    <2>1. DOMAIN s = 1..Len(s)
      BY LenProperties
    <2>2. Len(s) = 1
      BY <1>2
    <2> QED
      BY <2>1, <2>2
  <1>4. Head(s) \in S /\ Head(s) = s[1]
    BY <1>3, HeadTailProperties
  <1>5. Tail(s) \in Seq(S) /\ Len(Tail(s)) = 0
    BY <1>3, HeadTailProperties
  <1>6. Tail(s) = <<>>
    BY <1>1, <1>5, Zenon
  <1> QED
    BY <1>3, <1>4, <1>6

LEMMA DraftInitInv == DraftsInit => DraftInv
  <1> SUFFICES ASSUME DraftsInit PROVE DraftInv
    OBVIOUS
  <1>1. /\ draft \in LogDraft
        /\ draft.link <=> prefill /\ (kind = "lsr" \/ (kind = "incident" /\ fromAlert))
    BY FreshFits DEF DraftsInit
  <1>2. opens \in 0..MaxLogOpens /\ (logOpen => opens = 1)
    BY DraftsAssumption DEF DraftsInit
  <1>3. DraftAsTitled
    BY <1>1 DEF DraftAsTitled, TitledFromAlert, DraftsInit, Registers, LogDraft
  <1>4. logPosts \in Seq(LogEntry) /\ records \in Seq(LogEntry)
    BY DEF DraftsInit, LogEntry
  <1>5. Len(records) = 0 /\ Len(logPosts) = 0
    BY DEF DraftsInit
  <1> QED
    BY <1>1, <1>2, <1>3, <1>4, <1>5
    DEF DraftInv, DraftsTypeOK, LinkAsTitled, OneRecordEach, MayLog, DraftsInit, LogEntry

LEMMA DraftNextInv == DraftInv /\ [DraftsNext]_draftVars => DraftInv'
  <1> SUFFICES ASSUME DraftInv, [DraftsNext]_draftVars PROVE DraftInv'
    OBVIOUS
  <1>1. CASE OpenLog
    <2>1. /\ FreshDraft(FALSE, prefill) \in LogDraft
          /\ FreshDraft(FALSE, prefill).link <=> prefill /\ kind = "lsr"
      BY FreshFits
    <2>2. draft' \in LogDraft
      BY <1>1, <2>1 DEF OpenLog, DraftInv, DraftsTypeOK
    <2>3. DraftAsTitled'
      BY <1>1, <2>1, <2>2
      DEF OpenLog, DraftInv, DraftsTypeOK, DraftAsTitled, TitledFromAlert, Registers, LogDraft
    <2>4. opens' \in 0..MaxLogOpens /\ opens' = opens + 1
      BY <1>1, DraftsAssumption DEF OpenLog, DraftInv, DraftsTypeOK
    <2> QED
      BY <1>1, <2>2, <2>3, <2>4
      DEF OpenLog, DraftInv, DraftsTypeOK, LinkAsTitled, OneRecordEach, MayLog
  <1>2. CASE TypeLog
    <2>1. draft' \in LogDraft /\ draft'.link = draft.link
      BY <1>2 DEF TypeLog, DraftInv, DraftsTypeOK, LogDraft
    <2> QED
      BY <1>2, <2>1
      DEF TypeLog, DraftInv, DraftsTypeOK, DraftAsTitled, TitledFromAlert, LinkAsTitled,
          OneRecordEach, MayLog
  <1>3. CASE CancelLog
    BY <1>3
    DEF CancelLog, DraftInv, DraftsTypeOK, DraftAsTitled, TitledFromAlert, LinkAsTitled,
        OneRecordEach, MayLog
  <1>4. CASE SubmitLog
    <2> DEFINE entry == [link |-> draft.link, titled |-> TitledFromAlert]
    <2>1. logPosts = <<>> /\ answer = "none"
      BY <1>4 DEF SubmitLog, Ready, Processing
    <2>2. entry \in LogEntry /\ entry.link = entry.titled
      BY DEF DraftInv, DraftsTypeOK, DraftAsTitled, LogDraft, LogEntry
    <2>3. logPosts' = <<>> \/ logPosts' = <<entry>>
      BY <1>4, <2>1 DEF SubmitLog
    <2>4. /\ logPosts' \in Seq(LogEntry) /\ Len(logPosts') <= 1
          /\ \A i \in DOMAIN logPosts' : logPosts'[i].link = logPosts'[i].titled
      <3> HIDE DEF entry
      <3>1. CASE logPosts' = <<>>
        BY <3>1
      <3>2. CASE logPosts' = <<entry>>
        BY <2>2, <3>2
      <3> QED
        BY <2>3, <3>1, <3>2
    <2> QED
      BY <1>4, <2>1, <2>4
      DEF SubmitLog, DraftInv, DraftsTypeOK, DraftAsTitled, TitledFromAlert, LinkAsTitled,
          OneRecordEach, MayLog, LogEntry
  <1>5. CASE HandlePost
    <2>1. /\ logPosts \in Seq(LogEntry) /\ Len(logPosts) = 1
          /\ Head(logPosts) \in LogEntry /\ Head(logPosts).link = Head(logPosts).titled
          /\ logPosts' = <<>>
      <3>1. /\ logPosts \in Seq(LogEntry) /\ logPosts # <<>> /\ Len(logPosts) <= 1
            /\ logPosts' = Tail(logPosts)
            /\ \A i \in DOMAIN logPosts : logPosts[i].link = logPosts[i].titled
        BY <1>5 DEF HandlePost, DraftInv, DraftsTypeOK, LogEntry
      <3>2. /\ Len(logPosts) = 1 /\ 1 \in DOMAIN logPosts
            /\ Head(logPosts) \in LogEntry /\ Head(logPosts) = logPosts[1]
            /\ Tail(logPosts) = <<>>
        BY <3>1, OnlyOne
      <3> QED
        BY <3>1, <3>2
    <2>2. records \in Seq(LogEntry) /\ Len(records) < opens
      BY <1>5 DEF HandlePost, DraftInv, DraftsTypeOK, LogEntry, MayLog
    <2>3. DraftAsTitled'
      BY <1>5 DEF HandlePost, DraftInv, DraftAsTitled, TitledFromAlert
    <2>4. CASE answer' = "logged" /\ records' = Append(records, Head(logPosts))
      <3>1. /\ records' \in Seq(LogEntry) /\ Len(records') = Len(records) + 1
            /\ \A i \in DOMAIN records' : records'[i].link = records'[i].titled
        <4> DEFINE entry == Head(logPosts)
        <4>1. entry \in LogEntry /\ entry.link = entry.titled
          BY <2>1
        <4> HIDE DEF entry
        <4>2. records' = Append(records, entry)
          BY <2>4 DEF entry
        <4> QED
          BY <2>2, <4>1, <4>2 DEF DraftInv, LinkAsTitled
      <3>2. Len(records') <= opens
        BY <2>2, <3>1 DEF DraftInv, DraftsTypeOK
      <3>3. DraftsTypeOK'
        BY <1>5, <2>1, <2>4, <3>1 DEF HandlePost, DraftInv, DraftsTypeOK, LogEntry
      <3>4. LinkAsTitled' /\ OneRecordEach' /\ ~ MayLog'
        BY <1>5, <2>1, <2>4, <3>1, <3>2 DEF HandlePost, LinkAsTitled, OneRecordEach, MayLog
      <3> QED
        BY <2>1, <2>3, <3>3, <3>4 DEF DraftInv
    <2>5. CASE answer' = "refused" /\ UNCHANGED records
      <3>1. DraftsTypeOK'
        BY <1>5, <2>1, <2>5 DEF HandlePost, DraftInv, DraftsTypeOK, LogEntry
      <3>2. LinkAsTitled' /\ OneRecordEach' /\ Len(records') < opens'
        BY <1>5, <2>2, <2>5 DEF HandlePost, DraftInv, LinkAsTitled, OneRecordEach
      <3> QED
        BY <2>1, <2>3, <3>1, <3>2 DEF DraftInv
    <2> QED
      BY <1>5, <2>4, <2>5 DEF HandlePost
  <1>6. CASE Logged
    <2>1. /\ logPosts = <<>> /\ draft' \in LogDraft
          /\ draft'.link = FALSE
      BY <1>6 DEF Logged, DraftInv, DraftsTypeOK, BlankDraft, LogDraft
    <2>2. TitledFromAlert' = FALSE
      BY <1>6 DEF Logged, TitledFromAlert
    <2>3. DraftAsTitled'
      BY <1>6, <2>1, <2>2 DEF Logged, DraftAsTitled
    <2> QED
      BY <1>6, <2>1, <2>3
      DEF Logged, DraftInv, DraftsTypeOK, LinkAsTitled, OneRecordEach, MayLog
  <1>7. CASE Refused
    <2>1. /\ FreshDraft(fromAlert, prefill) \in LogDraft
          /\ FreshDraft(fromAlert, prefill).link
               <=> prefill /\ (kind = "lsr" \/ (kind = "incident" /\ fromAlert))
      BY FreshFits
    <2>2. draft' \in LogDraft
      BY <1>7, <2>1 DEF Refused, DraftInv, DraftsTypeOK
    <2>3. DraftAsTitled'
      BY <1>7, <2>1, <2>2
      DEF Refused, DraftInv, DraftsTypeOK, DraftAsTitled, TitledFromAlert, Registers, LogDraft
    <2>4. logPosts = <<>>
      BY <1>7 DEF Refused, DraftInv, DraftsTypeOK
    <2> QED
      BY <1>7, <2>2, <2>3, <2>4
      DEF Refused, DraftInv, DraftsTypeOK, LinkAsTitled, OneRecordEach, MayLog
  <1>8. CASE UNCHANGED draftVars
    BY <1>8
    DEF draftVars, DraftInv, DraftsTypeOK, DraftAsTitled, TitledFromAlert, LinkAsTitled,
        OneRecordEach, MayLog
  <1> QED
    BY <1>1, <1>2, <1>3, <1>4, <1>5, <1>6, <1>7, <1>8 DEF DraftsNext

LEMMA KeptStep ==
    ASSUME DraftsNext, answer = "refused", answer' = "none", ~prefill
    PROVE  draft' = draft /\ errors'
  BY DEF DraftsNext, OpenLog, TypeLog, CancelLog, SubmitLog, HandlePost, Logged, Refused,
         Rerun


(* The page of incidents, "Alerts never create a record on their own".  However
   often dialogs are opened, cancelled and submitted while a request is out or
   refused: one dialog logs one record, with the alert its title named, and a
   refusal leaves what was typed on a page that was not opened from an alert; on
   one that was, the form is filled anew (hse/incidents/index.tsx, lsr, vehicle
   violations). *)
THEOREM LogsAsMeant == DraftsSpec => RecordsAsMeant
  <1>1. DraftInv => DraftsTypeOK /\ LinkAsTitled /\ OneRecordEach
    BY DEF DraftInv
  <1>2. [DraftsNext]_draftVars =>
          [answer = "refused" /\ answer' = "none" /\ (~prefill)
             => draft' = draft /\ errors']_draftVars
    BY KeptStep
  <1> QED
    BY <1>1, <1>2, DraftInitInv, DraftNextInv, PTL DEF DraftsSpec, RecordsAsMeant, DraftKept

-----------------------------------------------------------------------------
(* RedZones.                                                               *)
-----------------------------------------------------------------------------
LEMMA ZoneSeqIs ==
    ASSUME NEW s PROVE s \in ZoneSeq <=> s \in Seq(Zone) /\ Len(s) <= MaxZones
  <1>1. ASSUME s \in ZoneSeq PROVE s \in Seq(Zone) /\ Len(s) <= MaxZones
    <2>1. PICK m \in 0..MaxZones : s \in [1..m -> Zone]
      BY <1>1 DEF ZoneSeq, SeqOf
    <2>2. s \in Seq(Zone) /\ Len(s) = m
      BY <2>1, ZonesAssumption
    <2> QED
      BY <2>1, <2>2, ZonesAssumption
  <1>2. ASSUME s \in Seq(Zone), Len(s) <= MaxZones PROVE s \in ZoneSeq
    <2>1. Len(s) \in 0..MaxZones /\ s \in [1..Len(s) -> Zone]
      BY <1>2, ZonesAssumption
    <2> QED
      BY <2>1 DEF ZoneSeq, SeqOf
  <1> QED
    BY <1>1, <1>2

(* Only zones with names of their own are stored, and none less than one. *)
Publishable(s) == s \in ZoneSeq /\ UniqueNames(s) /\ s # <<>>

(* A set is created by the editor alone and never goes. *)
SetExists ==
    /\ set.published \/ marking > 0 => set.status # "none"
    /\ txn # NoTxn => (txn.status = "none" <=> set.status = "none")

ZonesInv ==
    /\ set \in [status : SetStatus, zones : ZoneSeq, fingerprint : Views, published : BOOLEAN]
    /\ view \in Views /\ turned \in Nat /\ marking \in Nat /\ turned + marking <= view
    /\ txn = NoTxn
       \/ /\ txn \in [stage : {"loaded", "written"}, status : SetStatus, fingerprint : Views]
          /\ Publishable(request.zones) /\ request.kind \in {"save", "publish"}
          /\ txn.stage = "written" => request.kind = "publish"
    /\ edge \in [DOMAIN edge -> Zone] /\ DOMAIN edge \subseteq 1..MaxZones
    /\ zones \in ZoneSeq /\ points \in 0..3 /\ selected \in 0..Len(zones)
    /\ shown \in SetStatus /\ edited \in BOOLEAN /\ posts \in 0..MaxPosts
    /\ request = NoRequest
       \/ /\ request \in [kind : {"save", "publish", "stale"}, zones : ZoneSeq]
          /\ request.kind # "stale" => request.zones # <<>>
    /\ UniqueNames(set.zones) /\ UniqueNames(edge)
    /\ ShownIsStored /\ SetExists

LEMMA ZonesStart == ZonesInit => ZonesInv
  <1> SUFFICES ASSUME ZonesInit PROVE ZonesInv
    OBVIOUS
  <1>1. PICK none : none = <<>>
    OBVIOUS
  <1>2. none \in Seq(Zone) /\ Len(none) = 0 /\ DOMAIN none = {}
    <2>1. none \in Seq(Zone) /\ Len(none) = 0
      BY <1>1, EmptySeq
    <2>2. DOMAIN none = 1..0 /\ 1..0 = {}
      BY <2>1, LenProperties
    <2> QED
      BY <2>1, <2>2
  <1>3. none \in ZoneSeq /\ UniqueNames(none)
    <2>1. Len(none) <= MaxZones
      BY <1>2, ZonesAssumption
    <2>2. none \in ZoneSeq
      BY <1>2, <2>1, ZoneSeqIs
    <2> QED
      BY <1>2, <2>2 DEF UniqueNames
  <1>4. none \in [DOMAIN none -> Zone] /\ DOMAIN none \subseteq 1..MaxZones
    BY <1>2, ElementOfSeq
  <1>5. /\ set = [status |-> "none", zones |-> none, fingerprint |-> 0, published |-> FALSE]
        /\ view = 0 /\ turned = 0 /\ marking = 0 /\ txn = NoTxn /\ edge = none
        /\ zones = none
        /\ points = 0 /\ selected = 0 /\ shown = "none" /\ request = NoRequest
        /\ edited = FALSE /\ posts = 0
    BY <1>1 DEF ZonesInit
  <1>6. 0 \in Views /\ "none" \in SetStatus
    BY ZonesAssumption DEF Views, SetStatus
  <1>7. set \in [status : SetStatus, zones : ZoneSeq, fingerprint : Views, published : BOOLEAN]
    BY <1>3, <1>5, <1>6
  <1>8. view \in Views /\ turned \in Nat /\ marking \in Nat /\ turned + marking <= view
        /\ posts \in 0..MaxPosts /\ points \in 0..3
        /\ selected \in 0..Len(zones) /\ shown \in SetStatus /\ edited \in BOOLEAN
    <2>1. selected \in 0..Len(zones)
      BY <1>2, <1>5
    <2>2. shown \in SetStatus /\ view \in Views
      BY <1>5, <1>6
    <2>3. posts \in 0..MaxPosts
      BY <1>5, ZonesAssumption
    <2>4. turned \in Nat /\ marking \in Nat /\ turned + marking <= view /\ points \in 0..3
      BY <1>5
    <2>5. edited \in BOOLEAN
      BY <1>5
    <2> QED
      BY <2>1, <2>2, <2>3, <2>4, <2>5
  <1>9. set.zones = none
    BY <1>5
  <1>10. UniqueNames(set.zones) /\ UniqueNames(edge) /\ edge \in [DOMAIN edge -> Zone]
        /\ DOMAIN edge \subseteq 1..MaxZones /\ zones \in ZoneSeq /\ ShownIsStored
    BY <1>3, <1>4, <1>5, <1>9 DEF ShownIsStored
  <1> QED
    <2>1. SetExists
      BY <1>5 DEF SetExists
    <2> QED
      BY <1>5, <1>7, <1>8, <1>10, <2>1 DEF ZonesInv

(* What the AI device is sent of a set with unique names has unique names. *)
LEMMA OnIsUnique ==
    ASSUME NEW s \in ZoneSeq, UniqueNames(s)
    PROVE  /\ On(s) \in [DOMAIN On(s) -> Zone] /\ DOMAIN On(s) \subseteq 1..MaxZones
           /\ UniqueNames(On(s))
  <1>1. s \in Seq(Zone) /\ Len(s) \in Nat /\ Len(s) <= MaxZones
    BY ZoneSeqIs
  <1>2. DOMAIN s = 1..Len(s) /\ \A i \in DOMAIN s : s[i] \in Zone
    BY <1>1
  <1>3. DOMAIN On(s) \subseteq DOMAIN s /\ \A i \in DOMAIN On(s) : On(s)[i] = s[i]
    BY DEF On
  <1>4. 1..Len(s) \subseteq 1..MaxZones
    BY <1>1, ZonesAssumption
  <1>5. On(s) = [i \in DOMAIN On(s) |-> On(s)[i]]
    BY DEF On
  <1>6. On(s) \in [DOMAIN On(s) -> Zone]
    BY <1>2, <1>3, <1>5
  <1> QED
    BY <1>2, <1>3, <1>4, <1>6 DEF UniqueNames

(* The editor. *)
LEMMA EditorKeeps ==
    ASSUME ZonesInv,
           \/ ClickCanvas \/ UndoPoint \/ FinishDraft \/ SwitchZone \/ RemoveZone
           \/ \E i \in DOMAIN zones : SelectZone(i)
    PROVE  ZonesInv'
  <1>1. zones \in Seq(Zone) /\ Len(zones) \in Nat /\ Len(zones) <= MaxZones
    BY ZoneSeqIs DEF ZonesInv
  <1>2. UNCHANGED <<set, view, turned, marking, txn, edge, shown, request, posts>>
    BY DEF ClickCanvas, UndoPoint, FinishDraft, SwitchZone, RemoveZone, SelectZone, editorOnly
  <1>3. ASSUME zones' \in ZoneSeq, points' \in 0..3, selected' \in 0..Len(zones'),
               edited' \in BOOLEAN, edited' \/ (UNCHANGED <<zones, edited>>)
        PROVE  ZonesInv'
    <2>1. ShownIsStored' /\ SetExists'
      BY <1>2, <1>3 DEF ZonesInv, ShownIsStored, SetExists
    <2> QED
      BY <1>2, <1>3, <2>1 DEF ZonesInv, Publishable, UniqueNames
  <1>4. CASE ClickCanvas
    BY <1>1, <1>3, <1>4 DEF ClickCanvas, editorOnly, ZonesInv
  <1>5. CASE UndoPoint
    BY <1>1, <1>3, <1>5 DEF UndoPoint, editorOnly, ZonesInv
  <1>6. CASE FinishDraft
    <2>1. [name |-> Len(zones) + 1, on |-> TRUE] \in Zone
      BY <1>1, <1>6, ZonesAssumption DEF FinishDraft, Zone
    <2>2. zones' \in Seq(Zone) /\ Len(zones') = Len(zones) + 1 /\ Len(zones') <= MaxZones
      BY <1>1, <1>6, <2>1, ZonesAssumption DEF FinishDraft
    <2>3. zones' \in ZoneSeq
      BY <2>2, ZoneSeqIs
    <2> QED
      BY <1>1, <1>3, <1>6, <2>2, <2>3 DEF FinishDraft
  <1>7. CASE SwitchZone
    <2>1. selected \in 1..Len(zones) /\ zones[selected] \in Zone
      BY <1>1, <1>7 DEF SwitchZone, ZonesInv
    <2>2. [zones[selected] EXCEPT !.on = ~@] \in Zone
      BY <2>1 DEF Zone
    <2>3. zones' \in Seq(Zone) /\ Len(zones') = Len(zones)
      BY <1>1, <1>7, <2>1, <2>2 DEF SwitchZone
    <2>4. zones' \in ZoneSeq
      BY <1>1, <2>3, ZoneSeqIs
    <2> QED
      BY <1>3, <1>7, <2>3, <2>4 DEF SwitchZone, editorOnly, ZonesInv
  <1>8. CASE RemoveZone
    <2>1. selected \in 1..Len(zones)
      BY <1>1, <1>8 DEF RemoveZone, ZonesInv
    <2> DEFINE head == SubSeq(zones, 1, selected - 1)
               tail == SubSeq(zones, selected + 1, Len(zones))
    <2>2. head \in Seq(Zone) /\ Len(head) = selected - 1
      BY <1>1, <2>1, SubSeqProperties
    <2>3. tail \in Seq(Zone) /\ Len(tail) = Len(zones) - selected
      BY <1>1, <2>1, SubSeqProperties
    <2>4. zones' = head \o tail
      BY <1>8 DEF RemoveZone, RemoveAt
    <2> HIDE DEF head, tail
    <2>5. zones' \in Seq(Zone) /\ Len(zones') = Len(zones) - 1
      <3>1. head \o tail \in Seq(Zone) /\ Len(head \o tail) = Len(head) + Len(tail)
        BY <2>2, <2>3, ConcatProperties
      <3>2. (selected - 1) + (Len(zones) - selected) = Len(zones) - 1
        BY <1>1, <2>1
      <3> QED
        BY <2>2, <2>3, <2>4, <3>1, <3>2
    <2>6. zones' \in ZoneSeq
      BY <1>1, <2>5, ZoneSeqIs, ZonesAssumption
    <2>7. selected' \in 0..Len(zones')
      BY <1>1, <1>8, <2>1, <2>5 DEF RemoveZone, Clamp
    <2> QED
      BY <1>3, <1>8, <2>6, <2>7 DEF RemoveZone, editorOnly, ZonesInv
  <1>9. ASSUME NEW i \in DOMAIN zones, SelectZone(i) PROVE ZonesInv'
    BY <1>1, <1>3, <1>9 DEF SelectZone, editorOnly, ZonesInv
  <1> QED
    BY <1>4, <1>5, <1>6, <1>7, <1>8, <1>9

LEMMA PostKeeps ==
    ASSUME ZonesInv, SaveDraft \/ PublishZones \/ MarkStaleByHand PROVE ZonesInv'
  <1>1. zones \in Seq(Zone) /\ Len(zones) \in Nat
    BY ZoneSeqIs DEF ZonesInv
  <1>2. On(zones) # <<>> => zones # <<>>
    <2> SUFFICES ASSUME zones = <<>> PROVE On(zones) = <<>>
      OBVIOUS
    <2>1. DOMAIN zones = {}
      BY <1>1
    <2>2. On(zones) = [i \in {} |-> zones[i]]
      BY <2>1 DEF On
    <2>3. On(zones) \in [1..0 -> Zone]
      <3>1. 1..0 = {}
        OBVIOUS
      <3> QED
        BY <2>2, <3>1
    <2>4. On(zones) \in Seq(Zone) /\ Len(On(zones)) = 0
      BY <2>3
    <2> QED
      BY <2>4, EmptySeq
  <1>3. PICK k \in {"save", "publish", "stale"} :
            Post(k) /\ (k # "stale" => zones # <<>>)
    BY <1>2 DEF SaveDraft, PublishZones, MarkStaleByHand
  <1>4. request' \in [kind : {"save", "publish", "stale"}, zones : ZoneSeq]
        /\ (request'.kind # "stale" => request'.zones # <<>>)
    BY <1>3 DEF Post, ZonesInv
  <1>5. txn = NoTxn
    BY <1>3 DEF Post, ZonesInv, NoRequest
  <1>6. posts' \in 0..MaxPosts
    BY <1>3, ZonesAssumption DEF Post, ZonesInv
  <1>7. UNCHANGED <<set, view, turned, marking, txn, edge, zones, points, selected, shown,
                    edited>>
    BY <1>3 DEF Post
  <1>8. ShownIsStored' /\ SetExists'
    BY <1>5, <1>7 DEF ZonesInv, ShownIsStored, SetExists
  <1> QED
    BY <1>4, <1>5, <1>6, <1>7, <1>8 DEF ZonesInv, UniqueNames

(* An answer with the set as it now is. *)
LEMMA AnswerKeeps ==
    ASSUME ZonesInv,
           NEW s \in [status : SetStatus, zones : ZoneSeq, fingerprint : Views,
                      published : BOOLEAN],
           UniqueNames(s.zones), s.zones = set.zones \/ s.zones # <<>>,
           s.status = "none" => s = set,
           Answered(s), UNCHANGED edge, txn' = NoTxn
    PROVE  ZonesInv'
  <1>1. UNCHANGED <<view, turned, marking, points, posts, edge>> /\ set' = s
        /\ request' = NoRequest /\ shown' = s.status /\ txn' = NoTxn
    BY DEF Answered, PropsCome
  <1>2. s.zones \in Seq(Zone) /\ Len(s.zones) \in Nat /\ zones \in Seq(Zone) /\ Len(zones) \in Nat
    BY ZoneSeqIs DEF ZonesInv
  <1>3. zones' \in ZoneSeq /\ selected' \in 0..Len(zones') /\ edited' \in BOOLEAN
    <2>1. CASE s.zones = <<>>
      BY <2>1 DEF Answered, PropsCome, ZonesInv
    <2>2. CASE s.zones # <<>>
      <3>1. zones' = s.zones /\ edited' = FALSE /\ selected' = Clamp(selected, Len(s.zones))
        BY <2>2 DEF Answered, PropsCome
      <3>2. PICK n \in Nat : n = Len(s.zones)
        BY <1>2
      <3>3. selected \in Nat
        BY <1>2 DEF ZonesInv
      <3>4. Clamp(selected, n) \in 0..n
        BY <3>2, <3>3 DEF Clamp
      <3> QED
        BY <3>1, <3>2, <3>4
    <2> QED
      BY <2>1, <2>2
  <1>4. ~edited' => zones' = set'.zones
    BY <1>1 DEF Answered, PropsCome, ZonesInv, ShownIsStored
  <1>5. shown' \in SetStatus
    BY <1>1
  <1>6. SetExists'
    BY <1>1 DEF ZonesInv, SetExists
  <1> QED
    BY <1>1, <1>3, <1>4, <1>5, <1>6 DEF ZonesInv, UniqueNames, ShownIsStored

LEMMA ServiceKeeps ==
    ASSUME ZonesInv, Loads \/ SaveWrites \/ StaleHandled \/ PublishWrites \/ PublishCommits
    PROVE  ZonesInv'
  <1> DEFINE Set == [status : SetStatus, zones : ZoneSeq, fingerprint : Views, published : BOOLEAN]
             Txn == [stage : {"loaded", "written"}, status : SetStatus, fingerprint : Views]
  <1>1. set \in Set /\ UniqueNames(set.zones)
    BY DEF ZonesInv
  <1>2. request.kind \in {"save", "publish", "stale"}
        => request \in [kind : {"save", "publish", "stale"}, zones : ZoneSeq]
           /\ (request.kind # "stale" => request.zones # <<>>)
    BY DEF ZonesInv, NoRequest
  <1>3. txn.stage # "none" => txn \in Txn /\ Publishable(request.zones)
    BY DEF ZonesInv, NoTxn
  <1>4. /\ Written("active") \in SetStatus
        /\ \A t \in SetStatus : Written(SavedStatus(t)) \in SetStatus
    BY <1>1 DEF Written, SavedStatus, SetStatus
  <1>5. CASE Loads
    <2>1. CASE UniqueNames(request.zones)
      <3>1. UNCHANGED <<set, view, turned, marking, zones, points, selected, shown, request,
                        edited, posts, edge>>
            /\ txn' = [stage |-> "loaded", status |-> set.status, fingerprint |-> view]
        BY <1>5, <2>1 DEF Loads, pageOnly
      <3>2. request.kind \in {"save", "publish"} /\ Publishable(request.zones) /\ view \in Views
        BY <1>2, <1>5, <2>1 DEF Loads, Publishable, ZonesInv
      <3>3. txn' \in Txn /\ txn'.stage = "loaded"
        BY <1>1, <3>1, <3>2
      <3>4. Publishable(request.zones)' /\ request'.kind \in {"save", "publish"}
        BY <3>1, <3>2 DEF Publishable, UniqueNames
      <3>5. ShownIsStored' /\ SetExists'
        BY <3>1 DEF ZonesInv, ShownIsStored, SetExists
      <3> QED
        BY <3>1, <3>3, <3>4, <3>5 DEF ZonesInv, UniqueNames
    <2>2. CASE ~UniqueNames(request.zones)
      <3>1. Answered(set) /\ UNCHANGED <<txn, edge>> /\ txn = NoTxn
        BY <1>5, <2>2 DEF Loads
      <3> QED
        BY <1>1, <3>1, AnswerKeeps
    <2> QED
      BY <2>1, <2>2
  <1>6. CASE SaveWrites
    <2> DEFINE saved == [set EXCEPT !.zones = request.zones,
                                    !.status = Written(SavedStatus(txn.status))]
    <2>1. txn \in Txn /\ Publishable(request.zones)
      BY <1>3, <1>6 DEF SaveWrites
    <2>2. saved \in Set /\ saved.zones = request.zones /\ request.zones # <<>>
          /\ UniqueNames(saved.zones)
      BY <1>1, <1>4, <2>1 DEF Publishable
    <2>4. saved.status # "none"
      <3>1. txn # NoTxn /\ saved.status = Written(SavedStatus(txn.status))
        BY <1>1, <1>6 DEF SaveWrites, NoTxn
      <3> QED
        BY <2>1, <3>1 DEF Written, SavedStatus, SetStatus, ZonesInv, SetExists
    <2>3. Answered(saved) /\ UNCHANGED edge /\ txn' = NoTxn
      BY <1>6 DEF SaveWrites
    <2> HIDE DEF saved
    <2> QED
      BY <2>2, <2>3, <2>4, AnswerKeeps
  <1>7. CASE StaleHandled
    <2> DEFINE asMarked == IF set.published THEN [set EXCEPT !.status = "stale"] ELSE set
    <2>1. txn = NoTxn
      BY <1>7 DEF StaleHandled, ZonesInv
    <2>2. /\ asMarked \in Set /\ asMarked.zones = set.zones
          /\ asMarked.status = "none" => asMarked = set
      BY <1>1 DEF SetStatus
    <2>3. Answered(asMarked) /\ UNCHANGED <<txn, edge>>
      BY <1>7 DEF StaleHandled
    <2> HIDE DEF asMarked
    <2> QED
      BY <1>1, <2>1, <2>2, <2>3, AnswerKeeps
  <1>8. CASE PublishWrites
    <2>1. UNCHANGED <<set, view, turned, marking, zones, points, selected, shown, request,
                      edited, posts>>
          /\ txn' = [txn EXCEPT !.stage = "written"]
          /\ (edge' = edge \/ edge' = On(request.zones) \/ edge' = <<>>)
          /\ request.kind = "publish"
      BY <1>8 DEF PublishWrites, pageOnly
    <2>2. txn \in Txn /\ Publishable(request.zones)
      BY <1>3, <1>8 DEF PublishWrites
    <2>3. txn' \in Txn
      BY <2>1, <2>2
    <2>4. Publishable(request.zones)' /\ request'.kind = "publish"
      BY <2>1, <2>2 DEF Publishable, UniqueNames
    <2>5. On(request.zones) \in [DOMAIN On(request.zones) -> Zone]
          /\ DOMAIN On(request.zones) \subseteq 1..MaxZones /\ UniqueNames(On(request.zones))
      BY <2>2, OnIsUnique DEF Publishable
    <2>6. /\ edge' \in [DOMAIN edge' -> Zone] /\ DOMAIN edge' \subseteq 1..MaxZones
          /\ UniqueNames(edge)'
      <3>1. CASE edge' = edge
        BY <3>1 DEF ZonesInv, UniqueNames
      <3>2. CASE edge' = On(request.zones)
        BY <2>5, <3>2 DEF UniqueNames
      <3>3. CASE edge' = <<>>
        <4>1. edge' \in Seq(Zone) /\ DOMAIN edge' = {}
          BY <3>3
        <4> QED
          BY <4>1 DEF UniqueNames
      <3> QED
        BY <2>1, <3>1, <3>2, <3>3
    <2>7. ShownIsStored' /\ SetExists'
      <3>1. txn'.status = txn.status /\ txn # NoTxn
        BY <1>8, <2>1, <2>2 DEF PublishWrites, NoTxn
      <3> QED
        BY <2>1, <3>1 DEF ZonesInv, ShownIsStored, SetExists
    <2> QED
      BY <2>1, <2>3, <2>4, <2>6, <2>7 DEF ZonesInv, UniqueNames
  <1>9. CASE PublishCommits
    <2> DEFINE s == [status |-> Written("active"), zones |-> request.zones,
                     fingerprint |-> txn.fingerprint, published |-> TRUE]
    <2>1. txn \in Txn /\ Publishable(request.zones)
      BY <1>3, <1>9 DEF PublishCommits
    <2>2. s \in Set /\ s.zones = request.zones /\ s.zones # <<>> /\ UniqueNames(s.zones)
      BY <1>4, <2>1 DEF Publishable
    <2>4. s.status # "none"
      <3>1. txn # NoTxn
        BY <1>9 DEF PublishCommits, NoTxn
      <3> QED
        BY <3>1 DEF Written, ZonesInv, SetExists
    <2>3. Answered(s) /\ UNCHANGED edge /\ txn' = NoTxn
      BY <1>9 DEF PublishCommits
    <2> HIDE DEF s
    <2> QED
      BY <2>2, <2>3, <2>4, AnswerKeeps
  <1> QED
    BY <1>5, <1>6, <1>7, <1>8, <1>9

LEMMA CameraKeeps ==
    ASSUME ZonesInv, TurnCamera \/ MarkLoads \/ MarkWrites \/ EdgePulls PROVE ZonesInv'
  <1>1. CASE TurnCamera \/ MarkLoads
    <2>1. view' \in Views /\ turned' \in Nat /\ marking' \in Nat /\ turned' + marking' <= view'
      BY <1>1, ZonesAssumption DEF TurnCamera, MarkLoads, ZonesInv, Views
    <2>2. UNCHANGED <<set, txn, edge, zones, points, selected, shown, request, edited, posts>>
      BY <1>1 DEF TurnCamera, MarkLoads, pageOnly
    <2>3. ShownIsStored' /\ SetExists'
      BY <1>1, <2>2 DEF ZonesInv, ShownIsStored, SetExists, TurnCamera, MarkLoads
    <2> QED
      BY <2>1, <2>2, <2>3 DEF ZonesInv, UniqueNames, Publishable
  <1>2. CASE MarkWrites
    <2>1. view' \in Views /\ turned' \in Nat /\ marking' \in Nat /\ turned' + marking' <= view'
      BY <1>2, ZonesAssumption DEF MarkWrites, ZonesInv, Views
    <2>2. UNCHANGED <<txn, edge, zones, points, selected, shown, request, edited, posts>>
          /\ set' = [set EXCEPT !.status = "stale"]
      BY <1>2 DEF MarkWrites, pageOnly
    <2>3. set' \in [status : SetStatus, zones : ZoneSeq, fingerprint : Views, published : BOOLEAN]
          /\ set'.zones = set.zones
      BY <2>2 DEF ZonesInv, SetStatus
    <2>4. ShownIsStored' /\ SetExists'
      BY <1>2, <2>2, <2>3 DEF ZonesInv, ShownIsStored, SetExists, MarkWrites
    <2>5. UniqueNames(set.zones)'
      BY <2>3 DEF ZonesInv, UniqueNames
    <2> QED
      BY <2>1, <2>2, <2>3, <2>4, <2>5 DEF ZonesInv, UniqueNames, Publishable
  <1>3. CASE EdgePulls
    <2>1. UNCHANGED <<set, view, turned, marking, txn, zones, points, selected, shown, request,
                      edited, posts>>
          /\ edge' = IF set.status = "active" THEN On(set.zones) ELSE <<>>
      BY <1>3 DEF EdgePulls, pageOnly
    <2>2. /\ edge' \in [DOMAIN edge' -> Zone] /\ DOMAIN edge' \subseteq 1..MaxZones
          /\ UniqueNames(edge)'
      <3>1. CASE set.status = "active"
        BY <2>1, <3>1, OnIsUnique DEF ZonesInv, UniqueNames
      <3>2. CASE set.status # "active"
        <4>1. edge' = <<>> /\ <<>> \in Seq(Zone) /\ DOMAIN <<>> = {}
          BY <2>1, <3>2
        <4> QED
          BY <4>1 DEF UniqueNames
      <3> QED
        BY <3>1, <3>2
    <2>3. ShownIsStored' /\ SetExists'
      BY <2>1 DEF ZonesInv, ShownIsStored, SetExists
    <2> QED
      BY <2>1, <2>2, <2>3 DEF ZonesInv, UniqueNames, Publishable
  <1> QED
    BY <1>1, <1>2, <1>3

LEMMA ZonesKept == ZonesInv /\ [ZonesNext]_zonesVars => ZonesInv'
  <1>1. ASSUME ZonesInv, UNCHANGED zonesVars PROVE ZonesInv'
    BY <1>1 DEF zonesVars, ZonesInv, UniqueNames, Publishable, ShownIsStored, SetExists
  <1> QED
    BY <1>1, EditorKeeps, PostKeeps, ServiceKeeps, CameraKeeps DEF ZonesNext

LEMMA ZonesTyped == ZonesInv => RedZonesTypeOK /\ ZonesUnambiguous /\ ShownIsStored
  <1> SUFFICES ASSUME ZonesInv PROVE RedZonesTypeOK /\ ZonesUnambiguous
    BY DEF ZonesInv
  <1>1. turned \in 0..MaxMoves /\ marking \in 0..MaxMoves
    BY ZonesAssumption DEF ZonesInv, Views
  <1>2. /\ txn.stage \in {"none", "loaded", "written"}
        /\ txn.stage # "none" => txn.status \in SetStatus /\ txn.fingerprint \in Views
    BY DEF ZonesInv, NoTxn
  <1>3. request.kind \in {"none", "save", "publish", "stale"}
    BY DEF ZonesInv, NoRequest
  <1> QED
    BY <1>1, <1>2, <1>3 DEF ZonesInv, RedZonesTypeOK, ZonesUnambiguous, UniqueNames

(* A save that loaded a stale set keeps it stale, and so does everything but a
   publication and a save that loaded the set before it was marked. *)
LEMMA StaleStays ==
    ASSUME ZonesInv, [ZonesNext]_zonesVars, set.status = "stale", set'.status # "stale"
    PROVE  \/ request.kind = "publish" /\ set'.status = "active"
           \/ request.kind = "save" /\ txn.status = "active" /\ set'.status = "draft"
  <1>1. set \in [status : SetStatus, zones : ZoneSeq, fingerprint : Views, published : BOOLEAN]
    BY DEF ZonesInv
  <1>2. CASE SaveWrites
    <2>1. set' = [set EXCEPT !.zones = request.zones, !.status = Written(SavedStatus(txn.status))]
          /\ request.kind = "save"
      BY <1>2 DEF SaveWrites, Answered
    <2>2. set'.status = Written(SavedStatus(txn.status))
      BY <1>1, <2>1
    <2>3. txn \in [stage : {"loaded", "written"}, status : SetStatus, fingerprint : Views]
      BY <1>2 DEF SaveWrites, ZonesInv, NoTxn
    <2>4. txn.status \in {"none", "active"} /\ set'.status = "draft"
      BY <2>2, <2>3 DEF Written, SavedStatus, SetStatus
    <2>5. txn.status # "none"
      BY <1>2 DEF SaveWrites, ZonesInv, SetExists, NoTxn
    <2> QED
      BY <2>1, <2>4, <2>5
  <1>3. CASE PublishCommits
    <2>1. request.kind = "publish" /\ set'.status = Written("active")
      BY <1>3 DEF PublishCommits, Answered, ZonesInv, NoTxn
    <2> QED
      BY <2>1 DEF Written
  <1>4. SaveWrites \/ PublishCommits
    <2>1. ASSUME UNCHANGED set PROVE FALSE
      BY <2>1
    <2>2. ASSUME StaleHandled \/ MarkWrites PROVE FALSE
      BY <1>1, <2>2 DEF StaleHandled, MarkWrites, Answered
    <2>3. UNCHANGED set \/ StaleHandled \/ MarkWrites \/ SaveWrites \/ PublishCommits
      BY DEF ZonesNext, zonesVars, ClickCanvas, UndoPoint, FinishDraft, SwitchZone, RemoveZone,
          SelectZone, editorOnly, SaveDraft, PublishZones, MarkStaleByHand, Post, Loads,
          PublishWrites, TurnCamera, MarkLoads, EdgePulls, Answered
    <2> QED
      BY <2>1, <2>2, <2>3
  <1> QED
    BY <1>2, <1>3, <1>4

(* However the editor, its transactions, marks of turned heads and pulls of the
   device overtake each other, a reference names one zone, in the set and on the device,
   the editor shows what is stored until someone edits it, and a set that went stale
   stays so until it is published again, or until a save commits that had loaded it
   active (CameraRoiService, camera-rois/edit.tsx). *)
THEOREM ZonesAreAsPublished == ZonesSpec => ZonesAsPublished
  <1>1. ZonesInit => ZonesInv
    BY ZonesStart
  <1>2. ZonesInv /\ [ZonesNext]_zonesVars => ZonesInv'
    BY ZonesKept
  <1>3. ZonesInv => RedZonesTypeOK /\ ZonesUnambiguous /\ ShownIsStored
    BY ZonesTyped
  <1>4. ZonesInv /\ [ZonesNext]_zonesVars
        => [set.status = "stale" /\ set'.status # "stale"
              => \/ request.kind = "publish" /\ set'.status = "active"
                 \/ request.kind = "save" /\ txn.status = "active" /\ set'.status = "draft"]_set
    BY StaleStays
  <1> QED
    BY <1>1, <1>2, <1>3, <1>4, PTL DEF ZonesSpec, ZonesAsPublished, StaleUntilPublished

-----------------------------------------------------------------------------
(* AlertConsole.                                                           *)
-----------------------------------------------------------------------------
(* A row whose alert was raised, if it is open, and one the store may hold. *)
Raised == {r \in Row : IsOpenLike(r) => r.at > 0}
Stored == {r \in Raised : r.status # "resolved"}
Event  == [id : Alerts, row : Raised]
Snapshot == [phase : {"idle", "asked", "read"}, rows : [Alerts -> Stored]]

RowsInv ==
    /\ server \in [Alerts -> Raised] /\ wire \in Seq(Event) /\ raises \in 0..MaxRaises
    /\ snap \in Snapshot /\ store \in [Alerts -> Stored]

(* Only cards that are shown have a timer, so what it dismisses is shown. *)
ToastsInv ==
    /\ dismissed \in [Alerts -> 0..MaxRaises]
    /\ timers \subseteq CardTimers(store, dismissed)

(* The loop is on with its alarm, and the one beep timer is that of the loop. *)
ChimeInv ==
    /\ unlocked \in BOOLEAN /\ ctx \in {"none", "suspended", "running"}
    /\ loop \in [on : BOOLEAN, looping : BOOLEAN]
    /\ loop.on <=> HasAudibleCritical(store) /\ unlocked
    /\ starting \in 0..2 /\ stale \in 0..1 /\ chains \in 0..1
    /\ starting > 0 => loop.on
    /\ chains > 0 => loop.on /\ loop.looping

AlarmInv == RowsInv /\ ToastsInv /\ ChimeInv

LEMMA AbsentIsStored == Absent \in Stored /\ Absent \in Raised
  <1>1. Absent \in Row /\ ~IsOpenLike(Absent)
    BY ConsoleAssumption DEF Absent, Row, Statuses, IsOpenLike
  <1>2. Absent.status = "none"
    BY DEF Absent
  <1> QED
    BY <1>1, <1>2 DEF Stored, Raised

LEMMA OpenIsStored == ASSUME NEW r \in Raised, IsOpenLike(r) PROVE r \in Stored
  BY DEF Stored, IsOpenLike

LEMMA TimersShown ==
    ASSUME NEW rows \in [Alerts -> Stored], NEW hidden, NEW t \in CardTimers(rows, hidden)
    PROVE  /\ t[1] \in Alerts \ Criticals /\ t[2] = rows[t[1]].at
           /\ rows[t[1]].status = "open" /\ t[2] \in 1..MaxRaises
           /\ t = <<t[1], t[2]>>
  <1>1. PICK a \in Visible(rows, hidden) \ Criticals : t = <<a, rows[a].at>>
    BY DEF CardTimers
  <1>2. a \in Alerts /\ rows[a].status = "open"
    BY <1>1 DEF Visible, Undismissed
  <1>3. rows[a].at \in 0..MaxRaises /\ rows[a].at > 0
    BY <1>2 DEF Stored, Raised, Row, IsOpenLike
  <1>4. rows[a].at \in 1..MaxRaises
    BY <1>3, ConsoleAssumption
  <1> QED
    BY <1>1, <1>2, <1>4

LEMMA AlarmStarts == ConsoleInit => AlarmInv
  <1> SUFFICES ASSUME ConsoleInit PROVE AlarmInv
    OBVIOUS
  <1>1. server = NoRows /\ store = NoRows /\ snap = [phase |-> "asked", rows |-> NoRows]
        /\ wire = <<>> /\ raises = 0
    BY DEF ConsoleInit, NoRows
  <1>2. NoRows \in [Alerts -> Stored] /\ NoRows \in [Alerts -> Raised]
    BY AbsentIsStored DEF NoRows
  <1>3. wire \in Seq(Event)
    BY <1>1, EmptySeq
  <1>4. 0 \in 0..MaxRaises
    BY ConsoleAssumption
  <1>5. RowsInv
    BY <1>1, <1>2, <1>3, <1>4 DEF RowsInv, Snapshot
  <1>6. ToastsInv
    BY <1>4 DEF ConsoleInit, ToastsInv
  <1>7. ~HasAudibleCritical(store)
    BY <1>1, ConsoleAssumption DEF HasAudibleCritical, NoRows, Absent
  <1>8. ChimeInv
    <2>1. loop \in [on : BOOLEAN, looping : BOOLEAN] /\ ~loop.on
      BY DEF ConsoleInit, Silent
    <2>2. starting \in 0..2 /\ stale \in 0..1 /\ chains \in 0..1 /\ ~(starting > 0) /\ ~(chains > 0)
      BY DEF ConsoleInit
    <2>3. unlocked \in BOOLEAN /\ ctx \in {"none", "suspended", "running"}
      BY DEF ConsoleInit
    <2> QED
      BY <1>7, <2>1, <2>2, <2>3 DEF ChimeInv
  <1> QED
    BY <1>5, <1>6, <1>8 DEF AlarmInv

(* A render with other rows or another permission. *)
LEMMA EffectKeeps ==
    ASSUME ChimeInv, NEW rows, store' = rows, unlocked' \in BOOLEAN,
           ctx' \in {"none", "suspended", "running"}, Effect(rows, unlocked')
    PROVE  ChimeInv'
  <1> DEFINE on == HasAudibleCritical(rows) /\ unlocked'
  <1>1. on \in BOOLEAN /\ (on <=> (HasAudibleCritical(store) /\ unlocked)')
    BY DEF HasAudibleCritical
  <1>2. CASE on = loop.on
    <2>1. UNCHANGED <<loop, starting, stale, chains>>
      BY <1>2 DEF Effect
    <2> QED
      BY <1>1, <1>2, <2>1 DEF ChimeInv, HasAudibleCritical
  <1>3. CASE on # loop.on
    <2>1. loop' = [on |-> on, looping |-> FALSE] /\ starting' = (IF on THEN 1 ELSE 0)
          /\ stale' = (IF stale + starting > 0 THEN 1 ELSE 0) /\ chains' = 0
      BY <1>3 DEF Effect
    <2> HIDE DEF on
    <2>2. loop' \in [on : BOOLEAN, looping : BOOLEAN] /\ loop'.on = on
      BY <1>1, <2>1
    <2>3. starting' \in 0..2 /\ stale' \in 0..1 /\ chains' \in 0..1
          /\ (starting' > 0 => on) /\ ~(chains' > 0)
      BY <2>1
    <2> QED
      BY <1>1, <2>2, <2>3 DEF ChimeInv
  <1> QED
    BY <1>2, <1>3

LEMMA ShowKeeps ==
    ASSUME AlarmInv, NEW rows \in [Alerts -> Stored], Show(rows)
    PROVE  ToastsInv' /\ ChimeInv' /\ store' \in [Alerts -> Stored]
  <1>1. store' = rows /\ UNCHANGED <<dismissed, unlocked, ctx>> /\ Effect(rows, unlocked')
        /\ timers' = CardTimers(rows, dismissed)
    BY DEF Show, Effect
  <1>2. ToastsInv'
    BY <1>1 DEF AlarmInv, ToastsInv, CardTimers, Visible, Undismissed
  <1>3. ChimeInv'
    BY <1>1, EffectKeeps DEF AlarmInv, ChimeInv
  <1> QED
    BY <1>1, <1>2, <1>3

LEMMA ToastsSame ==
    ASSUME ToastsInv, UNCHANGED <<store, dismissed, timers>> PROVE ToastsInv'
  BY DEF ToastsInv, CardTimers, Visible, Undismissed

LEMMA ChimeSame ==
    ASSUME ChimeInv, UNCHANGED <<store, unlocked, ctx, loop, starting, stale, chains>>
    PROVE  ChimeInv'
  BY DEF ChimeInv, HasAudibleCritical

(* The server. *)
LEMMA WritesKeep ==
    ASSUME AlarmInv, NEW a \in Alerts, Raise(a) \/ Acknowledge(a) \/ Resolve(a)
    PROVE  AlarmInv'
  <1>1. server[a] \in Raised /\ server[a] \in Row
    BY DEF AlarmInv, RowsInv, Raised
  <1>2. PICK row \in Raised : Write(a, row) /\ raises' \in 0..MaxRaises
    <2>1. CASE Raise(a)
      <3> DEFINE row == [status |-> IF IsOpenLike(server[a]) THEN server[a].status ELSE "open",
                         at |-> raises + 1]
      <3>1. raises + 1 \in 1..MaxRaises /\ raises' = raises + 1
        BY <2>1, ConsoleAssumption DEF Raise, AlarmInv, RowsInv
      <3>2. row.status \in Statuses /\ row.at = raises + 1
        BY <1>1 DEF Row, Statuses
      <3>3. row \in Row
        BY <3>1, <3>2 DEF Row
      <3>4. row \in Raised
        BY <3>1, <3>2, <3>3 DEF Raised
      <3>5. Write(a, row)
        BY <2>1 DEF Raise
      <3>6. raises' \in 0..MaxRaises
        BY <3>1
      <3> HIDE DEF row
      <3> QED
        BY <3>4, <3>5, <3>6
    <2>2. CASE Acknowledge(a)
      <3>1. [server[a] EXCEPT !.status = "acknowledged"] \in Raised
        BY <1>1, <2>2 DEF Acknowledge, Raised, Row, Statuses, IsOpenLike
      <3> QED
        BY <2>2, <3>1 DEF Acknowledge, AlarmInv, RowsInv
    <2>3. CASE Resolve(a)
      <3>1. [server[a] EXCEPT !.status = "resolved"] \in Raised
        BY <1>1, <2>3 DEF Resolve, Raised, Row, Statuses, IsOpenLike
      <3> QED
        BY <2>3, <3>1 DEF Resolve, AlarmInv, RowsInv
    <2> QED
      BY <2>1, <2>2, <2>3
  <1>3. server' \in [Alerts -> Raised] /\ UNCHANGED <<snap, store, toastVars, audioVars>>
    BY <1>2 DEF Write, AlarmInv, RowsInv, linkVars
  <1>4. wire' \in Seq(Event)
    <2>1. [id |-> a, row |-> row] \in Event
      BY <1>2 DEF Event
    <2>2. wire' = wire \/ wire' = Append(wire, [id |-> a, row |-> row])
      BY <1>2 DEF Write
    <2>3. wire \in Seq(Event)
      BY DEF AlarmInv, RowsInv
    <2> QED
      BY <2>1, <2>2, <2>3, AppendProperties
  <1>5. RowsInv'
    BY <1>2, <1>3, <1>4 DEF AlarmInv, RowsInv
  <1> QED
    BY <1>3, <1>5, ToastsSame, ChimeSame DEF AlarmInv, toastVars, audioVars

(* Events and snapshots. *)
LEMMA FeedKeeps ==
    ASSUME AlarmInv,
           TakeEvent \/ Disconnect \/ Reconnect \/ Poll \/ ReadSnapshot \/ SnapshotArrives
    PROVE  AlarmInv'
  <1>1. NoRows \in [Alerts -> Stored]
    BY AbsentIsStored DEF NoRows
  <1>2. CASE TakeEvent
    <2>1. wire \in Seq(Event) /\ wire # <<>>
      BY <1>2 DEF TakeEvent, AlarmInv, RowsInv
    <2>2. Head(wire) \in Event /\ Tail(wire) \in Seq(Event)
      BY <2>1, HeadTailProperties
    <2>3. PICK e \in Event : e = Head(wire)
      BY <2>2
    <2> DEFINE rows == UpsertAlert(store, e.id, e.row)
    <2>4. rows \in [Alerts -> Stored]
      <3>1. (IF IsOpenLike(e.row) THEN e.row ELSE Absent) \in Stored
        BY AbsentIsStored, OpenIsStored DEF Event
      <3> QED
        BY <3>1 DEF UpsertAlert, AlarmInv, RowsInv
    <2>5. Show(rows) /\ wire' = Tail(wire) /\ UNCHANGED <<server, raises, snap>>
      BY <1>2, <2>3 DEF TakeEvent, linkVars
    <2> HIDE DEF rows
    <2>6. ToastsInv' /\ ChimeInv' /\ store' \in [Alerts -> Stored]
      BY <2>4, <2>5, ShowKeeps
    <2> QED
      BY <2>2, <2>5, <2>6 DEF AlarmInv, RowsInv
  <1>3. CASE SnapshotArrives
    <2>1. snap.rows \in [Alerts -> Stored] /\ Show(snap.rows)
          /\ snap' = [phase |-> "idle", rows |-> NoRows] /\ UNCHANGED <<server, wire, raises>>
      BY <1>3 DEF SnapshotArrives, AlarmInv, RowsInv, Snapshot, serverVars
    <2>2. snap' \in Snapshot
      BY <1>1, <2>1 DEF Snapshot
    <2>3. ToastsInv' /\ ChimeInv' /\ store' \in [Alerts -> Stored]
      BY <2>1, ShowKeeps
    <2> QED
      BY <2>1, <2>2, <2>3 DEF AlarmInv, RowsInv
  <1>4. ASSUME Disconnect \/ Reconnect \/ Poll \/ ReadSnapshot PROVE AlarmInv'
    <2>1. UNCHANGED <<server, raises, store, toastVars, audioVars>>
      BY <1>4 DEF Disconnect, Reconnect, Poll, ReadSnapshot, serverVars
    <2>2. wire' \in Seq(Event)
      <3>1. wire' = wire \/ wire' = <<>>
        BY <1>4 DEF Disconnect, Reconnect, Poll, ReadSnapshot, serverVars
      <3> QED
        BY <3>1, EmptySeq DEF AlarmInv, RowsInv
    <2>3. snap' \in Snapshot
      <3>1. CASE Disconnect
        BY <3>1 DEF Disconnect, AlarmInv, RowsInv
      <3>2. CASE Reconnect \/ Poll
        <4>1. snap' = [phase |-> "asked", rows |-> NoRows]
          BY <3>2 DEF Reconnect, Poll, AskSnapshot
        <4> QED
          BY <1>1, <4>1 DEF Snapshot
      <3>3. CASE ReadSnapshot
        <4>1. snap' = [phase |-> "read", rows |-> OpenOnes(server)]
          BY <3>3 DEF ReadSnapshot
        <4>2. OpenOnes(server) \in [Alerts -> Stored]
          BY AbsentIsStored, OpenIsStored DEF OpenOnes, AlarmInv, RowsInv
        <4> QED
          BY <4>1, <4>2 DEF Snapshot
      <3> QED
        BY <1>4, <3>1, <3>2, <3>3
    <2>4. RowsInv'
      BY <2>1, <2>2, <2>3 DEF AlarmInv, RowsInv
    <2> QED
      BY <2>1, <2>4, ToastsSame, ChimeSame DEF AlarmInv, toastVars, audioVars
  <1> QED
    BY <1>2, <1>3, <1>4

(* The toasts, whether their user or their timer dismisses them. *)
LEMMA DismissedIsShown ==
    ASSUME AlarmInv, (\E a \in Alerts : Dismiss(a)) \/ AutoDismiss
    PROVE  \E a \in Alerts : /\ store[a].status = "open"
                             /\ DismissAs(a, store[a].at)
  <1>1. ASSUME NEW a \in Alerts, Dismiss(a)
        PROVE  store[a].status = "open" /\ DismissAs(a, store[a].at)
    BY <1>1 DEF Dismiss, Visible, Undismissed
  <1>2. CASE AutoDismiss
    <2>1. PICK t \in timers : DismissAs(t[1], t[2])
      BY <1>2 DEF AutoDismiss
    <2>2. t \in CardTimers(store, dismissed) /\ store \in [Alerts -> Stored]
      BY DEF AlarmInv, ToastsInv, RowsInv
    <2>3. t[1] \in Alerts /\ t[2] = store[t[1]].at /\ store[t[1]].status = "open"
      BY <2>2, TimersShown
    <2> QED
      BY <2>1, <2>3
  <1> QED
    BY <1>1, <1>2

LEMMA DismissKeeps ==
    ASSUME AlarmInv, (\E a \in Alerts : Dismiss(a)) \/ AutoDismiss PROVE AlarmInv'
  <1>1. PICK a \in Alerts : store[a].status = "open" /\ DismissAs(a, store[a].at)
    BY DismissedIsShown
  <1>2. UNCHANGED <<server, wire, raises, snap, store, audioVars>>
    BY <1>1 DEF DismissAs, serverVars, linkVars
  <1>3. store[a].at \in 0..MaxRaises
    BY DEF AlarmInv, RowsInv, Stored, Raised, Row
  <1>4. dismissed' = [dismissed EXCEPT ![a] = store[a].at]
        /\ timers' \subseteq CardTimers(store, dismissed')
    BY <1>1 DEF DismissAs
  <1>5. dismissed' \in [Alerts -> 0..MaxRaises]
    BY <1>3, <1>4 DEF AlarmInv, ToastsInv
  <1>6. ToastsInv'
    BY <1>2, <1>4, <1>5 DEF ToastsInv, CardTimers, Visible, Undismissed
  <1> QED
    BY <1>2, <1>6, ChimeSame DEF AlarmInv, RowsInv, audioVars

(* The chime. *)
LEMMA ChimeKeeps ==
    ASSUME AlarmInv, Enable \/ Gesture \/ StartResolves \/ StaleResolves \/ Beep \/ Suspend
    PROVE  AlarmInv'
  <1>1. UNCHANGED <<server, wire, raises, snap, store, dismissed, timers>>
    BY DEF Enable, Gesture, StartResolves, StaleResolves, Beep, Suspend, serverVars, linkVars,
           toastVars
  <1>2. RowsInv' /\ ToastsInv'
    BY <1>1, ToastsSame DEF AlarmInv, RowsInv
  <1>3. HasAudibleCritical(store)' = HasAudibleCritical(store)
    BY <1>1 DEF HasAudibleCritical
  <1>4. ChimeInv
    BY DEF AlarmInv
  <1>5. CASE Enable
    <2>1. unlocked' \in BOOLEAN /\ ctx' \in {"none", "suspended", "running"}
          /\ Effect(store, unlocked')
      BY <1>4, <1>5 DEF Enable, ChimeInv
    <2>2. ChimeInv'
      BY <1>1, <1>4, <2>1, EffectKeeps
    <2> QED
      BY <1>2, <2>2 DEF AlarmInv
  <1>6. CASE Gesture
    <2>1. ctx' = "running" /\ starting' = starting + 1 /\ starting < 2 /\ loop.on
          /\ UNCHANGED <<unlocked, loop, stale, chains>>
      BY <1>6 DEF Gesture
    <2>2. starting' \in 0..2
      BY <1>4, <2>1 DEF ChimeInv
    <2> QED
      BY <1>2, <1>3, <1>4, <2>1, <2>2 DEF AlarmInv, ChimeInv
  <1>7. CASE StartResolves
    <2>1. starting > 0 /\ starting' = starting - 1 /\ chains' = StartLoop
          /\ loop' = [loop EXCEPT !.looping = @ \/ ctx = "running"]
          /\ UNCHANGED <<unlocked, ctx, stale>>
      BY <1>7 DEF StartResolves
    <2>2. starting' \in 0..2 /\ loop.on
      BY <1>4, <2>1 DEF ChimeInv
    <2>3. loop' \in [on : BOOLEAN, looping : BOOLEAN] /\ loop'.on = loop.on
          /\ loop'.looping = (loop.looping \/ ctx = "running")
      BY <1>4, <2>1 DEF ChimeInv
    <2>4. chains' \in 0..1
      BY <1>4, <2>1 DEF ChimeInv, StartLoop
    <2>5. chains' > 0 => loop.looping \/ ctx = "running"
      BY <1>4, <2>1 DEF ChimeInv, StartLoop
    <2>6. ChimeInv'
      BY <1>3, <1>4, <2>1, <2>2, <2>3, <2>4, <2>5 DEF ChimeInv
    <2> QED
      BY <1>2, <2>6 DEF AlarmInv
  <1>8. CASE StaleResolves
    <2>1. stale > 0 /\ stale' = stale - 1 /\ chains' = chains
          /\ UNCHANGED <<unlocked, ctx, loop, starting>>
      BY <1>8 DEF StaleResolves, StaleStart
    <2>2. stale' \in 0..1
      BY <1>4, <2>1 DEF ChimeInv
    <2> QED
      BY <1>2, <1>3, <1>4, <2>1, <2>2 DEF AlarmInv, ChimeInv
  <1>9. CASE Beep
    <2>1. chains > 0 /\ chains' \in {chains, chains - 1}
          /\ UNCHANGED <<unlocked, ctx, loop, starting, stale>>
      BY <1>9 DEF Beep
    <2>2. chains' \in 0..1 /\ loop.on /\ loop.looping
      BY <1>4, <2>1 DEF ChimeInv
    <2> QED
      BY <1>2, <1>3, <1>4, <2>1, <2>2 DEF AlarmInv, ChimeInv
  <1>10. CASE Suspend
    <2>1. ctx' = "suspended" /\ UNCHANGED <<unlocked, loop, starting, stale, chains>>
      BY <1>10 DEF Suspend
    <2> QED
      BY <1>2, <1>3, <1>4, <2>1 DEF AlarmInv, ChimeInv
  <1> QED
    BY <1>5, <1>6, <1>7, <1>8, <1>9, <1>10

LEMMA AlarmKept == AlarmInv /\ [ConsoleNext]_consoleVars => AlarmInv'
  <1>1. ASSUME AlarmInv, UNCHANGED consoleVars PROVE AlarmInv'
    BY <1>1, ToastsSame, ChimeSame
    DEF AlarmInv, RowsInv, consoleVars, serverVars, linkVars, toastVars, audioVars
  <1> QED
    BY <1>1, WritesKeep, FeedKeeps, DismissKeeps, ChimeKeeps
    DEF ConsoleNext, AckRow, ResolveRow

LEMMA AlarmTyped == AlarmInv => ConsoleTypeOK /\ OneLoop /\ SilentOnceAcked
  <1> SUFFICES ASSUME AlarmInv PROVE ConsoleTypeOK /\ OneLoop /\ SilentOnceAcked
    OBVIOUS
  <1>1. server \in Rows /\ store \in Rows /\ \A a \in Alerts : store[a].status # "resolved"
    BY DEF AlarmInv, RowsInv, Rows, Stored, Raised
  <1>2. BellCount(store) <= Cardinality(Alerts)
    BY FS_Subset, ConsoleAssumption DEF BellCount
  <1>3. timers \subseteq ((Alerts \ Criticals) \X (1..MaxRaises))
    <2> SUFFICES ASSUME NEW t \in timers PROVE t \in ((Alerts \ Criticals) \X (1..MaxRaises))
      OBVIOUS
    <2>1. t \in CardTimers(store, dismissed) /\ store \in [Alerts -> Stored]
      BY DEF AlarmInv, ToastsInv, RowsInv
    <2> QED
      BY <2>1, TimersShown
  <1>4. snap.phase \in {"idle", "asked", "read"}
    BY DEF AlarmInv, RowsInv, Snapshot
  <1>5. starting \in 0..2 /\ chains \in 0..2 /\ chains <= 1
    BY DEF AlarmInv, ChimeInv
  <1>6. SilentOnceAcked
    BY DEF AlarmInv, ChimeInv, SilentOnceAcked
  <1> QED
    BY <1>1, <1>2, <1>3, <1>4, <1>5, <1>6
    DEF ConsoleTypeOK, OneLoop, AlarmInv, ToastsInv, ChimeInv

(* A toast that was dismissed is not taken back by an older timer. *)
StaysDismissed ==
    \A a \in Alerts :
      /\ store[a].status = "open" /\ dismissed[a] = store[a].at
      /\ store'[a] = store[a]
      => a \notin Visible(store', dismissed')

LEMMA DismissalStands ==
    ASSUME AlarmInv, [ConsoleNext]_consoleVars PROVE StaysDismissed
  <1>1. dismissed' = dismissed \/ \E a \in Alerts : DismissAs(a, store[a].at)
    <2>1. CASE (\E a \in Alerts : Dismiss(a)) \/ AutoDismiss
      BY <2>1, DismissedIsShown
    <2>2. CASE ~((\E a \in Alerts : Dismiss(a)) \/ AutoDismiss)
      BY <2>2
      DEF ConsoleNext, consoleVars, AckRow, ResolveRow, Raise, Acknowledge, Resolve, Write,
          TakeEvent, Show, Disconnect, Reconnect, Poll, ReadSnapshot, SnapshotArrives, Enable,
          Gesture, StartResolves, StaleResolves, Beep, Suspend, toastVars
    <2> QED
      BY <2>1, <2>2
  <1>2. \A a \in Alerts : dismissed[a] = store[a].at => dismissed'[a] = store[a].at
    <2>1. ASSUME NEW b \in Alerts, DismissAs(b, store[b].at), NEW a \in Alerts,
                 dismissed[a] = store[a].at
          PROVE  dismissed'[a] = store[a].at
      BY <2>1 DEF DismissAs, AlarmInv, ToastsInv
    <2> QED
      BY <1>1, <2>1
  <1> QED
    BY <1>2 DEF StaysDismissed, Visible, Undismissed

(* Whatever events, snapshots, gestures and timers overtake each other, one chime
   sounds and only with an audible critical alert open in the store, and a
   dismissed toast comes back only when its alert is raised again
   (alert-provider.tsx). *)
THEOREM AlarmIsAsStored == ConsoleSpec => AlarmAsStored
  <1>1. ConsoleInit => AlarmInv
    BY AlarmStarts
  <1>2. AlarmInv /\ [ConsoleNext]_consoleVars => AlarmInv'
    BY AlarmKept
  <1>3. AlarmInv => ConsoleTypeOK /\ OneLoop /\ SilentOnceAcked
    BY AlarmTyped
  <1>4. AlarmInv /\ [ConsoleNext]_consoleVars => [StaysDismissed]_consoleVars
    BY DismissalStands
  <1> QED
    BY <1>1, <1>2, <1>3, <1>4, PTL
    DEF ConsoleSpec, AlarmAsStored, DismissedStaysDismissed, StaysDismissed

-----------------------------------------------------------------------------
(* DashboardLive.                                                          *)
-----------------------------------------------------------------------------
(* What removing one element leaves. *)
LEMMA RemovedSeq ==
    ASSUME NEW S, NEW s \in Seq(S), NEW i \in DOMAIN s
    PROVE  /\ RemoveAt(s, i) \in Seq(S) /\ Len(RemoveAt(s, i)) = Len(s) - 1
           /\ Len(s) \in Nat /\ i \in 1..Len(s)
           /\ \A k \in 1..(Len(s) - 1) :
                 RemoveAt(s, i)[k] = IF k < i THEN s[k] ELSE s[k + 1]
  <1>1. Len(s) \in Nat /\ i \in 1..Len(s) /\ \A j \in 1..Len(s) : s[j] \in S
    BY LenProperties, ElementOfSeq
  <1>2. PICK n \in Nat : n = Len(s)
    BY <1>1
  <1>3. i \in 1..n /\ (i - 1) + (n - i) = n - 1
    BY <1>1, <1>2
  <1>4. PICK a : a = SubSeq(s, 1, i - 1)
    OBVIOUS
  <1>5. PICK b : b = SubSeq(s, i + 1, n)
    OBVIOUS
  <1>6. /\ a \in Seq(S) /\ Len(a) = i - 1 /\ \A k \in 1..(i - 1) : a[k] = s[k]
    <2>1. /\ a \in Seq(S) /\ Len(a) = (IF 1 <= i - 1 THEN (i - 1) - 1 + 1 ELSE 0)
          /\ \A k \in 1..((i - 1) - 1 + 1) : a[k] = s[1 + k - 1]
      BY <1>1, <1>3, <1>4, SubSeqProperties
    <2>2. (i - 1) - 1 + 1 = i - 1 /\ \A k \in 1..(i - 1) : 1 + k - 1 = k
      BY <1>3
    <2> QED
      BY <1>3, <2>1, <2>2
  <1>7. /\ b \in Seq(S) /\ Len(b) = n - i /\ \A k \in 1..(n - i) : b[k] = s[i + k]
    <2>1. PICK m \in Int : m = i + 1
      BY <1>3
    <2>2. n \in Int /\ \A j \in m..n : s[j] \in S
      BY <1>1, <1>2, <1>3, <2>1
    <2>3. /\ b \in Seq(S) /\ Len(b) = (IF m <= n THEN n - m + 1 ELSE 0)
          /\ \A k \in 1..(n - m + 1) : b[k] = s[m + k - 1]
      BY <1>5, <2>1, <2>2, SubSeqProperties
    <2>4. n - m + 1 = n - i /\ (IF m <= n THEN n - m + 1 ELSE 0) = n - i
      BY <1>3, <2>1
    <2>5. \A k \in 1..(n - i) : m + k - 1 = i + k
      BY <1>3, <2>1
    <2> QED
      BY <2>3, <2>4, <2>5
  <1>8. RemoveAt(s, i) = a \o b
    BY <1>2, <1>4, <1>5 DEF RemoveAt
  <1>9. /\ a \o b \in Seq(S) /\ Len(a \o b) = n - 1
        /\ \A k \in 1..(n - 1) : (a \o b)[k] = IF k <= i - 1 THEN a[k] ELSE b[k - (i - 1)]
    <2>1. /\ a \o b \in Seq(S) /\ Len(a \o b) = Len(a) + Len(b)
          /\ \A k \in 1..(Len(a) + Len(b)) :
                (a \o b)[k] = IF k <= Len(a) THEN a[k] ELSE b[k - Len(a)]
      BY <1>6, <1>7, ConcatProperties
    <2>2. Len(a) + Len(b) = n - 1
      BY <1>3, <1>6, <1>7
    <2> QED
      BY <1>6, <2>1, <2>2
  <1>10. ASSUME NEW k \in 1..(n - 1)
         PROVE  (a \o b)[k] = IF k < i THEN s[k] ELSE s[k + 1]
    <2>1. CASE k < i
      <3>1. k <= i - 1 /\ k \in 1..(i - 1)
        BY <1>3, <2>1
      <3> QED
        BY <1>6, <1>9, <2>1, <3>1
    <2>2. CASE ~ (k < i)
      <3>1. ~ (k <= i - 1) /\ k - (i - 1) \in 1..(n - i) /\ i + (k - (i - 1)) = k + 1
        BY <1>3, <2>2
      <3> QED
        BY <1>7, <1>9, <2>2, <3>1
    <2> QED
      BY <2>1, <2>2
  <1> QED
    BY <1>1, <1>2, <1>8, <1>9, <1>10

(* What stands of every alert, and what an event says of it. *)
Standing == [a \in FeedAlerts |-> IF a \in Live THEN severity[a] ELSE "gone"]
Told(e) == IF e.live THEN e.severity ELSE "gone"

Listed(s) == {s.latest[i] : i \in DOMAIN s.latest}

(* The alerts a summary counts as critical at least, when it was not told of those
   in late: those it lists so, and those that stand so and were pushed off. *)
Counted(s, late, now) ==
    {a \in FeedAlerts :
        \/ [id |-> a, severity |-> "critical"] \in Listed(s)
        \/ /\ a \notin late /\ now[a] = "critical"
           /\ \A r \in Listed(s) : r.id # a}

(* The alerts a summary lists as critical; and a summary that lists raised alerts only
   and counts none of them twice, as long as there was room for all. *)
CritOf(s) == {a \in FeedAlerts : [id |-> a, severity |-> "critical"] \in Listed(s)}

Exact(s, knownIds) ==
    /\ \A r \in Listed(s) : r.id \in knownIds
    /\ Cardinality(knownIds) <= LatestMax => s.critical = Cardinality(CritOf(s))

UpToDate(s, late, now) ==
    /\ \A r \in Listed(s) : r.id \notin late => now[r.id] = r.severity
    /\ s.critical >= Cardinality(Counted(s, late, now))

WellListed(s) ==
    /\ s.latest \in Seq(AlertRow) /\ Len(s.latest) <= LatestMax
    /\ \A i, j \in DOMAIN s.latest : i # j => s.latest[i].id # s.latest[j].id

SummaryOK(s) ==
    /\ s = [latest |-> s.latest, critical |-> s.critical, warning |-> s.warning,
            down |-> s.down, online |-> s.online]
    /\ WellListed(s)
    /\ s.critical \in Nat /\ s.warning \in Nat
    /\ s.down \subseteq Devices /\ s.online \in 0..Cardinality(Devices)

Alike == Cardinality(FeedAlerts)

FeedInv ==
    /\ feed \in Seq(FeedAlerts) /\ IsInjective(feed)
    /\ severity \in [FeedAlerts -> Severities] /\ ended \subseteq FeedAlerts
    /\ device \in [Devices -> DeviceStatus]

WireInv ==
    /\ channel \in Seq(AlertEvent \cup DeviceEvent)
    /\ connected \in BOOLEAN /\ (~connected => channel = <<>>)
    /\ changes \in 0..MaxChanges /\ breaks \in 0..MaxBreaks
    /\ Len(channel) <= changes
    /\ \A i \in DOMAIN channel :
          /\ channel[i] \in AlertEvent
          /\ \A j \in DOMAIN channel : j > i => ItemOf(channel[j]) # ItemOf(channel[i])
          => Told(channel[i]) = Standing[channel[i].alert]

Late == lag \cup OnWire

PageInv ==
    /\ SummaryOK(page) /\ UpToDate(page, Late, Standing)
    /\ page.critical + Len(channel) <= Alike + changes
    /\ page.warning + Len(channel) <= Alike + changes
    /\ told \in DeviceEvent \cup {NoneTold}
    /\ lag \subseteq FeedAlerts \cup Devices

ReadInv ==
    \A r \in reading :
        /\ SummaryOK(r.summary) /\ UpToDate(r.summary, r.missed, Standing)
        /\ r.summary.critical <= Alike /\ r.summary.warning <= Alike
        /\ r = [summary |-> r.summary, missed |-> r.missed]
        /\ r.missed \subseteq FeedAlerts \cup Devices

DashInv == FeedInv /\ WireInv /\ PageInv /\ ReadInv

(* Nobody is told of an alert that was not raised, and nothing is counted twice. *)
ExactInv ==
    /\ \A i \in DOMAIN channel : channel[i] \in AlertEvent => channel[i].alert \in EverLive
    /\ Exact(page, EverLive)
    /\ \A r \in reading : Exact(r.summary, EverLive)

LEMMA Sizes ==
    /\ Alike \in Nat /\ Cardinality(Devices) \in Nat
    /\ LatestMax \in Nat \ {0} /\ MaxChanges \in Nat /\ MaxBreaks \in Nat
    /\ \A T \in SUBSET FeedAlerts : IsFiniteSet(T) /\ Cardinality(T) \in 0..Alike
  <1>1. Alike \in Nat /\ Cardinality(Devices) \in Nat
    BY DashboardAssumption, FS_CardinalityType DEF Alike
  <1>2. ASSUME NEW T \in SUBSET FeedAlerts
        PROVE  IsFiniteSet(T) /\ Cardinality(T) \in 0..Alike
    <2>1. IsFiniteSet(T) /\ Cardinality(T) <= Cardinality(FeedAlerts)
      BY DashboardAssumption, FS_Subset
    <2>2. Cardinality(T) \in Nat
      BY <2>1, FS_CardinalityType
    <2> QED
      BY <1>1, <2>1, <2>2 DEF Alike
  <1> QED
    BY <1>1, <1>2, DashboardAssumption

(* What a summary counts on is a matter of its list, of the alerts it was told of and
   of how those stand. *)
LEMMA AsBefore ==
    ASSUME NEW s, NEW t, t.latest = s.latest, t.critical = s.critical, WellListed(s),
           s.critical \in Nat,
           NEW late, NEW late2, NEW now, NEW now2, UpToDate(s, late, now),
           \A a \in FeedAlerts : a \notin late2 => a \notin late /\ now2[a] = now[a]
    PROVE  UpToDate(t, late2, now2)
  <1>1. Listed(t) = Listed(s)
    BY DEF Listed
  <1>2. \A r \in Listed(s) : r.id \in FeedAlerts
    <2>1. \A i \in DOMAIN s.latest : s.latest[i] \in AlertRow
      BY ElementOfSeq, LenProperties DEF WellListed
    <2> QED
      BY <2>1 DEF Listed, AlertRow
  <1>3. \A r \in Listed(t) : r.id \notin late2 => now2[r.id] = r.severity
    BY <1>1, <1>2 DEF UpToDate
  <1>4. Counted(t, late2, now2) \subseteq Counted(s, late, now)
    BY <1>1 DEF Counted
  <1>5. Counted(s, late, now) \in SUBSET FeedAlerts
    BY DEF Counted
  <1>6. PICK T : T = Counted(s, late, now)
    OBVIOUS
  <1>7. PICK U : U = Counted(t, late2, now2)
    OBVIOUS
  <1>8. IsFiniteSet(T) /\ U \in SUBSET T /\ Cardinality(T) \in Nat
    BY <1>4, <1>5, <1>6, <1>7, Sizes
  <1>9. Cardinality(U) <= Cardinality(T) /\ Cardinality(U) \in Nat
    BY <1>8, FS_Subset, FS_CardinalityType
  <1>10. t.critical >= Cardinality(U)
    BY <1>6, <1>8, <1>9 DEF UpToDate
  <1> QED
    BY <1>3, <1>7, <1>10 DEF UpToDate

(* The items of a list have keys of their own. *)
Keyed(s, key) == \A i, j \in DOMAIN s : i # j => key[s[i]] # key[s[j]]

(* A list t is s without the item of key a; a list u is t behind the item x. *)
Drops(t, s, key, a) ==
    /\ Keyed(t, key) /\ Len(t) <= Len(s)
    /\ \A i \in DOMAIN t : key[t[i]] # a /\ \E j \in DOMAIN s : t[i] = s[j]
    /\ \A j \in DOMAIN s : key[s[j]] # a => \E i \in DOMAIN t : t[i] = s[j]

Leads(u, x, t, key) ==
    /\ Keyed(u, key)
    /\ \A i \in DOMAIN u : u[i] = x \/ \E j \in DOMAIN t : u[i] = t[j]
    /\ 1 \in DOMAIN u /\ u[1] = x
    /\ \A j \in DOMAIN t : \E i \in DOMAIN u : u[i] = t[j]

LEMMA OneTakenOut ==
    ASSUME NEW S, NEW s \in Seq(S), NEW key, NEW a,
           Keyed(s, key), NEW places, places = {i \in DOMAIN s : key[s[i]] = a},
           NEW t, t = TakenOut(s, places)
    PROVE  t \in Seq(S) /\ Drops(t, s, key, a)
  <1>n. Len(s) \in Nat /\ DOMAIN s = 1..Len(s)
    BY LenProperties
  <1>3. CASE places = {}
    <2>1. t = s
      BY <1>3 DEF TakenOut
    <2>2. \A i \in DOMAIN s : key[s[i]] # a
      BY <1>3
    <2>3. t \in Seq(S) /\ Len(t) <= Len(s) /\ Keyed(t, key)
      BY <1>n, <2>1
    <2>4. \A i \in DOMAIN t : key[t[i]] # a /\ \E j \in DOMAIN s : t[i] = s[j]
      BY <2>1, <2>2
    <2>5. \A j \in DOMAIN s : key[s[j]] # a => \E i \in DOMAIN t : t[i] = s[j]
      BY <2>1
    <2> QED
      BY <2>3, <2>4, <2>5 DEF Drops
  <1>4. CASE places # {}
    <2>1. PICK p : p = CHOOSE i \in places : TRUE
      OBVIOUS
    <2>2. p \in places /\ p \in DOMAIN s /\ key[s[p]] = a
      BY <1>4, <2>1
    <2>3. t = RemoveAt(s, p)
      BY <1>4, <2>1 DEF TakenOut
    <2>4. PICK n \in Nat : n = Len(s)
      BY <1>n
    <2>5. /\ t \in Seq(S) /\ Len(t) = n - 1 /\ p \in 1..n /\ DOMAIN s = 1..n
          /\ \A k \in 1..(n - 1) : t[k] = IF k < p THEN s[k] ELSE s[k + 1]
      <3>1. /\ RemoveAt(s, p) \in Seq(S) /\ Len(RemoveAt(s, p)) = Len(s) - 1
            /\ p \in 1..Len(s)
            /\ \A k \in 1..(Len(s) - 1) :
                  RemoveAt(s, p)[k] = IF k < p THEN s[k] ELSE s[k + 1]
        BY <2>2, RemovedSeq
      <3> QED
        BY <1>n, <2>3, <2>4, <3>1
    <2>6. DOMAIN t = 1..(n - 1)
      BY <2>5, LenProperties
    <2>7. \A j \in 1..n : key[s[j]] = a => j = p
      BY <2>2, <2>5 DEF Keyed
    <2>p. ASSUME NEW i \in 1..(n - 1)
          PROVE  \E x \in 1..n : t[i] = s[x] /\ x = IF i < p THEN i ELSE i + 1
      <3>1. PICK x \in 1..n : x = IF i < p THEN i ELSE i + 1
        BY <2>4
      <3>2. t[i] = IF i < p THEN s[i] ELSE s[i + 1]
        BY <2>5
      <3>3. t[i] = s[x]
        <4>1. CASE i < p
          BY <3>1, <3>2, <4>1
        <4>2. CASE ~ (i < p)
          BY <3>1, <3>2, <4>2
        <4> QED
          BY <4>1, <4>2
      <3> QED
        BY <3>1, <3>3
    <2>8. ASSUME NEW i \in 1..(n - 1), NEW j \in 1..(n - 1), i # j
          PROVE  key[t[i]] # key[t[j]]
      <3>1. PICK x \in 1..n : t[i] = s[x] /\ x = IF i < p THEN i ELSE i + 1
        BY <2>p
      <3>2. PICK y \in 1..n : t[j] = s[y] /\ y = IF j < p THEN j ELSE j + 1
        BY <2>p
      <3>3. x # y
        BY <2>4, <2>5, <2>8, <3>1, <3>2
      <3> QED
        <4>1. key[s[x]] # key[s[y]]
          <5>1. x \in DOMAIN s /\ y \in DOMAIN s
            BY <2>5
          <5> QED
            BY <3>3, <5>1 DEF Keyed
        <4> QED
          BY <3>1, <3>2, <4>1
    <2>9. ASSUME NEW i \in 1..(n - 1)
          PROVE  key[t[i]] # a /\ \E j \in 1..n : t[i] = s[j]
      <3>1. PICK x \in 1..n : t[i] = s[x] /\ x = IF i < p THEN i ELSE i + 1
        BY <2>p
      <3>2. x # p
        BY <2>4, <2>5, <3>1
      <3> QED
        BY <2>7, <3>1, <3>2
    <2>10. ASSUME NEW j \in 1..n, key[s[j]] # a
           PROVE  \E i \in 1..(n - 1) : t[i] = s[j]
      <3>1. j # p
        BY <2>2, <2>10
      <3>2. PICK i \in 1..(n - 1) : i = IF j < p THEN j ELSE j - 1
        BY <2>4, <2>5, <3>1
      <3>3. t[i] = s[j]
        <4>1. CASE j < p
          BY <2>4, <2>5, <3>2, <4>1
        <4>2. CASE j > p
          <5>1. i + 1 = j /\ ~ (i < p)
            BY <2>4, <2>5, <3>2, <4>2
          <5> QED
            BY <2>5, <3>2, <5>1
        <4> QED
          BY <2>4, <2>5, <3>1, <4>1, <4>2
      <3> QED
        BY <3>3
    <2>11. Len(t) <= Len(s)
      BY <2>4, <2>5
    <2> QED
      <3>1. Keyed(t, key)
        BY <2>6, <2>8 DEF Keyed
      <3>2. \A i \in DOMAIN t : key[t[i]] # a /\ \E j \in DOMAIN s : t[i] = s[j]
        BY <2>5, <2>6, <2>9
      <3>3. \A j \in DOMAIN s : key[s[j]] # a => \E i \in DOMAIN t : t[i] = s[j]
        BY <2>5, <2>6, <2>10
      <3> QED
        BY <2>5, <2>11, <3>1, <3>2, <3>3 DEF Drops
  <1> QED
    BY <1>3, <1>4

(* An item in front of a list of other keys. *)
LEMMA InFront ==
    ASSUME NEW S, NEW t \in Seq(S), NEW x \in S, NEW key,
           Keyed(t, key), \A i \in DOMAIN t : key[t[i]] # key[x],
           NEW u, u = <<x>> \o t
    PROVE  u \in Seq(S) /\ Leads(u, x, t, key)
  <1>1. PICK n \in Nat : n = Len(t) /\ DOMAIN t = 1..n
    BY LenProperties
  <1>2. <<x>> \in Seq(S) /\ Len(<<x>>) = 1 /\ <<x>>[1] = x
    OBVIOUS
  <1>4. u \in Seq(S) /\ Len(u) = n + 1
    BY <1>1, <1>2, ConcatProperties
  <1>5. DOMAIN u = 1..(n + 1)
    BY <1>1, <1>4, LenProperties
  <1>6. u[1] = x /\ \A k \in 2..(n + 1) : u[k] = t[k - 1]
    BY <1>1, <1>2, ConcatProperties
  <1>7. \A k \in 2..(n + 1) : k - 1 \in 1..n
    BY <1>1
  <1>8. ASSUME NEW i \in 1..(n + 1), NEW j \in 1..(n + 1), i # j
        PROVE  key[u[i]] # key[u[j]]
    <2>0. ASSUME NEW k \in 1..(n + 1), k # 1
          PROVE  key[u[k]] # key[x]
      <3>1. k \in 2..(n + 1)
        BY <1>1, <2>0
      <3>2. k - 1 \in DOMAIN t /\ u[k] = t[k - 1]
        BY <1>1, <1>6, <1>7, <3>1
      <3> QED
        BY <3>2
    <2>1. CASE i = 1
      <3>1. j # 1
        BY <1>8, <2>1
      <3> QED
        BY <1>6, <2>0, <2>1, <3>1
    <2>2. CASE j = 1
      <3>1. i # 1
        BY <1>8, <2>2
      <3> QED
        BY <1>6, <2>0, <2>2, <3>1
    <2>3. CASE i # 1 /\ j # 1
      <3>1. i \in 2..(n + 1) /\ j \in 2..(n + 1) /\ i - 1 # j - 1
        BY <1>1, <1>8, <2>3
      <3>2. i - 1 \in DOMAIN t /\ j - 1 \in DOMAIN t
        BY <1>1, <1>7, <3>1
      <3>3. key[t[i - 1]] # key[t[j - 1]]
        BY <3>1, <3>2 DEF Keyed
      <3> QED
        BY <1>6, <3>1, <3>3
    <2> QED
      BY <2>1, <2>2, <2>3
  <1>9. ASSUME NEW i \in 1..(n + 1)
        PROVE  u[i] = x \/ \E j \in DOMAIN t : u[i] = t[j]
    <2>1. i = 1 \/ i \in 2..(n + 1)
      BY <1>1
    <2> QED
      BY <1>1, <1>6, <1>7, <2>1
  <1>10. 1 \in 1..(n + 1)
    BY <1>1
  <1>11. ASSUME NEW j \in 1..n PROVE \E i \in 1..(n + 1) : u[i] = t[j]
    <2>1. j + 1 \in 2..(n + 1) /\ j + 1 \in 1..(n + 1) /\ (j + 1) - 1 = j
      BY <1>1
    <2> QED
      BY <1>6, <2>1
  <1>12. Keyed(u, key)
    BY <1>5, <1>8 DEF Keyed
  <1> QED
    BY <1>1, <1>4, <1>5, <1>6, <1>9, <1>10, <1>11, <1>12 DEF Leads

(* What the feed has room for. *)
LEMMA NewestOf ==
    ASSUME NEW S, NEW s \in Seq(S)
    PROVE  /\ Newest(s) \in Seq(S) /\ Len(Newest(s)) <= LatestMax
           /\ DOMAIN Newest(s) \subseteq DOMAIN s
           /\ \A i \in DOMAIN Newest(s) : Newest(s)[i] = s[i]
           /\ 1 \in DOMAIN s => 1 \in DOMAIN Newest(s)
           /\ Len(s) <= LatestMax => DOMAIN Newest(s) = DOMAIN s
  <1>1. PICK n \in Nat : n = Len(s) /\ DOMAIN s = 1..n
    BY LenProperties
  <1>2. PICK m \in Nat : m = IF n < LatestMax THEN n ELSE LatestMax
    BY <1>1, Sizes
  <1>3. m <= n /\ m <= LatestMax
    BY <1>1, <1>2, Sizes
  <1>4. PICK u : u = SubSeq(s, 1, m)
    OBVIOUS
  <1>5. 1 \in Int /\ m \in Int
    BY <1>2
  <1>6. /\ u \in Seq(S) /\ Len(u) = (IF 1 <= m THEN m - 1 + 1 ELSE 0)
        /\ \A i \in 1..(m - 1 + 1) : u[i] = s[1 + i - 1]
    <2>1. \A i \in 1..m : s[i] \in S
      BY <1>1, <1>2, <1>3, ElementOfSeq
    <2> QED
      BY <1>1, <1>3, <1>4, <1>5, <2>1, SubSeqProperties
  <1>7. Len(u) = m /\ \A i \in 1..m : u[i] = s[i]
    <2>1. \A i \in 1..m : 1 + i - 1 = i
      BY <1>2
    <2>2. m - 1 + 1 = m /\ (IF 1 <= m THEN m - 1 + 1 ELSE 0) = m
      BY <1>2
    <2> QED
      BY <1>6, <2>1, <2>2
  <1>8. DOMAIN u = 1..m
    BY <1>2, <1>6, <1>7, LenProperties
  <1>9. u = Newest(s)
    BY <1>1, <1>2, <1>4 DEF Newest
  <1>10. 1 \in 1..n => 1 \in 1..m
    BY <1>1, <1>2, Sizes
  <1>11. n <= LatestMax => m = n
    BY <1>2, Sizes
  <1> QED
    BY <1>1, <1>2, <1>3, <1>6, <1>7, <1>8, <1>9, <1>10, <1>11

Ids == [a \in FeedAlerts |-> a]
RowIds == [r \in AlertRow |-> r.id]

(* No alert stands in the feed twice, so it is no longer than there are alerts. *)
LEMMA FeedSize ==
    ASSUME NEW s \in Seq(FeedAlerts), IsInjective(s)
    PROVE  Len(s) <= Alike /\ s \in SeqOf(FeedAlerts, Alike)
  <1>1. PICK n \in Nat : n = Len(s) /\ DOMAIN s = 1..n
    BY LenProperties
  <1>2. s \in [1..n -> FeedAlerts]
    BY <1>1, LenProperties
  <1>3. s \in Injection(1..n, FeedAlerts)
    BY <1>1, <1>2 DEF IsInjective, Injection
  <1>4. Cardinality(1..n) <= Cardinality(FeedAlerts)
    BY <1>3, DashboardAssumption, FS_Injection
  <1>5. 1 \in Int /\ n \in Int
    OBVIOUS
  <1>6. Cardinality(1..n) = IF 1 > n THEN 0 ELSE n - 1 + 1
    BY <1>5, FS_Interval
  <1>7. n <= Alike
    BY <1>4, <1>6, Sizes DEF Alike
  <1> QED
    BY <1>1, <1>2, <1>7, Sizes DEF SeqOf

LEMMA FeedWithout ==
    ASSUME FeedInv, NEW a \in FeedAlerts
    PROVE  /\ Unlisted(a) \in Seq(FeedAlerts) /\ IsInjective(Unlisted(a))
           /\ {Unlisted(a)[i] : i \in DOMAIN Unlisted(a)} = Live \ {a}
           /\ Keyed(Unlisted(a), Ids) /\ \A i \in DOMAIN Unlisted(a) : Unlisted(a)[i] # a
  <1>1. feed \in Seq(FeedAlerts) /\ \A i \in DOMAIN feed : feed[i] \in FeedAlerts
    BY ElementOfSeq, LenProperties DEF FeedInv
  <1>2. Keyed(feed, Ids)
    BY <1>1 DEF FeedInv, IsInjective, Keyed, Ids
  <1>3. PICK places : places = {i \in DOMAIN feed : Ids[feed[i]] = a}
    OBVIOUS
  <1>4. places = {i \in DOMAIN feed : feed[i] = a}
    BY <1>1, <1>3 DEF Ids
  <1>5. PICK t : t = Unlisted(a)
    OBVIOUS
  <1>6. t = TakenOut(feed, places)
    BY <1>4, <1>5 DEF Unlisted
  <1>7. t \in Seq(FeedAlerts) /\ Drops(t, feed, Ids, a)
    BY <1>1, <1>2, <1>3, <1>6, OneTakenOut, Zenon
  <1>8. \A i \in DOMAIN t : t[i] \in FeedAlerts
    BY <1>7, ElementOfSeq, LenProperties
  <1>l. \A j \in DOMAIN feed : feed[j] \in Live
    BY DEF Live
  <1>9. \A i \in DOMAIN t : t[i] # a /\ t[i] \in Live
    <2>1. \A i \in DOMAIN t : Ids[t[i]] = t[i]
      BY <1>8 DEF Ids
    <2> QED
      BY <1>l, <1>7, <2>1 DEF Drops
  <1>10. ASSUME NEW b \in Live \ {a} PROVE \E i \in DOMAIN t : t[i] = b
    <2>1. PICK j \in DOMAIN feed : feed[j] = b
      BY DEF Live
    <2>2. Ids[feed[j]] # a
      BY <1>1, <2>1 DEF Ids
    <2> QED
      BY <1>7, <2>1, <2>2 DEF Drops
  <1>11. IsInjective(t)
    BY <1>7, <1>8 DEF Drops, IsInjective, Keyed, Ids
  <1>12. {t[i] : i \in DOMAIN t} = Live \ {a}
    BY <1>9, <1>10
  <1>13. \A i \in DOMAIN t : t[i] # a
    BY <1>9
  <1> QED
    BY <1>5, <1>7, <1>11, <1>12, <1>13 DEF Drops

InFeed(a) == <<a>> \o Unlisted(a)

LEMMA FeedWith ==
    ASSUME FeedInv, NEW a \in FeedAlerts
    PROVE  /\ InFeed(a) \in Seq(FeedAlerts) /\ IsInjective(InFeed(a))
           /\ {InFeed(a)[i] : i \in DOMAIN InFeed(a)} = Live \cup {a}
  <1>u. PICK u : u = InFeed(a)
    OBVIOUS
  <1>1. PICK t : t = Unlisted(a)
    OBVIOUS
  <1>2. /\ t \in Seq(FeedAlerts) /\ Keyed(t, Ids)
        /\ {t[i] : i \in DOMAIN t} = Live \ {a} /\ \A i \in DOMAIN t : t[i] # a
    BY <1>1, FeedWithout
  <1>3. \A i \in DOMAIN t : t[i] \in FeedAlerts
    BY <1>2, ElementOfSeq, LenProperties
  <1>4. \A i \in DOMAIN t : Ids[t[i]] # Ids[a]
    BY <1>2, <1>3 DEF Ids
  <1>5. u = <<a>> \o t
    BY <1>1, <1>u DEF InFeed
  <1>6. u \in Seq(FeedAlerts) /\ Leads(u, a, t, Ids)
    BY <1>2, <1>4, <1>5, InFront, Zenon
  <1>7. \A i \in DOMAIN u : u[i] \in FeedAlerts
    BY <1>6, ElementOfSeq, LenProperties
  <1>8. IsInjective(u)
    BY <1>6, <1>7 DEF Leads, IsInjective, Keyed, Ids
  <1>9. \A i \in DOMAIN u : u[i] \in Live \cup {a}
    BY <1>2, <1>6 DEF Leads
  <1>10. \A b \in Live \cup {a} : \E i \in DOMAIN u : u[i] = b
    <2>1. \A b \in Live \ {a} : \E i \in DOMAIN u : u[i] = b
      BY <1>2, <1>6 DEF Leads
    <2> QED
      BY <2>1, <1>6 DEF Leads
  <1>11. {u[i] : i \in DOMAIN u} = Live \cup {a}
    BY <1>9, <1>10
  <1> QED
    BY <1>u, <1>6, <1>8, <1>11

(* As many alerts stand critical as the server counts. *)
LEMMA CountIsOfLive ==
    ASSUME FeedInv, NEW sev \in Severities
    PROVE  /\ CountOf(sev) \in 0..Alike
           /\ CountOf(sev) = Cardinality({a \in Live : severity[a] = sev})
  <1>1. PICK P : P = {i \in DOMAIN feed : severity[feed[i]] = sev}
    OBVIOUS
  <1>2. PICK T : T = {a \in Live : severity[a] = sev}
    OBVIOUS
  <1>3. \A i \in DOMAIN feed : feed[i] \in FeedAlerts
    BY ElementOfSeq, LenProperties DEF FeedInv
  <1>4. T \in SUBSET FeedAlerts
    BY <1>2, <1>3 DEF Live
  <1>5. PICK f : f = [i \in P |-> feed[i]]
    OBVIOUS
  <1>6. f \in [P -> T] /\ \A i \in P : f[i] = feed[i]
    BY <1>1, <1>2, <1>5 DEF Live
  <1>7. \A i, j \in P : f[i] = f[j] => i = j
    BY <1>1, <1>6 DEF FeedInv, IsInjective
  <1>8. \A a \in T : \E i \in P : f[i] = a
    BY <1>1, <1>2, <1>6 DEF Live
  <1>9. f \in Bijection(P, T)
    <2>1. f \in Injection(P, T)
      BY <1>6, <1>7 DEF Injection, IsInjective
    <2>2. f \in Surjection(P, T)
      BY <1>6, <1>8 DEF Surjection
    <2> QED
      BY <2>1, <2>2 DEF Bijection
  <1>10. f \in Injection(P, T)
    BY <1>9 DEF Bijection
  <1>11. IsFiniteSet(T) /\ Cardinality(T) \in 0..Alike
    BY <1>4, Sizes
  <1>12. IsFiniteSet(P)
    BY <1>10, <1>11, FS_Injection
  <1>13. Cardinality(T) = Cardinality(P)
    BY <1>9, <1>12, FS_Bijection DEF ExistsBijection
  <1> QED
    BY <1>1, <1>2, <1>11, <1>13 DEF CountOf

(* A summary read now misses nothing. *)
LEMMA Fresh ==
    ASSUME FeedInv
    PROVE  /\ SummaryOK(CurrentSummary) /\ UpToDate(CurrentSummary, {}, Standing)
           /\ CurrentSummary.critical <= Alike /\ CurrentSummary.warning <= Alike
           /\ Exact(CurrentSummary, EverLive)
  <1>1. PICK s : s = CurrentSummary
    OBVIOUS
  <1>2. PICK n : n = Newest(feed)
    OBVIOUS
  <1>3. /\ n \in Seq(FeedAlerts) /\ Len(n) <= LatestMax /\ DOMAIN n \subseteq DOMAIN feed
        /\ \A i \in DOMAIN n : n[i] = feed[i]
    BY <1>2, NewestOf DEF FeedInv
  <1>4. \A i \in DOMAIN feed : feed[i] \in FeedAlerts /\ feed[i] \in Live
    BY ElementOfSeq, LenProperties DEF FeedInv, Live
  <1>5. PICK rows : rows = RowsOf(n)
    OBVIOUS
  <1>6. /\ DOMAIN rows = DOMAIN n
        /\ \A i \in DOMAIN n : rows[i] = [id |-> feed[i], severity |-> severity[feed[i]]]
    BY <1>3, <1>5 DEF RowsOf
  <1>7. \A i \in DOMAIN n : rows[i] \in AlertRow
    BY <1>3, <1>4, <1>6 DEF AlertRow, FeedInv
  <1>8. rows \in Seq(AlertRow) /\ Len(rows) <= LatestMax
    <2>1. PICK m \in Nat : m = Len(n) /\ DOMAIN n = 1..m
      BY <1>3, LenProperties
    <2>2. rows = [i \in 1..m |-> rows[i]]
      BY <1>5, <1>6, <2>1 DEF RowsOf
    <2>3. rows \in [1..m -> AlertRow]
      BY <1>7, <2>1, <2>2
    <2>4. rows \in Seq(AlertRow)
      BY <2>3, SeqDef
    <2>5. Len(rows) = m
      BY <2>1, <2>4, <1>6, LenProperties
    <2> QED
      BY <1>3, <2>1, <2>4, <2>5
  <1>9. \A i, j \in DOMAIN rows : i # j => rows[i].id # rows[j].id
    BY <1>3, <1>6 DEF FeedInv, IsInjective
  <1>10. s = [latest |-> rows, critical |-> CountOf("critical"),
              warning |-> CountOf("warning"), down |-> {d \in Devices : Down(d)},
              online |-> Cardinality({d \in Devices : ~Down(d)})]
    BY <1>1, <1>2, <1>5 DEF CurrentSummary
  <1>11. /\ CountOf("critical") \in 0..Alike /\ CountOf("warning") \in 0..Alike
         /\ CountOf("critical") = Cardinality({a \in Live : severity[a] = "critical"})
    BY CountIsOfLive DEF Severities
  <1>12. Cardinality({d \in Devices : ~Down(d)}) \in 0..Cardinality(Devices)
    <2>1. PICK D : D = {d \in Devices : ~Down(d)}
      OBVIOUS
    <2>2. IsFiniteSet(D) /\ Cardinality(D) <= Cardinality(Devices)
      BY <2>1, DashboardAssumption, FS_Subset
    <2>3. Cardinality(D) \in Nat
      BY <2>2, FS_CardinalityType
    <2> QED
      BY <2>1, <2>2, <2>3, Sizes
  <1>13. Alike \in Nat
    BY Sizes
  <1>14. SummaryOK(s)
    <2>1. WellListed(s)
      BY <1>8, <1>9, <1>10 DEF WellListed
    <2>2. s.critical \in Nat /\ s.warning \in Nat
      BY <1>10, <1>11, <1>13
    <2>3. s.down \subseteq Devices /\ s.online \in 0..Cardinality(Devices)
      BY <1>10, <1>12
    <2>4. s = [latest |-> s.latest, critical |-> s.critical, warning |-> s.warning,
               down |-> s.down, online |-> s.online]
      BY <1>10
    <2> QED
      BY <2>1, <2>2, <2>3, <2>4 DEF SummaryOK
  <1>15. \A r \in Listed(s) :
            r.id \in FeedAlerts /\ r.id \in Live /\ r.severity = severity[r.id]
    BY <1>3, <1>4, <1>6, <1>10 DEF Listed
  <1>16. \A r \in Listed(s) : Standing[r.id] = r.severity
    BY <1>15 DEF Standing
  <1>17. \A a \in Counted(s, {}, Standing) : a \in Live /\ severity[a] = "critical"
    <2>1. ASSUME NEW a \in FeedAlerts,
                 [id |-> a, severity |-> "critical"] \in Listed(s)
          PROVE  a \in Live /\ severity[a] = "critical"
      BY <1>15, <2>1
    <2>2. ASSUME NEW a \in FeedAlerts, Standing[a] = "critical"
          PROVE  a \in Live /\ severity[a] = "critical"
      BY <2>2 DEF Standing
    <2> QED
      BY <2>1, <2>2 DEF Counted
  <1>18. s.critical >= Cardinality(Counted(s, {}, Standing))
    <2>1. PICK T : T = {a \in Live : severity[a] = "critical"}
      OBVIOUS
    <2>2. PICK U : U = Counted(s, {}, Standing)
      OBVIOUS
    <2>3. T \in SUBSET FeedAlerts /\ U \in SUBSET T
      BY <1>4, <1>17, <2>1, <2>2 DEF Live
    <2>4. IsFiniteSet(T) /\ Cardinality(T) \in Nat /\ Cardinality(U) <= Cardinality(T)
      BY <2>3, Sizes, FS_Subset
    <2>5. Cardinality(U) \in Nat
      BY <2>3, Sizes
    <2> QED
      BY <1>10, <1>11, <2>1, <2>2, <2>4, <2>5
  <1>19. Exact(s, EverLive)
    <2>1. \A r \in Listed(s) : r.id \in EverLive
      BY <1>15 DEF EverLive
    <2>2. ASSUME Cardinality(EverLive) <= LatestMax PROVE s.critical = Cardinality(CritOf(s))
      <3>1. PICK l \in Nat : l = Len(feed) /\ DOMAIN feed = 1..l
        BY LenProperties DEF FeedInv
      <3>2. EverLive \in SUBSET FeedAlerts
        BY <1>4 DEF EverLive, Live, FeedInv
      <3>3. feed \in [1..l -> EverLive]
        <4>1. feed = [i \in 1..l |-> feed[i]]
          BY <3>1, LenProperties DEF FeedInv
        <4> QED
          BY <1>4, <3>1, <4>1 DEF EverLive
      <3>4. feed \in Injection(1..l, EverLive)
        BY <3>1, <3>3 DEF FeedInv, IsInjective, Injection
      <3>5. IsFiniteSet(EverLive) /\ Cardinality(EverLive) \in Nat
        BY <3>2, Sizes
      <3>6. Cardinality(1..l) <= Cardinality(EverLive)
        BY <3>4, <3>5, FS_Injection
      <3>7. 1 \in Int /\ l \in Int
        OBVIOUS
      <3>8. Cardinality(1..l) = IF 1 > l THEN 0 ELSE l - 1 + 1
        BY <3>7, FS_Interval
      <3>9. Len(feed) <= LatestMax
        BY <2>2, <3>1, <3>5, <3>6, <3>8, Sizes
      <3>10. DOMAIN n = DOMAIN feed
        BY <1>2, <3>9, NewestOf DEF FeedInv
      <3>11. \A a \in Live : severity[a] = "critical" =>
                [id |-> a, severity |-> "critical"] \in Listed(s)
        <4>1. ASSUME NEW a \in Live, severity[a] = "critical"
              PROVE  [id |-> a, severity |-> "critical"] \in Listed(s)
          <5>1. PICK i \in DOMAIN feed : feed[i] = a
            BY DEF Live
          <5> QED
            BY <1>6, <1>10, <3>10, <4>1, <5>1 DEF Listed
        <4> QED
          BY <4>1
      <3>12. \A a \in CritOf(s) : a \in Live /\ severity[a] = "critical"
        <4>1. ASSUME NEW a \in FeedAlerts, NEW r \in Listed(s),
                     r = [id |-> a, severity |-> "critical"]
              PROVE  a \in Live /\ severity[a] = "critical"
          <5>1. r.id = a /\ r.severity = "critical"
            BY <4>1
          <5> QED
            BY <1>15, <5>1
        <4> QED
          BY <4>1 DEF CritOf
      <3>13. Live \subseteq FeedAlerts
        BY <1>4 DEF Live
      <3>14. CritOf(s) = {a \in Live : severity[a] = "critical"}
        BY <3>11, <3>12, <3>13 DEF CritOf
      <3> QED
        BY <1>10, <1>11, <3>14
    <2> QED
      BY <2>1, <2>2 DEF Exact
  <1> QED
    BY <1>1, <1>10, <1>11, <1>13, <1>14, <1>16, <1>18, <1>19 DEF UpToDate

(* An event of an alert the summary was not told of, applied to it. *)
LEMMA Taken ==
    ASSUME NEW s, SummaryOK(s), NEW e \in AlertEvent, NEW late, NEW late2, NEW now,
           UpToDate(s, late, now), e.alert \in late,
           \A a \in FeedAlerts : a # e.alert /\ a \notin late2 => a \notin late,
           e.alert \notin late2 => Told(e) = now[e.alert],
           NEW t, t = ApplyAlert(s, e)
    PROVE  /\ SummaryOK(t) /\ UpToDate(t, late2, now)
           /\ t.critical <= s.critical + 1 /\ t.warning <= s.warning + 1
           /\ \A knownIds \in SUBSET FeedAlerts :
                 e.alert \in knownIds /\ Exact(s, knownIds) => Exact(t, knownIds)
  <1>1. PICK a : a = e.alert
    OBVIOUS
  <1>2. a \in FeedAlerts /\ e.severity \in Severities /\ e.live \in BOOLEAN /\ a \in late
    BY <1>1 DEF AlertEvent
  <1>3. /\ s.latest \in Seq(AlertRow) /\ Len(s.latest) <= LatestMax
        /\ \A i \in DOMAIN s.latest : s.latest[i] \in AlertRow
    BY ElementOfSeq, LenProperties DEF SummaryOK, WellListed
  <1>4. \A r \in AlertRow : RowIds[r] = r.id
    BY DEF RowIds
  <1>5. Keyed(s.latest, RowIds)
    BY <1>3, <1>4 DEF Keyed, SummaryOK, WellListed
  <1>6. PICK places : places = {i \in DOMAIN s.latest : RowIds[s.latest[i]] = a}
    OBVIOUS
  <1>7. places = {i \in DOMAIN s.latest : s.latest[i].id = e.alert}
    BY <1>1, <1>3, <1>4, <1>6
  <1>8. PICK others : others = TakenOut(s.latest, places)
    OBVIOUS
  <1>9. others \in Seq(AlertRow) /\ Drops(others, s.latest, RowIds, a)
    BY <1>3, <1>5, <1>6, <1>8, OneTakenOut, Zenon
  <1>10. PICK x : x = [id |-> a, severity |-> e.severity]
    OBVIOUS
  <1>11. x \in AlertRow /\ x.id = a /\ x.severity = e.severity
    BY <1>2, <1>10 DEF AlertRow
  <1>12. \A i \in DOMAIN others : others[i] \in AlertRow
    BY <1>9, ElementOfSeq, LenProperties
  <1>13. \A i \in DOMAIN others : RowIds[others[i]] # RowIds[x]
    BY <1>4, <1>9, <1>11 DEF Drops
  <1>14. PICK u : u = <<x>> \o others
    OBVIOUS
  <1>15. u \in Seq(AlertRow) /\ Leads(u, x, others, RowIds)
    <2>1. Keyed(others, RowIds)
      BY <1>9 DEF Drops
    <2> QED
      BY <1>9, <1>11, <1>13, <1>14, <2>1, InFront, Zenon
  <1>16. PICK m : m = Newest(u)
    OBVIOUS
  <1>17. /\ m \in Seq(AlertRow) /\ Len(m) <= LatestMax /\ DOMAIN m \subseteq DOMAIN u
         /\ (\A i \in DOMAIN m : m[i] = u[i]) /\ 1 \in DOMAIN m
    BY <1>15, <1>16, NewestOf DEF Leads
  <1>t. PICK rest : rest = Tail(m)
    OBVIOUS
  <1>r. /\ rest \in Seq(AlertRow) /\ Len(rest) <= LatestMax
        /\ \A i \in DOMAIN rest : /\ i + 1 \in DOMAIN m /\ i + 1 # 1
                                  /\ rest[i] = m[i + 1]
        /\ \A i \in DOMAIN m : i # 1 => \E j \in DOMAIN rest : rest[j] = m[i]
    <2>1. PICK k \in Nat : k = Len(m) /\ DOMAIN m = 1..k /\ k # 0
      BY <1>17, LenProperties
    <2>2. m # <<>>
      BY <2>1
    <2>3. /\ rest \in Seq(AlertRow) /\ Len(rest) = k - 1
          /\ \A i \in 1..Len(rest) : rest[i] = m[i + 1]
      BY <1>17, <1>t, <2>1, <2>2, HeadTailProperties
    <2>4. DOMAIN rest = 1..(k - 1)
      BY <2>3, LenProperties
    <2>5. ASSUME NEW i \in DOMAIN m, i # 1 PROVE \E j \in DOMAIN rest : rest[j] = m[i]
      <3>1. i - 1 \in 1..(k - 1) /\ (i - 1) + 1 = i
        BY <2>1, <2>5
      <3>2. i - 1 \in 1..Len(rest)
        BY <2>3, <3>1
      <3>3. rest[i - 1] = m[i]
        BY <2>3, <3>1, <3>2
      <3> QED
        BY <2>4, <3>1, <3>3
    <2> QED
      BY <1>17, <2>1, <2>3, <2>4, <2>5, Sizes
  <1>18. /\ t.latest = IF e.live THEN m ELSE rest
         /\ DOMAIN t = DOMAIN s /\ t.down = s.down /\ t.online = s.online
    BY <1>1, <1>7, <1>8, <1>10, <1>14, <1>16, <1>t DEF ApplyAlert, SummaryOK
  <1>19. PICK known \in BOOLEAN : known = (Previous(s, e) # {})
    OBVIOUS
  <1>20. PICK was : was = CHOOSE r \in Previous(s, e) : TRUE
    OBVIOUS
  <1>21. Previous(s, e) = {r \in Listed(s) : r.id = a}
    BY <1>1 DEF Previous, Listed
  <1>22. known => was \in Listed(s) /\ was.id = a
    BY <1>19, <1>20, <1>21
  <1>23. \A r \in Listed(s) : r \in AlertRow /\ (r.id = a => known /\ r = was)
    <2>1. \A r \in Listed(s) : r \in AlertRow /\ (r.id = a => known)
      BY <1>3, <1>19, <1>21 DEF Listed
    <2>2. ASSUME NEW r \in Listed(s), r.id = a PROVE r = was
      <3>1. was \in Listed(s) /\ was.id = a
        BY <1>22, <2>1, <2>2
      <3>2. PICK i \in DOMAIN s.latest, j \in DOMAIN s.latest :
                r = s.latest[i] /\ was = s.latest[j]
        BY <3>1 DEF Listed
      <3>3. i = j
        BY <2>2, <3>1, <3>2 DEF SummaryOK, WellListed
      <3> QED
        BY <3>2, <3>3
    <2> QED
      BY <2>1, <2>2
  <1>24. PICK hit \in BOOLEAN : hit = (e.severity = "critical")
    OBVIOUS
  <1>25. PICK off \in BOOLEAN : off = (was.severity = "critical")
    OBVIOUS
  <1>26. PICK c \in Nat, w \in Nat : c = s.critical /\ w = s.warning
    BY DEF SummaryOK
  <1>27. t.critical = CASE ~known /\ e.live -> IF hit THEN c + 1 ELSE c
                        [] known /\ ~e.live -> IF off THEN Less(c) ELSE c
                        [] known /\ e.live /\ off # hit ->
                              LET d == IF off THEN Less(c) ELSE c
                              IN  IF hit THEN d + 1 ELSE d
                        [] OTHER -> c
    BY <1>19, <1>20, <1>24, <1>25, <1>26 DEF ApplyAlert, SummaryOK
  <1>28. t.warning = CASE ~known /\ e.live -> IF ~hit THEN w + 1 ELSE w
                       [] known /\ ~e.live -> IF ~off THEN Less(w) ELSE w
                       [] known /\ e.live /\ off # hit ->
                             LET d == IF ~off THEN Less(w) ELSE w
                             IN  IF ~hit THEN d + 1 ELSE d
                       [] OTHER -> w
    BY <1>19, <1>20, <1>24, <1>25, <1>26 DEF ApplyAlert, SummaryOK
  <1>29. /\ t.critical \in Nat /\ t.critical <= c + 1
         /\ t.warning \in Nat /\ t.warning <= w + 1
    BY <1>2, <1>27, <1>28 DEF Less
  <1>30. \A r \in Listed(t) : \/ r \in Listed(s) /\ r.id # a
                              \/ e.live /\ r = x
    <2>1. \A i \in DOMAIN others : others[i] \in Listed(s) /\ others[i].id # a
      <3>1. \A i \in DOMAIN others :
                RowIds[others[i]] # a /\ \E j \in DOMAIN s.latest : others[i] = s.latest[j]
        BY <1>9 DEF Drops
      <3> QED
        BY <1>4, <1>12, <3>1 DEF Listed
    <2>2. \A i \in DOMAIN m : m[i] = x \/ \E j \in DOMAIN others : m[i] = others[j]
      BY <1>15, <1>17 DEF Leads
    <2>3. \A i \in DOMAIN m : i # 1 => m[i] # x
      <3>1. \A i \in DOMAIN u : i # 1 => RowIds[u[i]] # RowIds[u[1]]
        BY <1>15 DEF Leads, Keyed
      <3> QED
        BY <1>15, <1>17, <3>1 DEF Leads
    <2>4. \A i \in DOMAIN rest : \E j \in DOMAIN others : rest[i] = others[j]
      BY <1>r, <2>2, <2>3
    <2>5. \A i \in DOMAIN t.latest :
            IF e.live THEN t.latest[i] = m[i] /\ i \in DOMAIN m
                      ELSE t.latest[i] = rest[i] /\ i \in DOMAIN rest
      BY <1>18
    <2> QED
      BY <1>2, <2>1, <2>2, <2>4, <2>5 DEF Listed
  <1>31. SummaryOK(t)
    <2>2. \A i \in DOMAIN u : u[i] \in AlertRow
      BY <1>15, ElementOfSeq, LenProperties
    <2>3. \A i, j \in DOMAIN m : i # j => m[i].id # m[j].id
      <3>1. \A i, j \in DOMAIN u : i # j => u[i].id # u[j].id
        BY <1>4, <1>15, <2>2 DEF Leads, Keyed
      <3> QED
        BY <1>17, <3>1
    <2>4. \A i, j \in DOMAIN rest : i # j => rest[i].id # rest[j].id
      <3>1. \A i, j \in DOMAIN rest : i # j => i + 1 # j + 1
        <4>1. \A i \in DOMAIN rest : i \in Nat
          BY <1>r, LenProperties
        <4> QED
          BY <4>1
      <3>2. ASSUME NEW i \in DOMAIN rest, NEW j \in DOMAIN rest, i # j
            PROVE  rest[i].id # rest[j].id
        <4>1. i + 1 \in DOMAIN m /\ j + 1 \in DOMAIN m /\ i + 1 # j + 1
          BY <1>r, <3>1, <3>2
        <4>2. m[i + 1].id # m[j + 1].id
          BY <2>3, <4>1
        <4> QED
          BY <1>r, <4>2
      <3> QED
        BY <3>2
    <2>5. WellListed(t)
      BY <1>r, <1>17, <1>18, <2>3, <2>4 DEF WellListed
    <2>6. t = [latest |-> t.latest, critical |-> t.critical, warning |-> t.warning,
               down |-> t.down, online |-> t.online]
      BY DEF ApplyAlert, SummaryOK
    <2> QED
      BY <1>18, <1>29, <2>5, <2>6 DEF SummaryOK
  <1>32. \A r \in Listed(t) : r.id \notin late2 => now[r.id] = r.severity
    <2>1. ASSUME NEW r \in Listed(t), r.id \notin late2, r \in Listed(s), r.id # a
          PROVE  now[r.id] = r.severity
      <3>1. r.id \in FeedAlerts
        BY <1>23, <2>1 DEF AlertRow
      <3> QED
        BY <1>1, <2>1, <3>1 DEF UpToDate
    <2>2. ASSUME e.live, a \notin late2 PROVE now[a] = x.severity
      BY <1>1, <1>11, <2>2 DEF Told
    <2> QED
      BY <1>11, <1>30, <2>1, <2>2
  <1>33. PICK C : C = Counted(s, late, now)
    OBVIOUS
  <1>34. PICK C2 : C2 = Counted(t, late2, now)
    OBVIOUS
  <1>35. PICK K : K = IF e.live /\ hit THEN {a} ELSE {}
    OBVIOUS
  <1>36. C2 \subseteq (C \ {a}) \cup K
    <2>1. ASSUME NEW b \in FeedAlerts, b # a,
                 [id |-> b, severity |-> "critical"] \in Listed(t)
          PROVE  b \in C
      BY <1>11, <1>30, <1>33, <2>1 DEF Counted
    <2>2. ASSUME NEW b \in FeedAlerts, b # a, b \notin late2, now[b] = "critical"
          PROVE  b \in C
      <3>1. b \notin late
        BY <1>1, <2>2
      <3>2. CASE \A r \in Listed(s) : r.id # b
        BY <1>33, <2>2, <3>1, <3>2 DEF Counted
      <3>3. CASE \E r \in Listed(s) : r.id = b
        <4>1. PICK r \in Listed(s) : r.id = b
          BY <3>3
        <4>2. r.severity = "critical" /\ r \in AlertRow
          BY <1>23, <2>2, <3>1, <4>1 DEF UpToDate
        <4>3. r = [id |-> b, severity |-> "critical"]
          BY <4>1, <4>2 DEF AlertRow
        <4> QED
          BY <1>33, <4>1, <4>3 DEF Counted
      <3> QED
        BY <3>2, <3>3
    <2>3. ASSUME a \in C2 PROVE a \in K
      <3>1. CASE [id |-> a, severity |-> "critical"] \in Listed(t)
        BY <1>10, <1>11, <1>24, <1>30, <1>35, <3>1
      <3>2. CASE a \notin late2 /\ now[a] = "critical"
        BY <1>1, <1>24, <1>35, <3>2 DEF Told
      <3> QED
        BY <1>34, <2>3, <3>1, <3>2 DEF Counted
    <2> QED
      BY <1>34, <2>1, <2>2, <2>3 DEF Counted
  <1>h. [id |-> a, severity |-> "critical"] \in Listed(s) <=> known /\ off
    <2>2. ASSUME known, off PROVE [id |-> a, severity |-> "critical"] \in Listed(s)
      <3>1. was \in AlertRow /\ was.id = a /\ was.severity = "critical"
        BY <1>22, <1>23, <1>25, <2>2
      <3>2. was = [id |-> a, severity |-> "critical"]
        BY <3>1 DEF AlertRow
      <3> QED
        BY <1>22, <2>2, <3>2
    <2>3. ASSUME [id |-> a, severity |-> "critical"] \in Listed(s) PROVE known /\ off
      <3>1. PICK r \in Listed(s) : r = [id |-> a, severity |-> "critical"]
        BY <2>3
      <3>2. r.id = a /\ r.severity = "critical"
        BY <3>1
      <3>3. known /\ r = was
        BY <1>23, <3>2
      <3> QED
        BY <1>25, <3>2, <3>3
    <2> QED
      BY <2>2, <2>3
  <1>37. a \in C <=> known /\ off
    BY <1>2, <1>33, <1>h DEF Counted
  <1>38. C \in SUBSET FeedAlerts /\ C2 \in SUBSET FeedAlerts
    BY <1>33, <1>34 DEF Counted
  <1>39. PICK n \in Nat, n2 \in Nat : n = Cardinality(C) /\ n2 = Cardinality(C2)
    BY <1>38, Sizes
  <1>40. c >= n
    BY <1>26, <1>33, <1>39 DEF UpToDate
  <1>41. n2 <= (IF known /\ off THEN n - 1 ELSE n) + (IF e.live /\ hit THEN 1 ELSE 0)
    <2>1. PICK B : B = C \ {a}
      OBVIOUS
    <2>2. IsFiniteSet(C)
      BY <1>38, Sizes
    <2>3. IsFiniteSet(B) /\ Cardinality(B) = IF a \in C THEN n - 1 ELSE n
      BY <1>39, <2>1, <2>2, FS_RemoveElement
    <2>4. IsFiniteSet(B \cup {a}) /\ Cardinality(B \cup {a}) = Cardinality(B) + 1
      <3>1. a \notin B
        BY <2>1
      <3> QED
        BY <2>3, <3>1, FS_AddElement
    <2>5. PICK b \in Nat : b = Cardinality(B)
      BY <2>3, FS_CardinalityType
    <2>6. CASE e.live /\ hit
      <3>1. C2 \in SUBSET (B \cup {a})
        BY <1>35, <1>36, <2>1, <2>6
      <3>2. n2 <= b + 1
        BY <1>39, <2>4, <2>5, <3>1, FS_Subset
      <3> QED
        BY <1>37, <1>39, <2>3, <2>5, <2>6, <3>2
    <2>7. CASE ~ (e.live /\ hit)
      <3>1. C2 \in SUBSET B
        BY <1>35, <1>36, <2>1, <2>7
      <3>2. n2 <= b
        BY <1>39, <2>3, <2>5, <3>1, FS_Subset
      <3> QED
        BY <1>37, <1>39, <2>3, <2>5, <2>7, <3>2
    <2> QED
      BY <2>6, <2>7
  <1>42. known /\ off => n >= 1
    <2>1. ASSUME a \in C PROVE n # 0
      BY <1>38, <1>39, <2>1, Sizes, FS_EmptySet
    <2> QED
      BY <1>37, <1>39, <2>1
  <1>43. t.critical >= n2
    BY <1>2, <1>27, <1>39, <1>40, <1>41, <1>42 DEF Less
  <1>44. UpToDate(t, late2, now)
    BY <1>32, <1>34, <1>39, <1>43 DEF UpToDate
  <1>45. ASSUME NEW knownIds \in SUBSET FeedAlerts, a \in knownIds, Exact(s, knownIds)
         PROVE  Exact(t, knownIds)
    <2>1. \A r \in Listed(s) : r.id \in knownIds
      BY <1>45 DEF Exact
    <2>2. \A r \in Listed(t) : r.id \in knownIds
      BY <1>11, <1>30, <1>45, <2>1
    <2>3. ASSUME Cardinality(knownIds) <= LatestMax PROVE t.critical = Cardinality(CritOf(t))
      <3>1. PICK D : D = CritOf(s)
        OBVIOUS
      <3>2. PICK D2 : D2 = CritOf(t)
        OBVIOUS
      <3>3. D \in SUBSET FeedAlerts /\ D2 \in SUBSET FeedAlerts
        BY <3>1, <3>2 DEF CritOf
      <3>4. PICK k \in Nat : k = Cardinality(D) /\ c = k
        BY <1>26, <1>45, <2>3, <3>1, <3>3, Sizes DEF Exact
      <3>5. DOMAIN m = DOMAIN u
        <4>1. \A i \in DOMAIN u : u[i].id \in knownIds
          <5>1. \A i \in DOMAIN others : others[i] \in Listed(s)
            BY <1>9 DEF Drops, Listed
          <5> QED
            BY <1>11, <1>15, <1>45, <2>1, <5>1 DEF Leads
        <4>2. PICK l \in Nat : l = Len(u) /\ DOMAIN u = 1..l
          BY <1>15, LenProperties
        <4>3. PICK f : f = [i \in 1..l |-> u[i].id]
          OBVIOUS
        <4>4. \A i \in DOMAIN u : u[i] \in AlertRow
          BY <1>15, ElementOfSeq, LenProperties
        <4>5. \A i, j \in 1..l : f[i] = f[j] => i = j
          BY <1>4, <1>15, <4>2, <4>3, <4>4 DEF Leads, Keyed
        <4>6. f \in [1..l -> knownIds]
          BY <4>1, <4>2, <4>3
        <4>7. f \in Injection(1..l, knownIds)
          BY <4>5, <4>6 DEF IsInjective, Injection
        <4>8. IsFiniteSet(knownIds) /\ Cardinality(knownIds) \in Nat
          BY Sizes
        <4>9. Cardinality(1..l) <= Cardinality(knownIds)
          BY <4>7, <4>8, FS_Injection
        <4>10. 1 \in Int /\ l \in Int
          OBVIOUS
        <4>11. Cardinality(1..l) = IF 1 > l THEN 0 ELSE l - 1 + 1
          BY <4>10, FS_Interval
        <4>12. l <= LatestMax
          BY <2>3, <4>8, <4>9, <4>11, Sizes
        <4> QED
          BY <1>15, <1>16, <4>2, <4>12, NewestOf
      <3>6. D2 = (D \ {a}) \cup K
        <4>1. ASSUME NEW b \in D \ {a} PROVE b \in D2
          <5>1. PICK r \in Listed(s) : r = [id |-> b, severity |-> "critical"]
            BY <3>1 DEF CritOf
          <5>2. PICK j \in DOMAIN s.latest : s.latest[j] = r
            BY <5>1 DEF Listed
          <5>3. RowIds[s.latest[j]] = b /\ r \in AlertRow
            BY <1>3, <1>4, <5>1, <5>2
          <5>4. PICK i \in DOMAIN others : others[i] = r
            BY <1>9, <5>2, <5>3 DEF Drops
          <5>5. PICK h \in DOMAIN u : u[h] = r
            BY <1>15, <5>4 DEF Leads
          <5>6. h \in DOMAIN m /\ m[h] = r /\ h # 1
            BY <1>11, <1>15, <1>17, <3>5, <5>1, <5>5 DEF Leads
          <5>7. r \in Listed(t)
            <6>1. CASE e.live
              BY <1>18, <5>6, <6>1 DEF Listed
            <6>2. CASE ~e.live
              <7>1. PICK g \in DOMAIN rest : rest[g] = r
                BY <1>r, <5>6
              <7> QED
                BY <1>18, <6>2, <7>1 DEF Listed
            <6> QED
              BY <6>1, <6>2
          <5> QED
            BY <3>2, <3>3, <3>1, <5>1, <5>7 DEF CritOf
        <4>2. ASSUME e.live, hit PROVE a \in D2
          <5>1. m[1] = x /\ x = [id |-> a, severity |-> "critical"]
            BY <1>10, <1>15, <1>17, <1>24, <4>2 DEF Leads
          <5>2. x \in Listed(t)
            BY <1>17, <1>18, <4>2, <5>1 DEF Listed
          <5> QED
            BY <1>2, <3>2, <5>1, <5>2 DEF CritOf
        <4>3. ASSUME NEW b \in D2 PROVE b \in (D \ {a}) \cup K
          <5>1. PICK r \in Listed(t) : r = [id |-> b, severity |-> "critical"]
            BY <3>2 DEF CritOf
          <5>2. r.id = b /\ r.severity = "critical" /\ b \in FeedAlerts
            BY <3>3, <5>1
          <5>3. CASE r \in Listed(s) /\ r.id # a
            BY <3>1, <5>1, <5>2, <5>3 DEF CritOf
          <5>4. CASE e.live /\ r = x
            BY <1>11, <1>24, <1>35, <5>2, <5>4
          <5> QED
            BY <1>30, <5>3, <5>4
        <4> QED
          BY <1>35, <4>1, <4>2, <4>3
      <3>7. a \in D <=> known /\ off
        BY <1>2, <1>h, <3>1 DEF CritOf
      <3>8. PICK B : B = D \ {a}
        OBVIOUS
      <3>9. IsFiniteSet(D)
        BY <3>3, Sizes
      <3>10. IsFiniteSet(B) /\ Cardinality(B) = IF a \in D THEN k - 1 ELSE k
        BY <3>4, <3>8, <3>9, FS_RemoveElement
      <3>11. Cardinality(B \cup {a}) = Cardinality(B) + 1
        <4>1. a \notin B
          BY <3>8
        <4> QED
          BY <3>10, <4>1, FS_AddElement
      <3>12. a \in D => k >= 1
        <4>1. ASSUME a \in D PROVE k # 0
          BY <3>4, <3>9, <4>1, FS_EmptySet
        <4> QED
          BY <4>1
      <3>13. PICK b \in Nat : b = Cardinality(B) /\ b = IF known /\ off THEN k - 1 ELSE k
        BY <3>7, <3>10, <3>12
      <3>14. Cardinality(D2) = IF e.live /\ hit THEN b + 1 ELSE b
        <4>1. CASE e.live /\ hit
          <5>1. D2 = B \cup {a}
            BY <1>35, <3>6, <3>8, <4>1
          <5> QED
            BY <3>11, <3>13, <4>1, <5>1
        <4>2. CASE ~(e.live /\ hit)
          <5>1. D2 = B
            BY <1>35, <3>6, <3>8, <4>2
          <5> QED
            BY <3>13, <4>2, <5>1
        <4> QED
          BY <4>1, <4>2
      <3>15. known /\ off => k >= 1
        BY <3>7, <3>12
      <3>16. t.critical = IF e.live /\ hit THEN b + 1 ELSE b
        BY <1>2, <1>27, <3>4, <3>13, <3>15 DEF Less
      <3> QED
        BY <3>2, <3>14, <3>16
    <2> QED
      BY <2>2, <2>3 DEF Exact
  <1> QED
    BY <1>1, <1>26, <1>29, <1>31, <1>44, <1>45

LEMMA DashStart == DashInit => DashInv
  <1> SUFFICES ASSUME DashInit PROVE DashInv
    OBVIOUS
  <1>1. FeedInv
    <2>1. feed \in Seq(FeedAlerts) /\ DOMAIN feed = {}
      BY DEF DashInit
    <2>2. severity \in [FeedAlerts -> Severities] /\ ended \subseteq FeedAlerts
      BY DEF DashInit, Severities
    <2>3. device \in [Devices -> DeviceStatus]
      BY DEF DashInit, DeviceStatus
    <2> QED
      BY <2>1, <2>2, <2>3 DEF FeedInv, IsInjective
  <1>2. channel \in Seq(AlertEvent \cup DeviceEvent) /\ DOMAIN channel = {} /\ Len(channel) = 0
    BY DEF DashInit
  <1>3. WireInv
    BY <1>2, Sizes DEF DashInit, WireInv
  <1>4. Late = {}
    BY <1>2 DEF Late, OnWire, DashInit
  <1>5. PageInv
    <2>1. /\ SummaryOK(page) /\ UpToDate(page, {}, Standing)
          /\ page.critical <= Alike /\ page.warning <= Alike
      BY <1>1, Fresh DEF DashInit
    <2>2. page.critical \in Nat /\ page.warning \in Nat
      BY <2>1 DEF SummaryOK
    <2> QED
      BY <1>2, <1>4, <2>1, <2>2, Sizes DEF PageInv, DashInit
  <1>6. ReadInv
    BY DEF ReadInv, DashInit
  <1> QED
    BY <1>1, <1>3, <1>5, <1>6 DEF DashInv

(* An alert and a device are told apart, and so are their events. *)
LEMMA ItemsApart ==
    /\ \A e \in AlertEvent : ItemOf(e) = e.alert /\ e.alert \in FeedAlerts
    /\ \A e \in DeviceEvent :
          e \notin AlertEvent /\ ItemOf(e) = e.device /\ e.device \in Devices
    /\ \A d \in Devices : d \notin FeedAlerts
  <1>1. \A e \in AlertEvent : ItemOf(e) = e.alert /\ e.alert \in FeedAlerts
    BY DEF ItemOf, AlertEvent
  <1>2. ASSUME NEW e \in DeviceEvent PROVE e \notin AlertEvent
    <2>1. DOMAIN e = {"device", "status"}
      BY DEF DeviceEvent
    <2>2. \A f \in AlertEvent : DOMAIN f = {"alert", "severity", "live"}
      BY DEF AlertEvent
    <2> QED
      BY <2>1, <2>2
  <1>3. \A e \in DeviceEvent : ItemOf(e) = e.device /\ e.device \in Devices
    BY <1>2 DEF ItemOf, DeviceEvent
  <1> QED
    BY <1>1, <1>2, <1>3, DashboardAssumption

(* An event of what changed, and of nothing else. *)
LEMMA BroadcastKeeps ==
    ASSUME DashInv, NEW x \in FeedAlerts \cup Devices,
           NEW e \in AlertEvent \cup DeviceEvent, ItemOf(e) = x, Broadcast(x, e), FeedInv',
           \A a \in FeedAlerts : a # x => Standing'[a] = Standing[a],
           e \in AlertEvent => Told(e) = Standing'[e.alert]
    PROVE  DashInv'
  <1>1. PICK n \in Nat : n = Len(channel) /\ DOMAIN channel = 1..n
    BY LenProperties DEF DashInv, WireInv
  <1>2. \A i \in 1..n : channel[i] \in AlertEvent \cup DeviceEvent
    BY <1>1, ElementOfSeq DEF DashInv, WireInv
  <1>3. /\ changes \in Nat /\ changes' = changes + 1 /\ changes' \in 0..MaxChanges
        /\ n <= changes
    BY <1>1, Sizes DEF DashInv, WireInv, Broadcast
  <1>4. ASSUME connected
        PROVE  WireInv' /\ Len(channel') <= n + 1 /\ Len(channel') \in Nat
               /\ Late' = Late \cup {x}
    <2>1. channel' = Append(channel, e) /\ lag' = lag
      BY <1>4 DEF Broadcast
    <2>2. /\ channel' \in Seq(AlertEvent \cup DeviceEvent) /\ Len(channel') = n + 1
          /\ \A i \in 1..n : channel'[i] = channel[i]
          /\ channel'[n + 1] = e
      BY <1>1, <2>1, AppendProperties DEF DashInv, WireInv
    <2>3. DOMAIN channel' = 1..(n + 1)
      BY <1>1, <2>2, LenProperties
    <2>4. OnWire' = OnWire \cup {x}
      <3>1. \A i \in 1..n : i \in 1..(n + 1) /\ n + 1 \in 1..(n + 1)
        BY <1>1
      <3>2. \A i \in 1..(n + 1) : i \in 1..n \/ i = n + 1
        BY <1>1
      <3>3. OnWire' = {ItemOf(channel'[i]) : i \in 1..(n + 1)}
        BY <2>3 DEF OnWire
      <3>4. OnWire = {ItemOf(channel[i]) : i \in 1..n}
        BY <1>1 DEF OnWire
      <3>5. n + 1 \in 1..(n + 1)
        BY <1>1
      <3> QED
        BY <2>2, <3>1, <3>2, <3>3, <3>4, <3>5
    <2>5. ASSUME NEW i \in 1..(n + 1), channel'[i] \in AlertEvent,
                 \A j \in 1..(n + 1) : j > i => ItemOf(channel'[j]) # ItemOf(channel'[i])
          PROVE  Told(channel'[i]) = Standing'[channel'[i].alert]
      <3>1. CASE i = n + 1
        BY <2>2, <2>5, <3>1
      <3>2. CASE i # n + 1
        <4>1. i \in 1..n /\ n + 1 > i /\ n + 1 \in 1..(n + 1)
          BY <1>1, <3>2
        <4>2. ItemOf(channel'[i]) # x /\ channel'[i] = channel[i]
          BY <2>2, <2>5, <4>1
        <4>3. channel[i].alert # x /\ channel[i].alert \in FeedAlerts
          BY <2>5, <4>2, ItemsApart
        <4>4. \A j \in 1..n : j > i => ItemOf(channel[j]) # ItemOf(channel[i])
          <5>1. \A j \in 1..n : j \in 1..(n + 1)
            BY <1>1
          <5> QED
            BY <2>2, <2>5, <4>2, <5>1
        <4>5. Told(channel[i]) = Standing[channel[i].alert]
          BY <1>1, <2>5, <4>1, <4>2, <4>4 DEF DashInv, WireInv
        <4> QED
          BY <4>2, <4>3, <4>5
      <3> QED
        BY <3>1, <3>2
    <2>6. WireInv'
      <3>1. connected' = connected /\ breaks' = breaks
        BY DEF Broadcast
      <3>2. \A i \in DOMAIN channel' :
              /\ channel'[i] \in AlertEvent
              /\ \A j \in DOMAIN channel' :
                    j > i => ItemOf(channel'[j]) # ItemOf(channel'[i])
              => Told(channel'[i]) = Standing'[channel'[i].alert]
        BY <2>3, <2>5
      <3>3. Len(channel') <= changes'
        BY <1>3, <2>2
      <3> QED
        BY <1>3, <1>4, <2>2, <3>1, <3>2, <3>3 DEF DashInv, WireInv
    <2>7. Len(channel') <= n + 1 /\ Len(channel') \in Nat /\ Late' = Late \cup {x}
      BY <2>1, <2>2, <2>4 DEF Late
    <2> QED
      BY <2>6, <2>7
  <1>5. ASSUME ~connected
        PROVE  WireInv' /\ Len(channel') <= n + 1 /\ Len(channel') \in Nat
               /\ Late' = Late \cup {x}
    <2>1. channel' = channel /\ lag' = lag \cup {x} /\ channel = <<>>
      BY <1>5 DEF Broadcast, DashInv, WireInv
    <2>2. DOMAIN channel = {} /\ n = 0
      BY <1>1, <2>1
    <2>3. WireInv'
      <3>1. connected' = connected /\ breaks' = breaks
        BY DEF Broadcast
      <3> QED
        BY <1>1, <1>3, <2>1, <2>2, <3>1 DEF DashInv, WireInv
    <2>4. OnWire' = OnWire
      BY <2>1 DEF OnWire
    <2>5. Len(channel') <= n + 1 /\ Len(channel') \in Nat /\ Late' = Late \cup {x}
      BY <1>1, <2>1, <2>4 DEF Late
    <2> QED
      BY <2>3, <2>5
  <1>6. WireInv' /\ Len(channel') <= n + 1 /\ Len(channel') \in Nat /\ Late' = Late \cup {x}
    BY <1>4, <1>5 DEF DashInv, WireInv
  <1>7. PageInv'
    <2>1. page' = page /\ told' = told
      BY DEF Broadcast
    <2>2. lag' \subseteq FeedAlerts \cup Devices
      BY DEF Broadcast, DashInv, PageInv
    <2>3. UpToDate(page, Late', Standing')
      <3>1. WellListed(page) /\ page.critical \in Nat /\ UpToDate(page, Late, Standing)
        BY DEF DashInv, PageInv, SummaryOK
      <3>2. \A a \in FeedAlerts : a \notin Late' => a \notin Late /\ Standing'[a] = Standing[a]
        BY <1>6
      <3> QED
        BY <3>1, <3>2, AsBefore, Zenon
    <2>4. /\ page.critical + Len(channel') <= Alike + changes'
          /\ page.warning + Len(channel') <= Alike + changes'
      <3>1. page.critical \in Nat /\ page.warning \in Nat /\ Alike \in Nat
        BY Sizes DEF DashInv, PageInv, SummaryOK
      <3>2. page.critical + n <= Alike + changes /\ page.warning + n <= Alike + changes
        BY <1>1 DEF DashInv, PageInv
      <3> QED
        BY <1>3, <1>6, <3>1, <3>2
    <2>5. UpToDate(page, Late, Standing)'
      BY <2>1, <2>3
    <2> QED
      BY <2>1, <2>2, <2>4, <2>5 DEF DashInv, PageInv
  <1>8. ReadInv'
    <2> SUFFICES ASSUME NEW q \in reading'
        PROVE  /\ SummaryOK(q.summary) /\ UpToDate(q.summary, q.missed, Standing')
               /\ q.summary.critical <= Alike /\ q.summary.warning <= Alike
               /\ q = [summary |-> q.summary, missed |-> q.missed]
               /\ q.missed \subseteq FeedAlerts \cup Devices
      BY DEF ReadInv
    <2>1. PICK r \in reading : q = [r EXCEPT !.missed = @ \cup {x}]
      BY DEF Broadcast
    <2>2. /\ SummaryOK(r.summary) /\ UpToDate(r.summary, r.missed, Standing)
          /\ r.summary.critical <= Alike /\ r.summary.warning <= Alike
          /\ r = [summary |-> r.summary, missed |-> r.missed]
          /\ r.missed \subseteq FeedAlerts \cup Devices
      BY DEF DashInv, ReadInv
    <2>3. q = [summary |-> r.summary, missed |-> r.missed \cup {x}]
      BY <2>1, <2>2
    <2>4. q.summary = r.summary /\ q.missed = r.missed \cup {x}
      BY <2>3
    <2>5. UpToDate(r.summary, q.missed, Standing')
      <3>1. PICK s : s = r.summary
        OBVIOUS
      <3>3. WellListed(s) /\ s.critical \in Nat /\ UpToDate(s, r.missed, Standing)
        BY <2>2, <3>1 DEF SummaryOK
      <3>2. \A a \in FeedAlerts :
                a \notin q.missed => a \notin r.missed /\ Standing'[a] = Standing[a]
        BY <2>4
      <3> QED
        <4>1. UpToDate(s, q.missed, Standing')
          BY <3>2, <3>3, AsBefore, Zenon
        <4> QED
          BY <3>1, <4>1
    <2> QED
      BY <2>2, <2>3, <2>4, <2>5
  <1> QED
    BY <1>6, <1>7, <1>8 DEF DashInv

(* A device changes and nobody is told. *)
LEMMA QuietKeeps ==
    ASSUME DashInv, FeedInv', UNCHANGED <<feed, severity>>,
           UNCHANGED <<channel, connected, reading, page, told, lag, changes, breaks>>
    PROVE  DashInv'
  <1>1. Live' = Live
    BY DEF Live
  <1>2. Standing' = Standing
    BY <1>1 DEF Standing
  <1>3. WireInv' /\ OnWire' = OnWire
    BY <1>2 DEF DashInv, WireInv, OnWire
  <1>4. PageInv' /\ ReadInv'
    BY <1>2, <1>3 DEF DashInv, PageInv, ReadInv, Late
  <1> QED
    BY <1>3, <1>4 DEF DashInv

(* How an alert stands when the feed and its severity are known. *)
LEMMA StandsSo ==
    ASSUME FeedInv, FeedInv', NEW a \in FeedAlerts,
           \A b \in FeedAlerts : b # a => (b \in Live' <=> b \in Live)
                                          /\ severity'[b] = severity[b]
    PROVE  /\ \A b \in FeedAlerts : b # a => Standing'[b] = Standing[b]
           /\ Standing'[a] = IF a \in Live' THEN severity'[a] ELSE "gone"
  BY DEF Standing

LEMMA AlertKeeps ==
    ASSUME DashInv, NEW a \in FeedAlerts, RaiseAlert(a) \/ AckAlert(a) \/ ResolveAlert(a)
    PROVE  DashInv'
  <1>1. FeedInv
    BY DEF DashInv
  <1>2. CASE RaiseAlert(a)
    <2>1. PICK sev \in Severities :
              /\ severity' = [severity EXCEPT ![a] = sev]
              /\ feed' = <<a>> \o Unlisted(a)
              /\ Broadcast(a, [alert |-> a, severity |-> sev, live |-> TRUE])
      BY <1>2 DEF RaiseAlert
    <2>2. ended' = ended /\ device' = device
      BY <1>2 DEF RaiseAlert
    <2>3. /\ feed' \in Seq(FeedAlerts) /\ IsInjective(feed')
          /\ {feed'[i] : i \in DOMAIN feed'} = Live \cup {a}
      <3>1. /\ InFeed(a) \in Seq(FeedAlerts) /\ IsInjective(InFeed(a))
            /\ {InFeed(a)[i] : i \in DOMAIN InFeed(a)} = Live \cup {a}
        BY <1>1, FeedWith
      <3>2. feed' = InFeed(a)
        BY <2>1 DEF InFeed
      <3> QED
        BY <3>1, <3>2
    <2>4. FeedInv' /\ Live' = Live \cup {a}
      BY <1>1, <2>1, <2>2, <2>3 DEF FeedInv, Live
    <2>5. \A b \in FeedAlerts : b # a => (b \in Live' <=> b \in Live)
                                         /\ severity'[b] = severity[b]
      BY <1>1, <2>1, <2>4 DEF FeedInv
    <2>6. PICK e : e = [alert |-> a, severity |-> sev, live |-> TRUE]
      OBVIOUS
    <2>7. e \in AlertEvent /\ e.alert = a /\ Told(e) = sev
      BY <2>6 DEF AlertEvent, Told
    <2>8. Told(e) = Standing'[a] /\ \A b \in FeedAlerts : b # a => Standing'[b] = Standing[b]
      BY <1>1, <2>1, <2>4, <2>5, <2>7, StandsSo DEF FeedInv
    <2> QED
      BY <2>1, <2>4, <2>6, <2>7, <2>8, ItemsApart, BroadcastKeeps
  <1>3. CASE AckAlert(a)
    <2>1. /\ a \in Live /\ UNCHANGED <<feed, severity, ended, device>>
          /\ Broadcast(a, [alert |-> a, severity |-> severity[a], live |-> TRUE])
      BY <1>3 DEF AckAlert
    <2>2. FeedInv' /\ Live' = Live
      BY <1>1, <2>1 DEF FeedInv, Live
    <2>3. Standing' = Standing
      BY <2>1, <2>2 DEF Standing
    <2>4. PICK e : e = [alert |-> a, severity |-> severity[a], live |-> TRUE]
      OBVIOUS
    <2>5. e \in AlertEvent /\ e.alert = a /\ Told(e) = severity[a]
      BY <1>1, <2>4 DEF AlertEvent, Told, FeedInv
    <2>6. Standing'[a] = severity[a]
      BY <2>1, <2>3 DEF Standing
    <2> QED
      BY <2>1, <2>2, <2>3, <2>4, <2>5, <2>6, ItemsApart, BroadcastKeeps
  <1>4. CASE ResolveAlert(a)
    <2>1. /\ a \in Live /\ feed' = Unlisted(a) /\ ended' = ended \cup {a}
          /\ Broadcast(a, [alert |-> a, severity |-> severity[a], live |-> FALSE])
          /\ severity' = severity /\ device' = device
      BY <1>4 DEF ResolveAlert
    <2>2. /\ feed' \in Seq(FeedAlerts) /\ IsInjective(feed')
          /\ {feed'[i] : i \in DOMAIN feed'} = Live \ {a}
      BY <1>1, <2>1, FeedWithout, Zenon
    <2>3. FeedInv' /\ Live' = Live \ {a}
      BY <1>1, <2>1, <2>2 DEF FeedInv, Live
    <2>4. \A b \in FeedAlerts : b # a => (b \in Live' <=> b \in Live)
                                         /\ severity'[b] = severity[b]
      BY <2>1, <2>3
    <2>5. PICK e : e = [alert |-> a, severity |-> severity[a], live |-> FALSE]
      OBVIOUS
    <2>6. e \in AlertEvent /\ e.alert = a /\ Told(e) = "gone"
      BY <1>1, <2>5 DEF AlertEvent, Told, FeedInv
    <2>7. Told(e) = Standing'[a] /\ \A b \in FeedAlerts : b # a => Standing'[b] = Standing[b]
      BY <1>1, <2>3, <2>4, <2>6, StandsSo
    <2> QED
      BY <2>1, <2>3, <2>5, <2>6, <2>7, ItemsApart, BroadcastKeeps
  <1> QED
    BY <1>2, <1>3, <1>4

LEMMA DeviceKeeps ==
    ASSUME DashInv, NEW d \in Devices, FallSilent(d) \/ MarkStale(d) \/ Report(d)
    PROVE  DashInv'
  <1>1. FeedInv /\ device \in [Devices -> DeviceStatus]
    BY DEF DashInv, FeedInv
  <1>2. ASSUME UNCHANGED <<feed, severity, ended>>,
               NEW st \in DeviceStatus, device' = [device EXCEPT ![d] = st]
        PROVE  FeedInv' /\ Standing' = Standing
    <2>1. FeedInv'
      BY <1>1, <1>2 DEF FeedInv
    <2>2. Live' = Live
      BY <1>2 DEF Live
    <2> QED
      BY <1>2, <2>1, <2>2 DEF Standing
  <1>3. ASSUME NEW st \in DeviceStatus \ {"silent"},
               Broadcast(d, [device |-> d, status |-> st]), FeedInv', Standing' = Standing
        PROVE  DashInv'
    <2>1. PICK e : e = [device |-> d, status |-> st]
      OBVIOUS
    <2>2. e \in DeviceEvent /\ e.device = d
      BY <2>1 DEF DeviceEvent
    <2> QED
      BY <1>3, <2>1, <2>2, ItemsApart, BroadcastKeeps
  <1>4. CASE FallSilent(d)
    BY <1>2, <1>4, QuietKeeps DEF FallSilent, DeviceStatus
  <1>5. CASE MarkStale(d)
    <2>1. FeedInv' /\ Standing' = Standing
      BY <1>2, <1>5 DEF MarkStale, DeviceStatus
    <2> QED
      BY <1>3, <1>5, <2>1 DEF MarkStale, DeviceStatus
  <1>6. CASE Report(d)
    <2>1. PICK st \in {"online", "degraded", "fault"} :
              /\ device' = [device EXCEPT ![d] = st]
              /\ IF device[d] = "silent" /\ st = "online"
                 THEN UNCHANGED <<channel, connected, reading, page, told, lag,
                                  changes, breaks>>
                 ELSE Broadcast(d, [device |-> d, status |-> st])
              /\ UNCHANGED <<feed, severity, ended>>
      BY <1>6 DEF Report
    <2>2. st \in DeviceStatus \ {"silent"}
      BY DEF DeviceStatus
    <2>3. FeedInv' /\ Standing' = Standing
      BY <1>2, <2>1, <2>2
    <2> QED
      BY <1>3, <2>1, <2>2, <2>3, QuietKeeps
  <1> QED
    BY <1>4, <1>5, <1>6

(* Nothing but the page, or what is on its way to it, changes. *)
LEMMA ServerRests ==
    ASSUME FeedInv, UNCHANGED <<feed, severity, ended, device>>
    PROVE  FeedInv' /\ Live' = Live /\ Standing' = Standing
  <1>1. FeedInv' /\ Live' = Live
    BY DEF FeedInv, Live
  <1> QED
    BY <1>1 DEF Standing

LEMMA HealthPatched ==
    ASSUME NEW s, SummaryOK(s), NEW e \in DeviceEvent, NEW t, t = PatchHealth(s, e)
    PROVE  /\ SummaryOK(t) /\ t.latest = s.latest /\ t.critical = s.critical
           /\ t.warning = s.warning
  <1>1. PICK n \in Nat : n = Cardinality(Devices)
    BY Sizes
  <1>2. s.online \in 0..n /\ s.down \subseteq Devices /\ e.device \in Devices
    BY <1>1 DEF SummaryOK, DeviceEvent
  <1>3. /\ t.latest = s.latest /\ t.critical = s.critical /\ t.warning = s.warning
        /\ t = [latest |-> t.latest, critical |-> t.critical, warning |-> t.warning,
                down |-> t.down, online |-> t.online]
    BY DEF PatchHealth, SummaryOK
  <1>4. PICK off \in BOOLEAN : off <=> (e.status \in {"offline", "fault"})
    OBVIOUS
  <1>5. t.down = IF off THEN s.down \cup {e.device} ELSE s.down \ {e.device}
    BY <1>4 DEF PatchHealth, SummaryOK
  <1>6. \/ t.online = Less(s.online) \/ t.online = s.online
        \/ t.online = s.online + 1 /\ s.online < n
    BY <1>1, <1>4 DEF PatchHealth, SummaryOK
  <1>7. t.online \in 0..n
    BY <1>2, <1>6 DEF Less
  <1>8. WellListed(t)
    BY <1>3 DEF SummaryOK, WellListed
  <1> QED
    BY <1>1, <1>2, <1>3, <1>5, <1>7, <1>8 DEF SummaryOK

LEMMA TakeKeeps == DashInv /\ TakeDelta => DashInv'
  <1> SUFFICES ASSUME DashInv, TakeDelta PROVE DashInv'
    OBVIOUS
  <1>1. PICK e : e = Head(channel)
    OBVIOUS
  <1>2. /\ channel # <<>> /\ channel' = Tail(channel)
        /\ IF e \in AlertEvent
           THEN /\ page' = ApplyAlert(page, e)
                /\ lag' = lag \ {e.alert} /\ told' = told
           ELSE /\ page' = IF e = told THEN page ELSE PatchHealth(page, e)
                /\ lag' = lag \ {e.device} /\ told' = e
        /\ UNCHANGED <<feed, severity, ended, device, connected, reading, changes, breaks>>
    BY <1>1 DEF TakeDelta
  <1>3. FeedInv' /\ Standing' = Standing
    BY <1>2, ServerRests DEF DashInv
  <1>4. PICK n \in Nat : n = Len(channel) - 1 /\ DOMAIN channel = 1..(n + 1)
    <2>1. Len(channel) \in Nat /\ Len(channel) # 0 /\ DOMAIN channel = 1..Len(channel)
      BY <1>2, EmptySeq, LenProperties DEF DashInv, WireInv
    <2>2. PICK m \in Nat : m = Len(channel)
      BY <2>1
    <2>3. m - 1 \in Nat /\ (m - 1) + 1 = m
      BY <2>1, <2>2
    <2> QED
      BY <2>1, <2>2, <2>3
  <1>5. /\ channel \in Seq(AlertEvent \cup DeviceEvent) /\ channel[1] = e
        /\ \A i \in 1..(n + 1) : channel[i] \in AlertEvent \cup DeviceEvent
        /\ e \in AlertEvent \cup DeviceEvent
    <2>1. channel \in Seq(AlertEvent \cup DeviceEvent)
      BY DEF DashInv, WireInv
    <2>2. e = channel[1] /\ 1 \in 1..(n + 1)
      BY <1>1, <1>2, <1>4, <2>1, HeadTailProperties
    <2> QED
      BY <1>4, <2>1, <2>2, ElementOfSeq
  <1>6. /\ channel' \in Seq(AlertEvent \cup DeviceEvent) /\ Len(channel') = n
        /\ DOMAIN channel' = 1..n
        /\ \A i \in 1..n : channel'[i] = channel[i + 1] /\ i + 1 \in 1..(n + 1)
    <2>1. /\ channel' \in Seq(AlertEvent \cup DeviceEvent)
          /\ Len(channel') = Len(channel) - 1
          /\ \A i \in 1..Len(channel') : channel'[i] = channel[i + 1]
      BY <1>2, <1>5, HeadTailProperties
    <2> QED
      BY <1>4, <2>1, LenProperties
  <1>7. WireInv'
    <2>1. ASSUME NEW i \in 1..n, channel'[i] \in AlertEvent,
                 \A j \in 1..n : j > i => ItemOf(channel'[j]) # ItemOf(channel'[i])
          PROVE  Told(channel'[i]) = Standing[channel'[i].alert]
      <3>1. \A j \in 1..(n + 1) : j > i + 1 => j - 1 \in 1..n /\ j - 1 > i /\ (j - 1) + 1 = j
        BY <1>4
      <3>2. \A j \in 1..(n + 1) :
                j > i + 1 => ItemOf(channel[j]) # ItemOf(channel[i + 1])
        BY <1>6, <2>1, <3>1
      <3>3. i + 1 \in DOMAIN channel /\ channel[i + 1] \in AlertEvent
        BY <1>4, <1>6, <2>1
      <3>4. Told(channel[i + 1]) = Standing[channel[i + 1].alert]
        BY <1>4, <3>2, <3>3 DEF DashInv, WireInv
      <3> QED
        BY <1>6, <3>4
    <2>2. connected
      BY <1>2 DEF DashInv, WireInv
    <2>3. Len(channel') <= changes
      BY <1>4, <1>6 DEF DashInv, WireInv
    <2> QED
      BY <1>2, <1>3, <1>6, <2>1, <2>2, <2>3 DEF DashInv, WireInv
  <1>8. OnWire = OnWire' \cup {ItemOf(e)}
    <2>1. OnWire = {ItemOf(channel[i]) : i \in 1..(n + 1)}
      BY <1>4 DEF OnWire
    <2>2. OnWire' = {ItemOf(channel'[i]) : i \in 1..n}
      BY <1>6 DEF OnWire
    <2>3. \A i \in 1..(n + 1) : i = 1 \/ (i - 1 \in 1..n /\ (i - 1) + 1 = i)
      BY <1>4
    <2>4. 1 \in 1..(n + 1)
      BY <1>4
    <2>5. \A i \in 1..(n + 1) : ItemOf(channel[i]) \in OnWire' \cup {ItemOf(e)}
      BY <1>5, <1>6, <2>2, <2>3
    <2>6. \A i \in 1..n : ItemOf(channel'[i]) \in OnWire
      BY <1>6, <2>1
    <2>7. ItemOf(e) \in OnWire
      BY <1>5, <2>1, <2>4
    <2> QED
      BY <2>1, <2>2, <2>5, <2>6, <2>7
  <1>9. ReadInv'
    BY <1>2, <1>3 DEF DashInv, ReadInv
  <1>10. PICK c \in Nat, w \in Nat, m \in Nat :
             c = page.critical /\ w = page.warning /\ m = changes
    BY DEF DashInv, PageInv, SummaryOK, WireInv
  <1>11. c + (n + 1) <= Alike + m /\ w + (n + 1) <= Alike + m /\ Alike \in Nat
    BY <1>4, <1>10, Sizes DEF DashInv, PageInv
  <1>12. SummaryOK(page) /\ UpToDate(page, Late, Standing)
    BY DEF DashInv, PageInv
  <1>13. ASSUME e \in AlertEvent PROVE PageInv'
    <2>1. PICK t : t = ApplyAlert(page, e)
      OBVIOUS
    <2>2. page' = t /\ lag' = lag \ {e.alert} /\ told' = told
      BY <1>2, <1>13, <2>1
    <2>3. ItemOf(e) = e.alert /\ e.alert \in FeedAlerts
      BY <1>13, ItemsApart
    <2>4. e.alert \in Late
      BY <1>8, <2>3 DEF Late
    <2>5. \A a \in FeedAlerts : a # e.alert /\ a \notin Late' => a \notin Late
      BY <1>8, <2>2, <2>3 DEF Late
    <2>6. ASSUME e.alert \notin Late' PROVE Told(e) = Standing[e.alert]
      <3>1. \A j \in 1..n : ItemOf(channel'[j]) # e.alert
        BY <1>6, <2>6 DEF Late, OnWire
      <3>2. \A j \in 1..(n + 1) : j > 1 => j - 1 \in 1..n /\ (j - 1) + 1 = j
        BY <1>4
      <3>3. \A j \in 1..(n + 1) : j > 1 => ItemOf(channel[j]) # ItemOf(channel[1])
        BY <1>5, <1>6, <2>3, <3>1, <3>2
      <3>4. 1 \in DOMAIN channel
        BY <1>4
      <3> QED
        BY <1>4, <1>5, <1>13, <3>3, <3>4 DEF DashInv, WireInv
    <2>7. /\ SummaryOK(t) /\ UpToDate(t, Late', Standing)
          /\ t.critical <= page.critical + 1 /\ t.warning <= page.warning + 1
      <3>1. PICK late2 : late2 = Late'
        OBVIOUS
      <3>2. /\ \A a \in FeedAlerts : a # e.alert /\ a \notin late2 => a \notin Late
            /\ e.alert \notin late2 => Told(e) = Standing[e.alert]
        BY <2>5, <2>6, <3>1
      <3>3. /\ SummaryOK(t) /\ UpToDate(t, late2, Standing)
            /\ t.critical <= page.critical + 1 /\ t.warning <= page.warning + 1
        BY <1>12, <1>13, <2>1, <2>4, <3>2, Taken, Zenon
      <3> QED
        BY <3>1, <3>3
    <2>8. t.critical \in Nat /\ t.warning \in Nat
      BY <2>7 DEF SummaryOK
    <2>9. /\ t.critical + Len(channel') <= Alike + changes'
          /\ t.warning + Len(channel') <= Alike + changes'
      <3>1. t.critical <= c + 1 /\ t.warning <= w + 1
        BY <1>10, <2>7
      <3>2. t.critical + n <= Alike + m /\ t.warning + n <= Alike + m
        BY <1>11, <2>8, <3>1
      <3> QED
        BY <1>2, <1>6, <1>10, <3>2
    <2>10. UpToDate(page, Late, Standing)'
      BY <1>3, <2>2, <2>7
    <2> QED
      BY <2>2, <2>7, <2>9, <2>10 DEF DashInv, PageInv
  <1>14. ASSUME e \notin AlertEvent PROVE PageInv'
    <2>1. e \in DeviceEvent
      BY <1>5, <1>14
    <2>2. /\ page' = IF e = told THEN page ELSE PatchHealth(page, e)
          /\ lag' = lag \ {e.device} /\ told' = e
      BY <1>2, <1>14
    <2>3. PICK t : t = page'
      OBVIOUS
    <2>4. /\ SummaryOK(t) /\ t.latest = page.latest /\ t.critical = page.critical
          /\ t.warning = page.warning
      BY <1>12, <2>1, <2>2, <2>3, HealthPatched
    <2>5. \A a \in FeedAlerts : a \notin Late' => a \notin Late
      BY <1>8, <2>1, <2>2, ItemsApart DEF Late
    <2>6. UpToDate(t, Late', Standing)
      <3>1. PICK late2 : late2 = Late'
        OBVIOUS
      <3>2. WellListed(page) /\ page.critical \in Nat
        BY <1>12 DEF SummaryOK
      <3>3. \A a \in FeedAlerts : a \notin late2 => a \notin Late /\ Standing[a] = Standing[a]
        BY <2>5, <3>1
      <3>4. UpToDate(t, late2, Standing)
        BY <1>12, <2>4, <3>2, <3>3, AsBefore, Zenon
      <3> QED
        BY <3>1, <3>4
    <2>7. /\ t.critical + Len(channel') <= Alike + changes'
          /\ t.warning + Len(channel') <= Alike + changes'
      BY <1>2, <1>6, <1>10, <1>11, <2>4
    <2>8. UpToDate(page, Late, Standing)'
      BY <1>3, <2>3, <2>6
    <2> QED
      BY <2>1, <2>2, <2>3, <2>4, <2>7, <2>8 DEF DashInv, PageInv
  <1> QED
    BY <1>3, <1>7, <1>9, <1>13, <1>14 DEF DashInv

(* The connection breaks or comes back, and summaries are fetched. *)
LEMMA FetchKeeps ==
    ASSUME DashInv,
           LoseConnection \/ Resume \/ PollSummary \/ SummaryArrives \/ SummaryFails
    PROVE  DashInv'
  <1>1. UNCHANGED <<feed, severity, ended, device, changes>>
    BY DEF LoseConnection, Resume, PollSummary, SummaryArrives, SummaryFails
  <1>2. FeedInv /\ FeedInv' /\ Live' = Live /\ Standing' = Standing
    BY <1>1, ServerRests DEF DashInv
  <1>3. SummaryOK(page) /\ page.critical \in Nat /\ page.warning \in Nat /\ WellListed(page)
    BY DEF DashInv, PageInv, SummaryOK
  <1>4. Len(channel) \in Nat /\ changes \in Nat /\ Alike \in Nat /\ Len(channel) <= changes
    BY LenProperties, Sizes DEF DashInv, WireInv
  <1>5. CASE LoseConnection
    <2>1. /\ connected' = FALSE /\ channel' = <<>> /\ lag' = lag \cup OnWire
          /\ breaks' = breaks + 1 /\ breaks < MaxBreaks
          /\ UNCHANGED <<reading, page, told>>
      BY <1>5 DEF LoseConnection
    <2>2. /\ channel' \in Seq(AlertEvent \cup DeviceEvent) /\ DOMAIN channel' = {}
          /\ Len(channel') = 0
      BY <2>1
    <2>3. WireInv'
      <3>1. breaks \in 0..MaxBreaks /\ changes \in 0..MaxChanges
        BY DEF DashInv, WireInv
      <3>2. breaks' \in 0..MaxBreaks
        BY <2>1, <3>1, Sizes
      <3>3. Len(channel') <= changes'
        BY <1>1, <1>4, <2>2
      <3> QED
        BY <1>1, <2>1, <2>2, <3>1, <3>2, <3>3 DEF WireInv
    <2>4. OnWire' = {}
      BY <2>2 DEF OnWire
    <2>5. Late' = Late
      BY <2>1, <2>4 DEF Late
    <2>6. lag' \subseteq FeedAlerts \cup Devices
      <3>1. \A i \in DOMAIN channel : channel[i] \in AlertEvent \cup DeviceEvent
        BY ElementOfSeq, LenProperties DEF DashInv, WireInv
      <3>2. OnWire \subseteq FeedAlerts \cup Devices
        BY <3>1, ItemsApart DEF OnWire
      <3> QED
        BY <2>1, <3>2 DEF DashInv, PageInv
    <2>7. /\ page.critical + 0 <= Alike + changes /\ page.warning + 0 <= Alike + changes
      BY <1>3, <1>4 DEF DashInv, PageInv
    <2>8. PageInv'
      BY <1>1, <1>2, <2>1, <2>2, <2>5, <2>6, <2>7 DEF DashInv, PageInv
    <2>9. ReadInv'
      BY <1>2, <2>1 DEF DashInv, ReadInv
    <2> QED
      BY <1>2, <2>3, <2>8, <2>9 DEF DashInv
  <1>6. ASSUME ~connected, ReadSummary, UNCHANGED <<channel, page, told, lag, breaks>>,
               connected' \in BOOLEAN
        PROVE  DashInv'
    <2>1. channel = <<>> /\ channel' = channel
      BY <1>6 DEF DashInv, WireInv
    <2>2. OnWire' = OnWire /\ Late' = Late
      BY <1>6, <2>1 DEF OnWire, Late
    <2>3. WireInv'
      BY <1>1, <1>2, <1>6, <2>1 DEF DashInv, WireInv
    <2>4. PageInv'
      BY <1>1, <1>2, <1>6, <2>2 DEF DashInv, PageInv
    <2>5. PICK s : s = CurrentSummary
      OBVIOUS
    <2>6. /\ SummaryOK(s) /\ UpToDate(s, {}, Standing)
          /\ s.critical <= Alike /\ s.warning <= Alike
      BY <1>2, <2>5, Fresh
    <2>7. reading' = {[summary |-> s, missed |-> {}]}
      BY <1>6, <2>5 DEF ReadSummary
    <2>8. ReadInv'
      BY <1>2, <2>6, <2>7 DEF ReadInv
    <2> QED
      BY <1>2, <2>3, <2>4, <2>8 DEF DashInv
  <1>7. CASE Resume
    BY <1>6, <1>7 DEF Resume
  <1>8. CASE PollSummary
    <2>1. connected' \in BOOLEAN
      BY <1>8 DEF PollSummary, DashInv, WireInv
    <2> QED
      BY <1>6, <1>8, <2>1 DEF PollSummary
  <1>9. CASE SummaryArrives
    <2>1. PICK r \in reading :
              /\ page' = r.summary /\ lag' = r.missed \ OnWire /\ reading' = {}
              /\ UNCHANGED <<channel, connected, told, breaks>>
      BY <1>9 DEF SummaryArrives
    <2>2. /\ SummaryOK(r.summary) /\ UpToDate(r.summary, r.missed, Standing)
          /\ r.summary.critical <= Alike /\ r.summary.warning <= Alike
          /\ r.missed \subseteq FeedAlerts \cup Devices
      BY DEF DashInv, ReadInv
    <2>3. PICK s : s = r.summary
      OBVIOUS
    <2>4. WellListed(s) /\ s.critical \in Nat /\ s.warning \in Nat
      BY <2>2, <2>3 DEF SummaryOK
    <2>5. OnWire' = OnWire /\ r.missed \subseteq Late'
      BY <2>1 DEF OnWire, Late
    <2>6. WireInv'
      BY <1>1, <1>2, <2>1 DEF DashInv, WireInv
    <2>7. UpToDate(s, Late', Standing)
      <3>1. PICK late2 : late2 = Late'
        OBVIOUS
      <3>2. \A a \in FeedAlerts :
                a \notin late2 => a \notin r.missed /\ Standing[a] = Standing[a]
        BY <2>5, <3>1
      <3>3. UpToDate(s, r.missed, Standing)
        BY <2>2, <2>3
      <3>4. UpToDate(s, late2, Standing)
        BY <2>4, <3>2, <3>3, AsBefore, Zenon
      <3> QED
        BY <3>1, <3>4
    <2>8. PageInv'
      <3>1. UpToDate(page, Late, Standing)'
        BY <1>2, <2>1, <2>3, <2>7
      <3>2. /\ s.critical + Len(channel') <= Alike + changes'
            /\ s.warning + Len(channel') <= Alike + changes'
        BY <1>1, <1>4, <2>1, <2>2, <2>3, <2>4
      <3> QED
        BY <2>1, <2>2, <2>3, <3>1, <3>2 DEF DashInv, PageInv
    <2>9. ReadInv'
      BY <2>1 DEF ReadInv
    <2> QED
      BY <1>2, <2>6, <2>8, <2>9 DEF DashInv
  <1>10. CASE SummaryFails
    <2>1. reading' = {} /\ UNCHANGED <<channel, connected, page, told, lag, breaks>>
      BY <1>10 DEF SummaryFails
    <2>2. OnWire' = OnWire /\ Late' = Late
      BY <2>1 DEF OnWire, Late
    <2>3. WireInv'
      BY <1>1, <1>2, <2>1 DEF DashInv, WireInv
    <2>4. PageInv'
      BY <1>1, <1>2, <2>1, <2>2 DEF DashInv, PageInv
    <2>5. ReadInv'
      BY <2>1 DEF ReadInv
    <2> QED
      BY <1>2, <2>3, <2>4, <2>5 DEF DashInv
  <1> QED
    BY <1>5, <1>7, <1>8, <1>9, <1>10

LEMMA DashKept == DashInv /\ [DashNext]_dashVars => DashInv'
  <1>1. ASSUME DashInv, UNCHANGED dashVars PROVE DashInv'
    <2>1. FeedInv'
      BY <1>1, ServerRests DEF dashVars, DashInv
    <2> QED
      BY <1>1, <2>1, QuietKeeps DEF dashVars
  <1> QED
    BY <1>1, AlertKeeps, DeviceKeeps, TakeKeeps, FetchKeeps DEF DashNext

(* A summary that counts nothing twice does not by more alerts being raised. *)
LEMMA StillExact ==
    ASSUME NEW s, NEW t, t.latest = s.latest, t.critical = s.critical,
           NEW knownIds \in SUBSET FeedAlerts, NEW knownIds2 \in SUBSET FeedAlerts,
           knownIds \subseteq knownIds2, Exact(s, knownIds)
    PROVE  Exact(t, knownIds2)
  <1>1. Listed(t) = Listed(s)
    BY DEF Listed
  <1>2. CritOf(t) = CritOf(s)
    BY <1>1 DEF CritOf
  <1>3. \A r \in Listed(t) : r.id \in knownIds2
    BY <1>1 DEF Exact
  <1>4. Cardinality(knownIds) \in Nat /\ Cardinality(knownIds2) \in Nat /\ IsFiniteSet(knownIds2)
    BY Sizes
  <1>5. Cardinality(knownIds) <= Cardinality(knownIds2)
    BY <1>4, FS_Subset
  <1>6. Cardinality(knownIds2) <= LatestMax => t.critical = Cardinality(CritOf(t))
    BY <1>2, <1>4, <1>5, Sizes DEF Exact
  <1> QED
    BY <1>3, <1>6 DEF Exact

LEMMA EverGrows ==
    ASSUME DashInv, DashInv', [DashNext]_dashVars
    PROVE  /\ EverLive \in SUBSET FeedAlerts /\ EverLive' \in SUBSET FeedAlerts
           /\ EverLive \subseteq EverLive'
  <1>1. ASSUME FeedInv PROVE EverLive \in SUBSET FeedAlerts
    BY <1>1, ElementOfSeq, LenProperties DEF FeedInv, EverLive, Live
  <1>2. EverLive \in SUBSET FeedAlerts
    BY <1>1 DEF DashInv
  <1>3. EverLive' \in SUBSET FeedAlerts
    <2>1. \A i \in DOMAIN feed' : feed'[i] \in FeedAlerts
      BY ElementOfSeq, LenProperties DEF DashInv, FeedInv
    <2> QED
      BY <2>1 DEF DashInv, FeedInv, EverLive, Live
  <1>4. ASSUME feed' = feed, ended' = ended PROVE EverLive \subseteq EverLive'
    BY <1>4 DEF EverLive, Live
  <1>5. ASSUME NEW a \in FeedAlerts, RaiseAlert(a) PROVE EverLive \subseteq EverLive'
    <2>1. feed' = InFeed(a) /\ ended' = ended
      BY <1>5 DEF RaiseAlert, InFeed
    <2>2. {InFeed(a)[i] : i \in DOMAIN InFeed(a)} = Live \cup {a}
      BY FeedWith DEF DashInv
    <2>3. Live' = Live \cup {a}
      BY <2>1, <2>2 DEF Live
    <2> QED
      BY <2>1, <2>3 DEF EverLive
  <1>6. ASSUME NEW a \in FeedAlerts, ResolveAlert(a) PROVE EverLive \subseteq EverLive'
    <2>1. feed' = Unlisted(a) /\ ended' = ended \cup {a}
      BY <1>6 DEF ResolveAlert
    <2>2. {Unlisted(a)[i] : i \in DOMAIN Unlisted(a)} = Live \ {a}
      BY FeedWithout, Zenon DEF DashInv
    <2>3. Live' = Live \ {a}
      BY <2>1, <2>2 DEF Live
    <2> QED
      BY <2>1, <2>3 DEF EverLive
  <1>7. CASE \E a \in FeedAlerts : AckAlert(a)
    BY <1>2, <1>3, <1>4, <1>7 DEF AckAlert
  <1>8. CASE \E d \in Devices : FallSilent(d) \/ MarkStale(d) \/ Report(d)
    BY <1>2, <1>3, <1>4, <1>8 DEF FallSilent, MarkStale, Report
  <1>9. CASE \/ TakeDelta \/ LoseConnection \/ Resume \/ PollSummary
             \/ SummaryArrives \/ SummaryFails
    BY <1>2, <1>3, <1>4, <1>9 DEF TakeDelta, LoseConnection, Resume, PollSummary,
                                  SummaryArrives, SummaryFails
  <1>10. CASE UNCHANGED dashVars
    BY <1>2, <1>3, <1>4, <1>10 DEF dashVars
  <1> QED
    BY <1>2, <1>3, <1>5, <1>6, <1>7, <1>8, <1>9, <1>10 DEF DashNext

LEMMA ExactStart == DashInit => ExactInv
  <1> SUFFICES ASSUME DashInit PROVE ExactInv
    OBVIOUS
  <1>1. Exact(page, EverLive)
    BY DashStart, Fresh DEF DashInit, DashInv
  <1> QED
    BY <1>1 DEF DashInit, ExactInv

(* A step that applies no event: what is on the wire is told of alerts raised, and every
   summary that is shown or on its way is an old one or was read just now. *)
LEMMA ExactUnless ==
    ASSUME DashInv, DashInv', ExactInv, [DashNext]_dashVars,
           \A i \in DOMAIN channel' : channel'[i] \in AlertEvent =>
              channel'[i].alert \in EverLive',
           \/ /\ page'.latest = page.latest /\ page'.critical = page.critical
           \/ \E r \in reading : page' = r.summary,
           \A q \in reading' :
              (\E r \in reading : q.summary = r.summary) \/ Exact(q.summary, EverLive)
    PROVE  ExactInv'
  <1>1. PICK was \in SUBSET FeedAlerts, now \in SUBSET FeedAlerts :
            was = EverLive /\ now = EverLive' /\ was \subseteq now
    BY EverGrows
  <1>2. Exact(page, was) /\ \A r \in reading : Exact(r.summary, was)
    BY <1>1 DEF ExactInv
  <1>3. ASSUME NEW s, Exact(s, was) PROVE Exact(s, now)
    BY <1>1, <1>3, StillExact
  <1>4. PICK p : p = page'
    OBVIOUS
  <1>5. Exact(p, now)
    <2>1. CASE p.latest = page.latest /\ p.critical = page.critical
      BY <1>1, <1>2, <2>1, StillExact
    <2>2. CASE \E r \in reading : p = r.summary
      BY <1>2, <1>3, <2>2
    <2> QED
      BY <1>4, <2>1, <2>2
  <1>6. ASSUME NEW q \in reading' PROVE Exact(q.summary, now)
    <2>1. PICK s : s = q.summary
      OBVIOUS
    <2>2. Exact(s, was)
      BY <1>1, <1>2, <1>6, <2>1
    <2> QED
      BY <1>3, <2>1, <2>2
  <1>7. Exact(page', EverLive')
    BY <1>1, <1>4, <1>5
  <1>8. \A q \in reading' : Exact(q.summary, EverLive')
    BY <1>1, <1>6
  <1> QED
    BY <1>7, <1>8 DEF ExactInv

(* An event goes out, of a device or of an alert that was raised. *)
LEMMA ExactBroadcast ==
    ASSUME DashInv, DashInv', ExactInv, [DashNext]_dashVars, NEW x, NEW e, Broadcast(x, e),
           e \in AlertEvent => e.alert \in EverLive'
    PROVE  ExactInv'
  <1>1. PICK n \in Nat : n = Len(channel) /\ DOMAIN channel = 1..n
    BY LenProperties DEF DashInv, WireInv
  <1>2. \A i \in DOMAIN channel : channel[i] \in AlertEvent => channel[i].alert \in EverLive'
    BY EverGrows DEF ExactInv
  <1>3. ASSUME NEW i \in DOMAIN channel', channel'[i] \in AlertEvent
        PROVE  channel'[i].alert \in EverLive'
    <2>1. CASE channel' = channel
      BY <1>2, <1>3, <2>1
    <2>2. CASE channel' = Append(channel, e)
      <3>1. i \in 1..n \/ i = n + 1
        BY <1>1, <1>3, <2>2
      <3>2. CASE i \in 1..n
        BY <1>1, <1>2, <1>3, <2>2, <3>2
      <3>3. CASE i = n + 1
        BY <1>1, <1>3, <2>2, <3>3
      <3> QED
        BY <3>1, <3>2, <3>3
    <2> QED
      BY <2>1, <2>2 DEF Broadcast
  <1>4. page' = page
    BY DEF Broadcast
  <1>5. ASSUME NEW q \in reading' PROVE \E r \in reading : q.summary = r.summary
    <2>1. PICK r \in reading : q = [r EXCEPT !.missed = @ \cup {x}]
      BY <1>5 DEF Broadcast
    <2>2. r = [summary |-> r.summary, missed |-> r.missed]
      BY DEF DashInv, ReadInv
    <2>3. q.summary = r.summary
      BY <2>1, <2>2
    <2> QED
      BY <2>3
  <1> QED
    BY <1>3, <1>4, <1>5, ExactUnless

LEMMA ExactTaken == DashInv /\ DashInv' /\ ExactInv /\ TakeDelta => ExactInv'
  <1> SUFFICES ASSUME DashInv, DashInv', ExactInv, TakeDelta PROVE ExactInv'
    OBVIOUS
  <1>1. PICK e : e = Head(channel)
    OBVIOUS
  <1>2. /\ channel # <<>> /\ channel' = Tail(channel)
        /\ IF e \in AlertEvent
           THEN page' = ApplyAlert(page, e)
           ELSE page' = IF e = told THEN page ELSE PatchHealth(page, e)
        /\ UNCHANGED <<feed, ended, reading>>
    BY <1>1 DEF TakeDelta
  <1>3. [DashNext]_dashVars
    BY DEF DashNext
  <1>4. PICK n \in Nat : n = Len(channel) /\ DOMAIN channel = 1..n /\ n # 0
    BY <1>2, EmptySeq, LenProperties DEF DashInv, WireInv
  <1>5. /\ channel \in Seq(AlertEvent \cup DeviceEvent) /\ e = channel[1]
        /\ e \in AlertEvent \cup DeviceEvent /\ 1 \in DOMAIN channel
    <2>1. channel \in Seq(AlertEvent \cup DeviceEvent)
      BY DEF DashInv, WireInv
    <2>2. e = channel[1] /\ 1 \in 1..n
      BY <1>1, <1>2, <1>4, <2>1, HeadTailProperties
    <2> QED
      BY <1>4, <2>1, <2>2, ElementOfSeq
  <1>6. \A i \in DOMAIN channel' : i + 1 \in DOMAIN channel /\ channel'[i] = channel[i + 1]
    <2>1. /\ channel' \in Seq(AlertEvent \cup DeviceEvent) /\ Len(channel') = n - 1
          /\ \A i \in 1..Len(channel') : channel'[i] = channel[i + 1]
      BY <1>2, <1>4, <1>5, HeadTailProperties
    <2>2. DOMAIN channel' = 1..(n - 1)
      BY <2>1, LenProperties
    <2>3. \A i \in 1..(n - 1) : i + 1 \in 1..n
      BY <1>4
    <2> QED
      BY <1>4, <2>1, <2>2, <2>3
  <1>7. PICK knownIds \in SUBSET FeedAlerts : knownIds = EverLive
    BY <1>3, EverGrows
  <1>8. EverLive' = knownIds
    BY <1>2, <1>7 DEF EverLive, Live
  <1>9. \A i \in DOMAIN channel' : channel'[i] \in AlertEvent =>
            channel'[i].alert \in EverLive'
    BY <1>6, <1>7, <1>8 DEF ExactInv
  <1>10. ASSUME e \in AlertEvent PROVE ExactInv'
    <2>1. e.alert \in knownIds /\ Exact(page, knownIds)
      BY <1>5, <1>7, <1>10 DEF ExactInv
    <2>2. PICK t : t = ApplyAlert(page, e)
      OBVIOUS
    <2>3. e.alert \in Late
      <3>1. ItemOf(e) = e.alert
        BY <1>10, ItemsApart
      <3> QED
        BY <1>5, <3>1 DEF Late, OnWire
    <2>4. SummaryOK(page) /\ UpToDate(page, Late, Standing)
      BY DEF DashInv, PageInv
    <2>5. UpToDate(page, FeedAlerts, Standing)
      <3>1. WellListed(page) /\ page.critical \in Nat
        BY <2>4 DEF SummaryOK
      <3>2. \A a \in FeedAlerts :
                a \notin FeedAlerts => a \notin Late /\ Standing[a] = Standing[a]
        OBVIOUS
      <3> QED
        BY <2>4, <3>1, <3>2, AsBefore, Zenon
    <2>6. e.alert \in FeedAlerts
      BY <1>10 DEF AlertEvent
    <2>7. /\ \A a \in FeedAlerts : a # e.alert /\ a \notin FeedAlerts => a \notin FeedAlerts
          /\ e.alert \notin FeedAlerts => Told(e) = Standing[e.alert]
      BY <2>6
    <2>8. \A q \in SUBSET FeedAlerts : e.alert \in q /\ Exact(page, q) => Exact(t, q)
      BY <1>10, <2>2, <2>4, <2>5, <2>6, <2>7, Taken, Zenon
    <2>9. Exact(t, knownIds)
      BY <1>7, <2>1, <2>8
    <2>10. page' = t /\ reading' = reading
      BY <1>2, <1>10, <2>2
    <2>11. Exact(page', EverLive') /\ \A r \in reading' : Exact(r.summary, EverLive')
      BY <1>7, <1>8, <2>9, <2>10 DEF ExactInv
    <2> QED
      BY <1>9, <2>11 DEF ExactInv
  <1>11. ASSUME e \notin AlertEvent PROVE ExactInv'
    <2>1. e \in DeviceEvent /\ SummaryOK(page)
      BY <1>5, <1>11 DEF DashInv, PageInv
    <2>2. PICK t : t = PatchHealth(page, e)
      OBVIOUS
    <2>3. t.latest = page.latest /\ t.critical = page.critical
      BY <2>1, <2>2, HealthPatched
    <2>4. page'.latest = page.latest /\ page'.critical = page.critical
      BY <1>2, <1>11, <2>2, <2>3
    <2>5. \A q \in reading' : \E r \in reading : q.summary = r.summary
      BY <1>2
    <2> QED
      BY <1>3, <1>9, <2>4, <2>5, ExactUnless
  <1> QED
    BY <1>10, <1>11

LEMMA ExactKept == DashInv /\ DashInv' /\ ExactInv /\ [DashNext]_dashVars => ExactInv'
  <1> SUFFICES ASSUME DashInv, DashInv', ExactInv, [DashNext]_dashVars PROVE ExactInv'
    OBVIOUS
  <1>1. \A i \in DOMAIN channel : channel[i] \in AlertEvent => channel[i].alert \in EverLive'
    BY EverGrows DEF ExactInv
  <1>2. ASSUME channel' = channel \/ channel' = <<>>,
               page' = page \/ \E r \in reading : page' = r.summary,
               reading' = reading \/ reading' = {} \/ ReadSummary
        PROVE  ExactInv'
    <2>1. \A i \in DOMAIN channel' : channel'[i] \in AlertEvent =>
              channel'[i].alert \in EverLive'
      BY <1>1, <1>2
    <2>2. ASSUME NEW q \in reading'
          PROVE  (\E r \in reading : q.summary = r.summary) \/ Exact(q.summary, EverLive)
      <3>1. CASE reading' = reading
        BY <2>2, <3>1
      <3>2. CASE reading' = {}
        BY <2>2, <3>2
      <3>3. CASE ReadSummary
        <4>1. PICK s : s = CurrentSummary
          OBVIOUS
        <4>2. q = [summary |-> s, missed |-> {}]
          BY <2>2, <3>3, <4>1 DEF ReadSummary
        <4>3. Exact(s, EverLive)
          BY <4>1, Fresh DEF DashInv
        <4> QED
          BY <4>2, <4>3
      <3> QED
        BY <1>2, <3>1, <3>2, <3>3
    <2>3. \A q \in reading' :
             (\E r \in reading : q.summary = r.summary) \/ Exact(q.summary, EverLive)
      BY <2>2
    <2>4. \/ page'.latest = page.latest /\ page'.critical = page.critical
          \/ \E r \in reading : page' = r.summary
      BY <1>2
    <2> QED
      BY <2>1, <2>3, <2>4, ExactUnless
  <1>3. ASSUME NEW a \in FeedAlerts, RaiseAlert(a) PROVE ExactInv'
    <2>1. PICK sev \in Severities :
              Broadcast(a, [alert |-> a, severity |-> sev, live |-> TRUE])
      BY <1>3 DEF RaiseAlert
    <2>2. a \in EverLive'
      <3>1. feed' = InFeed(a)
        BY <1>3 DEF RaiseAlert, InFeed
      <3>2. {InFeed(a)[i] : i \in DOMAIN InFeed(a)} = Live \cup {a}
        BY FeedWith DEF DashInv
      <3>3. Live' = Live \cup {a}
        BY <3>1, <3>2 DEF Live
      <3> QED
        BY <3>3 DEF EverLive
    <2>3. PICK e : e = [alert |-> a, severity |-> sev, live |-> TRUE]
      OBVIOUS
    <2> QED
      BY <2>1, <2>2, <2>3, ExactBroadcast
  <1>4. ASSUME NEW a \in FeedAlerts, AckAlert(a) \/ ResolveAlert(a) PROVE ExactInv'
    <2>1. a \in Live /\ \E live \in BOOLEAN :
              Broadcast(a, [alert |-> a, severity |-> severity[a], live |-> live])
      BY <1>4 DEF AckAlert, ResolveAlert
    <2>2. a \in EverLive'
      BY <2>1, EverGrows DEF EverLive
    <2>3. PICK live \in BOOLEAN :
              Broadcast(a, [alert |-> a, severity |-> severity[a], live |-> live])
      BY <2>1
    <2>4. PICK e : e = [alert |-> a, severity |-> severity[a], live |-> live]
      OBVIOUS
    <2> QED
      BY <2>2, <2>3, <2>4, ExactBroadcast
  <1>5. ASSUME NEW d \in Devices, MarkStale(d) \/ Report(d) PROVE ExactInv'
    <2>1. \/ channel' = channel /\ page' = page /\ reading' = reading
          \/ \E st \in DeviceStatus \ {"silent"} :
                 Broadcast(d, [device |-> d, status |-> st])
      BY <1>5 DEF MarkStale, Report, DeviceStatus
    <2>2. ASSUME NEW st \in DeviceStatus \ {"silent"},
                 Broadcast(d, [device |-> d, status |-> st])
          PROVE  ExactInv'
      <3>1. PICK e : e = [device |-> d, status |-> st]
        OBVIOUS
      <3>2. e \notin AlertEvent
        BY <3>1, ItemsApart DEF DeviceEvent
      <3> QED
        BY <2>2, <3>1, <3>2, ExactBroadcast
    <2> QED
      BY <1>2, <2>1, <2>2
  <1>6. CASE \E d \in Devices : FallSilent(d)
    BY <1>2, <1>6 DEF FallSilent
  <1>7. CASE LoseConnection \/ Resume \/ PollSummary
    BY <1>2, <1>7 DEF LoseConnection, Resume, PollSummary
  <1>8. CASE SummaryArrives \/ SummaryFails
    BY <1>2, <1>8 DEF SummaryArrives, SummaryFails
  <1>9. CASE UNCHANGED dashVars
    BY <1>2, <1>9 DEF dashVars
  <1> QED
    BY <1>3, <1>4, <1>5, <1>6, <1>7, <1>8, <1>9, ExactTaken DEF DashNext

(* What the invariant says of the counters of the card. *)
LEMMA CardHolds == DashInv /\ ExactInv => CardCountsCriticals
  <1> SUFFICES ASSUME DashInv, ExactInv PROVE CardCountsCriticals
    OBVIOUS
  <1>1. PICK C : C = Counted(page, Late, Standing)
    OBVIOUS
  <1>2. /\ IsFiniteSet(C) /\ Cardinality(C) \in Nat /\ page.critical >= Cardinality(C)
        /\ page.critical \in Nat
    <2>1. C \in SUBSET FeedAlerts
      BY <1>1 DEF Counted
    <2> QED
      BY <1>1, <2>1, Sizes DEF DashInv, PageInv, UpToDate, SummaryOK
  <1>3. \A i \in DOMAIN page.latest : page.latest[i] \in AlertRow
    BY ElementOfSeq, LenProperties DEF DashInv, PageInv, SummaryOK, WellListed
  <1>4. CardCoversFeed
    <2>1. PICK P : P = {i \in DOMAIN page.latest : page.latest[i].severity = "critical"}
      OBVIOUS
    <2>2. PICK f : f = [i \in P |-> page.latest[i].id]
      OBVIOUS
    <2>3. ASSUME NEW i \in P PROVE f[i] \in C /\ f[i] = page.latest[i].id
      <3>1. page.latest[i] \in AlertRow /\ page.latest[i].severity = "critical"
        BY <1>3, <2>1
      <3>2. page.latest[i] = [id |-> page.latest[i].id, severity |-> "critical"]
        BY <3>1 DEF AlertRow
      <3>3. page.latest[i] \in Listed(page) /\ page.latest[i].id \in FeedAlerts
        BY <2>1, <3>1 DEF Listed, AlertRow
      <3> QED
        BY <1>1, <2>2, <3>2, <3>3 DEF Counted
    <2>4. f \in [P -> C]
      BY <2>2, <2>3
    <2>5. \A i, j \in P : f[i] = f[j] => i = j
      BY <2>1, <2>3 DEF DashInv, PageInv, SummaryOK, WellListed
    <2>6. f \in Injection(P, C)
      BY <2>4, <2>5 DEF Injection, IsInjective
    <2>7. IsFiniteSet(P) /\ Cardinality(P) <= Cardinality(C)
      BY <1>2, <2>6, FS_Injection
    <2>8. Cardinality(P) \in Nat
      BY <2>7, FS_CardinalityType
    <2> QED
      BY <1>2, <2>1, <2>7, <2>8 DEF CardCoversFeed, ListedCritical
  <1>n. NoneCountedTwice
    <2> SUFFICES ASSUME Cardinality(EverLive) <= LatestMax
                 PROVE  page.critical = ListedCritical
      BY DEF NoneCountedTwice
    <2>1. PICK P : P = {i \in DOMAIN page.latest : page.latest[i].severity = "critical"}
      OBVIOUS
    <2>2. PICK D : D = CritOf(page)
      OBVIOUS
    <2>3. IsFiniteSet(D)
      BY <2>2, Sizes DEF CritOf
    <2>4. PICK f : f = [i \in P |-> page.latest[i].id]
      OBVIOUS
    <2>5. ASSUME NEW i \in P PROVE f[i] \in D /\ f[i] = page.latest[i].id
      <3>1. page.latest[i] \in AlertRow /\ page.latest[i].severity = "critical"
        BY <1>3, <2>1
      <3>2. page.latest[i] = [id |-> page.latest[i].id, severity |-> "critical"]
        BY <3>1 DEF AlertRow
      <3>3. page.latest[i] \in Listed(page) /\ page.latest[i].id \in FeedAlerts
        BY <2>1, <3>1 DEF Listed, AlertRow
      <3> QED
        BY <2>2, <2>4, <3>2, <3>3 DEF CritOf
    <2>6. f \in [P -> D]
      BY <2>4, <2>5
    <2>7. \A i, j \in P : f[i] = f[j] => i = j
      BY <2>1, <2>5 DEF DashInv, PageInv, SummaryOK, WellListed
    <2>8. f \in Injection(P, D)
      BY <2>6, <2>7 DEF Injection, IsInjective
    <2>9. ASSUME NEW a \in D PROVE \E i \in P : f[i] = a
      <3>1. PICK i \in DOMAIN page.latest :
                page.latest[i] = [id |-> a, severity |-> "critical"]
        BY <2>2 DEF CritOf, Listed
      <3>2. page.latest[i].id = a /\ i \in P
        BY <2>1, <3>1
      <3> QED
        BY <2>5, <3>2
    <2>10. f \in Bijection(P, D)
      <3>1. f \in Surjection(P, D)
        BY <2>6, <2>9 DEF Surjection
      <3> QED
        BY <2>8, <3>1 DEF Bijection
    <2>11. IsFiniteSet(P)
      BY <2>3, <2>8, FS_Injection
    <2>12. Cardinality(D) = Cardinality(P)
      BY <2>10, <2>11, FS_Bijection DEF ExistsBijection
    <2>13. page.critical = Cardinality(D)
      BY <2>2 DEF ExactInv, Exact
    <2> QED
      BY <2>1, <2>12, <2>13 DEF ListedCritical
  <1>5. NoCriticalMissed
    <2> SUFFICES ASSUME connected, channel = <<>>, lag \cap FeedAlerts = {}
                 PROVE  page.critical >= CountOf("critical")
      BY DEF NoCriticalMissed
    <2>1. OnWire = {}
      BY DEF OnWire
    <2>2. \A a \in FeedAlerts : a \notin Late
      BY <2>1 DEF Late
    <2>3. PICK T : T = {a \in Live : severity[a] = "critical"}
      OBVIOUS
    <2>4. ASSUME NEW a \in T PROVE a \in C
      <3>1. a \in FeedAlerts /\ Standing[a] = "critical"
        <4>1. \A i \in DOMAIN feed : feed[i] \in FeedAlerts
          BY ElementOfSeq, LenProperties DEF DashInv, FeedInv
        <4> QED
          BY <2>3, <4>1 DEF Standing, Live
      <3>2. CASE \A r \in Listed(page) : r.id # a
        BY <1>1, <2>2, <3>1, <3>2 DEF Counted
      <3>3. CASE \E r \in Listed(page) : r.id = a
        <4>1. PICK r \in Listed(page) : r.id = a
          BY <3>3
        <4>2. r.severity = "critical" /\ r \in AlertRow
          BY <1>3, <2>2, <3>1, <4>1 DEF DashInv, PageInv, UpToDate, Listed
        <4>3. r = [id |-> a, severity |-> "critical"]
          BY <4>1, <4>2 DEF AlertRow
        <4> QED
          BY <1>1, <3>1, <4>1, <4>3 DEF Counted
      <3> QED
        BY <3>2, <3>3
    <2>5. T \in SUBSET C
      BY <2>4
    <2>6. Cardinality(T) <= Cardinality(C) /\ IsFiniteSet(T)
      BY <1>2, <2>5, FS_Subset
    <2>7. CountOf("critical") = Cardinality(T) /\ Cardinality(T) \in Nat
      BY <2>3, <2>6, CountIsOfLive, FS_CardinalityType DEF DashInv, Severities
    <2> QED
      BY <1>2, <2>6, <2>7
  <1>6. ASSUME NEW s, SummaryOK(s), s.critical <= Alike + MaxChanges,
               s.warning <= Alike + MaxChanges
        PROVE  s \in Summary
    <2>1. PICK m \in Nat : m = Len(s.latest) /\ m <= LatestMax
      BY <1>6, LenProperties DEF SummaryOK, WellListed
    <2>2. s.latest \in [1..m -> AlertRow] /\ m \in 0..LatestMax
      BY <1>6, <2>1, Sizes, LenProperties DEF SummaryOK, WellListed
    <2>3. s.latest \in UNION {[1..k -> AlertRow] : k \in 0..LatestMax}
      BY <2>2
    <2>4. /\ s.critical \in 0..(Cardinality(FeedAlerts) + MaxChanges)
          /\ s.warning \in 0..(Cardinality(FeedAlerts) + MaxChanges)
      BY <1>6, Sizes DEF Alike, SummaryOK
    <2> QED
      BY <1>6, <2>3, <2>4 DEF SummaryOK, Summary
  <1>7. page \in Summary
    <2>1. Len(channel) \in Nat /\ changes \in 0..MaxChanges
      BY LenProperties DEF DashInv, WireInv
    <2>2. page.critical \in Nat /\ page.warning \in Nat /\ SummaryOK(page)
      BY DEF DashInv, PageInv, SummaryOK
    <2>3. page.critical <= Alike + MaxChanges /\ page.warning <= Alike + MaxChanges
      BY <2>1, <2>2, Sizes DEF DashInv, PageInv
    <2> QED
      BY <1>6, <2>2, <2>3
  <1>8. \A r \in reading : r.summary \in Summary /\ r.missed \subseteq FeedAlerts \cup Devices
    <2> SUFFICES ASSUME NEW r \in reading
        PROVE  r.summary \in Summary /\ r.missed \subseteq FeedAlerts \cup Devices
      OBVIOUS
    <2>1. /\ SummaryOK(r.summary) /\ r.summary.critical <= Alike
          /\ r.summary.warning <= Alike /\ r.missed \subseteq FeedAlerts \cup Devices
      BY DEF DashInv, ReadInv
    <2>2. r.summary.critical \in Nat /\ r.summary.warning \in Nat
      BY <2>1 DEF SummaryOK
    <2>3. /\ r.summary.critical <= Alike + MaxChanges
          /\ r.summary.warning <= Alike + MaxChanges
      BY <2>1, <2>2, Sizes
    <2> QED
      BY <1>6, <2>1, <2>3
  <1>9. DashboardTypeOK
    <2>1. feed \in SeqOf(FeedAlerts, Cardinality(FeedAlerts)) /\ IsInjective(feed)
      BY FeedSize DEF DashInv, FeedInv, Alike
    <2>2. \A i \in DOMAIN channel : channel[i] \in AlertEvent \cup DeviceEvent
      BY ElementOfSeq, LenProperties DEF DashInv, WireInv
    <2>3. \A i, j \in DOMAIN page.latest :
              i # j => page.latest[i].id # page.latest[j].id
      BY DEF DashInv, PageInv, SummaryOK, WellListed
    <2> QED
      BY <1>7, <1>8, <2>1, <2>2, <2>3 DEF DashboardTypeOK, DashInv, FeedInv, WireInv, PageInv
  <1> QED
    BY <1>4, <1>n, <1>5, <1>9 DEF CardCountsCriticals

(* The alert card of the dashboard never counts fewer critical alerts than its feed
   lists, none fewer than are live once told of every change, and, as long as the feed
   has had room for every alert there has been, exactly those it lists, whatever order
   events, summaries and broken connections come in. *)
THEOREM CardCounts == DashSpec => []CardCountsCriticals
  <1>1. DashSpec => []DashInv
    BY DashStart, DashKept, PTL DEF DashSpec
  <1>2. DashSpec => []ExactInv
    BY <1>1, ExactStart, ExactKept, PTL DEF DashSpec
  <1> QED
    BY <1>1, <1>2, CardHolds, PTL
=============================================================================
