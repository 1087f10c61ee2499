------------------------------- MODULE RedZones -------------------------------
(***************************************************************************)
(* Red Zones of one camera: the editor (camera-rois/edit.tsx, the canvas), *)
(* the set kept by CameraRoiService, the camera head other users turn from *)
(* the live wall, and the AI device that pulls the zones or is sent them.  *)
(*                                                                         *)
(* A zone is its name (its reference is made of the name) and whether it   *)
(* is on; its points are data once there are three of them, which the      *)
(* editor sees to.                                                         *)
(***************************************************************************)
EXTENDS Naturals, Sequences, SequencesExt

CONSTANTS
    MaxZones,   \* bound of the zones on the page
    MaxMoves,   \* bound of the moves of the head and changes of the stream
    MaxPosts    \* bound of the requests of the editor

ASSUME ZonesAssumption ==
    MaxZones \in Nat \ {0} /\ MaxMoves \in Nat /\ MaxPosts \in Nat

VARIABLES
    set,         \* the set as committed: status, zones, fingerprint, published
    view,        \* what the camera looks at: stream and ptz_generation
    turned,      \* moves whose markStale has not loaded the set yet
    marking,     \* markStales that loaded it and still write
    txn,         \* the transaction of the request: stage and what it loaded
    edge,        \* the zones the AI device uses
    zones,       \* rois of the page
    points,      \* draftPoints
    selected,    \* activeIndex, 0 for none
    shown,       \* the status in the props of the page
    request,     \* the request of the editor being served
    edited,      \* the user changed the zones since the props came
    posts

zonesVars == <<set, view, turned, marking, txn, edge, zones, points, selected,
               shown, request, edited, posts>>

Views == 0..MaxMoves
Zone == [name : 1..MaxZones, on : BOOLEAN]
ZoneSeq == SeqOf(Zone, MaxZones)
SetStatus == {"none", "draft", "active", "stale"}
NoTxn == [stage |-> "none"]
NoRequest == [kind |-> "none"]

RedZonesTypeOK ==
    /\ set.status \in SetStatus /\ set.zones \in ZoneSeq
    /\ set.fingerprint \in Views /\ set.published \in BOOLEAN
    /\ view \in Views /\ turned \in 0..MaxMoves /\ marking \in 0..MaxMoves
    /\ txn.stage \in {"none", "loaded", "written"}
    /\ txn.stage # "none" => txn.status \in SetStatus /\ txn.fingerprint \in Views
    /\ edge \in [DOMAIN edge -> Zone] /\ DOMAIN edge \subseteq 1..MaxZones
    /\ zones \in ZoneSeq
    /\ points \in 0..3 /\ selected \in 0..Len(zones)
    /\ shown \in SetStatus
    /\ request.kind \in {"none", "save", "publish", "stale"}
    /\ edited \in BOOLEAN /\ posts \in 0..MaxPosts

(* The zones that are on, each at its place among all. *)
On(s) == [i \in {j \in DOMAIN s : s[j].on} |-> s[i]]

UniqueNamesUnchecked(s) == TRUE

(* normalizeRois: references are unique per camera.                        *)
UniqueNames(s) == \A i, j \in DOMAIN s : s[i].name = s[j].name => i = j

(* clampIndex, 0 for null.                                                 *)
Clamp(i, n) == IF i > n THEN n ELSE i

ZonesInit ==
    /\ set = [status |-> "none", zones |-> <<>>, fingerprint |-> 0,
              published |-> FALSE]
    /\ view = 0 /\ turned = 0 /\ marking = 0 /\ txn = NoTxn /\ edge = <<>>
    /\ zones = <<>> /\ points = 0 /\ selected = 0 /\ shown = "none"
    /\ request = NoRequest /\ edited = FALSE /\ posts = 0

-----------------------------------------------------------------------------
(* The editor.                                                             *)

editorOnly == <<set, view, turned, marking, txn, edge, shown, request, posts>>

ClickCanvas ==
    /\ points < 3
    /\ points' = points + 1 /\ selected' = 0
    /\ UNCHANGED <<editorOnly, zones, edited>>

UndoPoint ==
    /\ points > 0
    /\ points' \in {points - 1, 0}
    /\ UNCHANGED <<editorOnly, zones, selected, edited>>

FinishDraft ==
    /\ points >= 3 /\ Len(zones) < MaxZones
    /\ zones' = Append(zones, [name |-> Len(zones) + 1, on |-> TRUE])
    /\ points' = 0 /\ selected' = Len(zones) + 1 /\ edited' = TRUE
    /\ UNCHANGED editorOnly

SelectZone(i) ==
    /\ points = 0 /\ i # selected
    /\ selected' = i
    /\ UNCHANGED <<editorOnly, zones, points, edited>>

SwitchZone ==
    /\ selected > 0 /\ points = 0
    /\ zones' = [zones EXCEPT ![selected].on = ~@]
    /\ edited' = TRUE
    /\ UNCHANGED <<editorOnly, points, selected>>

RemoveZone ==
    /\ selected > 0 /\ points = 0
    /\ zones' = RemoveAt(zones, selected)
    /\ selected' = Clamp(selected, Len(zones) - 1) /\ edited' = TRUE
    /\ UNCHANGED <<editorOnly, points>>

Post(kind) ==
    /\ request = NoRequest /\ posts < MaxPosts
    /\ posts' = posts + 1
    /\ request' = [kind |-> kind, zones |-> zones]
    /\ UNCHANGED <<set, view, turned, marking, txn, edge, zones, points,
                   selected, shown, edited>>

SaveDraft == zones # <<>> /\ Post("save")
PublishZones == points = 0 /\ On(zones) # <<>> /\ Post("publish")
MarkStaleByHand == shown = "active" /\ points = 0 /\ Post("stale")

(* The redirect brings the props of the set; a set without zones is the    *)
(* constant EMPTY_ROIS, which replaces nothing.                            *)
PropsComeKept(s) ==
    /\ shown' = s.status /\ UNCHANGED <<zones, selected>>
    /\ edited' = FALSE

PropsCome(s) ==
    /\ shown' = s.status
    /\ IF s.zones = <<>>
       THEN UNCHANGED <<zones, selected, edited>>
       ELSE /\ zones' = s.zones /\ edited' = FALSE
            /\ selected' = Clamp(selected, Len(s.zones))

Answered(s) ==
    /\ set' = s /\ PropsCome(s) /\ request' = NoRequest
    /\ UNCHANGED <<view, turned, marking, points, posts>>

-----------------------------------------------------------------------------
(* CameraRoiService.                                                       *)

pageOnly == <<zones, points, selected, shown, request, edited, posts>>

(* saveDraft and publish load the set, and publish the camera, in one      *)
(* snapshot.                                                               *)
Loads ==
    /\ request.kind \in {"save", "publish"} /\ txn = NoTxn
    /\ IF UniqueNames(request.zones)
       THEN /\ txn' = [stage |-> "loaded", status |-> set.status,
                       fingerprint |-> view]
            /\ UNCHANGED <<set, view, turned, marking, pageOnly>>
       ELSE Answered(set) /\ UNCHANGED txn
    /\ UNCHANGED edge

(* Eloquent writes a status that differs from the one loaded, and leaves   *)
(* the column as it is otherwise.                                          *)
Written(status) == IF status = txn.status THEN set.status ELSE status

SavedStatusDraft(status) == "draft"

(* saveDraft keeps a set it loaded stale stale.                            *)
SavedStatus(status) == IF status \in {"none", "active"} THEN "draft" ELSE status

(* The first row inserted locks the row of the set until the commit.       *)
SaveWrites ==
    /\ request.kind = "save" /\ txn.stage = "loaded"
    /\ Answered([set EXCEPT !.zones = request.zones,
                            !.status = Written(SavedStatus(txn.status))])
    /\ txn' = NoTxn
    /\ UNCHANGED edge

(* publish: the set is written and locked, the AI device sent the zones of *)
(* an active set, and the transaction committed.                           *)
PublishWrites ==
    /\ request.kind = "publish" /\ txn.stage = "loaded"
    /\ txn' = [txn EXCEPT !.stage = "written"]
    /\ edge' \in {edge, IF Written("active") = "active" THEN On(request.zones) ELSE <<>>}
    /\ UNCHANGED <<set, view, turned, marking, pageOnly>>

PublishCommits ==
    /\ txn.stage = "written"
    /\ Answered([status |-> Written("active"), zones |-> request.zones,
                 fingerprint |-> txn.fingerprint, published |-> TRUE])
    /\ txn' = NoTxn
    /\ UNCHANGED edge

(* markStale by hand.  The transactions of the editor are not under way    *)
(* then, so that its load and its write are one step.                      *)
StaleHandled ==
    /\ request.kind = "stale"
    /\ Answered(IF set.published THEN [set EXCEPT !.status = "stale"] ELSE set)
    /\ UNCHANGED <<txn, edge>>

(* A move of the head, or another stream, is saved with the camera first;  *)
(* the set is marked after it.                                             *)
TurnCamera ==
    /\ view < MaxMoves
    /\ view' = view + 1 /\ turned' = turned + 1
    /\ UNCHANGED <<set, marking, txn, edge, pageOnly>>

(* markStale: a set never published has nothing to invalidate, and of a    *)
(* set loaded stale the status is not written.                             *)
MarkLoads ==
    /\ turned > 0
    /\ turned' = turned - 1
    /\ marking' = IF set.published /\ set.status # "stale" THEN marking + 1 ELSE marking
    /\ UNCHANGED <<set, view, txn, edge, pageOnly>>

(* The write waits for a transaction that wrote the set.                   *)
MarkWrites ==
    /\ marking > 0 /\ txn.stage # "written"
    /\ marking' = marking - 1
    /\ set' = [set EXCEPT !.status = "stale"]
    /\ UNCHANGED <<view, turned, txn, edge, pageOnly>>

(* GET camera-rois: the AI device gets the zones of an active set only.    *)
EdgePulls ==
    /\ edge' = IF set.status = "active" THEN On(set.zones) ELSE <<>>
    /\ edge' # edge
    /\ UNCHANGED <<set, view, turned, marking, txn, pageOnly>>

ZonesNext ==
    \/ ClickCanvas \/ UndoPoint \/ FinishDraft \/ SwitchZone \/ RemoveZone
    \/ \E i \in DOMAIN zones : SelectZone(i)
    \/ SaveDraft \/ PublishZones \/ MarkStaleByHand
    \/ Loads \/ SaveWrites \/ StaleHandled
    \/ PublishWrites \/ PublishCommits
    \/ TurnCamera \/ MarkLoads \/ MarkWrites \/ EdgePulls

ZonesSpec == ZonesInit /\ [][ZonesNext]_zonesVars

-----------------------------------------------------------------------------
(* A stale set stops being stale only by a publication, or by a save that  *)
(* had loaded it active before it was marked and makes it a draft          *)
(* (CameraRoiService::saveDraft, the notice of camera-rois/edit.tsx).      *)
StaleUntilPublished ==
    [][set.status = "stale" /\ set'.status # "stale"
         => \/ request.kind = "publish" /\ set'.status = "active"
            \/ request.kind = "save" /\ txn.status = "active" /\ set'.status = "draft"]_set

(* A reference names one zone, in the set and on the AI device, whatever   *)
(* names the editor gives to zones drawn after others were removed.        *)
ZonesUnambiguous ==
    \A s \in {set.zones, edge} :
        \A i, j \in DOMAIN s : s[i].name = s[j].name => i = j

(* A page nobody edited since its props came shows the zones of the set.   *)
ShownIsStored == ~edited => zones = set.zones

(* The zones of a camera are those that were published, one by one, and the *)
(* editor shows them; a stale set waits for a publication, a save under    *)
(* way when it was marked excepted.                                        *)
ZonesAsPublished ==
    /\ [](RedZonesTypeOK /\ ZonesUnambiguous /\ ShownIsStored)
    /\ StaleUntilPublished
=============================================================================
