--------------------------- MODULE EquipmentCustody ---------------------------
(***************************************************************************)
(* Equipment and who has it: the status of an item, its checkouts, and the *)
(* three pages that issue and take back items (the page of an item, the    *)
(* list of checkouts, and the scan of a label, which decides by the state  *)
(* of the item which of the two dialogs it opens).  A checkout runs in a   *)
(* transaction that locks the item.  What changes the status of an item    *)
(* does not: it works on the row that the request loaded, and saves the    *)
(* status when it differs from the one loaded.  The desk is the page       *)
(* followed; Other stands for the other desks and the phones.              *)
(***************************************************************************)
EXTENDS Naturals, Sequences, FiniteSets

CONSTANTS
    Items,      \* the equipment
    MaxRows,    \* bound of the checkouts
    MaxCalls    \* bound of the requests that change a status

(* "none" is what a page without an item shows. *)
ASSUME CustodyAssumption == MaxRows \in Nat /\ MaxCalls \in Nat /\ "none" \notin Items

VARIABLES
    status,     \* item -> its status
    checkouts,  \* the checkouts ever made, [item, open]
    lock,       \* item -> who holds its row
    tx,         \* the request of the desk's dialogs, and one of another client
    writing,    \* requests that change a status: what they loaded and will save
    writesMade, \* how many of those there were
    place,      \* the page of the desk
    known,      \* the item a dialog is about, as the page has it
    outOpen,    \* the checkout dialog is open
    retOpen,    \* the return dialog is open
    outFields,  \* the item the fields of the checkout dialog were filled for
    retFields,  \* the checkout those of the return dialog were filled for
    lookups     \* the labels being looked up

serverVars == <<status, checkouts, lock, writing, writesMade>>
pageVars == <<place, known, outOpen, retOpen, outFields, retFields, lookups>>
custodyVars == <<serverVars, tx, pageVars>>

(* out_of_service and under_maintenance are one: nothing tells them apart. *)
ItemStatus == {"in_service", "unavailable", "retired"}
Places == {"show", "checkouts", "scan"}
Clients == {"desk", "other"}
NoItem == [item |-> "none", open |-> 0]
NoRequest == [kind |-> "none"]
Blank == "blank"     \* of the checkout dialog; 0 of the return dialog

CheckoutIds == DOMAIN checkouts
OpenRow(i) == {r \in CheckoutIds : checkouts[r].item = i /\ checkouts[r].open}
OpenCheckout(i) == IF OpenRow(i) = {} THEN 0 ELSE CHOOSE r \in OpenRow(i) : TRUE

(* EquipmentResource, and the props of the page of an item. *)
Snapshot(i) == [item |-> i, open |-> OpenCheckout(i)]

-----------------------------------------------------------------------------
(* The status.                                                             *)

(* What the tabs of the page write: the profile any status, an inspection
   that fails, corrective maintenance with and without a return to service,
   and the button of the header. *)
ProfileWrites     == ItemStatus
InspectionWrites  == {"unavailable"}
MaintenanceWrites == {"unavailable", "in_service"}
RetireWrites      == {"retired"}
Writes == ProfileWrites \cup InspectionWrites \cup MaintenanceWrites \cup RetireWrites

(* The request loads the item; one that finds it retired is refused. *)
LoadItem(i, to) ==
    /\ writesMade < MaxCalls /\ writesMade' = writesMade + 1
    /\ status[i] # "retired"
    /\ writing' = writing \cup {[id |-> writesMade', item |-> i, loaded |-> status[i], to |-> to,
                             checked |-> to # "retired"]}
    /\ UNCHANGED <<status, checkouts, lock, tx, pageVars>>

(* retire: an item that is out is refused. *)
CheckReturned(c) ==
    /\ ~c.checked
    /\ writing' = (writing \ {c}) \cup (IF OpenCheckout(c.item) = 0
                                    THEN {[c EXCEPT !.checked = TRUE]} ELSE {})
    /\ UNCHANGED <<status, checkouts, lock, writesMade, tx, pageVars>>

(* save writes the columns that differ from the row loaded, and waits for a
   transaction that holds the row. *)
SaveItem(c) ==
    /\ c.checked /\ lock[c.item] = "free"
    /\ status' = IF c.to # c.loaded THEN [status EXCEPT ![c.item] = c.to] ELSE status
    /\ writing' = writing \ {c}
    /\ UNCHANGED <<checkouts, lock, writesMade, tx, pageVars>>

-----------------------------------------------------------------------------
(* Checkout and return on the server.                                      *)

(* A request for t is at hand: the one the desk posted, or any of the other
   client, which is taken up as it arrives. *)
IsPosted(w, kind, t) ==
    \/ /\ w = "desk" /\ tx[w].kind = kind
       /\ tx[w].target = t /\ tx[w].stage = "posted"
    \/ /\ w = "other" /\ tx[w] = NoRequest
       /\ kind = "checkout" => Len(checkouts) < MaxRows

(* The desk waits for its answer; what the other client does with its own is
   left out. *)
StageTx(w, i, s) ==
    tx' = CASE w = "desk" -> [tx EXCEPT ![w].stage = s]
            [] w = "other" /\ s = "checked" ->
                 [tx EXCEPT ![w] = [kind |-> "checkout", target |-> i, about |-> i, stage |-> s]]
            [] OTHER -> [tx EXCEPT ![w] = NoRequest]

(* Mutant of LockItem: the row is read before it is locked. *)
LockItemLate(w, i) ==
    /\ IsPosted(w, "checkout", i)
    /\ StageTx(w, i, IF status[i] = "in_service" /\ OpenCheckout(i) = 0
                     THEN "checked" ELSE "refused")
    /\ UNCHANGED <<serverVars, pageVars>>

(* checkout: the item is locked, read again, and must be in service and in. *)
LockItem(w, i) ==
    /\ IsPosted(w, "checkout", i) /\ lock[i] = "free"
    /\ IF status[i] = "in_service" /\ OpenCheckout(i) = 0
       THEN StageTx(w, i, "checked") /\ lock' = [lock EXCEPT ![i] = w]
       ELSE StageTx(w, i, "refused") /\ lock' = lock
    /\ UNCHANGED <<status, checkouts, writing, writesMade, pageVars>>

InsertRow(w) ==
    /\ tx[w].kind = "checkout" /\ tx[w].stage = "checked"
    /\ checkouts' = Append(checkouts, [item |-> tx[w].target, open |-> TRUE])
    /\ lock' = [lock EXCEPT ![tx[w].target] = "free"]
    /\ StageTx(w, tx[w].target, "done")
    /\ UNCHANGED <<status, writing, writesMade, pageVars>>

(* Mutant of ReturnRow: the open checkout of the item is returned. *)
ReturnRowOfItem(w, r) ==
    /\ IsPosted(w, "return", r)
    /\ LET open == OpenCheckout(checkouts[r].item)
       IN  /\ StageTx(w, checkouts[r].item, IF open # 0 THEN "done" ELSE "refused")
           /\ checkouts' = IF open # 0 THEN [checkouts EXCEPT ![open].open = FALSE]
                           ELSE checkouts
    /\ UNCHANGED <<status, lock, writing, writesMade, pageVars>>

(* returnCheckout: the checkout is locked, and must not be returned yet. *)
ReturnRow(w, r) ==
    /\ IsPosted(w, "return", r)
    /\ StageTx(w, checkouts[r].item, IF checkouts[r].open THEN "done" ELSE "refused")
    /\ checkouts' = [checkouts EXCEPT ![r].open = FALSE]
    /\ UNCHANGED <<status, lock, writing, writesMade, pageVars>>

-----------------------------------------------------------------------------
(* The dialogs.                                                            *)

OutTarget(k) == k.item
RetTarget(k) == k.open

(* Mutant of Cleared: only opening a dialog clears its fields. *)
ClearedOnOpen(open, target, open2, target2) == open2 /\ ~open

(* The effect of the dialogs, on [open, uuid]: the fields are cleared when the
   dialog opens, and when it is open and about something else. *)
Cleared(open, target, open2, target2) ==
    open2 /\ (~open \/ target # target2)

(* The page after a render with this item and these dialogs. *)
Render(k, o, r) ==
    /\ known' = k /\ outOpen' = o /\ retOpen' = r
    /\ outFields' = IF Cleared(outOpen, OutTarget(known), o, OutTarget(k))
                    THEN Blank ELSE outFields
    /\ retFields' = IF Cleared(retOpen, RetTarget(known), r, RetTarget(k))
                    THEN 0 ELSE retFields

(* The page of an item shows a button by the props it has. *)
PressCheckOut ==
    /\ place = "show" /\ known.open = 0 /\ ~outOpen /\ ~retOpen
    /\ Render(known, TRUE, FALSE)
    /\ UNCHANGED <<serverVars, tx, place, lookups>>

PressReturn ==
    /\ place = "show" /\ known.open # 0 /\ ~outOpen /\ ~retOpen
    /\ Render(known, FALSE, TRUE)
    /\ UNCHANGED <<serverVars, tx, place, lookups>>

(* Another form of that page was answered: its props are read again. *)
Revisit ==
    /\ place = "show" /\ known # Snapshot(known.item)
    /\ Render(Snapshot(known.item), outOpen, retOpen)
    /\ UNCHANGED <<serverVars, tx, place, lookups>>

(* The list of checkouts: any row that was open when the list was read. *)
PickRow(r) ==
    /\ place = "checkouts" /\ ~retOpen
    /\ Render([item |-> checkouts[r].item, open |-> r], FALSE, TRUE)
    /\ UNCHANGED <<serverVars, tx, place, lookups>>

(* handleToken: the camera keeps looking while a label typed in is looked up,
   so the answers of two labels may cross. *)
Scan(i) ==
    /\ place = "scan" /\ ~outOpen /\ ~retOpen /\ i \notin lookups
    /\ lookups' = lookups \cup {i}
    /\ Render(NoItem, outOpen, retOpen)
    /\ UNCHANGED <<serverVars, tx, place>>

LookedUp(i) ==
    /\ i \in lookups
    /\ lookups' = lookups \ {i}
    /\ Render(Snapshot(i), outOpen \/ OpenCheckout(i) = 0, retOpen \/ OpenCheckout(i) # 0)
    /\ UNCHANGED <<serverVars, tx, place>>

LookupFails(i) ==
    /\ i \in lookups
    /\ lookups' = lookups \ {i}
    /\ UNCHANGED <<serverVars, tx, place, known, outOpen, retOpen, outFields, retFields>>

(* The scan and the list forget the item with the dialog. *)
Left == IF place = "show" THEN known ELSE NoItem

Dismiss ==
    /\ outOpen \/ retOpen
    /\ \/ outOpen /\ Render(Left, FALSE, retOpen)
       \/ retOpen /\ Render(Left, outOpen, FALSE)
    /\ UNCHANGED <<serverVars, tx, place, lookups>>

FillOut ==
    /\ outOpen /\ known # NoItem
    /\ outFields' = known.item
    /\ UNCHANGED <<serverVars, tx, place, known, outOpen, retOpen, retFields, lookups>>

FillReturn ==
    /\ retOpen /\ known.open # 0
    /\ retFields' = known.open
    /\ UNCHANGED <<serverVars, tx, place, known, outOpen, retOpen, outFields, lookups>>

(* submit: a worker must be chosen; the button is off while a post runs. *)
SubmitOut ==
    /\ outOpen /\ known # NoItem /\ outFields # Blank
    /\ tx["desk"] = NoRequest /\ Len(checkouts) < MaxRows
    /\ tx' = [tx EXCEPT !["desk"] = [kind |-> "checkout", target |-> known.item,
                                     about |-> outFields, stage |-> "posted"]]
    /\ UNCHANGED <<serverVars, pageVars>>

SubmitReturn ==
    /\ retOpen /\ known.open # 0 /\ tx["desk"] = NoRequest
    /\ tx' = [tx EXCEPT !["desk"] = [kind |-> "return", target |-> known.open,
                                     about |-> retFields, stage |-> "posted"]]
    /\ UNCHANGED <<serverVars, pageVars>>

(* A request that was accepted closes its dialog and clears its fields; the
   page of an item is sent again either way. *)
RequestAnswered ==
    /\ tx["desk"].kind # "none" /\ tx["desk"].stage \in {"done", "refused"}
    /\ tx' = [tx EXCEPT !["desk"] = NoRequest]
    /\ LET out == tx["desk"].kind = "checkout"
           done == tx["desk"].stage = "done"
           k == IF place = "show" THEN Snapshot(known.item)
                ELSE IF done THEN NoItem ELSE known
       IN  IF done
           THEN /\ known' = k
                /\ outOpen' = (outOpen /\ ~out) /\ retOpen' = (retOpen /\ out)
                /\ outFields' = Blank /\ retFields' = 0
           ELSE Render(k, outOpen, retOpen)
    /\ UNCHANGED <<serverVars, place, lookups>>

-----------------------------------------------------------------------------
CustodyInit ==
    /\ status = [i \in Items |-> "in_service"]
    /\ checkouts = <<>> /\ lock = [i \in Items |-> "free"]
    /\ tx = [w \in Clients |-> NoRequest]
    /\ writing = {} /\ writesMade = 0
    /\ place \in Places
    /\ known \in IF place = "show" THEN {Snapshot(i) : i \in Items} ELSE {NoItem}
    /\ outOpen = FALSE /\ retOpen = FALSE
    /\ outFields = Blank /\ retFields = 0
    /\ lookups = {}

CustodyNext ==
    \/ \E i \in Items : (\E to \in Writes : LoadItem(i, to))
                        \/ Scan(i) \/ LookedUp(i) \/ LookupFails(i)
    \/ \E c \in writing : CheckReturned(c) \/ SaveItem(c)
    \/ \E w \in Clients : \/ InsertRow(w)
                          \/ \E i \in Items : LockItem(w, i)
                          \/ \E r \in CheckoutIds : ReturnRow(w, r)
    \/ PressCheckOut \/ PressReturn \/ Revisit \/ Dismiss
    \/ \E r \in CheckoutIds : PickRow(r)
    \/ FillOut \/ FillReturn \/ SubmitOut \/ SubmitReturn \/ RequestAnswered

CustodySpec == CustodyInit /\ [][CustodyNext]_custodyVars

-----------------------------------------------------------------------------
(* Properties.                                                             *)

CustodyRequest ==
    {NoRequest}
    \cup [kind : {"checkout"}, target : Items, about : Items,
          stage : {"posted", "checked", "done", "refused"}]
    \cup [kind : {"return"}, target : 1..(MaxRows + 1), about : 0..(MaxRows + 1),
          stage : {"posted", "done", "refused"}]

(* Every variable has its type, the page of an item is about an item, and a
   dialog is open only on its page. *)
CustodyTypeOK ==
    /\ status \in [Items -> ItemStatus]
    /\ checkouts \in Seq([item : Items, open : BOOLEAN]) /\ Len(checkouts) <= MaxRows + 1
    /\ lock \in [Items -> {"free"} \cup Clients]
    /\ tx \in [Clients -> CustodyRequest]
    /\ writing \subseteq [id : 1..MaxCalls, item : Items, loaded : ItemStatus, to : ItemStatus,
                        checked : BOOLEAN]
    /\ writesMade \in 0..MaxCalls
    /\ place \in Places
    /\ known = NoItem \/ known \in [item : Items, open : 0..(MaxRows + 1)]
    /\ outOpen \in BOOLEAN /\ retOpen \in BOOLEAN
    /\ place = "show" => known # NoItem /\ ~(outOpen /\ retOpen)
    /\ place = "checkouts" => ~outOpen
    /\ outFields \in Items \cup {Blank} /\ retFields \in 0..(MaxRows + 1)
    /\ lookups \subseteq Items

(* Doc 13: "At most one open checkout per equipment_id", whichever desks and
   phones issue the item at the same moment. *)
OneOpenCheckout == \A i \in Items : Cardinality(OpenRow(i)) <= 1

(* What was filled in for one item is never posted for another: not when the
   scan of a second label, or the answer of another form, changes what the
   open dialog is about. *)
FieldsForShown ==
    /\ outOpen /\ outFields # Blank => outFields = known.item
    /\ retOpen /\ retFields # 0 => retFields = known.open
    /\ tx["desk"].kind = "checkout" => tx["desk"].about = tx["desk"].target
    /\ tx["desk"].kind = "return" => tx["desk"].about \in {0, tx["desk"].target}

(* A return closes the checkout that the dialog named, even when the item was
   returned and issued to somebody else since. *)
ReturnsWhatWasShown ==
    [][\A r \in CheckoutIds :
          /\ tx["desk"].kind = "return" /\ tx'["desk"] # tx["desk"]
          /\ checkouts[r].open /\ ~checkouts'[r].open
          => r = tx["desk"].target]_custodyVars

(* An item is issued only while it is in service: no request that changes its
   status comes between the check and the checkout. *)
IssuedInService ==
    [][Len(checkouts') > Len(checkouts) =>
          status'[checkouts'[Len(checkouts')].item] = "in_service"]_custodyVars

(* An item is out to one worker at a time, issued while it is in service, and
   what the desk filled in for an item or a checkout is written to that one. *)
CustodyKept ==
    /\ [](CustodyTypeOK /\ OneOpenCheckout /\ FieldsForShown)
    /\ ReturnsWhatWasShown
    /\ IssuedInService
=============================================================================
