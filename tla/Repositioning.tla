---------------------------- MODULE Repositioning ----------------------------
(***************************************************************************)
(* Poles move; the readers and cameras on them are bound to another zone   *)
(* then.  A unit is an RFID reader or a camera: each has a card with a     *)
(* form of its own on the page, and a history of bindings on the server    *)
(* that says which zone it covered when.  The clock of a request is read   *)
(* before the transaction, or its time comes with it, so requests may be   *)
(* bound out of order.                                                     *)
(***************************************************************************)
EXTENDS Naturals, FiniteSets, Sequences, SequencesExt

CONSTANTS
    Units,        \* readers and cameras
    Zones,        \* bindable zones
    Labels,       \* location labels of the asset the units are on
    LastTime,     \* bound of the clock
    Ahead,        \* how far in the future a client may date a rebind: five minutes
    MaxRebinds    \* bound of the requests

ASSUME RepositioningAssumption ==
    /\ LastTime \in Nat \ {0} /\ Ahead \in Nat /\ MaxRebinds \in Nat

VARIABLES
    bindings,     \* unit -> its rows, as [zone, from, until]
    label,        \* current_location_label of the asset
    time,
    rebinds,      \* requests that are not answered
    asked,        \* number of requests so far
    cards         \* unit -> [zone: shown as current, picked, input: label field]

reposVars == <<bindings, label, time, rebinds, asked, cards>>

NoZone  == "no zone"
Horizon == LastTime + Ahead   \* the latest time a row may begin at
OpenEnd == Horizon + 1        \* bound_until is null
NotRead == 0                 \* the request has not reached the controller

Bound(rows) == {b \in rows : b.until = OpenEnd}

(* resolveZoneAt: the zones of the rows that cover a reading's time; the query
   takes the first it finds. *)
Covering(rows, t) == {b.zone : b \in {x \in rows : x.from <= t /\ t < x.until}}

Row == [zone : Zones, from : 1..Horizon, until : 1..OpenEnd]

Rebind == [unit : Units, zone : Zones, label : Labels, page : BOOLEAN,
           effective : 0..Horizon]

ReposTypeOK ==
    /\ \A u \in Units : bindings[u] \subseteq Row /\ Cardinality(Bound(bindings[u])) <= 1
    /\ label \in Labels
    /\ time \in 1..LastTime
    /\ rebinds \in Seq(Rebind) /\ Len(rebinds) <= asked /\ asked \in 0..MaxRebinds
    /\ cards \in [Units -> [zone : Zones \cup {NoZone}, picked : Zones \cup {NoZone},
                            input : Labels]]

(* The units are on trays, or in zones since time 1. *)
ReposInit ==
    /\ label \in Labels
    /\ time = 1
    /\ rebinds = <<>> /\ asked = 0
    /\ \E at \in [Units -> Zones \cup {NoZone}] :
          /\ bindings = [u \in Units |-> IF at[u] = NoZone THEN {}
                             ELSE {[zone |-> at[u], from |-> 1, until |-> OpenEnd]}]
          /\ cards = [u \in Units |-> [zone |-> at[u], picked |-> NoZone, input |-> label]]

-----------------------------------------------------------------------------
(* The page.                                                               *)

PickZone(u, z) ==
    /\ cards' = [cards EXCEPT ![u].picked = z]
    /\ UNCHANGED <<bindings, label, time, rebinds, asked>>

TypeLabel(u, l) ==
    /\ l # cards[u].input
    /\ cards' = [cards EXCEPT ![u].input = l]
    /\ UNCHANGED <<bindings, label, time, rebinds, asked>>

Ask(u, z, l, page) ==
    /\ asked < MaxRebinds
    /\ asked' = asked + 1
    /\ rebinds' = Append(rebinds, [unit |-> u, zone |-> z, label |-> l, page |-> page,
                                   effective |-> NotRead])
    /\ UNCHANGED <<bindings, label, time, cards>>

(* A form that waits for its answer is shut.  The caution about a gate does not
   stop the button. *)
PressRebind(u) ==
    /\ cards[u].picked # NoZone
    /\ \A i \in DOMAIN rebinds : ~ (rebinds[i].page /\ rebinds[i].unit = u)
    /\ Ask(u, cards[u].picked, cards[u].input, TRUE)

OtherOperator(u, z, l) == Ask(u, z, l, FALSE)

-----------------------------------------------------------------------------
(* The server.                                                             *)

(* effective_at of the request or, where it names none, the clock.  The form of
   the page has no such field; another client may date a rebind back as far as it
   likes, and ahead up to the limit that bind checks. *)
ReadClock(i) ==
    /\ rebinds[i].effective = NotRead
    /\ \/ rebinds' = [rebinds EXCEPT ![i].effective = time]
       \/ /\ ~ rebinds[i].page
          /\ \E at \in 1..(time + Ahead) :
                rebinds' = [rebinds EXCEPT ![i].effective = at]
    /\ UNCHANGED <<bindings, label, time, asked, cards>>

(* Mutant of Follows: the guard on effective_at is dropped. *)
FollowsAnything(u, effective) == TRUE

Follows(u, effective) == \A b \in Bound(bindings[u]) : effective >= b.from

(* Mutant of Moved: the open row is pointed to the new zone. *)
MovedInPlace(rows, zone, effective) ==
    IF Bound(rows) = {} THEN {[zone |-> zone, from |-> effective, until |-> OpenEnd]}
    ELSE (rows \ Bound(rows)) \cup {[b EXCEPT !.zone = zone] : b \in Bound(rows)}

(* bind closes the open row and creates the next. *)
Moved(rows, zone, effective) ==
    (rows \ Bound(rows)) \cup {[b EXCEPT !.until = effective] : b \in Bound(rows)}
      \cup {[zone |-> zone, from |-> effective, until |-> OpenEnd]}

(* The redirect brings the cards anew: their zones, not what their fields and
   selects hold. *)
Answered(i) ==
    /\ rebinds' = RemoveAt(rebinds, i)
    /\ cards' = IF rebinds[i].page
                THEN [u \in Units |-> [cards[u] EXCEPT !.zone =
                        LET open == Bound(bindings'[u])
                        IN  IF open = {} THEN NoZone ELSE (CHOOSE b \in open : TRUE).zone]]
                ELSE cards

BindUnit(i) ==
    LET r == rebinds[i] IN
    /\ r.effective # NotRead
    /\ IF Follows(r.unit, r.effective)
       THEN /\ bindings' = [bindings EXCEPT ![r.unit] = Moved(@, r.zone, r.effective)]
            /\ label' = r.label
       ELSE UNCHANGED <<bindings, label>>
    /\ Answered(i)
    /\ UNCHANGED <<time, asked>>

(* The zone was deactivated since the page listed it. *)
RefuseZone(i) ==
    /\ rebinds[i].effective # NotRead
    /\ UNCHANGED <<bindings, label, time, asked>>
    /\ Answered(i)

ClockTicks ==
    /\ time < LastTime
    /\ time' = time + 1
    /\ UNCHANGED <<bindings, label, rebinds, asked, cards>>

ReposNext ==
    \/ \E u \in Units : \/ \E z \in Zones \cup {NoZone} : PickZone(u, z)
                        \/ \E l \in Labels : TypeLabel(u, l)
                        \/ PressRebind(u)
                        \/ \E z \in Zones, l \in Labels : OtherOperator(u, z, l)
    \/ \E i \in DOMAIN rebinds : ReadClock(i) \/ BindUnit(i) \/ RefuseZone(i)
    \/ ClockTicks

ReposSpec == ReposInit /\ [][ReposNext]_reposVars

-----------------------------------------------------------------------------
(* Properties.                                                             *)

(* Doc 06, "Exactly one binding is open (current) per reader at a time": also
   when requests overtake each other, a reading of any time since the unit was
   first bound falls in one zone and no more. *)
OneZoneAtATime ==
    \A u \in Units : \A t \in 1..Horizon :
       (\E b \in bindings[u] : b.from <= t) => Cardinality(Covering(bindings[u], t)) = 1

(* Doc 06, "history stays correct forever": a rebind leaves the zone of every
   earlier time as it was, for readings that arrive late. *)
PastStands ==
    [][\A u \in Units : \A i \in DOMAIN rebinds :
          rebinds' = RemoveAt(rebinds, i) /\ rebinds[i].unit = u
          => \A t \in 1..Horizon : t < rebinds[i].effective =>
                Covering(bindings'[u], t) = Covering(bindings[u], t)]_reposVars

(* Every reading falls in one zone, then and later. *)
HistoryStands == [](ReposTypeOK /\ OneZoneAtATime) /\ PastStands
=============================================================================
