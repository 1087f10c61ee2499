------------------------------ MODULE GasAlarms -------------------------------
(***************************************************************************)
(* From a live gas reading to the alarm, the alert and the permits of the  *)
(* zone: GasMonitoringService.evaluate with AlertService.raise and resolve *)
(* and PermitService.suspend, one database statement per step, next to the *)
(* users who acknowledge and resolve alerts and the permits that are       *)
(* issued, resumed and ended meanwhile.                                    *)
(*                                                                         *)
(* One gas channel; the detectors are bound to the zone of the permits.  A *)
(* reading is the band it falls in: at or over the alarm level, at or over *)
(* the warning level, near (under the warning level and not under the      *)
(* clear line) or clear, so a change of the thresholds is a change of      *)
(* band.  Backfilled readings are not evaluated.  What AlertService bumps  *)
(* on a live alert (occurrences, raised_at, title) is left out, and so is  *)
(* the acknowledgement that acknowledgeAlarm writes on the alarm itself.   *)
(***************************************************************************)
EXTENDS Naturals, FiniteSets

CONSTANTS
    Detectors,
    Workers,      \* PHP workers that serve ingest requests
    Users,        \* users on the alert pages
    Permits,      \* permits of the zone, by id
    AlarmIds,     \* bound on the rows of gas_alarms
    AlertIds,     \* bound on the rows of alerts
    None,         \* no detector
    MaxReadings,  \* bound on the readings
    MaxDeaths,    \* bound on the deaths of workers
    MaxActs       \* bound on what users do

ASSUME GasAssumption ==
    /\ Permits \subseteq Nat /\ AlarmIds \subseteq Nat /\ AlertIds \subseteq Nat \ {0}
    /\ None \notin Detectors
    /\ MaxReadings \in Nat /\ MaxDeaths \in Nat /\ MaxActs \in Nat

VARIABLES
    alarms,      \* table gas_alarms
    alerts,      \* table alerts
    clean,       \* cache: consecutive clear readings of a detector
    permit,      \* status of the permits
    req,         \* the reading each worker evaluates
    user,        \* the alert each user acts on, as it was loaded
    exposed,     \* history: permits in force when an alarm opened, and still
    spared,      \* history: permits that an aborted request did not get to, and
                 \* no alarm opened since
    silenced,    \* history: alerts that a user resolved
    streak,      \* history: clear readings of a detector in a row, up to 2
    kept,        \* history: detectors whose counter an aborted request kept
    overtaken,   \* history: requests about to open an alarm, while another
                 \* opened one of their level after they had looked for one
    doubled,     \* history: detectors that had two requests served at once
    readings, deaths, acts

tables  == <<alarms, alerts, clean, permit>>
history == <<exposed, spared, silenced, streak, kept, overtaken, doubled>>
vars    == <<tables, req, user, history, readings, deaths, acts>>

Level == {"warning", "alarm"}
Band  == Level \cup {"near", "clear"}

Alarm  == [st : {"none", "open", "resolved"}, det : Detectors \cup {None},
           level : Level, alert : AlertIds \cup {0}]
Alert  == [st : {"none", "open", "acknowledged", "resolved"}, det : Detectors \cup {None},
           level : Level]
Status == {"waiting", "active", "suspended", "over"}

NoAlarm == [st |-> "none", det |-> None, level |-> "warning", alert |-> 0]
NoAlert == [st |-> "none", det |-> None, level |-> "warning"]

\* list and todo are what is left of the alarms and permits a loop loaded.
Request == [pc : {"idle", "cross", "escalate", "cool", "count", "put", "resolve", "find",
                  "hush", "raise", "create", "open", "list", "suspend", "forget"},
            det : Detectors \cup {None}, band : Band, list : SUBSET AlarmIds,
            alert : AlertIds \cup {0}, todo : SUBSET Permits, count : 0..2]
Free    == [pc |-> "idle", det |-> None, band |-> "clear", list |-> {}, alert |-> 0,
            todo |-> {}, count |-> 0]
Visit   == [alert : AlertIds \cup {0}, seen : {"none", "open", "acknowledged", "resolved"},
            does : {"acknowledge", "resolve"}]
Away    == [alert |-> 0, seen |-> "none", does |-> "acknowledge"]

TypeOK ==
    /\ alarms \in [AlarmIds -> Alarm] /\ alerts \in [AlertIds -> Alert]
    /\ clean \in [Detectors -> 0..2]
    /\ permit \in [Permits -> Status]
    /\ req \in [Workers -> Request] /\ user \in [Users -> Visit]
    /\ exposed \subseteq Permits /\ spared \subseteq Permits
    /\ silenced \subseteq AlertIds
    /\ streak \in [Detectors -> 0..2] /\ kept \subseteq Detectors
    /\ overtaken \subseteq Workers /\ doubled \subseteq Detectors
    /\ readings \in 0..MaxReadings /\ deaths \in 0..MaxDeaths /\ acts \in 0..MaxActs

Init ==
    /\ alarms = [i \in AlarmIds |-> NoAlarm]
    /\ alerts = [a \in AlertIds |-> NoAlert]
    /\ clean = [d \in Detectors |-> 0]
    /\ permit \in [Permits -> {"waiting", "active"}]
    /\ req = [w \in Workers |-> Free]
    /\ user = [u \in Users |-> Away]
    /\ exposed = {} /\ spared = {} /\ silenced = {} /\ kept = {}
    /\ overtaken = {} /\ doubled = {}
    /\ streak = [d \in Detectors |-> 0]
    /\ readings = 0 /\ deaths = 0 /\ acts = 0

\* The first and the last of a set of ids: orderBy('id')->first(), latest('id').
First(ids) == {i \in ids : \A j \in ids : i <= j}
Last(ids)  == {i \in ids : \A j \in ids : j <= i}

Open(det, levels) ==
    {i \in AlarmIds : alarms[i].st = "open" /\ alarms[i].det = det /\ alarms[i].level \in levels}

\* Mutant: a dedupe key without the level.
LiveOfDevice(det, level) ==
    {a \in AlertIds : alerts[a].st \in {"open", "acknowledged"} /\ alerts[a].det = det}

\* The alerts that the dedupe key gas:{device}:{gas}:{level} finds.
Live(det, level) ==
    {a \in AlertIds : /\ alerts[a].st \in {"open", "acknowledged"}
                      /\ alerts[a].det = det /\ alerts[a].level = level}

InForce == {p \in Permits : permit[p] = "active"}

\* A request that looked for an open alarm of its level and goes on to open one.
Opening(r) ==
    /\ r.band \in Level
    /\ r.pc \in {"escalate", "resolve", "find", "hush", "raise", "create", "open"}

Alike(v, w) == Opening(req[v]) /\ req[v].det = req[w].det /\ req[v].band = req[w].band

-----------------------------------------------------------------------------
(* A reading, step by step.                                                *)

Goto(w, pc) == req' = [req EXCEPT ![w].pc = pc]

\* A live reading comes in, perhaps while another one of the detector is served.
Receive(w, d, b) ==
    /\ req[w].pc = "idle" /\ readings < MaxReadings
    /\ readings' = readings + 1
    /\ req' = [req EXCEPT ![w] = [Free EXCEPT !.pc = IF b \in Level THEN "cross" ELSE "cool",
                                              !.det = d, !.band = b]]
    /\ streak' = [streak EXCEPT ![d] = IF b # "clear" THEN 0 ELSE IF @ < 2 THEN @ + 1 ELSE 2]
    /\ doubled' = IF \E v \in Workers : req[v].det = d THEN doubled \cup {d} ELSE doubled
    /\ UNCHANGED <<tables, user, exposed, spared, silenced, kept, overtaken, deaths, acts>>

\* Mutant: every crossing reading opens an alarm.
CrossAgain(w) ==
    /\ req[w].pc = "cross"
    /\ Goto(w, IF req[w].band = "alarm" THEN "escalate" ELSE "raise")
    /\ UNCHANGED <<tables, user, history, readings, deaths, acts>>

\* raiseOrEscalate: an open alarm of the level is left as it is.
Cross(w) ==
    /\ req[w].pc = "cross"
    /\ Goto(w, IF Open(req[w].det, {req[w].band}) # {} THEN "forget"
               ELSE IF req[w].band = "alarm" THEN "escalate" ELSE "raise")
    /\ UNCHANGED <<tables, user, history, readings, deaths, acts>>

\* An alarm closes the open warning first.
Escalate(w) ==
    /\ req[w].pc = "escalate"
    /\ LET open == First(Open(req[w].det, {"warning"})) IN
       req' = [req EXCEPT ![w].pc = IF open = {} THEN "raise" ELSE "resolve", ![w].list = open]
    /\ UNCHANGED <<tables, user, history, readings, deaths, acts>>

\* trackHysteresis: the open alarms, and the clear line.
Cool(w) ==
    /\ req[w].pc = "cool"
    /\ LET open == Open(req[w].det, Level) IN
       req' = [req EXCEPT ![w].pc = IF open = {} \/ req[w].band = "near" THEN "forget" ELSE "count",
                          ![w].list = open]
    /\ UNCHANGED <<tables, user, history, readings, deaths, acts>>

\* Mutant: one clear reading is enough.
CountTwice(w) ==
    /\ req[w].pc = "count"
    /\ req' = [req EXCEPT ![w].pc = "put", ![w].count = 2]
    /\ UNCHANGED <<tables, user, history, readings, deaths, acts>>

Count(w) ==
    /\ req[w].pc = "count"
    /\ req' = [req EXCEPT ![w].pc = "put",
                          ![w].count = IF clean[req[w].det] = 0 THEN 1 ELSE 2]
    /\ UNCHANGED <<tables, user, history, readings, deaths, acts>>

Put(w) ==
    /\ req[w].pc = "put"
    /\ clean' = [clean EXCEPT ![req[w].det] = req[w].count]
    /\ req' = [req EXCEPT ![w] = IF req[w].count < 2 THEN Free ELSE [@ EXCEPT !.pc = "resolve"]]
    /\ UNCHANGED <<alarms, alerts, permit, user, history, readings, deaths, acts>>

\* resolveAlarm: the row, then the alert that its key finds.
Resolve(w) ==
    /\ req[w].pc = "resolve"
    /\ \E i \in First(req[w].list) : alarms' = [alarms EXCEPT ![i].st = "resolved"]
    /\ Goto(w, "find")
    /\ UNCHANGED <<alerts, clean, permit, user, history, readings, deaths, acts>>

\* Past the alarm that was resolved: the next one of the loop, or on.
Past(r) ==
    LET left == r.list \ First(r.list) IN
    [r EXCEPT !.list = left,
              !.pc = IF left # {} THEN "resolve" ELSE IF r.band \in Level THEN "raise" ELSE "forget"]

Find(w) ==
    /\ req[w].pc = "find"
    /\ \E i \in First(req[w].list) :
       LET live == Last(Live(alarms[i].det, alarms[i].level)) IN
       \/ /\ live = {}
          /\ req' = [req EXCEPT ![w] = Past(@)]
       \/ \E a \in live : req' = [req EXCEPT ![w].pc = "hush", ![w].alert = a]
    /\ UNCHANGED <<tables, user, history, readings, deaths, acts>>

Hush(w) ==
    /\ req[w].pc = "hush"
    /\ alerts' = [alerts EXCEPT ![req[w].alert].st = "resolved"]
    /\ req' = [req EXCEPT ![w] = Past(@)]
    /\ UNCHANGED <<alarms, clean, permit, user, history, readings, deaths, acts>>

\* AlertService.raise: a live alert of the key is bumped, or a new one made.
Raise(w) ==
    /\ req[w].pc = "raise"
    /\ LET live == Last(Live(req[w].det, req[w].band)) IN
       \/ live = {} /\ Goto(w, "create")
       \/ \E a \in live : req' = [req EXCEPT ![w].pc = "open", ![w].alert = a]
    /\ UNCHANGED <<tables, user, history, readings, deaths, acts>>

Create(w) ==
    /\ req[w].pc = "create"
    /\ \E a \in First({b \in AlertIds : alerts[b].st = "none"}) :
          /\ alerts' = [alerts EXCEPT ![a] = [st |-> "open", det |-> req[w].det,
                                              level |-> req[w].band]]
          /\ req' = [req EXCEPT ![w].pc = "open", ![w].alert = a]
    /\ UNCHANGED <<alarms, clean, permit, user, history, readings, deaths, acts>>

\* Mutant: the suspension is left to the next reading.
OpenOnly(w) ==
    /\ req[w].pc = "open"
    /\ \E i \in First({j \in AlarmIds : alarms[j].st = "none"}) :
          alarms' = [alarms EXCEPT ![i] = [st |-> "open", det |-> req[w].det,
                                           level |-> req[w].band, alert |-> req[w].alert]]
    /\ Goto(w, "forget")
    /\ IF req[w].band = "alarm"
       THEN exposed' = exposed \cup InForce /\ spared' = spared \ InForce
       ELSE UNCHANGED <<exposed, spared>>
    /\ overtaken' = (overtaken \cup {v \in Workers : Alike(v, w)}) \ {w}
    /\ UNCHANGED <<alerts, clean, permit, user, silenced, streak, kept, doubled,
                   readings, deaths, acts>>

\* The alarm is on record; at the alarm level the zone is next.
OpenAlarm(w) ==
    /\ req[w].pc = "open"
    /\ \E i \in First({j \in AlarmIds : alarms[j].st = "none"}) :
          alarms' = [alarms EXCEPT ![i] = [st |-> "open", det |-> req[w].det,
                                           level |-> req[w].band, alert |-> req[w].alert]]
    /\ Goto(w, IF req[w].band = "alarm" THEN "list" ELSE "forget")
    /\ IF req[w].band = "alarm"
       THEN exposed' = exposed \cup InForce /\ spared' = spared \ InForce
       ELSE UNCHANGED <<exposed, spared>>
    /\ overtaken' = (overtaken \cup {v \in Workers : Alike(v, w)}) \ {w}
    /\ UNCHANGED <<alerts, clean, permit, user, silenced, streak, kept, doubled,
                   readings, deaths, acts>>

\* suspendActivePermitsForDevice: the active permits, in the order of id.
List(w) ==
    /\ req[w].pc = "list"
    /\ req' = [req EXCEPT ![w].pc = IF InForce = {} THEN "forget" ELSE "suspend",
                          ![w].todo = InForce]
    /\ UNCHANGED <<tables, user, history, readings, deaths, acts>>

\* PermitService.suspend takes an active permit, and one already suspended.
Suspend(w) ==
    /\ req[w].pc = "suspend"
    /\ \E p \in First(req[w].todo) :
          /\ permit[p] \in {"active", "suspended"}
          /\ permit' = [permit EXCEPT ![p] = "suspended"]
          /\ exposed' = exposed \ {p}
          /\ req' = [req EXCEPT ![w].todo = @ \ {p},
                                ![w].pc = IF req[w].todo = {p} THEN "forget" ELSE "suspend"]
    /\ UNCHANGED <<alarms, alerts, clean, user, spared, silenced, streak, kept, overtaken,
                   doubled, readings, deaths, acts>>

\* A request that ends early: the permits it still had to suspend, and the
\* counter it still had to forget.
Aborted(w) ==
    /\ req' = [req EXCEPT ![w] = Free]
    /\ spared' = spared \cup (IF req[w].pc = "list" THEN exposed ELSE req[w].todo)
    /\ kept' = IF req[w].band = "clear" THEN kept ELSE kept \cup {req[w].det}
    /\ overtaken' = overtaken \ {w}

\* It throws when the permit left "active" since the list was loaded; nothing
\* catches that, and the request ends.
SuspendThrows(w) ==
    /\ req[w].pc = "suspend"
    /\ \E p \in First(req[w].todo) : permit[p] \notin {"active", "suspended"}
    /\ Aborted(w)
    /\ UNCHANGED <<tables, user, exposed, silenced, streak, doubled, readings, deaths, acts>>

Forget(w) ==
    /\ req[w].pc = "forget"
    /\ clean' = [clean EXCEPT ![req[w].det] = 0]
    /\ kept' = kept \ {req[w].det}
    /\ req' = [req EXCEPT ![w] = Free]
    /\ UNCHANGED <<alarms, alerts, permit, user, exposed, spared, silenced, streak, overtaken,
                   doubled, readings, deaths, acts>>

Die(w) ==
    /\ req[w].pc # "idle" /\ deaths < MaxDeaths
    /\ Aborted(w)
    /\ deaths' = deaths + 1
    /\ UNCHANGED <<tables, user, exposed, silenced, streak, doubled, readings, acts>>

\* The counter lives an hour.
Expire(d) ==
    /\ clean[d] > 0
    /\ clean' = [clean EXCEPT ![d] = 0]
    /\ UNCHANGED <<alarms, alerts, permit, req, user, history, readings, deaths, acts>>

-----------------------------------------------------------------------------
(* Users.                                                                  *)

\* The request of a user loads the alert.
Load(u, a, does) ==
    /\ user[u] = Away /\ acts < MaxActs
    /\ alerts[a].st # "none"
    /\ user' = [user EXCEPT ![u] = [alert |-> a, seen |-> alerts[a].st, does |-> does]]
    /\ acts' = acts + 1
    /\ UNCHANGED <<tables, req, history, readings, deaths>>

\* AlertService.acknowledge: 409 on a resolved alert, nothing on one that is
\* acknowledged, else the status is written.
Acknowledge(u) ==
    /\ user[u].alert # 0 /\ user[u].does = "acknowledge"
    /\ alerts' = IF user[u].seen = "open"
                 THEN [alerts EXCEPT ![user[u].alert].st = "acknowledged"]
                 ELSE alerts
    /\ user' = [user EXCEPT ![u] = Away]
    /\ UNCHANGED <<alarms, clean, permit, req, history, readings, deaths, acts>>

\* AlertService.resolve, by hand.
ResolveAlert(u) ==
    /\ user[u].alert # 0 /\ user[u].does = "resolve"
    /\ IF user[u].seen # "resolved"
       THEN /\ alerts' = [alerts EXCEPT ![user[u].alert].st = "resolved"]
            /\ silenced' = silenced \cup {user[u].alert}
       ELSE UNCHANGED <<alerts, silenced>>
    /\ user' = [user EXCEPT ![u] = Away]
    /\ UNCHANGED <<alarms, clean, permit, req, exposed, spared, streak, kept, overtaken,
                   doubled, readings, deaths, acts>>

\* The permit is issued, suspended, resumed, or closed, cancelled or expired.
Move(p, from, to) ==
    /\ permit[p] \in from /\ acts < MaxActs
    /\ permit' = [permit EXCEPT ![p] = to]
    /\ exposed' = exposed \ {p}
    /\ acts' = acts + 1
    /\ UNCHANGED <<alarms, alerts, clean, req, user, spared, silenced, streak, kept, overtaken,
                   doubled, readings, deaths>>

Issue(p)     == Move(p, {"waiting"}, "active")
Stop(p)      == Move(p, {"active"}, "suspended")
Resume(p)    == Move(p, {"suspended"}, "active")
EndPermit(p) == Move(p, {"active", "suspended"}, "over")

Step(w) ==
    \/ Cross(w) \/ Escalate(w) \/ Cool(w) \/ Count(w) \/ Put(w) \/ Resolve(w) \/ Find(w)
    \/ Hush(w) \/ Raise(w) \/ Create(w) \/ OpenAlarm(w) \/ List(w) \/ Suspend(w)
    \/ SuspendThrows(w) \/ Forget(w)

Next ==
    \/ \E w \in Workers : Step(w) \/ Die(w) \/ \E d \in Detectors, b \in Band : Receive(w, d, b)
    \/ \E d \in Detectors : Expire(d)
    \/ \E u \in Users : \/ Acknowledge(u) \/ ResolveAlert(u)
                        \/ \E a \in AlertIds, does \in {"acknowledge", "resolve"} : Load(u, a, does)
    \/ \E p \in Permits : Issue(p) \/ Stop(p) \/ Resume(p) \/ EndPermit(p)

Spec == Init /\ [][Next]_vars

\* A worker goes on with its request.
FairSpec == Spec /\ \A w \in Workers : WF_vars(Step(w))

-----------------------------------------------------------------------------
(* Properties.                                                             *)

\* A second open alarm of a detector and level comes only of a request that had
\* looked for one before the first was on record, however many requests of the
\* detector are served at once: raiseOrEscalate reads and writes with no lock.
SecondOnlyByOverlap ==
    [][\A w \in Workers :
         req[w].pc = "open" /\ req'[w].pc \in {"list", "forget"}
         => w \in overtaken \/ Open(req[w].det, {req[w].band}) = {}]_vars

\* An open alarm has a live alert under its own key, unless a user resolved it:
\* neither escalation, nor hysteresis, nor a worker that dies between the two
\* rows, hushes an alarm that is on.  So it is as long as no detector had two
\* requests served at once: two open alarms would share one alert.
OpenAlarmSounds ==
    doubled = {} => \A i \in AlarmIds : alarms[i].st = "open" =>
        \/ alarms[i].alert \in Live(alarms[i].det, alarms[i].level)
        \/ alarms[i].alert \in silenced

\* A permit that was in force when an alarm opened is no longer in force, or
\* the request is about to suspend it, or that request ended early.
AlarmReachesPermits ==
    \A p \in exposed \ spared :
        \E w \in Workers : req[w].pc = "list" \/ p \in req[w].todo

\* Alarms are resolved by two clear readings in a row; only a request that
\* ended before it could forget the count makes it less, as long as no detector
\* had two requests served at once, whose counts go through one cache entry.
TwoClear ==
    doubled = {} => \A w \in Workers :
        req[w].pc = "resolve" /\ req[w].band = "clear"
        => streak[req[w].det] = 2 \/ req[w].det \in kept

\* The permits that an alarm met in force get suspended, if the request lives.
SuspensionCompletes ==
    \A p \in Permits : p \in exposed ~> p \notin exposed \/ p \in spared

\* What the permit document says: a gas alarm in a zone with an active permit
\* suspends that permit.  Once no request works on it, it is not in force.
AlarmSuspendsZone ==
    exposed # {} => \E w \in Workers : req[w].pc \in {"list", "suspend"}
=============================================================================
