----------------------------- MODULE AlertConsole -----------------------------
(***************************************************************************)
(* The alarm console every page carries (alert-provider.tsx) and the rows  *)
(* of the Alert Centre (alerts/index.tsx): alert events and snapshots make *)
(* the store; the store makes the toasts, the bell and the chime.          *)
(*                                                                         *)
(* occurrences and raised_at of an alert change together, so one number,   *)
(* `at`, stands for both: it is the order the toasts are sorted by and the *)
(* signature a dismissal remembers.                                        *)
(***************************************************************************)
EXTENDS Naturals, Sequences, FiniteSets

CONSTANTS
    Alerts,      \* the alerts of the instance
    Criticals,   \* the critical audible ones among them
    MaxToasts,   \* toasts shown at once (5 in the code)
    MaxRaises,   \* bound of the raises, and so of `at`
    MaxWire,     \* bound of the events on their way
    MaxFaults    \* bound of the disconnections and the suspensions of the audio

ASSUME ConsoleAssumption ==
    /\ IsFiniteSet(Alerts) /\ Criticals \subseteq Alerts
    /\ {MaxToasts, MaxRaises, MaxWire, MaxFaults} \subseteq Nat

VARIABLES
    server,      \* the alerts as stored
    wire,        \* AlertRaised and AlertUpdated on their way
    socket,      \* the status useReverbChannel reports
    snap,        \* the open alerts being fetched: not asked, asked or read
    store,       \* openAlerts of the provider
    dismissed,   \* the signature of each alert that was dismissed, 0 for none
    timers,      \* signatures with an auto-dismiss timer running
    unlocked,    \* audioUnlocked
    ctx,         \* state of the shared AudioContext
    loop,        \* the running effect of CriticalAudibleLoop
    starting,    \* its tryStart calls not resolved
    stale,       \* 1 with tryStart calls of stopped effects not resolved
    chains,      \* beep timers armed
    raises, drops, suspends

serverVars == <<server, wire, raises>>
linkVars   == <<socket, snap, drops>>
toastVars  == <<dismissed, timers>>
audioVars  == <<unlocked, ctx, loop, starting, stale, chains, suspends>>
consoleVars == <<serverVars, linkVars, store, toastVars, audioVars>>

Statuses == {"none", "open", "acknowledged", "resolved"}
Row == [status : Statuses, at : 0..MaxRaises]
Absent == [status |-> "none", at |-> 0]
Rows == [Alerts -> Row]
NoRows == [a \in Alerts |-> Absent]

IsOpenLike(row) == row.status \in {"open", "acknowledged"}

-----------------------------------------------------------------------------
(* The store.                                                              *)

UpsertAlert(rows, a, row) ==
    [rows EXCEPT ![a] = IF IsOpenLike(row) THEN row ELSE Absent]

OpenOnes(rows) == [a \in Alerts |-> IF IsOpenLike(rows[a]) THEN rows[a] ELSE Absent]

BellCount(rows) == Cardinality({a \in Alerts : rows[a].status = "open"})

HasAudibleCritical(rows) == \E a \in Criticals : rows[a].status = "open"

-----------------------------------------------------------------------------
(* The toasts.                                                             *)

Undismissed(rows, hidden) ==
    {a \in Alerts : rows[a].status = "open" /\ hidden[a] # rows[a].at}

(* The newest MaxToasts of the open alerts that were not dismissed. *)
Visible(rows, hidden) ==
    LET shown == Undismissed(rows, hidden)
    IN {a \in shown : Cardinality({b \in shown : rows[b].at > rows[a].at}) < MaxToasts}

(* Mutant of CardTimers: a card that goes leaves its timer running. *)
TimersLeft(rows, hidden) ==
    timers \cup {<<a, rows[a].at>> : a \in Visible(rows, hidden) \ Criticals}

(* Every card that is not critical runs a timer while it is mounted. *)
CardTimers(rows, hidden) ==
    {<<a, rows[a].at>> : a \in Visible(rows, hidden) \ Criticals}

-----------------------------------------------------------------------------
(* The chime.  The effect of CriticalAudibleLoop runs while it is active   *)
(* and audio is unlocked; a change of either ends it and starts another.   *)

Silent == [on |-> FALSE, looping |-> FALSE]

(* The cleanup and the new run of the effect, after a render with a store
   and a permission. *)
Effect(rows, permission) ==
    LET on == HasAudibleCritical(rows) /\ permission
    IN IF on = loop.on THEN UNCHANGED <<loop, starting, stale, chains>>
       ELSE /\ loop' = [on |-> on, looping |-> FALSE]
            /\ starting' = IF on THEN 1 ELSE 0
            /\ stale' = IF stale + starting > 0 THEN 1 ELSE 0
            /\ chains' = 0

(* Mutant of StartLoop: a run that is looping is started again. *)
StartTwice == IF ctx = "running" THEN chains + 1 ELSE chains

StartLoop == IF ctx = "running" /\ ~loop.looping THEN chains + 1 ELSE chains

(* Mutant of StaleStart: a stopped effect still starts its loop. *)
StaleStarts == IF ctx = "running" /\ chains = 0 THEN 1 ELSE chains

StaleStart == chains

-----------------------------------------------------------------------------
ConsoleInit ==
    /\ server = [a \in Alerts |-> Absent] /\ wire = <<>> /\ raises = 0
    /\ socket = "offline" /\ snap = [phase |-> "asked", rows |-> NoRows] /\ drops = 0
    /\ store = server
    /\ dismissed = [a \in Alerts |-> 0] /\ timers = {}
    /\ unlocked \in BOOLEAN
    /\ ctx = IF unlocked THEN "suspended" ELSE "none"
    /\ loop = Silent /\ starting = 0 /\ stale = 0 /\ chains = 0 /\ suspends = 0

(* What the store becomes, and what the toasts and the chime make of it. *)
Show(rows) ==
    /\ store' = rows
    /\ timers' = CardTimers(rows, dismissed)
    /\ Effect(rows, unlocked)
    /\ UNCHANGED <<dismissed, unlocked, ctx, suspends>>

(* Broadcast: a page that is offline does not get the event. *)
Write(a, row) ==
    /\ server' = [server EXCEPT ![a] = row]
    /\ wire' = IF socket = "live" THEN Append(wire, [id |-> a, row |-> row]) ELSE wire
    /\ Len(wire) < MaxWire
    /\ UNCHANGED <<linkVars, store, toastVars, audioVars>>

(* AlertService::raise: a live alert of the key is bumped, else a new one. *)
Raise(a) ==
    /\ raises < MaxRaises /\ server[a].status # "resolved"
    /\ raises' = raises + 1
    /\ Write(a, [status |-> IF IsOpenLike(server[a]) THEN server[a].status ELSE "open",
                 at |-> raises + 1])

Acknowledge(a) ==
    /\ server[a].status = "open"
    /\ Write(a, [server[a] EXCEPT !.status = "acknowledged"])
    /\ UNCHANGED raises

Resolve(a) ==
    /\ IsOpenLike(server[a])
    /\ Write(a, [server[a] EXCEPT !.status = "resolved"])
    /\ UNCHANGED raises

-----------------------------------------------------------------------------
TakeEvent ==
    /\ wire # <<>> /\ wire' = Tail(wire)
    /\ Show(UpsertAlert(store, Head(wire).id, Head(wire).row))
    /\ UNCHANGED <<server, raises, linkVars>>

Disconnect ==
    /\ socket = "live" /\ drops + suspends < MaxFaults
    /\ drops' = drops + 1 /\ socket' = "offline" /\ wire' = <<>>
    /\ UNCHANGED <<server, raises, snap, store, toastVars, audioVars>>

AskSnapshot == snap' = [phase |-> "asked", rows |-> NoRows]

Reconnect ==
    /\ socket = "offline" /\ socket' = "live" /\ AskSnapshot
    /\ UNCHANGED <<serverVars, store, toastVars, audioVars, drops>>

Poll ==
    /\ socket = "offline" /\ snap.phase = "idle" /\ AskSnapshot
    /\ UNCHANGED <<serverVars, store, toastVars, audioVars, socket, drops>>

ReadSnapshot ==
    /\ snap.phase = "asked" /\ snap' = [phase |-> "read", rows |-> OpenOnes(server)]
    /\ UNCHANGED <<serverVars, store, toastVars, audioVars, socket, drops>>

SnapshotArrives ==
    /\ snap.phase = "read" /\ snap' = [phase |-> "idle", rows |-> NoRows]
    /\ Show(snap.rows)
    /\ UNCHANGED <<serverVars, socket, drops>>

-----------------------------------------------------------------------------
DismissAs(a, signature) ==
    /\ dismissed' = [dismissed EXCEPT ![a] = signature]
    /\ timers' = CardTimers(store, dismissed') \ {<<a, signature>>}
    /\ UNCHANGED <<serverVars, linkVars, store, audioVars>>

Dismiss(a) == a \in Visible(store, dismissed) /\ DismissAs(a, store[a].at)

AutoDismiss == \E t \in timers : DismissAs(t[1], t[2])

-----------------------------------------------------------------------------
(* The permission gate: compulsory until audio runs; the browser may refuse. *)
Enable ==
    /\ ~unlocked
    /\ \/ ctx' = "running" /\ unlocked' = TRUE
       \/ ctx' = "suspended" /\ UNCHANGED unlocked
    /\ Effect(store, unlocked')
    /\ UNCHANGED <<serverVars, linkVars, store, toastVars, suspends>>

(* A pointer or key press: resume() is granted, and the effect tries again. *)
Gesture ==
    /\ loop.on /\ starting < 2
    /\ ctx' = "running" /\ starting' = starting + 1
    /\ UNCHANGED <<serverVars, linkVars, store, toastVars, unlocked, loop,
                   stale, chains, suspends>>

(* tryStart comes to its end; when audio is suspended it may never. *)
StartResolves ==
    /\ starting > 0 /\ starting' = starting - 1
    /\ chains' = StartLoop
    /\ loop' = [loop EXCEPT !.looping = @ \/ ctx = "running"]
    /\ UNCHANGED <<serverVars, linkVars, store, toastVars, unlocked, ctx,
                   stale, suspends>>

StaleResolves ==
    /\ stale > 0 /\ stale' = stale - 1
    /\ chains' = StaleStart
    /\ UNCHANGED <<serverVars, linkVars, store, toastVars, unlocked, ctx,
                   loop, starting, suspends>>

(* The beep timer fires: it arms the next, or ends with the audio suspended. *)
Beep ==
    /\ chains > 0
    /\ chains' = IF ctx = "running" THEN chains ELSE chains - 1
    /\ UNCHANGED <<serverVars, linkVars, store, toastVars, unlocked, ctx,
                   loop, starting, stale, suspends>>

Suspend ==
    /\ ctx = "running" /\ drops + suspends < MaxFaults
    /\ ctx' = "suspended" /\ suspends' = suspends + 1
    /\ UNCHANGED <<serverVars, linkVars, store, toastVars, unlocked, loop,
                   starting, stale, chains>>

-----------------------------------------------------------------------------
(* The Alert Centre: the store over the rows it was loaded with.           *)

MergeLiveAlerts(rows, live) ==
    [a \in Alerts |-> IF live[a] # Absent THEN live[a] ELSE rows[a]]

(* The rows the page was loaded with are as old as the page: any alert ever
   raised may be among them, and open. *)
Loaded ==
    {[a \in Alerts |-> IF a \in old THEN [server[a] EXCEPT !.status = "open"] ELSE Absent] :
        old \in SUBSET {a \in Alerts : server[a] # Absent}}

Rowed == {MergeLiveAlerts(rows, store) : rows \in Loaded}

(* The row buttons; the server answers 409 or nothing when it is too late. *)
AckRow(a)     == (\E rows \in Rowed : rows[a].status = "open") /\ Acknowledge(a)
ResolveRow(a) == (\E rows \in Rowed : IsOpenLike(rows[a])) /\ Resolve(a)

ConsoleNext ==
    \/ \E a \in Alerts : Raise(a) \/ AckRow(a) \/ ResolveRow(a) \/ Dismiss(a)
    \/ \E a \in Alerts : Acknowledge(a) \/ Resolve(a)
    \/ TakeEvent \/ Disconnect \/ Reconnect \/ Poll \/ ReadSnapshot \/ SnapshotArrives
    \/ AutoDismiss \/ Enable \/ Gesture \/ StartResolves \/ StaleResolves
    \/ Beep \/ Suspend

ConsoleSpec == ConsoleInit /\ [][ConsoleNext]_consoleVars

-----------------------------------------------------------------------------
(* Types; the store holds open and acknowledged alerts only, whatever      *)
(* events and snapshots came in which order, and only mounted cards have a *)
(* timer.                                                                  *)
ConsoleTypeOK ==
    /\ server \in Rows /\ store \in Rows
    /\ \A a \in Alerts : store[a].status # "resolved"
    /\ BellCount(store) <= Cardinality(Alerts)
    /\ snap.phase \in {"idle", "asked", "read"}
    /\ dismissed \in [Alerts -> 0..MaxRaises]
    /\ timers \subseteq ((Alerts \ Criticals) \X (1..MaxRaises))
    /\ ctx \in {"none", "suspended", "running"}
    /\ starting \in 0..2 /\ chains \in 0..2

(* However many gestures, resumed contexts and renders overlap, the alarm  *)
(* sounds once: tryStart is called on every pointer and key press and only *)
(* one of the calls arms the beep timer (looping, alert-provider.tsx:366). *)
OneLoop == chains <= 1

(* A chime never outlives its alarm: with a beep timer armed an audible    *)
(* critical alert is open in the store, although starts of stopped effects *)
(* are still to resolve (stopped, alert-provider.tsx:376).                 *)
SilentOnceAcked == chains > 0 => HasAudibleCritical(store) /\ unlocked

(* A dismissed toast comes back only when its alert is raised again, not   *)
(* when an older timer of the same alert fires (alert-provider.tsx:496).   *)
DismissedStaysDismissed ==
    [][\A a \in Alerts :
          /\ store[a].status = "open" /\ dismissed[a] = store[a].at
          /\ store'[a] = store[a]
          => a \notin Visible(store', dismissed')]_consoleVars

(* The alarm a user hears and sees is the one in the store: one chime, only *)
(* for an audible critical alert, and toasts that stay dismissed.          *)
AlarmAsStored ==
    /\ [](ConsoleTypeOK /\ OneLoop /\ SilentOnceAcked)
    /\ DismissedStaysDismissed
=============================================================================
