---------------------------- MODULE DashboardLive ----------------------------
(***************************************************************************)
(* The dashboard and the hardware line of the sidebar: a summary fetched   *)
(* once the connection is up, patched by the events of five channels       *)
(* (lib/dashboard-live.ts, use-dashboard-live.ts, use-system-health.ts).   *)
(* Modelled: the alert card with its feed, and the system health block.    *)
(* The blocks an event replaces whole (head count, a gas panel, weather)   *)
(* hold no state of their own and are left out.                            *)
(*                                                                         *)
(* Two events of an alert differ (raised_at, acknowledged_at); two events  *)
(* of a device with the same status are equal payloads.                    *)
(***************************************************************************)
EXTENDS Naturals, Sequences, FiniteSets, SequencesExt

CONSTANTS
    FeedAlerts,  \* alerts that may be raised
    Devices,     \* the devices of one asset
    LatestMax,   \* rows of the feed: 12 in the code
    MaxChanges,  \* bound of the changes the server broadcasts
    MaxBreaks    \* bound of the disconnections

ASSUME DashboardAssumption ==
    /\ IsFiniteSet(FeedAlerts) /\ IsFiniteSet(Devices) /\ FeedAlerts \cap Devices = {}
    /\ LatestMax \in Nat \ {0} /\ MaxChanges \in Nat /\ MaxBreaks \in Nat

VARIABLES
    feed,       \* live alerts on the server, latest raised first
    severity,   \* severity of every alert
    ended,      \* resolved alerts
    device,     \* status of every device; "silent": stale, not swept yet
    channel,    \* events on their way to the page
    connected,  \* the websocket is up
    reading,    \* summaries being fetched, at most one, with what it missed
    page,       \* the summary the page shows
    told,       \* the last device event the page took
    lag,        \* the alerts and devices the page was not told the latest of
    changes, breaks

dashVars == <<feed, severity, ended, device, channel, connected, reading, page,
              told, lag, changes, breaks>>

Severities == {"info", "warning", "critical"}
DeviceStatus == {"online", "silent", "degraded", "offline", "fault"}

AlertRow == [id : FeedAlerts, severity : Severities]
RowsOf(s) == [i \in DOMAIN s |-> [id |-> s[i], severity |-> severity[s[i]]]]
AlertEvent == [alert : FeedAlerts, severity : Severities, live : BOOLEAN]
DeviceEvent == [device : Devices, status : DeviceStatus \ {"silent"}]

Summary == [latest : UNION {[1..n -> AlertRow] : n \in 0..LatestMax},
            critical : 0..(Cardinality(FeedAlerts) + MaxChanges),
            warning : 0..(Cardinality(FeedAlerts) + MaxChanges),
            down : SUBSET Devices,
            online : 0..Cardinality(Devices)]

NoneTold == [device |-> "none", status |-> "none"]

(* The feed keeps its rows apart, and the counters stay in their ranges.   *)
DashboardTypeOK ==
    /\ feed \in SeqOf(FeedAlerts, Cardinality(FeedAlerts)) /\ IsInjective(feed)
    /\ severity \in [FeedAlerts -> Severities] /\ ended \subseteq FeedAlerts
    /\ device \in [Devices -> DeviceStatus]
    /\ \A i \in DOMAIN channel : channel[i] \in AlertEvent \cup DeviceEvent
    /\ connected \in BOOLEAN
    /\ \A r \in reading : r.summary \in Summary /\ r.missed \subseteq FeedAlerts \cup Devices
    /\ page \in Summary
    /\ \A i, j \in DOMAIN page.latest :
          i # j => page.latest[i].id # page.latest[j].id
    /\ told \in DeviceEvent \cup {NoneTold}
    /\ lag \subseteq FeedAlerts \cup Devices
    /\ changes \in 0..MaxChanges /\ breaks \in 0..MaxBreaks

(* The rows the feed has room for.                                         *)
Newest(s) == SubSeq(s, 1, IF Len(s) < LatestMax THEN Len(s) ELSE LatestMax)

CountOf(kind) == Cardinality({i \in DOMAIN feed : severity[feed[i]] = kind})

Down(d) == device[d] \in {"silent", "offline", "fault"}

ListedSummary ==
    LET rows == RowsOf(Newest(feed)) IN
    [latest |-> rows,
     critical |-> Cardinality({i \in DOMAIN rows : rows[i].severity = "critical"}),
     warning |-> Cardinality({i \in DOMAIN rows : rows[i].severity = "warning"}),
     down |-> {d \in Devices : Down(d)},
     online |-> Cardinality({d \in Devices : ~Down(d)})]

(* DashboardService::alertsBlock and systemHealthBlock.                    *)
CurrentSummary ==
    [latest |-> RowsOf(Newest(feed)),
     critical |-> CountOf("critical"), warning |-> CountOf("warning"),
     down |-> {d \in Devices : Down(d)},
     online |-> Cardinality({d \in Devices : ~Down(d)})]

(* An item leaves the list it stands in once at most, at one of the places *)
(* given.                                                                  *)
TakenOut(s, places) ==
    IF places = {} THEN s ELSE RemoveAt(s, CHOOSE i \in places : TRUE)

Less(n) == IF n = 0 THEN 0 ELSE n - 1

PreviousAsSent(s, e) ==
    {[r EXCEPT !.severity = e.severity] :
        r \in {s.latest[i] : i \in {i \in DOMAIN s.latest : s.latest[i].id = e.alert}}}

PreviousTakenOut(s, e) ==
    LET others == TakenOut(s.latest, {i \in DOMAIN s.latest : s.latest[i].id = e.alert})
    IN {r \in {others[i] : i \in DOMAIN others} : r.id = e.alert}

(* What the feed knew of the alert: its row, or nothing.                   *)
Previous(s, e) == {r \in {s.latest[i] : i \in DOMAIN s.latest} : r.id = e.alert}

(* applyAlert: the counters follow what the feed knew of the alert, and    *)
(* stay when it knew it as critical, or not, as it is.  Its row goes on    *)
(* top before the feed is cut, also when it is then left out.              *)
ApplyAlert(s, e) ==
    LET known == Previous(s, e) # {}
        was == CHOOSE r \in Previous(s, e) : TRUE
        others == TakenOut(s.latest, {i \in DOMAIN s.latest : s.latest[i].id = e.alert})
        top == Newest(<<[id |-> e.alert, severity |-> e.severity]>> \o others)
        Up(kind, n) == IF (e.severity = "critical") = (kind = "critical")
                       THEN n + 1 ELSE n
        Off(kind, n) == IF (was.severity = "critical") = (kind = "critical")
                        THEN Less(n) ELSE n
        moved == (was.severity = "critical") # (e.severity = "critical")
        Count(kind, n) == CASE ~known /\ e.live         -> Up(kind, n)
                            [] known /\ ~e.live         -> Off(kind, n)
                            [] known /\ e.live /\ moved -> Up(kind, Off(kind, n))
                            [] OTHER                    -> n
    IN [s EXCEPT !.critical = Count("critical", @),
                 !.warning = Count("warning", @),
                 !.latest = IF e.live THEN top ELSE Tail(top)]

(* patchSystemHealth: the tile of the asset, then the count of devices.    *)
PatchHealth(s, e) ==
    LET off == e.status \in {"offline", "fault"}
    IN [s EXCEPT !.down = IF off THEN @ \cup {e.device} ELSE @ \ {e.device},
                 !.online = CASE off -> Less(@)
                              [] e.status = "online" /\ @ < Cardinality(Devices) -> @ + 1
                              [] OTHER -> @]

-----------------------------------------------------------------------------
DashInit ==
    /\ feed = <<>> /\ ended = {}
    /\ severity \in [FeedAlerts -> {"info"}]
    /\ device = [d \in Devices |-> "online"]
    /\ channel = <<>> /\ connected = TRUE /\ reading = {}
    /\ page = CurrentSummary
    /\ told = NoneTold /\ lag = {} /\ changes = 0 /\ breaks = 0

(* An event of item x: it reaches the page only over an open connection.   *)
Broadcast(x, e) ==
    /\ changes < MaxChanges
    /\ changes' = changes + 1
    /\ channel' = IF connected THEN Append(channel, e) ELSE channel
    /\ lag' = IF connected THEN lag ELSE lag \cup {x}
    /\ reading' = {[r EXCEPT !.missed = @ \cup {x}] : r \in reading}
    /\ UNCHANGED <<connected, page, told, breaks>>

Unlisted(a) == TakenOut(feed, {i \in DOMAIN feed : feed[i] = a})

Live == {feed[i] : i \in DOMAIN feed}

(* AlertService::raise: a new alert, or the live one under its dedupe key  *)
(* again, possibly with another severity.                                  *)
RaiseAlert(a) ==
    /\ a \notin ended
    /\ \E kind \in Severities :
          /\ severity' = [severity EXCEPT ![a] = kind]
          /\ feed' = <<a>> \o Unlisted(a)
          /\ Broadcast(a, [alert |-> a, severity |-> kind, live |-> TRUE])
    /\ UNCHANGED <<ended, device>>

AckAlert(a) ==
    /\ a \in Live
    /\ Broadcast(a, [alert |-> a, severity |-> severity[a], live |-> TRUE])
    /\ UNCHANGED <<feed, severity, ended, device>>

ResolveAlert(a) ==
    /\ a \in Live
    /\ feed' = Unlisted(a)
    /\ ended' = ended \cup {a}
    /\ Broadcast(a, [alert |-> a, severity |-> severity[a], live |-> FALSE])
    /\ UNCHANGED <<severity, device>>

(* A device that reports nothing is stale before markStale sweeps it.      *)
FallSilent(d) ==
    /\ device[d] \in {"online", "degraded"}
    /\ device' = [device EXCEPT ![d] = "silent"]
    /\ UNCHANGED <<feed, severity, ended, channel, connected, reading, page,
                   told, lag, changes, breaks>>

MarkStale(d) ==
    /\ device[d] \in {"silent", "fault"}
    /\ device' = [device EXCEPT ![d] = "offline"]
    /\ Broadcast(d, [device |-> d, status |-> "offline"])
    /\ UNCHANGED <<feed, severity, ended>>

(* touchDevicePresence: a report before the sweep changes no status, and   *)
(* tells nobody.                                                           *)
Report(d) ==
    \E s \in {"online", "degraded", "fault"} :
        /\ device[d] # s
        /\ device' = [device EXCEPT ![d] = s]
        /\ IF device[d] = "silent" /\ s = "online"
           THEN UNCHANGED <<channel, connected, reading, page, told, lag,
                            changes, breaks>>
           ELSE Broadcast(d, [device |-> d, status |-> s])
        /\ UNCHANGED <<feed, severity, ended>>

(* useReverbChannel hands an event on unless it equals the last of its     *)
(* channel.                                                                *)
TakeDelta ==
    /\ channel # <<>>
    /\ channel' = Tail(channel)
    /\ LET e == Head(channel) IN
       IF e \in AlertEvent
       THEN /\ page' = ApplyAlert(page, e)
            /\ lag' = lag \ {e.alert} /\ UNCHANGED told
       ELSE /\ page' = IF e = told THEN page ELSE PatchHealth(page, e)
            /\ lag' = lag \ {e.device} /\ told' = e
    /\ UNCHANGED <<feed, severity, ended, device, connected, reading, changes,
                   breaks>>

(* The item an event is about, and the items on their way.                 *)
ItemOf(e) == IF e \in AlertEvent THEN e.alert ELSE e.device
OnWire == {ItemOf(channel[i]) : i \in DOMAIN channel}

LoseConnection ==
    /\ connected /\ breaks < MaxBreaks
    /\ breaks' = breaks + 1 /\ connected' = FALSE
    /\ lag' = lag \cup OnWire /\ channel' = <<>>
    /\ UNCHANGED <<feed, severity, ended, device, reading, page, told, changes>>

ReadSummary == reading' = {[summary |-> CurrentSummary, missed |-> {}]}

(* On reconnecting the page fetches the summary again.                     *)
Resume ==
    /\ ~connected /\ reading = {}
    /\ connected' = TRUE /\ ReadSummary
    /\ UNCHANGED <<feed, severity, ended, device, channel, page, told, lag,
                   changes, breaks>>

(* While the connection is down the summary is polled.                     *)
PollSummary ==
    /\ ~connected /\ reading = {}
    /\ ReadSummary
    /\ UNCHANGED <<feed, severity, ended, device, channel, connected, page, told,
                   lag, changes, breaks>>

SummaryArrives ==
    \E r \in reading :
        /\ page' = r.summary
        /\ lag' = r.missed \ OnWire
        /\ reading' = {}
        /\ UNCHANGED <<feed, severity, ended, device, channel, connected, told,
                       changes, breaks>>

SummaryFails ==
    /\ reading # {} /\ ~connected
    /\ reading' = {}
    /\ UNCHANGED <<feed, severity, ended, device, channel, connected, page, told,
                   lag, changes, breaks>>

DashNext ==
    \/ \E a \in FeedAlerts : RaiseAlert(a) \/ AckAlert(a) \/ ResolveAlert(a)
    \/ \E d \in Devices : FallSilent(d) \/ MarkStale(d) \/ Report(d)
    \/ TakeDelta \/ LoseConnection \/ Resume \/ PollSummary
    \/ SummaryArrives \/ SummaryFails

DashSpec == DashInit /\ [][DashNext]_dashVars

-----------------------------------------------------------------------------
ListedCritical == Cardinality({i \in DOMAIN page.latest :
                                 page.latest[i].severity = "critical"})

(* The alert card never counts fewer critical alerts than its own feed     *)
(* lists (applyAlert), whatever order events and summaries come in.        *)
CardCoversFeed == page.critical >= ListedCritical

(* Once the page has been told of every change, the card counts at least   *)
(* the critical alerts that are live: a row pushed off the feed or an      *)
(* escalation never makes one disappear from the count.                    *)
NoCriticalMissed ==
    (connected /\ channel = <<>> /\ lag \cap FeedAlerts = {})
        => page.critical >= CountOf("critical")

EverLive == Live \cup ended

(* As long as the feed has had room for every alert there has been, the    *)
(* card counts the critical alerts it lists and no others: however often   *)
(* an alert is told of, by events, summaries or both, in whatever order,   *)
(* it is counted once and taken off when it ends.  An alert told of again  *)
(* after newer ones pushed it off the feed is counted again (applyAlert).  *)
NoneCountedTwice == Cardinality(EverLive) <= LatestMax => page.critical = ListedCritical

(* The alert card counts what its feed lists and what is live.             *)
CardCountsCriticals ==
    DashboardTypeOK /\ CardCoversFeed /\ NoCriticalMissed /\ NoneCountedTwice
=============================================================================
