# Formal models of IR4

IR4 is an on-premises safety command centre for an industrial site: a Laravel
server (`src/Server`), agents on poles that read RFID tags and gas detectors
(`src/EdgeCompute`), web and mobile clients. This directory holds TLA+ models
of its services, its edge agents and the pages of its web client, the TLC
configurations that check them, and proofs that TLAPS checks. `PROJECT.json`
lists the components, the runs with their properties, for each property the
mutations of the model that break it, the source lines of every definition, the
findings, the hazards and the theorems.

    tlc -config MCPermitLifecycle.cfg MCPermitLifecycle     # a run
    tlapm PermitLifecycleProofs.tla                          # a proof

1. [Inventory](#1-inventory)
2. [Modules](#2-modules)
3. [Runs](#3-runs)
4. [Fairness and deadlock](#4-fairness-and-deadlock)
5. [Proofs](#5-proofs)
6. [Where the documents and the code part](#6-where-the-documents-and-the-code-part)
7. [What is not modelled](#7-what-is-not-modelled)
8. [Plan](#8-plan)

## 1. Inventory

The server is a set of PHP workers over one MySQL database, which also holds the
cache, with a scheduler that runs commands every minute. Requests of different
workers overlap; a request is atomic only where it opens a transaction, and a
transaction is protected from its neighbours only where it locks a row. The
agents are single processes with one or two threads, a SQLite file and an HTTP
client. They call the server's ingest endpoints; the server never calls back,
except that it pushes camera regions to a pole.

    reader/detector -> agent -> buffer -> client ==HTTP==> ingest -> reading row
                                                              |-> live position -> gates, zones -> alerts
                                                              |-> gas evaluation -> alarm -> alert
                                                                                      \-> permits of the zone: suspended
    people -> permit requests -> permit row <- minute tick (expiry, stale gas tests)
    pages  -> requests from props that may be stale ==Inertia==> controller -> service -> tables
           <- new props, partial reloads, events of Reverb, snapshots while the socket is down

The web client is a set of Inertia pages. A page gets its props with a visit,
keeps drafts, filters, selections and open dialogs in state of its own, posts
forms whose redirect brings new props, and hears events of the server over a
socket that may be down. Between the props and the tables anything may happen,
so most of what can go wrong on a page is a decision on what is no longer so.

| Component | State | Operations | What is hard | What makes it correct |
|---|---|---|---|---|
| Permit life cycle (`Services/Permit/PermitService.php`) | `permits`, `permit_gas_tests` | draft, submit, inspect, gas test, approve, issue, suspend, resume, renew, cancel, close, reject; the tick's `expireOverdue` and `suspendStaleGasTests` | requests decide on a row read without a lock; long sequences of resubmission and renewal; expiry races resume | no work without the sign-offs of the type; bounded exposure past validity and past a stale gas test; void permits stay void |
| Permit detection (`PermitDetectionService.php`) | alerts it raises | scans of the tick: work without a permit, conflicting permits, fire watch | reads positions that move meanwhile; is skipped when the tick's earlier part throws | one live alert per condition |
| Permit pages (`pages/workforce/permits/`) | props, form, crew rows, board | buttons, save, crew, live reload, board columns | stale props; events lost, repeated, overtaken by snapshots | what is offered is accepted; a stale press advances nothing; the board converges |
| Permit types (`permit-types/show.tsx`) | rows of a register, dialogs | add, edit, reorder, switch, delete | page state shared by dialogs; another manager | a save writes what was changed and shown |
| Document readiness (`WorkerDocumentReadinessService.php`) | documents of workers | upload, replace, verify, reject, delete, expiry | stale verdict when used; panel and permit gate use different rules | who is on an issued permit holds what the role asks for |
| Gas alarms (`Services/Gas/GasMonitoringService.php`) | `gas_readings`, `gas_alarms`, a counter in the cache | ingest, cross, escalate, hysteresis, suspend permits | several statements with no transaction around them; a worker that dies in between is not repaired by a retry, which is a duplicate | an open alarm has a live alert; two clear readings resolve; every permit in force is suspended |
| Live feeds (`use-reverb-channel.ts`) | connection, fingerprint of the last event | subscribe, snapshot, poll, drop repetitions | a snapshot read before an event arrives after it | never a value that was not; current values while polling |
| Alert console (`alert-provider.tsx`) | store of open alerts, toasts, timers, audio context | events, acknowledge, dismiss, beep | asynchronous audio, timers of older toasts | one beep, and only for an open critical alert |
| Alerts (`Services/Alert/AlertService.php`) | `alerts` | raise by dedupe key, acknowledge, resolve | lookup, then create, with no lock; users act on an alert loaded before | one live alert per key |
| Edge outage buffer (`ir4_edge/common/buffer.py`) | SQLite table `events` | enqueue with eviction, flush, submit | two threads flush one file; answers are applied to a table that changed | nothing is lost but at the cap; rows leave when stored |
| RFID agent, gas agent | queue and batches in memory | MQTT callback, main loop, shutdown | threads, crash, stop | a graceful stop loses only what comes late |
| Edge client (`client.py`) | none | `post_ingest` with timeouts, retry on 429 | a lost answer looks like a lost request | the batch is retried and the server deduplicates |
| Reading ingest (`TrackingService.php`, `GasMonitoringService.php`) | `tag_reads`, `gas_readings` | look up `event_uid`, insert, apply | two requests with one uid; death between insert and effect | each reading applied at most once |
| Live positions (`TrackingService.php`, `ReaderBindingService.php`) | `worker_positions`, `entry_exit_logs`, `workers.present`, bindings of readers in time | gate toggle, zone rules, absence sweep, correction, rebind | toggling is not idempotent; every request and the sweep write rows they loaded before, in no transaction; rebinds out of order | passages are as far apart as the debounce; no reading sets a row back; nobody unseen is on site for ever; every reading falls in one zone |
| Evacuation (`EvacuationService.php`) | report and entries | trigger, account by reading and by hand, close | two triggers at once; close counts, then writes | a closed report has nobody missing, or was forced with a note |
| Tags (`TagService.php`) | tags, their rows of positions | assign, unassign, replace under row locks | readings create and move the rows meanwhile; lock order of two rows | who wears a tag has its one row; one tag per worker |
| Head counts, environment, portable devices | readings, devices | ingest and queries | as reading ingest | as reading ingest |
| Equipment (`Services/Equipment`, `pages/equipment`) | items, check-outs | check out, return, inspect, maintain, retire, scan | a status change, which takes no lock, beside a check-out; dialogs opened by late look-ups | an item is out to one worker, issued in service; a return closes what it named |
| Workers (`WorkerService.php`) | workers | import, offboard | offboarding beside a check-out | nobody leaves with a tag or an item |
| Weekly reports | `weekly_reports` | generate, supersede, publish | two generations of one week | one published report per week |
| Camera regions (`CameraRoiService.php`, `camera-rois/edit.tsx`) | set of zones, edge copy | draw, save, publish, turn the camera | the push happens before the commit; names by count; editor and server in parallel | a reference names one zone; a stale set stays stale until published |
| Camera streams (`pages/live`) | feeds shown, full screen, panel | hide, poll, command | feeds hidden by events of the player, restored by events of the server | a polled feed comes back; the panel is freed |
| PPE and zone violations (`PpeViolationService.php`) | verdicts, alerts | review one, review a selection | a selection that outlives its list; two writes without a transaction | alerts are resolved for the false positives, by choice |
| Safety incidents (`IncidentService.php`, `pages/hse`) | incident, corrective actions, drafts of the dialogs | classify, close, reopen, log | transitions decided on a stale row; dialogs reopened while a request is out | closed stays closed; one record per dialog |
| Asset health | health rows | heartbeat, stale sweep | sweep against heartbeat | offline is raised once, and cleared |
| Registers and lists (`components/ir4/settings`, `lib/visit-filters.ts`) | dialogs, filters, debounce | add, edit, confirm, filter, turn the page | one dialog, many rows and users; a timer beside a pick | what is shown is what is saved, and read |
| Settings and audit (`SettingsService.php`, `settings/general/index.tsx`) | settings, edits per tab | edit, confirm, save, restore | a save of several settings without a transaction; another administrator | only what was chosen is written |
| Dashboard (`DashboardService.php`, `lib/dashboard-live.ts`) | summary, alert card, feed | summary, events | counts kept by adding and subtracting | no live critical alert is missing |
| Retention and backup | backup runs, old rows | gate, purge | purge beside a failing backup | nothing is purged that no backup has |
| Accounts | lockout counter, users, roles | record failure, lock, provision | read, then write, of the counter | the count reaches the limit |
| Edge deployment (`ir4_edge/deploy`) | state file, lock | install, update, roll back | power cut in mid-install | a pole runs one whole release |
| Sensor drivers, mobile client, prototypes | | | | |

## 2. Modules

| Module | Models | EXTENDS |
|---|---|---|
| `PermitRow` | the row of a permit: for each operation its guard and its write | |
| `PermitLifecycle` | the life of a permit, operations atomic, the minute tick | `PermitRow` |
| `PermitRequests` | the same operations as overlapping transactions | `PermitRow` |
| `EdgeDelivery` | buffer, agent threads, client and ingest workers, composed | |
| `GasAlarms` | gas evaluation, alerts, users and permits, composed | |
| `PermitConsole` | the page of one permit over its row: buttons, stale presses, live reloads | `PermitRow` |
| `WorkerDocuments` | the documents of workers, and what the panel and the gate read off them | |
| `CrewReadiness` | the crew of a permit, from the form to the gates that ask for the documents | `WorkerDocuments` |
| `LiveFeed` | what a live screen promises | |
| `PermitBoard` | the board of permits and the channel under it; implements `LiveFeed` | |
| `AlertConsole` | the alerts on every page: store, toasts, bell, chime, and the Alert Centre | |
| `DashboardLive` | the alert card, the feed and the system health of the dashboard | |
| `CameraWall` | the live wall, its players, and the pan-tilt-zoom panel | |
| `RedZones` | the red zones of a camera: editor, set, publication, AI device | |
| `ViolationReview` | verdicts on camera detections, one by one and in bulk | |
| `IncidentRecords` | one incident, the officers who work on it, their pages | |
| `LogDrafts` | the dialogs that log incidents and violations | |
| `EquipmentCustody` | items, check-outs, the desk that issues them and the scanner | |
| `FormCatalogue`, `AdminForms` | the dialogs of the registers: what each posts, and how all of them work | |
| `Registers` | the list pages: filters, debounce, pager, live reload | |
| `SettingsPage` | the settings of the administrators | |
| `Repositioning` | rebinding of readers and cameras to zones, in time | |
| `Positions` | rows of worker positions: readings, gate passages, the sweep, corrections and the desk of the tags, statement by statement | |
| `Evacuation` | evacuation reports over the live positions | `Positions` |
| `PermitLifecycleProofs`, `PermitRequestsProofs`, `EdgeDeliveryProofs`, `GasAlarmsProofs`, `EvacuationProofs` | theorems | the module they are about |
| `DeskProofs` | theorems | `ViolationReview`, `IncidentRecords`, `LogDrafts`, `RedZones`, `AlertConsole`, `DashboardLive` |
| `OfficeProofs` | theorems | `MCOffice` with the modules it composes, `CrewReadiness` |
| `LiveScreensProofs` | theorems | `MCLiveScreens` (with `PermitBoard`, `CameraWall`), `PermitConsole` |
| `MCPermitLifecycle`, `MCPermitRequests`, `MCEdgeDelivery`, `MCGasAlarms`, `MCEvacuation` | small instances for TLC | the same |
| `MCLiveScreens`, `MCDesk`, `MCPermitPages`, `MCOffice` | small instances of several pages | the modules of the pages |

`MCLiveScreens`, `MCDesk`, `MCPermitPages` and `MCOffice` put pages beside each other that share no state. A behaviour picks
one page when it begins and follows it, with what the server and other users do
meanwhile; the others keep their first state. TLC so explores the sum of the
pages and not their product, which would say nothing more.

### Permits

`PermitRow` holds what does not depend on how requests interleave. An operation
of `PermitService` is a guard over the row `s` that the handler loaded and a
write that takes `s` and the row `r` that is in the table: Eloquent computes
with what it loaded and its `UPDATE` names only the columns it changed, so the
others keep the value of `r`. The status rules of `submit`, of
`recordJointInspection` and of `recordGasTest` (which skip the gates a type does
not demand) are the operators that pick the next status. The two inspection
columns are the set `signed`; the checklist, the crew's minimum and the text
fields are the flag `complete`; time is minutes.

`PermitLifecycle` uses `s = r`: `row`, the latest passing test `pass`, the result
`lastTest` of the latest test, whether the documents of the crew are valid
(`docs`, which changes at any time), the clock `now` and what the tick has still
to do in this minute. `cleared` and `activeSince` are history variables: which
sign-offs were given since the last submission, and when the permit last became
active. The permit type is the CONSTANTS, so one permit stands for all.

`PermitRequests` gives every worker a request `[op, loaded, missed]`: `Load` is
`reload()` and the checks on it, `Commit` the write, `Rollback` a worker that
dies or a transaction that is undone. The tick is taken apart in the same way:
`expireOverdue` selects a chunk and writes it later, while `suspend` loads the
permit again. `missed` counts the writes a request has missed and is bounded.

### Delivery of readings

`EdgeDelivery` goes from the batcher to the live state. On the pole: the queue
in memory, the table of the buffer with its `AUTOINCREMENT` ids, and for each
thread where it is in `submit` or `flush` (`peek`, `post`, `wait`, `requeue`).
On the server: for each worker the request it serves, one reading at a time,
as *look up the uid* (`Check`), *insert* (`Insert`, or what a unique violation
does: `InsertDuplicate` where the service catches it, `InsertThrows` where it
does not), *live effect* (`Apply`), and the `Answer`. A thread may stop waiting
while the worker goes on (`TimesOut`), a request may not arrive
(`Unreachable`), a worker may die (`WorkerDies`), the process may be killed
(`Crash`) or stopped (`Stop`, `Exit`) and is started again. `UniqueCaught`
distinguishes `GasMonitoringService` (TRUE) from `TrackingService` (FALSE), and
`Threads` the agents. What the live effect of a reading is stays open: the module
counts how often it happens.

### Gas alarms

`GasAlarms` is `evaluate` with the calls it makes, one database statement per
step. A reading is the band it falls in. `Cross` is `raiseOrEscalate`,
`Escalate` closes the open warning first, `Cool`, `Count` and `Put` are
`trackHysteresis` with its counter in the cache, `Resolve`, `Find` and `Hush` are
`resolveAlarm`, `Raise` and `Create` are `AlertService::raise`, `OpenAlarm`
writes the alarm, `List`, `Suspend` and `SuspendThrows` are
`suspendActivePermitsForDevice`, and `Forget` clears the counter. Users load an
alert and act on it later (`Load`, then `Acknowledge` or `ResolveAlert`), the
permits of the zone are issued, suspended, resumed and ended, and a worker may
die between any two statements (`Die`). Several workers may serve requests of one
detector at once. Seven history variables say what the
tables do not: which permits were in force when an alarm opened and have not
been touched since (`exposed`), which of them a request gave up when it ended
early (`spared`), which alerts a user resolved (`silenced`), how many clear
readings came in a row (`streak`), where a request ended before it could
forget the count (`kept`), which requests about to open an alarm another one that
was as far has overtaken (`overtaken`), and which detectors had two requests served at
once (`doubled`).

### Positions and evacuations

`Positions` is `advanceLiveState` with what it calls. A reading that names a worn
tag takes a request from `Find` (the row of the tag, and whether the reading is
newer) over `Create`, `Gate` (the debounce, read off the log), `LogPassage` (in or
out is decided on the row as it was loaded) and `Save` (Eloquent writes the
columns that differ from the row as loaded, to a row that may be gone) to
`Rules` (the mirror in `workers` and the alert of the occupancy). The request
keeps the row as it knows it (`held`), the zone it had (`from`) and what it will
write of `is_on_site` (`on`). It may die anywhere (`Die`). The sweep loads all rows
that are due (`SweepStart`), then writes each row and, in a statement of its own,
its log; a correction writes the log, then the row. The three operations of the
desk are transactions under the locks of tag and worker and are one step each. Two
statements between which nothing of interest can pass are one step: the `refresh`
of a gate reading goes with its save, and the mirror with the rules of the zone.

`Evacuation` ends a reading's request with the accounting (`LookUpEntry`,
`TickEntry`), and gives every request of an officer what it read before it
writes: `AskTrigger` and `Trigger`, `AskMark` and `Mark`, and for the close the
report (`AskClose`), the count (`Count`) and the write (`Close`). Any number of requests
process readings at once. The history variable `overtaken` says of each what another one
wrote since it looked: the row it loaded, or a passage of its worker.

### Permit pages

`PermitConsole` has the row of `PermitRow` three times: as a transaction loaded it
(`loaded`, without a lock), committed (`row`), and between the write and the commit of
a transaction (`writing`, when the row is locked), because `PermitUpdated` is
broadcast by the `saved` hook inside it. The page holds the props it last got
(`shown`), the crew and the ticks of the form, which are state of the component
and survive a reload (`crewed`, `ticked`), and the presses it sent, each with the
status the page showed (`sent`). `Unblocked`, `Preparing` ... `Offered` are the
conditions under which `show.tsx` draws a button; `FlowSteps`, `FlowRank`,
`FlowStep` and `DoneSteps` are its progress bar. `Hear` is an event that asks for a partial reload, `ThrottleEnds`
the 1.5 seconds of `useLivePartialReload`; a reload reads (`ReadProps`) and arrives
(`ReloadArrives`) on its own time. `PressButton` sends, `Handle` is the
controller and the service up to the decision on the row they loaded, `Refuse` the
answer if that is no. `Other` begins the same operations from elsewhere, and the
expiry of the scheduler, in any of the transactions `Others`. `Write` writes what the
operation makes of the row it loaded into the row as it is by then (Eloquent updates the
columns that differ from what was loaded), `Commit` commits and answers. The history
variable `raced` says that a write has met a row other than the one it had loaded.

`WorkerDocuments` is the documents controller and the two evaluations of a
document: `Badge` for the panel, `Considered` and `Fulfils` for the gate, which
differ (see section 6). `CrewReadiness` adds the rows of the crew in
`create.tsx` and in the draft of `show.tsx`, which offer the workers that were
ready when the page was read; `CreateDraft`, `UpdateDraft` and `SaveRefused` with
the delete-then-insert of `syncCrew`; and the operations that ask for the
documents again (`Submit`, `Issue`, `Renew`).

`PermitBoard` is `useReverbChannel` with the reducers of `lib/permit-board.ts`: a
write broadcasts its event (`WritePermit`) before it is committed
(`CommitPermit`); events are applied in order unless they repeat the last
fingerprint (`TakeEvent`); a snapshot is asked for at mount, on a change of the
connection and, while the socket is down, every poll interval, reads the table
(`ReadSnapshot`) and replaces the columns when it arrives (`SnapshotArrives`), or
fails. `LiveFeed` is the abstract screen: it shows for each item a value the item
has or had, and while it polls it comes to show the current values and keeps
showing them. The refinement mapping (`Feed`, at the end of `PermitBoard`) takes
the column a permit is in for what is shown, `Off` where it is in none, and the
connection for the connection.

### Live screens

`AlertConsole` keeps the store of open alerts as `alert-provider.tsx` does
(`UpsertAlert`, snapshots), and makes of it the toasts with their timers
(`Undismissed`, `Visible`, `CardTimers`), dismissals that remember a signature,
the count of the bell, and the chime: `Effect` is the effect that starts and stops
the loop, `StartResolves` and `StaleResolves` the answer of an audio context that
was asked to resume for an effect which may be gone. `DashboardLive` patches a
summary with events (`ApplyAlert`, `PatchHealth`) whose counts depend on what the
summary listed before (`Previous`). `CameraWall` has the cameras shown and those
hidden because their player gave up (`FeedGoesDown`), what the snapshots restore
(`ClearBlank`), full screen, and the panel that is disabled while it waits for its
command.

### The desk of safety

`RedZones` is the editor (points, draft, names, switch), the set with its
fingerprint and state, the transactions of `saveDraft` and `publish` (`Loads` the
status, and the camera, in one snapshot; `SaveWrites`, or `PublishWrites` with the push to
the edge and then `PublishCommits`), the head of the camera that others turn
(`TurnCamera`, and its `markStale` in two steps, `MarkLoads` and `MarkWrites`), and the AI
device, which pulls by itself. No row is locked by a read, and Eloquent writes a status only
if it differs from the one loaded (`Written`). `ViolationReview` is the
list with its ticks, which outlive the page of the list, the detail page, and the
service, which writes one verdict after the other (`Judge`), resolving the alert
of a false positive after the verdict is saved (`Owed`). `IncidentRecords` is the
load, the check of `Allowed` and the later save of what changed, with pages whose
buttons show another status. `LogDrafts` is `useForm` under a dialog: the draft is
of the page, an effect fills it from an alert, an answer may come to a dialog
opened anew.

### The office

`EquipmentCustody` is the check-out in its transaction (`StageTx`, `LockItem`,
`InsertRow`), the return, the status changes that load and save without a lock
(`LoadItem`, `SaveItem`), and the three pages that open the two dialogs, one of
them by the answer to a scan (`LookedUp`).

`FormCatalogue` says, for the forms of the registers, who holds a field while a
dialog is open (an uncontrolled input, or a `useState` of the page which
outlives the dialog), what is posted for it, what the server takes when nothing
is posted, and which state the add and edit buttons set. `AdminForms` is a
manager at one of these registers: `Open`, `Change`, `Submit`, `SubmitAgain`
(press before the answer), `Handle`, `Answer`, and other managers. A field
depends on no other, so a behaviour follows one field of one form.

`Registers` says for every list page which control a filter has and what its
pager carries; the actions are typing, the debounce that fires, picking, staging,
applying, turning the page, live reloads. A behaviour follows two filters of one
page. `SettingsPage` is the tabs with their edits, the dialog before a sensitive
value, the location found by the browser, and the save: validation of all, then
one write per setting (`SetNext`) while another administrator saves.
`Repositioning` has for every unit its rows of bindings; a request reads its clock
(`ReadClock`) before it locks and writes (`BindUnit`), so requests bind out of order.
The page names no `effective_at`; a request of another client may, as far back as it
likes and up to five minutes ahead (`Ahead`).

## 3. Runs

| Run | Question | Instance |
|---|---|---|
| `permit_lifecycle` | Every sequence of operations on one permit, with the tick | inspection and gas test demanded, extended or not; validity 2, maximum 3, retest 1, one renewal, clock to 5 |
| `permit_requests` | What stale reads cannot break | every gate; validity 0, maximum 1, retest 0; two workers, clock to 1, a request misses at most 2 writes |
| `edge_rfid` | RFID agent: two threads on a buffer at its cap, and whether every reading gets there | 2 readings, 2 workers, cap 1, batch 2, 1 round of a flush, 1 fault, 1 end, 1 change of references, ids to 9 |
| `edge_gas` | gas agent: one thread, service that catches duplicates | 3 readings, 2 workers, cap 2, 2 faults, 1 end, 2 changes, ids to 5 |
| `gas_alarms` | alarms, alerts and permits with a worker that may die, and with requests of one detector at once | 1 detector, 2 permits, 3 alarm rows, 3 alert rows, 1 death; 1 worker, 1 user, 4 readings and 2 acts of people, or 2 workers, 3 readings and 1 issue or end of a permit |
| `gas_partial` | "auto-suspends that permit": violated with no death | no user, 2 readings, 2 acts |
| `evacuation` | Positions and reports with every statement on its own | 2 workers, 2 tags, 1 request, debounce 2, absence after 2, clock to 3, 2 readings, 3 rows, 3 acts of the desk; or 1 worker, 1 reading, 1 correction, 2 officers, 2 reports; or 1 worker, 2 requests, 3 readings |
| `occupancy` | "auto-resolves when the count drops": violated | 2 workers, a gate and a bay that holds one, 5 readings |
| `live_screens` | Does a screen left open show what is so? | board: 2 permits, 2 writes, 1 drop of the socket, 2 snapshots out at once; wall: 1 camera, 2 ids of other tables, 2 events, 1 outage, 2 commands |
| `control_desk` | Do alarms, zones and records follow what people decide? | 2 alerts, 1 of them critical, 1 toast, 2 raises; 3 alerts and a device on the dashboard; 2 zones, 1 move of the head, 2 posts; 3 violations on pages of 2; 2 officers and 3 requests; 3 dialogs and 2 posts |
| `permit_pages` | Does the page of a permit stand up to what has changed? | a user with all three permissions, 3 operations, 1 press out; either 1 reload out or 1 other transaction that overlaps; 1 worker, 2 documents, time to 2, a form of 2 rows, 2 types of permit with a role each |
| `office` | Is what is issued, saved, filtered and bound what was shown? | 2 items, 2 check-outs, 1 status request; the forms with 2 rows, 2 dialogs, 1 request out, 1 act of others; the lists with 4 picks and 2 reloads; 3 groups of settings; 1 reader, 2 zones, 2 rebinds, time to 3, a rebind dated up to 1 ahead |

What they show, and why the bounds reach the interesting cases:

*permit_lifecycle.* `GatesClearedThisRound`: a permit that can be issued has the
gas test and the approval of the *current* submission, and at least one
inspection signature of it. `WindowWithinLimits`: no sequence of suspend, resume,
renew, reject, resubmit and issue stretches the window of a permit that is not
extended past the maximum, or past its first validity. `ExposureBounded`: at most
one minute of work past `valid_to`, and one past the retest interval, or after the
resumption (issue) that went through although the time was over. `VoidIsFinal`
and `OverdueIsExpired`. A validity of 2, one renewal
to a maximum of 3 and a clock to 5 give an issue, an expiry, a renewal, a second
expiry and a resubmission in one run; the maximum is smaller than two validities,
so that the cap of `renew` matters.

*permit_requests.* `OverlapIsSafe`: whatever is lost by a stale write, a sign-off
never is, because sign-offs only add to the row or to the list of tests.
`VoidChangedOnlyByStale`: only a transaction or a tick that read the permit
before it became void can change it. Two workers and two missed writes are enough
for every pair of operations to pass each other in either order, and for a
request to miss a cancel and the write that followed it.

*edge_rfid, edge_gas.* `NothingVanishes`: a reading is in memory, in the buffer,
stored, evicted, or was in memory when the process ended. `AppliedAtMostOnce` and
`LiveEffectOnlyCut`: through retries that overlap the first try, each reading
moves the live state once; the only stored readings without an effect are those
that have none and those whose worker died between the two statements.
`LeavesOnlyRecorded`: an answer applied late deletes only rows whose reading is
stored. `BufferWithinCap`, `StopLosesOnlyLate`, and `EventuallyRecorded`: once the
references a reading names are known for good, it is stored, evicted, or went with
the process. For the agent with one thread, `DropsOldestFirst` (the others are
theorems for either agent, so the second run asks only this). Two readings and a
cap of one make every enqueue of the second an eviction; one fault with two
workers gives a retry beside a request that still runs. The reading that is put
back gets a new id each time, and nine ids are more than the faults, the end and
the changes allow, so the bound cuts no behaviour off.

*gas_alarms.* `OpenAlarmSounds`, `AlarmReachesPermits`, `TwoClear`,
`SuspensionCompletes`, `SecondOnlyByOverlap`. Four readings give warning, alarm, clear,
clear; one death falls between any two statements of any of them; two acts let a
user acknowledge and resolve, or a permit be issued and ended, around them. A behaviour
has one worker, or two that serve readings of the detector at once, over the same
actions. `SecondOnlyByOverlap`: a second open alarm of a level is opened by a request
that had looked for one before the first was on record (the history variable
`overtaken`), and by no other, although the first may be resolved, escalated or left by a
dead worker in between. Three readings let the two requests that overlap be followed by
one that clears or looks again. `OpenAlarmSounds` and `TwoClear` are claimed of a
behaviour up to its first overlap (`doubled`): after it they fail (section 6).

*evacuation.* `AssignedTracked`: whoever wears a tag has its one row and wears no
other, though readings create and move rows around the transactions of the desk.
`PassagesApart`: a passage is logged as far from all before it as the debounce, in
whatever order the readings come, and `SeenForward`: no reading sets a row back, but for a
request that another one overtook after it had looked.
`AbsentSwept`: a worker nobody reads any more is not on site for ever.
`ClosedAccounted`: a report is closed with nobody missing, or by force with a note.
A behaviour follows the tags and the sweep, or a short evacuation of one worker, or two
requests that process readings of one worker at once, all over the same actions. Three
readings let the two that overlap be followed by one that meets what they left. Two readings
with a clock of 3 give a late reading, a second one within the debounce and one
that is overtaken by the sweep; three acts of the desk take a tag away and give it
to another worker; two officers close, mark or trigger beside each other. Without the
exception two requests break both (section 6).

*occupancy.* The alert of a bay stays live after the last worker left by the gate.

In the runs of the pages, a property gathers what is promised of one page: its
type invariant and a few named parts, each with a comment and a mutant of its own.

*live_screens.* `ScreensConsistent`: no permit is in two columns, and a panel is
disabled only while a command of its own is out. `BoardImplementsFeed`: the board
implements `LiveFeed`; it never shows what a permit was not, although snapshots
and events overtake each other, and while it polls it converges. It does not
promise this while the socket is up (section 6). `WallRecovers`: while the page
polls, a camera whose stream flows comes back on the wall again and again, and
the panel is freed. Two writes and two snapshots give a snapshot that was read
before the first event and arrives after the second.

*control_desk.* `AlarmAsStored`: one loop of the chime, silent once the last
critical alert is acknowledged, and toasts that stay
dismissed until the alert changes. `CardCountsCriticals`: the card counts
at least what its feed lists, once the page was told of every change at least the
critical alerts that are live, and, as long as the feed has had room for every
alert, exactly those it lists: none twice, and none that has ended. `ZonesAsPublished`: a reference names one zone, the editor shows what is
stored, and a set marked stale stays so until someone publishes, or a save commits that had
loaded it active before the mark. `AlertsFollowVerdicts`: the alert of every false positive is resolved,
and only of those that somebody chose among rows the page listed. `ClosedStands`: a
closed incident has what a closure needs, and changes only by a request that was
made to change a closed one or that loaded it open. `RecordsAsMeant`: one record
for each dialog submitted, linked to the alert its title names, and the text
survives a refusal where the page was not opened from an alert; where it was, the
effect fills the form anew and the text is lost (section 6). The bounds are two of everything that can overtake or be
mistaken for another, and a page of two rows for three violations, so that ticks
are left behind. The alerts of the dashboard are symmetric.

*permit_pages.* `ButtonsFitPermit`: on a page that is current every button is
accepted, a permit on its way to work always offers a way on,
and a step drawn as done was signed; and (`StalePressNeverAdvances`) a press moves a
permit forward only from the status its user saw. A behaviour of the instance either
has reloads and runs transactions one at a time, or has no reload and lets the transaction
of the page overlap with another one; together they are 2.2 million states, and the
theorem has both at once and any number of others. Where transactions overlap the
properties say less, as the code does: the step of the approval may be drawn as done
without one, the page may offer to issue a permit whose crew a save took apart, and a
press that loaded the permit at the status its user saw is written over what was
committed since. `CrewAsSaved`: a save replaces the crew whole or not at all, the
crew is of the type's roles, and who may fill a role shows as verified in the panel. `IssuedCrewReady`: whoever works on a permit that
is issued or renewed holds, at that moment, what the role asks for. The equal
documents are symmetric. Three operations are enough for a press to meet a permit
that was moved away and back. `NeverStuck` is about a user with all permissions,
and fewer permissions offer fewer buttons, so the instance has them all.

*office.* `CustodyKept`: one open check-out per item, the fields of a dialog are
those of the item it shows, a return closes what was shown, and an item goes out
only if it was in service when its transaction read it. `PagesAsShown` has three
parts. `DialogsAsShown`: a dialog
to add begins with the defaults, adds once, an edit leaves alone what its user did
not touch, a save that succeeds stores what was shown, and a confirmation does what it
announced or nothing. Excepted, because the code loses them (section 6), are a box that
is unticked where the server has no "off" for what is not posted (`UntickLost`), the
`is_mandatory` of crew roles and the permit flag of a zone to add. `FiltersApplied`: at
rest, the table is that of the controls, on live pages too, except after a live reload
that was under way when the last visit arrived (`overtaken`): its answer brings the table
of before. A visit takes the staged filters along.
`SavesAsChosen`: what a save writes was chosen on the page, a sensitive value was
confirmed. `HistoryStands`: at any time a unit covers one zone, and a rebind does
not change what was covered before the moment it names. The AI switch of the cameras and the list
of work orders break these properties; they are in the models and left out of the instance (section 6); in the settings the
weather comes from the API, which is when the coordinates are required. The equal
items are symmetric; all that is checked under symmetry is safety.

Every property of a passing run has a mutant in `PROJECT.json`, the gathered ones
one for each part: a change of one definition, of the kind a programming mistake
makes, under which the same run violates the property. The type invariants of
`PermitLifecycle`, `PermitRequests`, `EdgeDelivery`, `GasAlarms` and `Evacuation` are theorems and cost no run.

## 4. Fairness and deadlock

- `PermitLifecycle`: weak fairness of the two halves of the tick and of the
  clock. `routes/console.php` schedules `ir4:permits-tick` every minute; nobody
  has to act on a permit.
- `EdgeDelivery` (`FairSpec`): the loops of the agent, the requests a worker
  serves, and the restart of the agent by systemd go on. Nothing is assumed of
  the network or of the readers; faults are bounded, and that references end up
  known is the premise of the property, not an assumption of the model.
- `GasAlarms` (`FairSpec`): a worker goes on with the request it serves. That it
  does not die is not assumed: the property excepts the permits a dead request
  did not get to.
- `Evacuation` (`SweepFairness`): the sweep, which `routes/console.php:39` schedules
  every hour, starts when a row is due and goes on. Nobody has to read a tag, and a
  request that processes a reading may stop for ever: `AbsentSwept` is owed to the
  sweep alone.
- `PermitBoard` (`BoardFairness`): a transaction commits, events that were delivered
  are applied, the poll interval fires, the server answers a snapshot it was asked
  for, and not every snapshot fails (strong fairness of `SnapshotArrives`: a poll
  that never succeeds shows nothing). Nothing is said of the socket: it may stay
  down for ever, and what `LiveFeed` promises is then owed to the poll alone.
- `CameraWall` (`WallFairness`): the same, for its poll and its events, and a command
  is answered, if only by the timeout of the request.
- `LiveFeed` has no fairness of its own: what must happen is stated outright
  (`Converges`).

`MCLiveScreens` states both under the screen that is shown. The other pages have
safety properties only: nobody has to press anything.

Deadlock is checked for the permit models, where the system never stops. It is
switched off where the readings, or what the users of a page do, are bounded: when
that is used up, nothing is left to do.

## 5. Proofs

TLC's instances are small; the theorems hold for every value of the constants
that the `ASSUME`s admit (each a condition of type: natural numbers, Booleans, a
finite set of readings, a `None` outside the set it stands beside). For a
temporal theorem the argument is always the same three facts about an inductive
invariant, one step for each action. What follows is why each invariant is more
than the property.

- `PermitLifecycleProofs`: `TypeCorrect`, `GatesCleared`, `WindowLimited`,
  `ExposureLimited`, `VoidForever`. The invariant adds to the
  properties what makes them survive the states before a permit is issuable:
  which sign-offs each intermediate status implies, how `valid_from`, `valid_to`
  and `renewal_count` relate in the statuses in which they are set, and how late
  it can be in each phase of the tick.
- `PermitRequestsProofs`: `OverlapsAreSafe` (of types and `NoUngatedWork`),
  `VoidOnlyByStale`. The invariant speaks of the rows in flight as well: what the
  status of a row proves about its sign-offs (`Earned`) holds of the table and of
  every row a request has loaded, and a loaded row has no sign-off that the
  table lacks (`Grows`). So a write computed from a stale row finds in the
  table all it relies on. The number of workers is arbitrary.
- `EdgeDeliveryProofs`: `EdgeTypeCorrect`, `AtMostOnce`, `EffectLostOnlyByCut`,
  `ReadingsKept`, `RowsLeaveStored`. The invariant follows a reading along its
  way: a worker applies only what it inserted itself and no two workers apply one
  reading; what a request answers as accepted is stored; the rows a thread holds
  in flight are those it peeked. `BufferCapped`: ids are distinct and below the
  next one (`Table`), so each row has a rank and the oldest ones make up exactly
  the excess. `StopIsGraceful`: in a process that is stopping what is left in the
  queue came after the last drain (`LeftLate`), for agents with two threads, or with
  one that sends each reading at once (`Batching`, which is how the two agents are
  built). `OldestGoFirst`: a single thread buffers readings in the order they came
  (`OneThread`); with two threads the batches may be buffered the other way round, so the
  theorem is about the agent with one.
- `GasAlarmsProofs`: `GasTypeCorrect`, `AlarmMeetsPermits` and `OneOpen` with any number of
  overlapping requests; `TwoClearReadings` and `AlarmsSound`, which need no
  assumption either: the properties speak of a behaviour up to the first overlap of
  requests of a detector. The invariant of the
  first two adds which step a request can be at with which data (`Fitting`), and that
  `exposed` permits are in force. That of `OneOpen` adds that a request on its way to
  open an alarm found none open and none was opened since, unless another request that was
  as far overtook it (`LooksAhead`). The other two rest on the request being the only one of
  its detector (`Single`, `WayClear`). That of `TwoClearReadings` relates the
  counter in the cache to the clear readings there were, at each step a
  worker may die at (`CountInv`); that of `AlarmsSound` says at each step of a request
  which alarm and which alert it has in hand, so that none is hushed while its alarm is
  open (`Handles`).
- `EvacuationProofs`: `EvacuationTypeCorrect`. `WornIsTracked`: a tag has one
  row at most, a worn tag has the row of its wearer, and no two worn tags have one
  wearer (`Tracked`); a request that creates a row was refused if there is one, and a save
  changes neither tag nor worker. `ReportsClosedWell`: a request on its way to close
  without force counted nobody missing, and entries never become unaccounted again
  (`CloseIsSure`). `PassagesKeptApart` and `PositionsForward` speak of any number of
  requests: one that no other overtook still finds no passage too close when it logs
  (`NoneLingers`), and what it saves is newer than the row it will meet
  (`Ahead`), though sweep, desk and corrections write in between (`WaiterAhead`: a row
  that a waiting request holds is written by a save only, which overtakes it).
- `DeskProofs`: `VerdictsFollowed`: every request is followed between its two writes;
  what it has still to judge, and the alert it owes, were called false positives by
  its sender, and it owes one alert at most (`ReviewInv`). `IncidentStands`: a
  classification is never taken back, so what a request loaded of it still holds when it
  saves, whatever became of the status in between (`IncidentInv`). `LogsAsMeant`: the draft is
  linked exactly when the title says so (`DraftAsTitled`), and a record may still come
  of the request that is out or of the open dialog, not of both (`MayLog`), which
  bounds the records by the dialogs. `ZonesAreAsPublished`: whatever set of zones is
  stored, published or on its way has unique names and is not empty, and what a
  transaction writes are the zones of the request it serves (`ZonesInv`); a stale set ends by
  a publication, or by a save that had loaded it active before it was marked
  (`SetExists`: a set, once created, is never loaded as missing). `AlarmIsAsStored`: the loop of the chime
  is on only with an audible critical alert and permission, the one beep timer belongs to
  the loop that runs (`ChimeInv`), and only cards on show have timers, so no timer of an
  older toast dismisses a newer one (`ToastsInv`). `CardCounts`: the card counts at least
  `Counted`, the alerts its feed lists as critical together with those that stand so,
  that the page was told of, and that were pushed off the feed; of each alert the last
  event on the wire says how it stands (`WireInv`), and a summary on its way is as good as
  the page but for what it missed (`UpToDate`), so events and summaries may come in any
  order. An event adds to `Counted` what it adds to the card at most. No summary and no
  event tells of an alert that was not raised (`Exact`), so a feed with room for all of
  them cuts nothing off and what it lists decides what an event adds or takes away.
- `LiveScreensProofs`. `BoardFollowsFeed`: the board implements the steps of `LiveFeed`
  under the refinement mapping. The invariant says that not only the board but
  every event and every snapshot on its way says of each permit a card it had
  (`Faithful`), which is what makes it harmless in which order they arrive.
  `ScreensStayConsistent`: no permit in two columns, and a busy panel has its command
  out and is on full screen. `PageFitsPermit`: the invariant has two levels. Whatever
  overlaps, a row is at work only with a window, past the joint inspection only with both
  signatures, and renewed within the limit (`Gated`), because a write adds to what its
  transaction loaded and nothing takes signatures or the window off a row (`Under`,
  `Granted`). Until a write met a row it had not loaded, every row the page may meet,
  stored or in a reload, is also one that the operations produce one after the other
  (`Sound`). Every press was offered on such a row (`FitPress`).
- `OfficeProofs`. `HistoryIsKept`: the rows of a unit tile the time since it was
  first bound (`Tiled`), whatever order requests take their clocks and locks in, so each
  time has one zone and a rebind leaves the earlier ones. `CustodyIsKept`: the lock of an
  item is held by the request that checked it and no other, and while it is held the item
  is in service and in (`ServerInv`); what is filled in and posted is for the item that
  the dialog shows (`PageInv`, `PostedForShown`). `CrewIsAsSaved` and `IssuedCrewIsReady`:
  every document on file has its file where its type needs one, the rows of the crew form
  are of roles of its type, the form shown and the crew saved are of the permit's type. The
  readiness of an issued crew speaks of the documents at the moment of the issue, when the
  gate reads them; between the save and the issue they change freely.
  `SavesAreChosen`: the edits that nobody asked to confirm are the ones shown, a
  confirmation covers keys that were picked, and a save on its way carries chosen keys
  only. `DialogsSaveAsShown`: a dialog has one request on its way at most, the page waits
  for it, and it says what the dialog announced (`FormsInv`); that each form of the
  catalogue is wired as this needs is proved form by form (`Catalogue`). `ListsMatch`: the
  search that waits for its timer is what its box shows; when none waits, the visit
  under way, or else the table, matches the controls, and a live reload asks for that
  table, until a visit overtakes it. `OfficeShows` puts the three
  together. The theorems on forms and lists have as hypotheses that the AI switch of
  the cameras and the list of work orders are left out, which break the properties
  (section 6).

`LeastNatural` in `OfficeProofs` shows how induction over the natural numbers is had
from the library without an operator as parameter: every set of naturals that is not
empty has a least member (`WFMin` for `<`), and a counterexample set is such a set.
What a recursive function computes cannot be had that way here.

Only model-checked: the liveness properties (`OverdueIsExpired`,
`EventuallyRecorded`, `SuspensionCompletes`, `WallRecovers`, `AbsentSwept`, and what
`BoardImplementsFeed` says of convergence), which need `ENABLED`, out of this prover's
reach. Every invariant and every action property of a passing run is a theorem or
follows from one.

Proving corrected the models where no run could tell: two arms of a `CASE` that
overlapped in `CrewReadiness`, `WorkerDocuments` and `CameraWall` left open which one is
taken, and `DashboardLive` kept the last row of a full feed when an alert it did not
list was resolved, which `applyAlert` drops (`dashboard-live.ts:79`).


## 6. Where the documents and the code part

Found by a run, with the sentence quoted in `PROJECT.json`:

- A permit that ends while the zone is being suspended saves the permits after it
  from suspension (`gas_partial`).
- The occupancy alert of a zone stays live when its last worker leaves by a gate, is
  swept or corrected off site: only a worker on site has the rules evaluated
  (`occupancy`).

Met while modelling; the models have the behaviour, no run is spent on it. Where a
property makes an exception for it (`overtaken`, `doubled`, what a save had loaded), TLC
finds the counterexample as soon as the exception is taken out. Of permits:

- A resume that loaded the permit before a cancel makes the cancelled permit active
  again (Doc 22:361); `VoidChangedOnlyByStale` says that nothing else does.
- A save that loaded the draft before a submission commits writes crew, checklist and
  extension under the submitted permit (`PermitService.php:109`): the page then offers an
  issue that the server refuses, or the permit is extended beyond its approval and no
  approver is asked.
- A type may be saved with a validity above its maximum
  (`PermitTypeController.php:177`); its permits are never renewed, and the page offers
  the renewal all the same.
- A failed gas test after a passed one does not block the issue (Doc 22:469), as
  the pass is still within the interval.
- A suspended permit does not expire, and is resumed after its validity
  (`PermitService.php:365`; Doc 22:352).
- After a rejection one signature completes the joint inspection
  (`PermitService.php:213`; Doc 22:331).
- A renewal asks for no gas test (Doc 22:350).
- Issuer and receiver who sign at the same moment leave the permit in
  `pending_inspection` with both signatures until one signs again (Doc 22:311).
- Two renewals at once both pass the limit on one `renewal_count`; the validity is
  extended once for both (Doc 22:471).
- A permit is resumed, or issued, while the alarm of its zone is open, and the
  alarm does not suspend it again (Doc 22:360).
- `PermitUpdated` leaves inside the transaction, so a reload it causes may read
  the row as it was; events within 1.5 seconds of a reload ask for none
  (`use-live-partial-reload.ts:37`), so a page can stay behind until the next event.
- "Submit" posts no draft: edits that were not saved are ignored
  (`permits/show.tsx:438`, `:789`).
- The gate looks at one document of a type only, the one that expires last, and at
  one without a date last of all, so a verified document does not help a worker
  who has a later one that is pending (`WorkerDocumentReadinessService.php:179`;
  Doc 22:262, 473); the panel takes the best.

Of readings and gas:

- A replayed reading is a 500 when both tries look it up before either inserts it
  (`TrackingService.php:145`; Doc 08:43).
- `buffer.py:14` says that rejected rows stay deleted; `flush` (209) and `submit`
  (233-245) keep them.
- With two threads the newest reading may be evicted before an older one that is
  buffered again with a new id (`buffer.py:11`).
- Two requests of one detector that look for an open alarm before either creates one
  open two of one level, where the document has one (Doc 07:115).
- Overlapping requests of one detector also make two live alerts of one key, of which a
  resolution finds the latest only, so an open alarm may be without a live alert; and a
  clear reading served beside another may count for two. A stale acknowledgement reopens a
  resolved alert (Doc 07:101).
- A reading that falls back from alarm to warning opens a second row (Doc 11:165).

Of positions and evacuations:

- Of two requests that loaded one row the older reading may save last and set the row
  back, though the row "advances forward only" (Doc 09:56).
- Two requests look for the last passage of a worker before either logs one, and log two
  within the debounce (Doc 09:175).
- A request that loaded a tag as worn creates a row after the tag was taken back, and
  nothing deletes it before the tag is handed out again (Doc 09:42).
- Two requests for one tag may log the same direction; a correction and a sweep write `is_on_site` between.
- The log of a passage and the row it is about are two statements in no transaction: a
  request that dies between them leaves a log of a passage that the row denies.
- A correction that says "in" of a tag long unseen is undone by the next sweep; a sweep
  that loaded its rows marks a worker off site who was seen since.
- Unassigning a tag deletes its row and leaves `workers.present` as it was.
- Two triggers at once open two reports; accounting by readings goes to the newer.
- A reading accounts for a worker when it is processed: a muster reading that was
  recorded before the trigger counts as a sign of life after it.
- Accounting by hand and by a reading overwrite each other's source, and an entry may be
  ticked after its report was closed.
- A gate reading whose row was deleted meanwhile fails when it loads the row again.
- `assign` locks the tag, then the worker, `replace` the worker, then the tag, so that two
  of them can wait on each other, and MySQL undoes one
  (`TagService.php:242`).

Of live screens:

- Events missed while the socket was down come back with the next snapshot only; a
  snapshot that was read before an event and arrives after it takes the event
  back, and with the socket up nothing repairs that (Doc 08:123).
- A browser that suspends the audio context ends the chime for good: `beep` does not
  go on, and `looping` keeps another from starting, until the alerts change
  (`alert-provider.tsx:349-373`; Doc 07:182).
- At most five toasts are shown (`alert-provider.tsx:450`); a sixth critical alert
  waits behind them, while the chime goes on.
- The number of devices online is counted up and down by events whatever a device was
  before, so a device that goes from offline to fault is subtracted twice, until
  the next summary (`dashboard-live.ts:315`).
- An alert that newer ones pushed off the feed counts as unknown to `applyAlert`: told of
  again it is counted again, and resolved it is not taken off, until the next summary
  (`dashboard-live.ts:58-136`). `NoneCountedTwice` holds as long as the feed has had room.
- A feed that went down is hidden until the poll restores it: with the socket up
  it stays away until the camera changes its status (`use-reverb-channel.ts:150`).

Of the other pages:

- Zones are sent to the AI device before the publication is committed
  (`CameraRoiService.php:123`).
- A save of zones that loaded an active set writes `draft` over a mark that commits before
  its first row (`CameraRoiService.php:74-81`): the set is no more shown as stale, and is sent
  to no device. A publication that loaded it active leaves it stale.
- A publication that loaded the camera before its head was turned commits an active set
  with the fingerprint of the old view, and no mark comes after it, though "When PTZ or
  stream URL changes the view, ROIs are marked stale" (`CameraRoiService.php:111`; Doc
  23:13).
- The AI switch of a camera flips what the server has and not what the dialog said
  (`HardwareRegistryService.php:153`; `hardware/cameras/index.tsx:399`).
- A box that is unticked in the dialogs of permit types posts nothing and stays
  ticked (`permit-types/show.tsx:1286-1306`), and editing an optional crew role
  makes it mandatory (`CrewRoleController.php:97`).
- Two managers with the same row open: the later save wins, field by field as posted.
- A live reload of a list that a visit with other filters overtakes is answered last and
  shows the table of before under the new filters, until the next visit
  (`Registers.Reloaded`).
- A dialog that is refused on a page opened from an alert is filled anew: what was typed
  and its errors are gone (`hse/incidents/index.tsx:112`, `hse/lsr/index.tsx:80`); the
  answer of a vehicle or LSR record shuts whichever dialog is open by then
  (`hse/vehicle-violations/index.tsx:160`).
- The pager of work orders drops the search (`workforce/work-orders/index.tsx:144`).
- A retired item can be made available by a request that loaded it before
  (Doc 13:159); only the check-out locks the item.
- A save of settings that is refused half way leaves the first half written
  (`GeneralSettingsController.php:66`).
- Moving a reader away from a gate gives no warning (Doc 06:149).

## 7. What is not modelled

Within the modelled parts: permit numbers, precautions, work orders, printing; the
byte cap of the buffer and SQLite errors; heartbeats and configuration of agents,
MQTT and Modbus decoding; the acknowledgement of the alarm row, editing of
thresholds. Of positions: the alerts of red
and authorised zones, stationary tags, the import of tags and the order of row locks
(the transactions of the desk are one step each). Of the database, a statement outside a transaction sees
what is committed when it runs; a permit transaction decides on the row it read
first, which is what both read committed and repeatable read give it, and its
`UPDATE` meets the row that is then in the table. Crew and checklist are one flag of the
row (`complete`), so two saves of one draft that overlap leave the flag of the later one,
not the crew of one with the checklist of the other. Of the pages: layout, charts,
wording, and validation of fields beyond accepted and refused.

Whole components that are not modelled are in `PROJECT.json` with the reason:
input and output (streams, disk checks), decoding (sensor drivers), research
prototypes, and the ones planned below.

## 8. Plan

In the order of what they add:

1. The lemmas behind the liveness properties that need no `ENABLED`: for each step of
   `FairSpec` of `GasAlarms` and `EdgeDelivery`, and of the sweep, that it brings the
   measure down, so that only the fairness argument is left to TLC; `LiveFeed!FeedSteps`
   for the other live screens.
2. `Positions` with the alerts of red and authorised zones, permit detection over it; the row locks of tags and their order; `Offboarding` beside
   `EquipmentCustody`.
3. `GasAlarms` with two detectors that share a permit, and what overlapping requests leave
   of `TwoClear` and `OpenAlarmSounds`.
4. `WeeklyReports` (two generations of one week), `Accounts` (the lockout counter),
   `AssetHealth` (sweep against heartbeat), `RetentionGate`, `EdgeDeploy` (power cut
   between two steps): one small module each. The hazards of these parts, the
   cached settings of `SettingsService.php:25` among them, join the list with their
   modules.
