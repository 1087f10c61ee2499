------------------------------- MODULE Registers -------------------------------
(***************************************************************************)
(* The list pages: a table that the server filters and pages, and a bar of *)
(* filters over it.  Every page keeps its filters in state of its own,     *)
(* puts them in the query of a visit (visitFilters), waits a moment after  *)
(* typing before it does (useDebouncedCallback), and gives the pager the   *)
(* query to keep when a page is turned.  Live pages also reload their      *)
(* table when an event says that it is out of date.  A page is described   *)
(* by what its controls do; a behaviour follows two filters of one page.   *)
(***************************************************************************)
EXTENDS Naturals, FiniteSets, TLC

CONSTANTS
    PageNames,   \* the pages to look at
    MaxPicks,    \* bound of what the user does
    MaxReloads   \* bound of the live reloads

(* Typed: a box whose visit waits for the debounce.  Picked: a select whose
   visit starts at once.  Staged: applied by a button, by leaving the field,
   or along with the next visit.  Bound: a button that keeps no state, the
   filter is read back from the props. *)
Controls(typed, picked, staged) ==
    [f \in typed |-> "typed"] @@ [f \in picked |-> "picked"] @@ [f \in staged |-> "staged"]

(* keep: the filters the pager carries.  cancels: a pick stops the debounce. *)
Filtered(controls, cancels) ==
    [controls |-> controls, keep |-> DOMAIN controls, cancels |-> cancels, live |-> FALSE]

Live(page) == [page EXCEPT !.live = TRUE]

-----------------------------------------------------------------------------
(* The bars of the pages: the controls each one shows. *)
PermitsBar    == Controls({"search"}, {"status"}, {})
WorkersBar    == Controls({"search", "contractor"}, {"worker_type"}, {})
WorkOrdersBar == Controls({"search"}, {}, {})
TagsBar       == Controls({"search"}, {"status"}, {})
DevicesBar    == Controls({"q"}, {"device_type", "status"}, {})
CamerasBar    == Controls({"q"}, {"status"}, {})
AssetsBar     == Controls({"q"}, {"asset_type", "status"}, {})
ReportsBar    == Controls({"search"}, {"status"}, {})
AlertsBar     == Controls({"search"}, {"status", "severity", "alert_type"}, {})
GasAlarmsBar  == Controls({}, {"resolved", "level", "gas_type"}, {})
PpeBar        == Controls({}, {"violation_type", "camera_id", "review_status"}, {"from", "to"})
RoiBar        == Controls({}, {"event_type", "camera_id", "review_status"}, {"from", "to"})
AuditBar      == Controls({"search"}, {"event", "user_id", "auditable_type"}, {"from", "to"})
HeadcountsBar == Controls({"search"}, {"zone_id", "backfill", "from", "to"}, {})
ReadingsBar   == Controls({"search"}, {"zone_id", "reader_id", "proximity", "backfill",
                                       "from", "to"}, {})
EntryExitBar  == Controls({}, {"direction", "source", "worker_id"}, {})
EquipmentBar  == Controls({"search"}, {"equipment_type", "status", "checkout_state",
                                       "overdue"}, {})
CheckoutsBar  == Controls({"search"}, {}, {}) @@ "open" :> "bound"
IncidentsBar  == Controls({"search"}, {"status", "source", "incident_type", "severity"}, {})
LsrBar        == Controls({"search"}, {"status", "category"}, {})
VehiclesBar   == Controls({"search"}, {}, {})

(* The pages: what their visits and their pagers do with the filters. *)
PermitsList    == Live(Filtered(PermitsBar, TRUE))
WorkersList    == Filtered(WorkersBar, TRUE)

(* The pager of the work orders is given no query. *)
WorkOrdersList == [Filtered(WorkOrdersBar, FALSE) EXCEPT !.keep = {}]

TagsList       == Filtered(TagsBar, TRUE)
DevicesList    == Filtered(DevicesBar, TRUE)
CamerasList    == Filtered(CamerasBar, TRUE)
AssetsList     == Filtered(AssetsBar, TRUE)
ReportsList    == Filtered(ReportsBar, TRUE)

(* Mutant of AlertsList: the pager forgets the severity. *)
AlertsListForgets ==
    [Filtered(AlertsBar, TRUE) EXCEPT !.keep = @ \ {"severity"}]

AlertsList     == Filtered(AlertsBar, TRUE)
GasAlarmsList  == Live(Filtered(GasAlarmsBar, FALSE))
PpeList        == Live(Filtered(PpeBar, FALSE))
RoiList        == Live(Filtered(RoiBar, FALSE))
AuditList      == Filtered(AuditBar, TRUE)
HeadcountsList == Filtered(HeadcountsBar, FALSE)
ReadingsList   == Filtered(ReadingsBar, FALSE)
EntryExitList  == Filtered(EntryExitBar, FALSE)
EquipmentList  == Filtered(EquipmentBar, TRUE)
CheckoutsList  == Filtered(CheckoutsBar, TRUE)
IncidentsList  == Filtered(IncidentsBar, TRUE)
LsrList        == Filtered(LsrBar, TRUE)
VehicleList    == Filtered(VehiclesBar, FALSE)

Pages ==
    [permits |-> PermitsList, workers |-> WorkersList, work_orders |-> WorkOrdersList,
     tags |-> TagsList, devices |-> DevicesList, cameras |-> CamerasList,
     assets |-> AssetsList, reports |-> ReportsList, alerts |-> AlertsList,
     gas_alarms |-> GasAlarmsList, ppe |-> PpeList, roi |-> RoiList,
     audit |-> AuditList, headcounts |-> HeadcountsList, readings |-> ReadingsList,
     entry_exit |-> EntryExitList, equipment |-> EquipmentList,
     checkouts |-> CheckoutsList, incidents |-> IncidentsList, lsr |-> LsrList,
     vehicles |-> VehicleList]

ASSUME RegistersAssumption ==
    PageNames \subseteq DOMAIN Pages /\ MaxPicks \in Nat /\ MaxReloads \in Nat

VARIABLES
    list,        \* the page
    followed,    \* the filters of it that are followed
    chosen,      \* the value every control shows
    timer,       \* the search that waits for the debounce, or Off
    visiting,    \* the visit under way: its query, or Off
    reload,      \* the live reload under way: its query, or Off
    table,       \* the query the table on the page was read with
    overtaken,   \* the last visit arrived while a live reload was under way
    picks,       \* actions of the user so far
    reloads      \* live reloads so far

registerVars == <<list, followed, chosen, timer, visiting, reload, table, overtaken,
                 picks, reloads>>

Off == [state |-> "off"]
All == "all"
Option == {All, "one"}
LastPage == 2

shownPage == Pages[list]
Kind(f) == shownPage.controls[f]

Query == [filters : [followed -> Option], page : 1..LastPage]

RegistersTypeOK ==
    /\ list \in PageNames
    /\ followed \subseteq DOMAIN shownPage.controls /\ Cardinality(followed) \in {1, 2}
    /\ chosen \in [followed -> Option]
    /\ timer = Off \/ timer \in [filter : followed, value : Option]
    /\ \A q \in {visiting, reload} : q = Off \/ q \in Query
    /\ table \in Query /\ overtaken \in BOOLEAN
    /\ picks \in 0..MaxPicks /\ reloads \in 0..MaxReloads

(* Filters of one kind that the pager treats alike behave alike: the pairs
   followed have one filter of each, or two of one. *)
SortOf(p, f) == <<Pages[p].controls[f], f \in Pages[p].keep>>

TwoOf(p) == {{f, g} : f, g \in DOMAIN Pages[p].controls}

LikePair(p, f, g) ==
    {pair \in TwoOf(p) :
        \E x, y \in pair : /\ pair = {x, y} /\ (x = y) = (f = g)
                          /\ SortOf(p, x) = SortOf(p, f) /\ SortOf(p, y) = SortOf(p, g)}

Pairs(p) ==
    {CHOOSE pair \in LikePair(p, f, g) : TRUE : f, g \in DOMAIN Pages[p].controls}

RegistersInit ==
    /\ list \in PageNames
    /\ followed \in Pairs(list)
    /\ chosen = [f \in followed |-> All]
    /\ timer = Off /\ visiting = Off /\ reload = Off
    /\ table = [filters |-> chosen, page |-> 1] /\ overtaken = FALSE
    /\ picks = 0 /\ reloads = 0

-----------------------------------------------------------------------------
(* The controls.                                                           *)

(* Mutant of Applied: the other filters are taken from the props. *)
AppliedToProps(f, v) ==
    [filters |-> [g \in followed |-> IF g = f THEN v ELSE table.filters[g]], page |-> 1]

(* applyFilters: the patch of the control, the page state for the others; a
   bound filter is read from the props. *)
Applied(f, v) ==
    [filters |-> [g \in followed |-> IF g = f THEN v
                                     ELSE IF Kind(g) = "bound" THEN table.filters[g]
                                     ELSE chosen[g]],
     page |-> 1]

Act == picks < MaxPicks /\ picks' = picks + 1

Type(f, v) ==
    /\ Act /\ Kind(f) = "typed" /\ v # chosen[f]
    /\ chosen' = [chosen EXCEPT ![f] = v]
    /\ timer' = [filter |-> f, value |-> v]
    /\ UNCHANGED <<list, followed, visiting, reload, table, overtaken, reloads>>

(* A visit that starts interrupts the one under way. *)
Fire ==
    /\ timer # Off
    /\ visiting' = Applied(timer.filter, timer.value)
    /\ timer' = Off
    /\ UNCHANGED <<list, followed, chosen, reload, table, overtaken, picks, reloads>>

Pick(f, v) ==
    /\ Act /\ Kind(f) \in {"picked", "bound"} /\ v # chosen[f]
    /\ chosen' = [chosen EXCEPT ![f] = v]
    /\ visiting' = Applied(f, v)
    /\ timer' = IF shownPage.cancels THEN Off ELSE timer
    /\ UNCHANGED <<list, followed, reload, table, overtaken, reloads>>

Stage(f, v) ==
    /\ Act /\ Kind(f) = "staged" /\ v # chosen[f]
    /\ chosen' = [chosen EXCEPT ![f] = v]
    /\ UNCHANGED <<list, followed, timer, visiting, reload, table, overtaken, reloads>>

Apply ==
    /\ Act
    /\ \E f \in followed : Kind(f) = "staged" /\ visiting' = Applied(f, chosen[f])
    /\ UNCHANGED <<list, followed, chosen, timer, reload, table, overtaken, reloads>>

(* The pager visits another page with the query it was given, and preserves
   the state of the page.  There are LastPage pages, whatever the filters. *)
TurnPage ==
    /\ Act /\ table.page < LastPage
    /\ visiting' = [filters |-> [g \in followed |->
                                 IF g \notin shownPage.keep THEN All
                                 ELSE IF Kind(g) = "bound" THEN table.filters[g]
                                 ELSE chosen[g]],
                 page |-> table.page + 1]
    /\ UNCHANGED <<list, followed, chosen, timer, reload, table, overtaken, reloads>>

Arrive ==
    /\ visiting # Off
    /\ table' = visiting
    /\ visiting' = Off
    /\ overtaken' = (reload # Off)
    /\ UNCHANGED <<list, followed, chosen, timer, reload, picks, reloads>>

(* Mutant of Reload: the page is asked for without the query in its address. *)
ReloadPlain ==
    /\ shownPage.live /\ reload = Off /\ reloads < MaxReloads
    /\ reloads' = reloads + 1
    /\ reload' = [filters |-> [f \in followed |-> All], page |-> 1]
    /\ UNCHANGED <<list, followed, chosen, timer, visiting, table, overtaken, picks>>

(* A live reload asks for the table again, with the query in the address.  It
   is answered also when a visit arrived meanwhile, with the table of before. *)
Reload ==
    /\ shownPage.live /\ reload = Off /\ reloads < MaxReloads
    /\ reloads' = reloads + 1
    /\ reload' = table
    /\ UNCHANGED <<list, followed, chosen, timer, visiting, table, overtaken, picks>>

Reloaded ==
    /\ reload # Off
    /\ table' = reload
    /\ reload' = Off
    /\ UNCHANGED <<list, followed, chosen, timer, visiting, overtaken, picks, reloads>>

RegistersNext ==
    \/ \E f \in followed, v \in Option : Type(f, v) \/ Pick(f, v) \/ Stage(f, v)
    \/ Fire \/ Apply \/ TurnPage \/ Arrive \/ Reload \/ Reloaded

RegistersSpec == RegistersInit /\ [][RegistersNext]_registerVars

-----------------------------------------------------------------------------
(* Properties.                                                             *)

AtRest == timer = Off /\ visiting = Off /\ reload = Off

(* pagination.tsx: "Active filters/sort to preserve across page changes".
   Once nothing is on its way, the table was read with the filters that the
   controls show: whatever was typed, picked and turned in whatever order.
   Staged filters may wait for the next visit, and a bound one shows what
   was applied.  Live reloads keep it so, except for one that was under way
   when the last visit arrived: it brings the table of before. *)
TableMatchesControls ==
    AtRest /\ ~ overtaken =>
       \A f \in followed : Kind(f) \in {"typed", "picked"} => table.filters[f] = chosen[f]

(* What a user staged is never dropped: every visit that starts, by whatever
   control, asks with the staged value the page shows (applyFilters takes the
   state of the page for what its patch does not name). *)
StagedGoesAlong ==
    [][visiting' # Off /\ visiting' # visiting
       => \A f \in followed : Kind(f) = "staged" => visiting'.filters[f] = chosen[f]]_registerVars

(* A list is read with the filters its page shows: at rest, unless a live reload
   that a visit overtook brought the table of before. *)
FiltersApplied == [](RegistersTypeOK /\ TableMatchesControls) /\ StagedGoesAlong
=============================================================================
