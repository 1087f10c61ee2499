------------------------------- MODULE Positions -------------------------------
(***************************************************************************)
(* The live positions of TrackingService: a reading of a tag moves its row *)
(* of worker_positions, a gate toggles whether the worker is on site.      *)
(* Each reading is processed by a PHP request, statement after statement   *)
(* and in no transaction, beside other requests, the hourly sweep of       *)
(* absent tags, manual corrections and the desk that hands out the tags.   *)
(* EdgeDelivery models how readings arrive; here every one is new.         *)
(***************************************************************************)
EXTENDS Integers, Sequences, FiniteSets

CONSTANTS
    Crew, Tags, Zones,       \* workers, tags, and the kinds of zones that have a reader
    Ingests,                 \* requests that process readings
    Nobody,                  \* no worker
    Debounce, OffsiteAfter,  \* gate_debounce_seconds, tag_offsite_after_hours
    Limit,                   \* occupancy_limit of the bay
    MaxClock, MaxReadings, MaxRows, MaxDeskOps, MaxCorrections    \* bounds

ASSUME PositionsAssumption ==
    /\ Zones \subseteq {"gate", "muster", "bay", "yard"} /\ Nobody \notin Crew
    /\ Debounce \in Nat \ {0} /\ OffsiteAfter \in Nat \ {0} /\ Limit \in Nat \ {0}
    /\ MaxClock \in Nat \ {0} /\ MaxReadings \in Nat /\ MaxRows \in Nat
    /\ MaxDeskOps \in Nat /\ MaxCorrections \in Nat

VARIABLES
    clock,      \* the time
    tags,       \* rfid_tags: status and worker
    rows,       \* worker_positions, by id
    lastRow,    \* the last id that was given: requests hold ids, and none is given twice
    logs,       \* entry_exit_logs, in the order they were written
    present,    \* workers.present, the mirror
    crowded,    \* the alert of the occupancy of the bay is live
    ingest,     \* the requests, at the statement each is at
    sweep,      \* the rows the sweep loaded, and whose log is due
    correction, \* a correction whose log is written, and not its row
    spent       \* readings, operations of the desk and corrections so far

positionVars == <<clock, tags, rows, lastRow, logs, present, crowded, ingest, sweep,
                  correction, spent>>
deskVars == <<tags, rows, lastRow>>

Times == 0..MaxClock
RowIds == 1..MaxRows
Places == Zones \cup {"nowhere"}
Row == [tag : Tags, worker : Crew, zone : Places, seen : Times, onSite : BOOLEAN]
RowsOf(t) == {i \in DOMAIN rows : rows[i].tag = t}

(* Row i is written, a row with a new id inserted. *)
Put(i, row) == rows' = [j \in DOMAIN rows \cup {i} |-> IF j = i THEN row ELSE rows[j]]
Insert(row) == lastRow < MaxRows /\ lastRow' = lastRow + 1 /\ Put(lastRow + 1, row)
Update(i, row) == (IF i \in DOMAIN rows THEN Put(i, row) ELSE UNCHANGED rows) /\ UNCHANGED lastRow

(* The tags a worker wears, and the log of a worker. *)
WornBy(w) == {t \in Tags : tags[t] = [status |-> "assigned", worker |-> w]}
Logged(w, dir, at, source) ==
    logs' = Append(logs, [worker |-> w, dir |-> dir, at |-> at, source |-> source])

(* Nothing is known of a request that has ended. *)
Idle == [step |-> "idle"]

(* A request that has a reading, and one that holds a row as well. *)
Reading == [step : {"find", "create"}, tag : Tags, worker : Crew, zone : Zones, at : Times \ {0}]
Holding == [step : {"gate", "log", "save", "rules", "account", "tick"}, tag : Tags, worker : Crew,
            zone : Zones, at : Times \ {0}, row : RowIds, held : Row, from : Places, on : BOOLEAN]
Passage == [worker : Crew, dir : {"in", "out"}, at : Times, source : {"gate", "sweep", "correction"}]
Tag == [status : {"assigned"}, worker : Crew]
       \cup [status : {"in_stock", "lost"}, worker : {Nobody}]

(* Every value has its type: a tag that is worn has a wearer and no other has,  *)
(* and every row has an id that was given (rfid_tags, worker_positions).        *)
PositionsTypeOK ==
    /\ clock \in Times /\ tags \in [Tags -> Tag]
    /\ lastRow \in 0..MaxRows /\ rows \in [DOMAIN rows -> Row] /\ DOMAIN rows \subseteq 1..lastRow
    /\ logs \in Seq(Passage) /\ present \in [Crew -> BOOLEAN] /\ crowded \in BOOLEAN
    /\ ingest \in [Ingests -> {Idle} \cup Reading \cup Holding]
    /\ sweep \in [loaded : SUBSET [row : RowIds, worker : Crew], unlogged : SUBSET Crew]
    /\ correction \in {Idle} \cup [step : {"row"}, worker : Crew, on : BOOLEAN]
    /\ spent \in [readings : Nat, desk : Nat, corrections : Nat]

PositionsInit ==
    /\ clock = 1 /\ logs = <<>> /\ crowded = FALSE
    /\ tags = [t \in Tags |-> [status |-> "in_stock", worker |-> Nobody]]
    /\ rows = [i \in {} |-> 0] /\ lastRow = 0
    /\ present = [w \in Crew |-> FALSE]
    /\ ingest = [p \in Ingests |-> Idle]
    /\ sweep = [loaded |-> {}, unlogged |-> {}] /\ correction = Idle
    /\ spent = [readings |-> 0, desk |-> 0, corrections |-> 0]

Tick == clock < MaxClock /\ clock' = clock + 1 /\ UNCHANGED <<deskVars, logs, present, crowded,
                                                             ingest, sweep, correction, spent>>

-----------------------------------------------------------------------------
(* advanceLiveState, one request.                                          *)
-----------------------------------------------------------------------------
Goto(p, step) == ingest' = [ingest EXCEPT ![p].step = step]
End(p) == ingest' = [ingest EXCEPT ![p] = Idle]
Only(p) == UNCHANGED <<clock, tags, sweep, correction>>

(* A live reading of a tag that is worn, in the zone of its reader when it was
   recorded; other readings are stored, and end here. *)
Receive(p) ==
    /\ ingest[p] = Idle /\ spent.readings < MaxReadings
    /\ \E t \in Tags, z \in Zones, at \in {clock - 1, clock} :
         /\ at > 0 /\ tags[t].status = "assigned"
         /\ ingest' = [ingest EXCEPT ![p] =
              [step |-> "find", tag |-> t, worker |-> tags[t].worker, zone |-> z, at |-> at]]
    /\ spent' = [spent EXCEPT !.readings = @ + 1]
    /\ UNCHANGED <<clock, deskVars, logs, present, crowded, sweep, correction>>

(* The request with the row it loaded.  held is the row as the request knows
   it, from its zone before the reading, on what it will save as is_on_site. *)
Loaded(p, i, row) ==
    [step |-> IF ingest[p].zone = "gate" THEN "gate" ELSE "save",
     tag |-> ingest[p].tag, worker |-> ingest[p].worker, zone |-> ingest[p].zone,
     at |-> ingest[p].at, row |-> i, held |-> row, from |-> row.zone, on |-> row.onSite]

(* Mutant of Newer: any reading advances the row. *)
NewerNot(at, row) == at >= 0

(* LiveState::shouldAdvance. *)
Newer(at, row) == at > row.seen

Find(p) ==
    /\ ingest[p].step = "find"
    /\ \/ RowsOf(ingest[p].tag) = {} /\ Goto(p, "create")
       \/ \E i \in RowsOf(ingest[p].tag) :
            IF Newer(ingest[p].at, rows[i])
            THEN ingest' = [ingest EXCEPT ![p] = Loaded(p, i, rows[i])]
            ELSE End(p)
    /\ UNCHANGED <<rows, lastRow, logs, present, crowded, spent>> /\ Only(p)

(* A row for the tag; the unique index refuses a second, and the request fails. *)
Create(p) ==
    /\ ingest[p].step = "create"
    /\ LET row == [tag |-> ingest[p].tag, worker |-> ingest[p].worker, zone |-> "nowhere",
                   seen |-> ingest[p].at - 1, onSite |-> FALSE]
       IN IF RowsOf(ingest[p].tag) # {} THEN End(p) /\ UNCHANGED <<rows, lastRow>>
          ELSE Insert(row) /\ ingest' = [ingest EXCEPT ![p] = Loaded(p, lastRow', row)]
    /\ UNCHANGED <<logs, present, crowded, spent>> /\ Only(p)

(* Mutant of Lingers: only the same instant counts. *)
LingersNow(w, at) == \E i \in DOMAIN logs : logs[i].worker = w /\ logs[i].source = "gate"
                                            /\ logs[i].at = at

(* The last gate event of the worker is within the debounce of the reading. *)
Lingers(w, at) == \E i \in DOMAIN logs : logs[i].worker = w /\ logs[i].source = "gate"
                                         /\ logs[i].at > at - Debounce

Gate(p) ==
    /\ ingest[p].step = "gate"
    /\ Goto(p, IF Lingers(ingest[p].worker, ingest[p].at) THEN "save" ELSE "log")
    /\ UNCHANGED <<rows, lastRow, logs, present, crowded, spent>> /\ Only(p)

(* In or out is decided on the row as it was loaded. *)
LogPassage(p) ==
    /\ ingest[p].step = "log"
    /\ LET goingIn == ~ingest[p].held.onSite IN
       /\ Logged(ingest[p].worker, IF goingIn THEN "in" ELSE "out", ingest[p].at, "gate")
       /\ ingest' = [ingest EXCEPT ![p].step = "save", ![p].on = goingIn]
    /\ UNCHANGED <<rows, lastRow, present, crowded, spent>> /\ Only(p)

(* Mutant of Saved: every column is written, the tag among them. *)
SavedAll(p, row) ==
    [row EXCEPT !.zone = ingest[p].zone, !.seen = ingest[p].at, !.onSite = ingest[p].on,
                !.tag = ingest[p].tag]

(* Eloquent writes the columns that differ from the row as it was loaded. *)
Saved(p, row) ==
    LET held == ingest[p].held IN
    [row EXCEPT !.zone = IF ingest[p].zone # held.zone THEN ingest[p].zone ELSE @,
                !.seen = ingest[p].at,
                !.onSite = IF ingest[p].on # held.onSite THEN ingest[p].on ELSE @]

(* The row by its id: of a row that was deleted nothing is written.  A gate
   loads the row again (refresh, taken with the save), and fails without it; a
   pole reader goes on with what it holds. *)
Save(p) ==
    /\ ingest[p].step = "save"
    /\ LET i == ingest[p].row
           exists == i \in DOMAIN rows
           mine == [ingest[p].held EXCEPT !.zone = ingest[p].zone, !.seen = ingest[p].at]
           known == IF ingest[p].zone = "gate" THEN Saved(p, rows[i]) ELSE mine
       IN /\ IF exists THEN Put(i, Saved(p, rows[i])) ELSE UNCHANGED rows
          /\ IF ingest[p].zone = "gate" /\ ~exists THEN End(p)
             ELSE ingest' = [ingest EXCEPT ![p].step = "rules", ![p].held = known]
          /\ UNCHANGED lastRow
    /\ UNCHANGED <<logs, present, crowded, spent>> /\ Only(p)

Occupants == Cardinality({i \in DOMAIN rows : rows[i].onSite /\ rows[i].zone = "bay"})

(* The mirror, then the rules of the zones, for a worker on site who moved. *)
Rules(p) ==
    /\ ingest[p].step = "rules"
    /\ LET held == ingest[p].held
           moved == held.zone # ingest[p].from /\ held.zone # "nowhere" /\ held.onSite
       IN /\ present' = [present EXCEPT ![ingest[p].worker] = held.onSite]
          /\ crowded' = CASE moved /\ held.zone = "bay" -> Occupants > Limit
                          [] moved /\ held.zone # "bay" /\ ingest[p].from = "bay"
                               -> crowded /\ Occupants > Limit
                          [] OTHER -> crowded
    /\ Goto(p, "account")
    /\ UNCHANGED <<rows, lastRow, logs, spent>> /\ Only(p)

(* The PHP process dies between two statements; what it wrote stays. *)
Die(p) ==
    /\ ingest[p] # Idle /\ End(p)
    /\ UNCHANGED <<rows, lastRow, logs, present, crowded, spent>> /\ Only(p)

-----------------------------------------------------------------------------
(* sweepOffsiteTags, hourly.                                               *)
-----------------------------------------------------------------------------
Unseen(i) == rows[i].onSite /\ rows[i].seen <= clock - OffsiteAfter

(* Mutant of Due: a tag that was last seen at the gate is spared, as in
   checkStationaryTags. *)
DueBeyondGate == {i \in DOMAIN rows : Unseen(i) /\ rows[i].zone # "gate"}

Due == {i \in DOMAIN rows : Unseen(i)}

SweepStart ==
    /\ sweep = [loaded |-> {}, unlogged |-> {}] /\ Due # {}
    /\ sweep' = [sweep EXCEPT !.loaded = {[row |-> i, worker |-> rows[i].worker] : i \in Due}]
    /\ UNCHANGED <<clock, deskVars, logs, present, crowded, ingest, correction, spent>>

(* The row was loaded on site, so is_on_site is all that is written. *)
SweepRow ==
    /\ sweep.unlogged = {}
    /\ \E due \in sweep.loaded :
         /\ Update(due.row, [rows[due.row] EXCEPT !.onSite = FALSE])
         /\ sweep' = [loaded |-> sweep.loaded \ {due}, unlogged |-> {due.worker}]
    /\ UNCHANGED <<clock, tags, logs, present, crowded, ingest, correction, spent>>

SweepLog ==
    /\ \E w \in sweep.unlogged :
         /\ Logged(w, "out", clock, "sweep")
         /\ present' = [present EXCEPT ![w] = FALSE]
         /\ sweep' = [sweep EXCEPT !.unlogged = {}]
    /\ UNCHANGED <<clock, deskVars, crowded, ingest, correction, spent>>

-----------------------------------------------------------------------------
(* correctEntryExit: the log, then the row and the mirror.                 *)
-----------------------------------------------------------------------------
Correct ==
    /\ correction = Idle /\ spent.corrections < MaxCorrections
    /\ \E w \in Crew, dir \in {"in", "out"} :
         /\ Logged(w, dir, clock, "correction")
         /\ correction' = [step |-> "row", worker |-> w, on |-> dir = "in"]
    /\ spent' = [spent EXCEPT !.corrections = @ + 1]
    /\ UNCHANGED <<clock, deskVars, present, crowded, ingest, sweep>>

CorrectRow ==
    /\ correction # Idle /\ correction' = Idle
    /\ LET w == correction.worker IN
       /\ rows' = [i \in DOMAIN rows |->
                     IF rows[i].worker = w THEN [rows[i] EXCEPT !.onSite = correction.on]
                     ELSE rows[i]]
       /\ present' = [present EXCEPT ![w] = correction.on]
    /\ UNCHANGED <<clock, tags, lastRow, logs, crowded, ingest, sweep, spent>>

-----------------------------------------------------------------------------
(* The desk of the tags: transactions that lock the tag and the worker.    *)
-----------------------------------------------------------------------------
Desk ==
    /\ spent.desk < MaxDeskOps /\ spent' = [spent EXCEPT !.desk = @ + 1]
    /\ UNCHANGED <<clock, logs, present, crowded, ingest, sweep, correction>>

OffSiteRow(t, w) == [tag |-> t, worker |-> w, zone |-> "nowhere", seen |-> 0, onSite |-> FALSE]
InStock == [status |-> "in_stock", worker |-> Nobody]
WornTag(w) == [status |-> "assigned", worker |-> w]

(* updateOrCreate: a row the tag may have already is taken over. *)
Assign ==
    \E t \in Tags, w \in Crew :
      /\ tags[t] = InStock /\ WornBy(w) = {}
      /\ tags' = [tags EXCEPT ![t] = WornTag(w)]
      /\ \/ RowsOf(t) = {} /\ Insert(OffSiteRow(t, w))
         \/ \E i \in RowsOf(t) : Update(i, OffSiteRow(t, w))
      /\ Desk

Cleared(t) == [i \in DOMAIN rows \ RowsOf(t) |-> rows[i]]

Unassign ==
    \E t \in Tags :
      /\ tags[t].status = "assigned"
      /\ rows' = Cleared(t) /\ tags' = [tags EXCEPT ![t] = InStock]
      /\ UNCHANGED lastRow /\ Desk

(* The row of the old tag goes to the new one.  A row the new tag has already
   fails the transaction on the unique index. *)
Replace ==
    \E old, new \in Tags, w \in Crew :
      /\ old \in WornBy(w) /\ tags[new] = InStock /\ RowsOf(new) = {}
      /\ tags' = [tags EXCEPT ![old] = [status |-> "lost", worker |-> Nobody],
                              ![new] = WornTag(w)]
      /\ \/ RowsOf(old) = {} /\ Insert(OffSiteRow(new, w))
         \/ \E i \in RowsOf(old) : Update(i, [rows[i] EXCEPT !.tag = new])
      /\ Desk
=============================================================================
