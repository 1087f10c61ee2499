--------------------------- MODULE EvacuationProofs ----------------------------
(* Theorems about the live positions and the evacuation reports over them. *)
EXTENDS Evacuation, SequenceTheorems, TLAPS

-----------------------------------------------------------------------------
(* Types: the tables, the requests that process readings, the reports.     *)
-----------------------------------------------------------------------------
TablesTyped ==
    /\ clock \in Times /\ tags \in [Tags -> Tag]
    /\ lastRow \in 0..MaxRows /\ rows \in [DOMAIN rows -> Row] /\ DOMAIN rows \subseteq 1..lastRow
    /\ logs \in Seq(Passage) /\ present \in [Crew -> BOOLEAN] /\ crowded \in BOOLEAN
    /\ sweep \in [loaded : SUBSET [row : RowIds, worker : Crew], unlogged : SUBSET Crew]
    /\ correction \in {Idle} \cup [step : {"row"}, worker : Crew, on : BOOLEAN]
    /\ spent \in [readings : Nat, desk : Nat, corrections : Nat]

IngestTyped ==
    /\ ingest \in [Ingests -> {Idle} \cup Reading \cup Holding]
    /\ found \in [Ingests -> {Nothing} \cup Found]
    /\ \A p \in Ingests : ingest[p].step = "tick" => found[p] \in Found

ReportsTyped == reports \in Seq(Report) /\ command \in [Officers -> Request]

Typed == TablesTyped /\ IngestTyped /\ ReportsTyped

HistoryTyped == overtaken \in [Ingests -> SUBSET {"row", "log"}]

LEMMA InParts == Typed /\ HistoryTyped <=> EvacuationTypeOK
  BY DEF Typed, HistoryTyped, EvacuationTypeOK, PositionsTypeOK, TablesTyped, IngestTyped,
     ReportsTyped

(* The parts that a step leaves alone. *)
LEMMA TablesSame ==
    ASSUME TablesTyped, UNCHANGED <<clock, tags, rows, lastRow, logs, present, crowded, sweep,
                                    correction, spent>>
    PROVE  TablesTyped'
  BY DEF TablesTyped

LEMMA IngestSame == ASSUME IngestTyped, UNCHANGED <<ingest, found, reports>> PROVE IngestTyped'
  BY DEF IngestTyped, Found

LEMMA ReportsSame == ASSUME ReportsTyped, UNCHANGED <<reports, command>> PROVE ReportsTyped'
  BY DEF ReportsTyped, Request

(* A request of the ingest goes on, not to tick an entry. *)
LEMMA IngestGoesOn ==
    ASSUME IngestTyped, NEW p \in Ingests, NEW r \in {Idle} \cup Reading \cup Holding,
           r.step # "tick", ingest' = [ingest EXCEPT ![p] = r], UNCHANGED <<found, reports>>
    PROVE  IngestTyped'
<1>1. ingest' \in [Ingests -> {Idle} \cup Reading \cup Holding]
  BY DEF IngestTyped
<1>2. \A q \in Ingests : ingest'[q].step = "tick" => ingest'[q] = ingest[q]
  BY DEF IngestTyped
<1> QED
  BY <1>1, <1>2 DEF IngestTyped, Found

LEMMA Holds ==
    ASSUME IngestTyped, NEW p \in Ingests,
           ingest[p].step \in {"gate", "log", "save", "rules", "account", "tick"}
    PROVE  ingest[p] \in Holding
  BY DEF IngestTyped, Idle, Reading, Holding

LEMMA Reads ==
    ASSUME IngestTyped, NEW p \in Ingests, ingest[p].step \in {"find", "create"}
    PROVE  ingest[p] \in Reading
  BY DEF IngestTyped, Idle, Reading, Holding

LEMMA IdleTyped == Idle \in {Idle} \cup Reading \cup Holding /\ Idle.step # "tick"
  BY DEF Idle

LEMMA LoadedTyped ==
    ASSUME NEW p \in Ingests, ingest[p] \in Reading, NEW i \in RowIds, NEW row \in Row
    PROVE  Loaded(p, i, row) \in Holding /\ Loaded(p, i, row).step # "tick"
  BY DEF Loaded, Reading, Holding, Row

(* What Put does to the rows. *)
LEMMA PutTyped ==
    ASSUME rows \in [DOMAIN rows -> Row], NEW i, NEW row \in Row, Put(i, row)
    PROVE  /\ rows' \in [DOMAIN rows' -> Row] /\ DOMAIN rows' = DOMAIN rows \cup {i}
           /\ rows'[i] = row /\ \A j \in DOMAIN rows : j # i => rows'[j] = rows[j]
  BY DEF Put

LEMMA RowIdTyped == ASSUME TablesTyped, NEW i \in DOMAIN rows PROVE i \in RowIds /\ rows[i] \in Row
  BY PositionsAssumption DEF PositionsAssumption, TablesTyped, RowIds

LEMMA PassageLogged ==
    ASSUME TablesTyped, NEW w \in Crew, NEW dir \in {"in", "out"}, NEW at \in Times,
           NEW source \in {"gate", "sweep", "correction"}, Logged(w, dir, at, source)
    PROVE  logs' \in Seq(Passage)
  BY AppendProperties DEF TablesTyped, Logged, Passage

LEMMA InitTyped == EvacuationInit => Typed
<1> SUFFICES ASSUME EvacuationInit PROVE Typed
  OBVIOUS
<1> USE DEF EvacuationInit, PositionsInit
<1>1. rows \in [DOMAIN rows -> Row] /\ DOMAIN rows = {}
  OBVIOUS
<1>2. clock \in Times /\ lastRow \in 0..MaxRows
  BY PositionsAssumption DEF PositionsAssumption, Times
<1>3. logs \in Seq(Passage) /\ reports \in Seq(Report)
  BY EmptySeq
<1>4. TablesTyped
  BY <1>1, <1>2, <1>3 DEF TablesTyped, Tag
<1>5. IngestTyped /\ ReportsTyped
  BY <1>3 DEF IngestTyped, ReportsTyped, Idle, Nothing, Request
<1> QED
  BY <1>4, <1>5 DEF Typed

-----------------------------------------------------------------------------
(* Types, one lemma for each action.                                       *)
-----------------------------------------------------------------------------
LEMMA ReceiveTyped ==
    ASSUME Typed, NEW p \in Ingests, Receive(p), UNCHANGED evacuationVars
    PROVE  Typed'
<1> USE DEF Typed
<1>1. TablesTyped'
  BY DEF TablesTyped, Receive, deskVars
<1>2. PICK t \in Tags, z \in Zones, at \in {clock - 1, clock} :
        /\ at > 0 /\ tags[t].status = "assigned"
        /\ ingest' = [ingest EXCEPT ![p] =
             [step |-> "find", tag |-> t, worker |-> tags[t].worker, zone |-> z, at |-> at]]
  BY DEF Receive
<1>3. tags[t].worker \in Crew /\ at \in Times \ {0}
  BY <1>2, PositionsAssumption DEF PositionsAssumption, TablesTyped, Tag, Times
<1>4. IngestTyped'
  <2> DEFINE r == [step |-> "find", tag |-> t, worker |-> tags[t].worker, zone |-> z, at |-> at]
  <2>1. r \in Reading /\ r.step # "tick"
    BY <1>3 DEF Reading
  <2>2. ingest' = [ingest EXCEPT ![p] = r]
    BY <1>2
  <2> QED
    BY <2>1, <2>2, IngestGoesOn DEF evacuationVars
<1> QED
  BY <1>1, <1>4, ReportsSame DEF evacuationVars

LEMMA FindTyped ==
    ASSUME Typed, NEW p \in Ingests, Find(p), UNCHANGED evacuationVars
    PROVE  Typed'
<1> USE DEF Typed
<1>1. ingest[p] \in Reading
  BY Reads DEF Find
<1>2. PICK r \in {Idle} \cup Reading \cup Holding :
        r.step # "tick" /\ ingest' = [ingest EXCEPT ![p] = r]
  <2>1. CASE Goto(p, "create")
    <3>1. [ingest[p] EXCEPT !.step = "create"] \in Reading
      BY <1>1 DEF Reading
    <3> QED
      BY <1>1, <2>1, <3>1 DEF Goto, Reading
  <2>2. CASE End(p)
    BY <2>2, IdleTyped DEF End
  <2>3. ASSUME NEW i \in RowsOf(ingest[p].tag), ingest' = [ingest EXCEPT ![p] = Loaded(p, i, rows[i])]
        PROVE  \E r \in {Idle} \cup Reading \cup Holding :
                 r.step # "tick" /\ ingest' = [ingest EXCEPT ![p] = r]
    BY <1>1, <2>3, RowIdTyped, LoadedTyped DEF RowsOf
  <2> QED
    BY <2>1, <2>2, <2>3 DEF Find
<1> QED
  BY <1>2, IngestGoesOn, TablesSame, ReportsSame DEF Find, Only, evacuationVars

LEMMA InsertTyped ==
    ASSUME TablesTyped, NEW row \in Row, Insert(row),
           UNCHANGED <<clock, logs, present, crowded, sweep, correction>>,
           tags' \in [Tags -> Tag], spent' \in [readings : Nat, desk : Nat, corrections : Nat]
    PROVE  TablesTyped' /\ lastRow' \in RowIds
<1>1. lastRow' \in RowIds /\ lastRow' = lastRow + 1
  BY PositionsAssumption DEF PositionsAssumption, TablesTyped, Insert, RowIds
<1>2. rows' \in [DOMAIN rows' -> Row] /\ DOMAIN rows' = DOMAIN rows \cup {lastRow + 1}
  BY PutTyped DEF Insert, TablesTyped
<1>3. DOMAIN rows' \subseteq 1..lastRow'
  BY <1>1, <1>2, PositionsAssumption DEF PositionsAssumption, TablesTyped
<1> QED
  BY <1>1, <1>2, <1>3 DEF TablesTyped, RowIds

LEMMA CreateTyped ==
    ASSUME Typed, NEW p \in Ingests, Create(p), UNCHANGED evacuationVars
    PROVE  Typed'
<1> USE DEF Typed
<1> DEFINE row == [tag |-> ingest[p].tag, worker |-> ingest[p].worker, zone |-> "nowhere",
                   seen |-> ingest[p].at - 1, onSite |-> FALSE]
<1>1. ingest[p] \in Reading
  BY Reads DEF Create
<1>2. CASE End(p) /\ UNCHANGED <<rows, lastRow>>
  BY <1>2, IdleTyped, IngestGoesOn, TablesSame, ReportsSame DEF Create, Only, End, evacuationVars
<1>3. CASE Insert(row) /\ ingest' = [ingest EXCEPT ![p] = Loaded(p, lastRow', row)]
  <2>1. row \in Row
    <3>1. ingest[p].at \in Times \ {0} /\ ingest[p].tag \in Tags /\ ingest[p].worker \in Crew
      BY <1>1 DEF Reading
    <3>2. ingest[p].at - 1 \in Times
      BY <3>1, PositionsAssumption DEF PositionsAssumption, Times
    <3> QED
      BY <3>1, <3>2 DEF Row, Places
  <2>2. TablesTyped' /\ lastRow' \in RowIds
    <3> HIDE DEF row
    <3> QED
      BY <1>3, <2>1, InsertTyped DEF Create, Only, TablesTyped
  <2>3. IngestTyped'
    <3> HIDE DEF row
    <3> QED
      BY <1>1, <1>3, <2>1, <2>2, LoadedTyped, IngestGoesOn DEF evacuationVars
  <2> QED
    BY <2>2, <2>3, ReportsSame DEF evacuationVars
<1> QED
  BY <1>2, <1>3 DEF Create

(* A request that holds a row goes to its next step. *)
LEMMA StepTyped ==
    ASSUME Typed, NEW p \in Ingests, ingest[p] \in Holding,
           NEW step \in {"gate", "log", "save", "rules", "account"}, Goto(p, step),
           UNCHANGED <<found, reports>>
    PROVE  IngestTyped'
<1>1. [ingest[p] EXCEPT !.step = step] \in Holding
  BY DEF Holding
<1>2. [ingest[p] EXCEPT !.step = step].step # "tick"
  BY DEF Holding
<1>3. ingest' = [ingest EXCEPT ![p] = [ingest[p] EXCEPT !.step = step]]
  BY DEF Goto
<1> QED
  BY <1>1, <1>2, <1>3, IngestGoesOn DEF Typed

LEMMA GateTyped ==
    ASSUME Typed, NEW p \in Ingests, Gate(p), UNCHANGED evacuationVars
    PROVE  Typed'
<1> USE DEF Typed
<1>1. ingest[p] \in Holding
  BY Holds DEF Gate
<1> QED
  BY <1>1, StepTyped, TablesSame, ReportsSame DEF Gate, Only, evacuationVars

LEMMA LogPassageTyped ==
    ASSUME Typed, NEW p \in Ingests, LogPassage(p), UNCHANGED evacuationVars
    PROVE  Typed'
<1> USE DEF Typed
<1> DEFINE goingIn == ~ingest[p].held.onSite
           r == [ingest[p] EXCEPT !.step = "save", !.on = goingIn]
<1>1. ingest[p] \in Holding
  BY Holds DEF LogPassage
<1>2. r \in Holding /\ r.step # "tick"
  BY <1>1 DEF Holding
<1>3. ingest' = [ingest EXCEPT ![p] = r]
  BY DEF LogPassage
<1>4. IngestTyped'
  BY <1>2, <1>3, IngestGoesOn DEF evacuationVars
<1>5. ingest[p].worker \in Crew /\ ingest[p].at \in Times
  BY <1>1 DEF Holding
<1>6. logs' \in Seq(Passage)
  BY <1>5, PassageLogged DEF LogPassage
<1> QED
  BY <1>4, <1>6, ReportsSame DEF TablesTyped, LogPassage, Only, evacuationVars

LEMMA SavedTyped ==
    ASSUME NEW p \in Ingests, ingest[p] \in Holding, NEW row \in Row
    PROVE  Saved(p, row) \in Row
  BY DEF Saved, Holding, Row, Places

(* A row that is there is written. *)
LEMMA RowPut ==
    ASSUME TablesTyped, NEW i \in DOMAIN rows, NEW row \in Row, Put(i, row),
           UNCHANGED <<clock, lastRow, logs, present, crowded, correction>>,
           tags' \in [Tags -> Tag], spent' \in [readings : Nat, desk : Nat, corrections : Nat],
           sweep' \in [loaded : SUBSET [row : RowIds, worker : Crew], unlogged : SUBSET Crew]
    PROVE  TablesTyped'
<1>1. rows \in [DOMAIN rows -> Row]
  BY DEF TablesTyped
<1>2. rows' \in [DOMAIN rows' -> Row] /\ DOMAIN rows' = DOMAIN rows \cup {i}
  BY <1>1, PutTyped
<1>3. DOMAIN rows' = DOMAIN rows
  BY <1>2
<1> QED
  BY <1>2, <1>3 DEF TablesTyped

LEMMA SaveTyped ==
    ASSUME Typed, NEW p \in Ingests, Save(p), UNCHANGED evacuationVars
    PROVE  Typed'
<1> USE DEF Typed
<1> DEFINE i == ingest[p].row
           mine == [ingest[p].held EXCEPT !.zone = ingest[p].zone, !.seen = ingest[p].at]
           known == IF ingest[p].zone = "gate" THEN Saved(p, rows[i]) ELSE mine
           r == [ingest[p] EXCEPT !.step = "rules", !.held = known]
<1>1. ingest[p] \in Holding
  BY Holds DEF Save
<1>2. i \in DOMAIN rows => rows[i] \in Row /\ Saved(p, rows[i]) \in Row
  BY <1>1, RowIdTyped, SavedTyped
<1>3. TablesTyped'
  <2>1. CASE i \in DOMAIN rows
    BY <1>2, <2>1, RowPut DEF Save, Only, TablesTyped
  <2>2. CASE i \notin DOMAIN rows
    BY <2>2, TablesSame DEF Save, Only
  <2> QED
    BY <2>1, <2>2
<1>4. IngestTyped'
  <2>1. CASE ingest[p].zone = "gate" /\ i \notin DOMAIN rows
    BY <2>1, IdleTyped, IngestGoesOn DEF Save, End, evacuationVars
  <2>2. CASE ~(ingest[p].zone = "gate" /\ i \notin DOMAIN rows)
    <3>1. mine \in Row
      BY <1>1 DEF Holding, Row, Places
    <3>2. known \in Row
      BY <1>2, <2>2, <3>1
    <3>3. ingest' = [ingest EXCEPT ![p] = r]
      BY <2>2 DEF Save
    <3>4. r \in Holding /\ r.step # "tick"
      <4> HIDE DEF known
      <4> QED
        BY <1>1, <3>2 DEF Holding
    <3> QED
      <4> HIDE DEF r
      <4> QED
        BY <3>3, <3>4, IngestGoesOn DEF evacuationVars
  <2> QED
    BY <2>1, <2>2
<1> QED
  BY <1>3, <1>4, ReportsSame DEF evacuationVars

LEMMA RulesTyped ==
    ASSUME Typed, NEW p \in Ingests, Rules(p), UNCHANGED evacuationVars
    PROVE  Typed'
<1> USE DEF Typed
<1>1. ingest[p] \in Holding
  BY Holds DEF Rules
<1>2. IngestTyped'
  BY <1>1, StepTyped DEF Rules, evacuationVars
<1>3. present' \in [Crew -> BOOLEAN]
  BY <1>1 DEF Rules, TablesTyped, Holding, Row
<1>4. crowded' \in BOOLEAN
  <2> DEFINE full == Occupants > Limit
             held == ingest[p].held
             moved == held.zone # ingest[p].from /\ held.zone # "nowhere" /\ held.onSite
  <2>1. full \in BOOLEAN /\ (crowded /\ full) \in BOOLEAN /\ crowded \in BOOLEAN
    BY DEF TablesTyped
  <2>2. crowded' = CASE moved /\ held.zone = "bay" -> full
                     [] moved /\ held.zone # "bay" /\ ingest[p].from = "bay" -> crowded /\ full
                     [] OTHER -> crowded
    BY DEF Rules
  <2> HIDE DEF full, moved, held
  <2> QED
    BY <2>1, <2>2
<1> QED
  BY <1>2, <1>3, <1>4, ReportsSame DEF TablesTyped, Rules, Only, evacuationVars

LEMMA LookUpEntryTyped ==
    ASSUME Typed, NEW p \in Ingests, LookUpEntry(p)
    PROVE  Typed'
<1> USE DEF Typed
<1>1. ingest[p] \in Holding
  BY Holds DEF LookUpEntry
<1>2. IngestTyped'
  <2>1. CASE End(p) /\ UNCHANGED found
    BY <2>1, IdleTyped, IngestGoesOn DEF LookUpEntry, End
  <2>2. ASSUME NEW r \in EntryToTick(p), Source(p) # "none", Goto(p, "tick"),
               found' = [found EXCEPT ![p] = [step |-> "tick", report |-> r, source |-> Source(p)]]
        PROVE  IngestTyped'
    <3>1. [step |-> "tick", report |-> r, source |-> Source(p)] \in Found
      BY <2>2 DEF Found, EntryToTick, OpenReports, Source, Entry
    <3>2. [ingest[p] EXCEPT !.step = "tick"] \in Holding
      BY <1>1 DEF Holding
    <3>3. ingest' \in [Ingests -> {Idle} \cup Reading \cup Holding]
      BY <1>1, <2>2, <3>2 DEF Goto, IngestTyped
    <3>4. found'[p] \in Found /\ found' \in [Ingests -> {Nothing} \cup Found]
      BY <2>2, <3>1 DEF IngestTyped
    <3>5. \A q \in Ingests : q # p => ingest'[q] = ingest[q] /\ found'[q] = found[q]
      BY <2>2 DEF Goto, IngestTyped
    <3>6. reports' = reports
      BY DEF LookUpEntry
    <3> QED
      BY <3>3, <3>4, <3>5, <3>6 DEF IngestTyped, Found
  <2> QED
    BY <2>1, <2>2 DEF LookUpEntry
<1> QED
  BY <1>2, TablesSame, ReportsSame DEF LookUpEntry, Only

LEMMA AppendReport ==
    ASSUME NEW s \in Seq(Report), NEW r \in Report
    PROVE  Append(s, r) \in Seq(Report) /\ DOMAIN Append(s, r) = 1..(Len(s) + 1)
           /\ DOMAIN s \subseteq DOMAIN Append(s, r)
           /\ \A i \in DOMAIN s : Append(s, r)[i] = s[i]
  BY AppendProperties, LenProperties

(* An entry is ticked in a report that is there. *)
LEMMA EntrySet ==
    ASSUME ReportsTyped, NEW r \in DOMAIN reports, NEW w \in Crew, NEW to \in Entry, SetEntry(r, w, to)
    PROVE  /\ reports' \in Seq(Report) /\ DOMAIN reports' = DOMAIN reports
           /\ \A q \in DOMAIN reports : q # r => reports'[q] = reports[q]
           /\ reports'[r] = [reports[r] EXCEPT !.roster[w] = to]
<1> DEFINE new == [reports[r] EXCEPT !.roster[w] = to]
<1>1. reports[r] \in Report
  BY ElementOfSeq DEF ReportsTyped
<1>2. new \in Report
  BY <1>1 DEF Report
<1>3. reports' = [reports EXCEPT ![r] = new]
  BY DEF SetEntry
<1>4. reports' \in Seq(Report)
  <2> HIDE DEF new
  <2> QED
    BY <1>2, <1>3, ExceptSeq DEF ReportsTyped
<1> QED
  BY <1>3, <1>4

(* The reports have the same numbers, and what refers to them stands. *)
LEMMA ReportsRewritten ==
    ASSUME Typed, reports' \in Seq(Report), DOMAIN reports \subseteq DOMAIN reports',
           NEW o \in Officers, NEW r \in Request, command' = [command EXCEPT ![o] = r],
           UNCHANGED <<ingest, found>>
    PROVE  IngestTyped' /\ ReportsTyped'
<1>1. Found \subseteq Found' /\ Request \subseteq Request'
  BY DEF Found, Request
<1> QED
  BY <1>1 DEF Typed, IngestTyped, ReportsTyped

LEMMA TickEntryTyped ==
    ASSUME Typed, NEW p \in Ingests, TickEntry(p)
    PROVE  Typed'
<1> USE DEF Typed
<1>1. found[p] \in Found /\ ingest[p] \in Holding
  BY Holds DEF TickEntry, IngestTyped
<1>2. found[p].report \in DOMAIN reports /\ ingest[p].worker \in Crew /\ found[p].source \in Entry
  BY <1>1 DEF Found, Holding
<1>3. reports' \in Seq(Report) /\ DOMAIN reports' = DOMAIN reports
  BY <1>2, EntrySet DEF TickEntry
<1>4. Found' = Found /\ Request' = Request
  BY <1>3 DEF Found, Request
<1>5. IngestTyped'
  BY <1>4, IdleTyped DEF IngestTyped, TickEntry, End, Idle
<1> QED
  BY <1>3, <1>4, <1>5, TablesSame DEF ReportsTyped, TickEntry, Only

LEMMA DieTyped ==
    ASSUME Typed, NEW p \in Ingests, DieAny(p)
    PROVE  Typed'
<1> USE DEF Typed
<1>1. IngestTyped'
  BY IdleTyped DEF IngestTyped, DieAny, Die, End, Idle, Found
<1> QED
  BY <1>1, TablesSame, ReportsSame DEF DieAny, Die, Only

-----------------------------------------------------------------------------
(* Types: the sweep, corrections, the desk.                                *)
-----------------------------------------------------------------------------
LEMMA SweepTyped ==
    ASSUME Typed, SweepStep
    PROVE  Typed'
<1> USE DEF Typed
<1>1. IngestTyped' /\ ReportsTyped'
  <2>1. UNCHANGED <<ingest, reports, found, command>>
    BY DEF SweepStep, evacuationVars, SweepStart, SweepRow, SweepLog
  <2> QED
    BY <2>1, IngestSame, ReportsSame
<1>2. CASE SweepStart
  <2>1. \A i \in DOMAIN rows : i \in RowIds /\ rows[i].worker \in Crew
    BY RowIdTyped DEF Row
  <2> QED
    BY <1>1, <1>2, <2>1 DEF TablesTyped, SweepStart, deskVars, Due
<1>3. CASE SweepRow
  <2>1. PICK due \in sweep.loaded :
          /\ Update(due.row, [rows[due.row] EXCEPT !.onSite = FALSE])
          /\ sweep' = [loaded |-> sweep.loaded \ {due}, unlogged |-> {due.worker}]
    BY <1>3 DEF SweepRow
  <2>2. sweep' \in [loaded : SUBSET [row : RowIds, worker : Crew], unlogged : SUBSET Crew]
    BY <2>1 DEF TablesTyped
  <2>3. CASE due.row \in DOMAIN rows
    <3>1. [rows[due.row] EXCEPT !.onSite = FALSE] \in Row
      BY <2>3, RowIdTyped DEF Row
    <3> QED
      BY <1>1, <1>3, <2>1, <2>2, <2>3, <3>1, RowPut DEF SweepRow, Update, TablesTyped
  <2>4. CASE due.row \notin DOMAIN rows
    BY <1>1, <1>3, <2>1, <2>2, <2>4 DEF SweepRow, Update, TablesTyped
  <2> QED
    BY <2>3, <2>4
<1>4. CASE SweepLog
  <2>1. PICK w \in sweep.unlogged :
          /\ Logged(w, "out", clock, "sweep") /\ present' = [present EXCEPT ![w] = FALSE]
          /\ sweep' = [sweep EXCEPT !.unlogged = {}]
    BY <1>4 DEF SweepLog
  <2>2. w \in Crew
    BY <2>1 DEF TablesTyped
  <2>3. logs' \in Seq(Passage)
    BY <2>1, <2>2, PassageLogged DEF TablesTyped
  <2> QED
    BY <1>1, <1>4, <2>1, <2>2, <2>3 DEF TablesTyped, SweepLog, deskVars
<1> QED
  BY <1>1, <1>2, <1>3, <1>4 DEF SweepStep

LEMMA CorrectionTyped ==
    ASSUME Typed, Correct \/ CorrectRow, UNCHANGED evacuationVars
    PROVE  Typed'
<1> USE DEF Typed
<1>1. IngestTyped' /\ ReportsTyped'
  BY IngestSame, ReportsSame DEF Correct, CorrectRow, evacuationVars
<1>2. CASE Correct
  <2>1. PICK w \in Crew, dir \in {"in", "out"} :
          /\ Logged(w, dir, clock, "correction")
          /\ correction' = [step |-> "row", worker |-> w, on |-> dir = "in"]
    BY <1>2 DEF Correct
  <2>2. logs' \in Seq(Passage)
    BY <2>1, PassageLogged DEF TablesTyped
  <2>3. correction' \in [step : {"row"}, worker : Crew, on : BOOLEAN]
    BY <2>1
  <2>4. spent' \in [readings : Nat, desk : Nat, corrections : Nat]
    BY <1>2 DEF Correct, TablesTyped
  <2> QED
    BY <1>1, <1>2, <2>2, <2>3, <2>4 DEF TablesTyped, Correct, deskVars
<1>3. CASE CorrectRow
  <2>1. correction \in [step : {"row"}, worker : Crew, on : BOOLEAN]
    BY <1>3 DEF TablesTyped, CorrectRow
  <2>2. \A i \in DOMAIN rows : [rows[i] EXCEPT !.onSite = correction.on] \in Row
    BY <2>1, RowIdTyped DEF Row
  <2>3. rows' \in [DOMAIN rows -> Row] /\ DOMAIN rows' = DOMAIN rows
    BY <1>3, <2>2, RowIdTyped DEF CorrectRow
  <2> QED
    BY <1>1, <1>3, <2>1, <2>3 DEF TablesTyped, CorrectRow
<1> QED
  BY <1>1, <1>2, <1>3

(* A tag is handed out, changed or taken back. *)
LEMMA TagSet ==
    ASSUME TablesTyped, NEW t \in Tags, NEW to \in Tag
    PROVE  [tags EXCEPT ![t] = to] \in [Tags -> Tag]
  BY DEF TablesTyped

LEMMA AssignTyped ==
    ASSUME Typed, Assign, UNCHANGED evacuationVars
    PROVE  Typed'
<1> USE DEF Typed
<1>1. IngestTyped' /\ ReportsTyped'
  BY IngestSame, ReportsSame DEF Assign, Desk, evacuationVars
<1>2. PICK t \in Tags, w \in Crew :
        /\ tags' = [tags EXCEPT ![t] = WornTag(w)]
        /\ \/ RowsOf(t) = {} /\ Insert(OffSiteRow(t, w))
           \/ \E i \in RowsOf(t) : Update(i, OffSiteRow(t, w))
        /\ Desk
  BY DEF Assign
<1>3. tags' \in [Tags -> Tag]
  BY <1>2, TagSet DEF WornTag, Tag
<1>4. OffSiteRow(t, w) \in Row
  BY PositionsAssumption DEF PositionsAssumption, OffSiteRow, Row, Places, Times
<1>5. spent' \in [readings : Nat, desk : Nat, corrections : Nat]
  BY <1>2 DEF Desk, TablesTyped
<1>6. TablesTyped'
  <2>1. CASE Insert(OffSiteRow(t, w))
    BY <1>2, <1>3, <1>4, <1>5, <2>1, InsertTyped DEF Desk
  <2>2. CASE \E i \in RowsOf(t) : Update(i, OffSiteRow(t, w))
    BY <1>2, <1>3, <1>4, <1>5, <2>2, RowPut DEF Desk, Update, RowsOf, TablesTyped
  <2> QED
    BY <1>2, <2>1, <2>2
<1> QED
  BY <1>1, <1>6

LEMMA UnassignTyped ==
    ASSUME Typed, Unassign, UNCHANGED evacuationVars
    PROVE  Typed'
<1> USE DEF Typed
<1>1. IngestTyped' /\ ReportsTyped'
  BY IngestSame, ReportsSame DEF Unassign, Desk, evacuationVars
<1>2. PICK t \in Tags : rows' = Cleared(t) /\ tags' = [tags EXCEPT ![t] = InStock] /\ Desk
                        /\ lastRow' = lastRow
  BY DEF Unassign
<1>3. tags' \in [Tags -> Tag]
  BY <1>2, TagSet DEF InStock, Tag
<1>4. rows' \in [DOMAIN rows' -> Row] /\ DOMAIN rows' \subseteq DOMAIN rows
  BY <1>2 DEF Cleared, TablesTyped
<1>5. spent' \in [readings : Nat, desk : Nat, corrections : Nat]
  BY <1>2 DEF Desk, TablesTyped
<1> QED
  BY <1>1, <1>2, <1>3, <1>4, <1>5 DEF TablesTyped, Desk

LEMMA ReplaceTyped ==
    ASSUME Typed, Replace, UNCHANGED evacuationVars
    PROVE  Typed'
<1> USE DEF Typed
<1>1. IngestTyped' /\ ReportsTyped'
  BY IngestSame, ReportsSame DEF Replace, Desk, evacuationVars
<1>2. PICK old \in Tags, new \in Tags, w \in Crew :
        /\ tags' = [tags EXCEPT ![old] = [status |-> "lost", worker |-> Nobody],
                                ![new] = WornTag(w)]
        /\ \/ RowsOf(old) = {} /\ Insert(OffSiteRow(new, w))
           \/ \E i \in RowsOf(old) : Update(i, [rows[i] EXCEPT !.tag = new])
        /\ Desk
  BY DEF Replace
<1>3. tags' \in [Tags -> Tag]
  BY <1>2 DEF WornTag, Tag, TablesTyped
<1>4. OffSiteRow(new, w) \in Row
  BY PositionsAssumption DEF PositionsAssumption, OffSiteRow, Row, Places, Times
<1>5. spent' \in [readings : Nat, desk : Nat, corrections : Nat]
  BY <1>2 DEF Desk, TablesTyped
<1>6. TablesTyped'
  <2>1. CASE Insert(OffSiteRow(new, w))
    BY <1>2, <1>3, <1>4, <1>5, <2>1, InsertTyped DEF Desk
  <2>2. ASSUME NEW i \in RowsOf(old), Update(i, [rows[i] EXCEPT !.tag = new])
        PROVE  TablesTyped'
    <3>1. i \in DOMAIN rows /\ [rows[i] EXCEPT !.tag = new] \in Row
      BY RowIdTyped DEF RowsOf, Row
    <3> QED
      BY <1>2, <1>3, <1>5, <2>2, <3>1, RowPut DEF Desk, Update, TablesTyped
  <2> QED
    BY <1>2, <2>1, <2>2
<1> QED
  BY <1>1, <1>6

-----------------------------------------------------------------------------
(* Types: the officers.                                                    *)
-----------------------------------------------------------------------------
LEMMA AskTyped ==
    ASSUME Typed, NEW o \in Officers, NEW r \in Request, Ask(o, r), UNCHANGED <<reports, found, ingest>>
    PROVE  IngestTyped' /\ ReportsTyped'
  BY ReportsRewritten DEF Ask, Typed, ReportsTyped

(* Who asked for what. *)
LEMMA AskedTyped ==
    ASSUME ReportsTyped, NEW o \in Officers
    PROVE  /\ Asked(o, "mark") => command[o].report \in DOMAIN reports /\ command[o].worker \in Crew
           /\ Asked(o, "count") => /\ command[o].report \in DOMAIN reports
                                   /\ command[o].force \in BOOLEAN /\ command[o].note \in BOOLEAN
           /\ Asked(o, "close") => /\ command[o].report \in DOMAIN reports
                                   /\ command[o].forced \in BOOLEAN /\ command[o].note \in BOOLEAN
  BY DEF ReportsTyped, Request, Asked, Nothing

LEMMA NothingTyped == Nothing \in Request
  BY DEF Request

LEMMA ClosedTyped ==
    ASSUME ReportsTyped, NEW r \in DOMAIN reports, NEW c, c.forced \in BOOLEAN, c.note \in BOOLEAN
    PROVE  /\ ClosedAs(reports[r], c) \in Report
           /\ [reports EXCEPT ![r] = ClosedAs(@, c)] \in Seq(Report)
           /\ DOMAIN [reports EXCEPT ![r] = ClosedAs(@, c)] = DOMAIN reports
<1>1. reports[r] \in Report
  BY ElementOfSeq DEF ReportsTyped
<1>2. ClosedAs(reports[r], c) \in Report
  <2>1. (c.forced \/ reports[r].forced) \in BOOLEAN /\ (c.note \/ reports[r].noted) \in BOOLEAN
    OBVIOUS
  <2> QED
    BY <1>1, <2>1 DEF ClosedAs, Report
<1> QED
  BY <1>2, ExceptSeq DEF ReportsTyped

LEMMA OfficerTyped ==
    ASSUME Typed, OfficerStep
    PROVE  Typed'
<1> USE DEF Typed
<1>1. TablesTyped' /\ UNCHANGED ingest
  BY TablesSame DEF OfficerStep, positionVars
<1>2. PICK o \in Officers :
        \/ AskTrigger(o) \/ Trigger(o) \/ AskMark(o) \/ Mark(o)
        \/ AskClose(o) \/ Count(o) \/ Close(o)
  BY DEF OfficerStep
<1>3. CASE AskTrigger(o)
  BY <1>1, <1>3, AskTyped DEF AskTrigger, Request
<1>4. CASE Trigger(o)
  <2> DEFINE report == [status |-> "open", forced |-> FALSE, noted |-> FALSE,
               roster |-> [w \in Crew |-> IF \E i \in OnSite : rows[i].worker = w
                                          THEN "unaccounted" ELSE "absent"]]
  <2>1. report \in Report
    BY DEF Report, Entry
  <2>2. reports' \in Seq(Report) /\ DOMAIN reports \subseteq DOMAIN reports'
    <3> HIDE DEF report
    <3>1. reports' = reports \/ reports' = Append(reports, report)
      BY <1>4 DEF Trigger, report
    <3> QED
      BY <2>1, <3>1, AppendReport DEF ReportsTyped
  <2> QED
    BY <1>1, <1>4, <2>2, NothingTyped, ReportsRewritten DEF Trigger, Ask
<1>5. CASE AskMark(o)
  <2>1. PICK r \in OpenReports, w \in Crew : Ask(o, [step |-> "mark", report |-> r, worker |-> w])
    BY <1>5 DEF AskMark
  <2>2. [step |-> "mark", report |-> r, worker |-> w] \in Request
    BY DEF Request, OpenReports
  <2> QED
    BY <1>1, <1>5, <2>1, <2>2, AskTyped DEF AskMark
<1>6. CASE Mark(o)
  <2>1. command[o].report \in DOMAIN reports /\ command[o].worker \in Crew
    BY <1>6, AskedTyped DEF Mark
  <2>2. reports' \in Seq(Report) /\ DOMAIN reports' = DOMAIN reports
    BY <1>6, <2>1, EntrySet DEF Mark, Entry
  <2> QED
    BY <1>1, <1>6, <2>2, NothingTyped, ReportsRewritten DEF Mark, Ask
<1>7. CASE AskClose(o)
  <2>1. PICK r \in OpenReports, force \in BOOLEAN, note \in BOOLEAN :
          Ask(o, [step |-> "count", report |-> r, force |-> force, note |-> note])
    BY <1>7 DEF AskClose
  <2>2. [step |-> "count", report |-> r, force |-> force, note |-> note] \in Request
    BY DEF Request, OpenReports
  <2> QED
    BY <1>1, <1>7, <2>1, <2>2, AskTyped DEF AskClose
<1>8. CASE Count(o)
  <2> DEFINE c == command[o]
             forced == c.force /\ Missing(c.report)
             next == [step |-> "close", report |-> c.report, note |-> c.note, forced |-> forced]
  <2>1. c.report \in DOMAIN reports /\ c.force \in BOOLEAN /\ c.note \in BOOLEAN
    BY <1>8, AskedTyped DEF Count
  <2>2. next \in Request
    <3>1. forced \in BOOLEAN
      OBVIOUS
    <3> HIDE DEF forced
    <3> QED
      BY <2>1, <3>1 DEF Request
  <2>3. Ask(o, Nothing) \/ Ask(o, next)
    BY <1>8 DEF Count
  <2> HIDE DEF next
  <2> QED
    BY <1>1, <1>8, <2>2, <2>3, NothingTyped, AskTyped DEF Count
<1>9. CASE Close(o)
  <2>1. /\ command[o].report \in DOMAIN reports
        /\ command[o].forced \in BOOLEAN /\ command[o].note \in BOOLEAN
    BY <1>9, AskedTyped DEF Close
  <2>2. reports' \in Seq(Report) /\ DOMAIN reports' = DOMAIN reports
    BY <1>9, <2>1, ClosedTyped DEF Close
  <2> QED
    BY <1>1, <1>9, <2>2, NothingTyped, ReportsRewritten DEF Close, Ask
<1> QED
  BY <1>2, <1>3, <1>4, <1>5, <1>6, <1>7, <1>8, <1>9

LEMMA NextTyped == Typed /\ [EvacuationNext]_vars => Typed'
<1> SUFFICES ASSUME Typed, [EvacuationNext]_vars PROVE Typed'
  OBVIOUS
<1>1. CASE IngestStep
  <2>1. PICK p \in Ingests :
          \/ (Receive(p) \/ Find(p) \/ Create(p) \/ Gate(p) \/ LogPassage(p) \/ Save(p) \/ Rules(p))
             /\ UNCHANGED evacuationVars
          \/ LookUpEntry(p) \/ TickEntry(p) \/ DieAny(p)
    BY <1>1 DEF IngestStep
  <2> QED
    BY <2>1, ReceiveTyped, FindTyped, CreateTyped, GateTyped, LogPassageTyped, SaveTyped, RulesTyped,
       LookUpEntryTyped, TickEntryTyped, DieTyped
<1>2. CASE SweepStep
  BY <1>2, SweepTyped
<1>3. CASE OfficerStep
  BY <1>3, OfficerTyped
<1>4. CASE Tick /\ UNCHANGED evacuationVars
  <2>1. clock' \in Times
    BY <1>4, PositionsAssumption DEF PositionsAssumption, Tick, Typed, TablesTyped, Times
  <2>2. TablesTyped'
    BY <1>4, <2>1 DEF Tick, deskVars, Typed, TablesTyped
  <2> QED
    BY <1>4, <2>2, IngestSame, ReportsSame DEF Tick, evacuationVars, Typed
<1>5. CASE (Correct \/ CorrectRow) /\ UNCHANGED evacuationVars
  BY <1>5, CorrectionTyped
<1>6. CASE (Assign \/ Unassign \/ Replace) /\ UNCHANGED evacuationVars
  BY <1>6, AssignTyped, UnassignTyped, ReplaceTyped
<1>7. CASE UNCHANGED vars
  BY <1>7, TablesSame, IngestSame, ReportsSame DEF vars, positionVars, evacuationVars, Typed
<1> QED
  BY <1>1, <1>2, <1>3, <1>4, <1>5, <1>6, <1>7 DEF EvacuationNext

LEMMA AlwaysTyped == EvacuationSpec => []Typed
  BY InitTyped, NextTyped, PTL DEF EvacuationSpec

LEMMA NextHistory == HistoryTyped /\ [EvacuationNext]_vars => HistoryTyped'
<1> SUFFICES ASSUME HistoryTyped, [EvacuationNext]_vars PROVE HistoryTyped'
  OBVIOUS
<1>1. \A q \in Ingests : Overtakes(q) \subseteq {"row", "log"}
  BY DEF Overtakes
<1>2. CASE Witness
  BY <1>1, <1>2 DEF Witness, HistoryTyped
<1>3. CASE UNCHANGED overtaken
  BY <1>3 DEF HistoryTyped
<1> QED
  BY <1>2, <1>3 DEF EvacuationNext, IngestStep, SweepStep, OfficerStep, vars

(* Every row, request, report and entry has its type, for every site.      *)
THEOREM EvacuationTypeCorrect == EvacuationSpec => []EvacuationTypeOK
<1>1. EvacuationInit => HistoryTyped
  BY DEF EvacuationInit, HistoryTyped
<1> QED
  BY <1>1, NextHistory, AlwaysTyped, InParts, PTL DEF EvacuationSpec

-----------------------------------------------------------------------------
(* Who wears a tag has its row.                                            *)
-----------------------------------------------------------------------------
OneRowPerTag == \A i, j \in DOMAIN rows : rows[i].tag = rows[j].tag => i = j
WornHasRow == \A t \in Tags : tags[t].status = "assigned" =>
                \E i \in DOMAIN rows : rows[i].tag = t /\ rows[i].worker = tags[t].worker
OneTagEach == \A s, t \in Tags : tags[s].status = "assigned" /\ tags[t].status = "assigned"
                                 /\ tags[s].worker = tags[t].worker => s = t

Tracked == OneRowPerTag /\ WornHasRow /\ OneTagEach

LEMMA InitTracked == EvacuationInit => Tracked
  BY DEF EvacuationInit, PositionsInit, Tracked, OneRowPerTag, WornHasRow, OneTagEach

(* Readings, the sweep and corrections write neither tag nor worker of a row. *)
SameWearers ==
    /\ DOMAIN rows' = DOMAIN rows
    /\ \A i \in DOMAIN rows : rows'[i].tag = rows[i].tag /\ rows'[i].worker = rows[i].worker

LEMMA SameTracked == ASSUME Tracked, SameWearers, UNCHANGED tags PROVE Tracked'
  BY DEF Tracked, SameWearers, OneRowPerTag, WornHasRow, OneTagEach

LEMMA CreateTracked ==
    ASSUME Typed, Tracked, NEW p \in Ingests, Create(p)
    PROVE  Tracked'
<1> DEFINE row == [tag |-> ingest[p].tag, worker |-> ingest[p].worker, zone |-> "nowhere",
                   seen |-> ingest[p].at - 1, onSite |-> FALSE]
<1>1. UNCHANGED tags
  BY DEF Create, Only
<1>2. CASE UNCHANGED rows
  BY <1>1, <1>2, SameTracked DEF SameWearers
<1>3. CASE RowsOf(ingest[p].tag) = {} /\ Insert(row)
  <2>1. lastRow + 1 \notin DOMAIN rows
    BY PositionsAssumption DEF PositionsAssumption, Typed, TablesTyped
  <2>2. /\ DOMAIN rows' = DOMAIN rows \cup {lastRow + 1} /\ rows'[lastRow + 1] = row
        /\ \A j \in DOMAIN rows : rows'[j] = rows[j]
    BY <1>3, <2>1 DEF Insert, Put
  <2>3. \A j \in DOMAIN rows : rows[j].tag # row.tag
    BY <1>3 DEF RowsOf
  <2> QED
    BY <1>1, <2>2, <2>3 DEF Tracked, OneRowPerTag, WornHasRow, OneTagEach
<1> QED
  BY <1>2, <1>3 DEF Create

LEMMA SaveTracked ==
    ASSUME Typed, Tracked, NEW p \in Ingests, Save(p)
    PROVE  Tracked'
<1>1. \A i \in DOMAIN rows : /\ Saved(p, rows[i]).tag = rows[i].tag
                            /\ Saved(p, rows[i]).worker = rows[i].worker
  BY RowIdTyped DEF Typed, Saved, Row
<1>2. SameWearers
  BY <1>1 DEF Save, Put, SameWearers
<1> QED
  BY <1>2, SameTracked DEF Save, Only

LEMMA SweepTracked ==
    ASSUME Typed, Tracked, SweepStep
    PROVE  Tracked'
<1>1. SameWearers
  <2>1. CASE SweepRow
    <3>1. PICK i : Update(i, [rows[i] EXCEPT !.onSite = FALSE])
      BY <2>1 DEF SweepRow
    <3>2. i \in DOMAIN rows => rows[i] \in Row
      BY RowIdTyped DEF Typed
    <3> QED
      BY <3>1, <3>2 DEF Update, Put, SameWearers, Row
  <2>2. CASE UNCHANGED rows
    BY <2>2 DEF SameWearers
  <2> QED
    BY <2>1, <2>2 DEF SweepStep, SweepStart, SweepLog, deskVars
<1> QED
  BY <1>1, SameTracked DEF SweepStep, SweepStart, SweepRow, SweepLog, deskVars

LEMMA AssignTracked ==
    ASSUME Typed, Tracked, Assign
    PROVE  Tracked'
<1>1. PICK t \in Tags, w \in Crew :
        /\ tags[t] = InStock /\ WornBy(w) = {}
        /\ tags' = [tags EXCEPT ![t] = WornTag(w)]
        /\ \/ RowsOf(t) = {} /\ Insert(OffSiteRow(t, w))
           \/ \E i \in RowsOf(t) : Update(i, OffSiteRow(t, w))
  BY DEF Assign
<1>2. \A s \in Tags : tags[s].status = "assigned" => tags[s].worker # w
  <2> SUFFICES ASSUME NEW s \in Tags, tags[s].status = "assigned", tags[s].worker = w PROVE FALSE
    OBVIOUS
  <2>1. tags[s] = [status |-> "assigned", worker |-> w]
    BY DEF Typed, TablesTyped, Tag
  <2> QED
    BY <1>1, <2>1 DEF WornBy
<1>3. /\ tags'[t] = [status |-> "assigned", worker |-> w]
      /\ \A s \in Tags : s # t => tags'[s] = tags[s]
  BY <1>1 DEF WornTag, Typed, TablesTyped
<1>4. OneTagEach'
  BY <1>2, <1>3 DEF Tracked, OneTagEach
<1>5. CASE RowsOf(t) = {} /\ Insert(OffSiteRow(t, w))
  <2>1. lastRow + 1 \notin DOMAIN rows
    BY PositionsAssumption DEF PositionsAssumption, Typed, TablesTyped
  <2>2. /\ DOMAIN rows' = DOMAIN rows \cup {lastRow + 1} /\ rows'[lastRow + 1] = OffSiteRow(t, w)
        /\ \A j \in DOMAIN rows : rows'[j] = rows[j]
    BY <1>5, <2>1 DEF Insert, Put
  <2>3. \A j \in DOMAIN rows : rows[j].tag # t
    BY <1>5 DEF RowsOf
  <2> QED
    BY <1>3, <1>4, <2>2, <2>3 DEF Tracked, OneRowPerTag, WornHasRow, OffSiteRow
<1>6. ASSUME NEW i \in RowsOf(t), Update(i, OffSiteRow(t, w))
      PROVE  Tracked'
  <2>1. i \in DOMAIN rows /\ rows[i].tag = t
    BY DEF RowsOf
  <2>2. /\ DOMAIN rows' = DOMAIN rows /\ rows'[i] = OffSiteRow(t, w)
        /\ \A j \in DOMAIN rows : j # i => rows'[j] = rows[j]
    BY <1>6, <2>1 DEF Update, Put
  <2>3. \A j \in DOMAIN rows : j # i => rows[j].tag # t
    BY <2>1 DEF Tracked, OneRowPerTag
  <2>4. \A j \in DOMAIN rows : rows'[j].tag = rows[j].tag
    BY <2>1, <2>2 DEF OffSiteRow
  <2> QED
    BY <1>3, <1>4, <2>1, <2>2, <2>3, <2>4 DEF Tracked, OneRowPerTag, WornHasRow, OffSiteRow
<1> QED
  BY <1>1, <1>5, <1>6

LEMMA UnassignTracked ==
    ASSUME Typed, Tracked, Unassign
    PROVE  Tracked'
<1>1. PICK t \in Tags : rows' = Cleared(t) /\ tags' = [tags EXCEPT ![t] = InStock]
  BY DEF Unassign
<1>2. /\ DOMAIN rows' = DOMAIN rows \ RowsOf(t)
      /\ \A i \in DOMAIN rows' : rows'[i] = rows[i] /\ i \in DOMAIN rows
  BY <1>1 DEF Cleared
<1>3. tags'[t].status = "in_stock" /\ \A s \in Tags : s # t => tags'[s] = tags[s]
  BY <1>1 DEF InStock, Typed, TablesTyped
<1>4. \A i \in DOMAIN rows : rows[i].tag # t => i \in DOMAIN rows'
  BY <1>2 DEF RowsOf
<1> QED
  BY <1>2, <1>3, <1>4 DEF Tracked, OneRowPerTag, WornHasRow, OneTagEach

LEMMA ReplaceTracked ==
    ASSUME Typed, Tracked, Replace
    PROVE  Tracked'
<1>1. PICK old \in Tags, new \in Tags, w \in Crew :
        /\ old \in WornBy(w) /\ tags[new] = InStock /\ RowsOf(new) = {}
        /\ tags' = [tags EXCEPT ![old] = [status |-> "lost", worker |-> Nobody],
                                ![new] = WornTag(w)]
        /\ \/ RowsOf(old) = {} /\ Insert(OffSiteRow(new, w))
           \/ \E i \in RowsOf(old) : Update(i, [rows[i] EXCEPT !.tag = new])
  BY DEF Replace
<1>2. tags[old] = [status |-> "assigned", worker |-> w] /\ old # new
  BY <1>1 DEF WornBy, InStock
<1>3. /\ tags'[new] = [status |-> "assigned", worker |-> w] /\ tags'[old].status = "lost"
      /\ \A s \in Tags : s # old /\ s # new => tags'[s] = tags[s]
  BY <1>1, <1>2 DEF WornTag, Typed, TablesTyped
<1>4. OneTagEach'
  BY <1>2, <1>3 DEF Tracked, OneTagEach
<1>5. PICK i \in DOMAIN rows : rows[i].tag = old /\ rows[i].worker = w
  BY <1>2 DEF Tracked, WornHasRow
<1>6. RowsOf(old) = {i}
  BY <1>5 DEF Tracked, OneRowPerTag, RowsOf
<1>7. Update(i, [rows[i] EXCEPT !.tag = new])
  BY <1>1, <1>6
<1>8. /\ DOMAIN rows' = DOMAIN rows /\ rows'[i] = [rows[i] EXCEPT !.tag = new]
      /\ \A j \in DOMAIN rows : j # i => rows'[j] = rows[j]
  BY <1>5, <1>7 DEF Update, Put
<1>9. rows'[i].tag = new /\ rows'[i].worker = w
  BY <1>5, <1>8, RowIdTyped DEF Row, Typed
<1>10. \A j \in DOMAIN rows : rows[j].tag # new
  BY <1>1 DEF RowsOf
<1>11. OneRowPerTag'
  BY <1>8, <1>9, <1>10 DEF Tracked, OneRowPerTag
<1>12. WornHasRow'
  <2> SUFFICES ASSUME NEW s \in Tags, tags'[s].status = "assigned"
               PROVE  \E j \in DOMAIN rows' : rows'[j].tag = s /\ rows'[j].worker = tags'[s].worker
    BY DEF WornHasRow
  <2>1. CASE s = new
    <3>1. tags'[s].worker = w
      BY <1>3, <2>1
    <3> QED
      BY <1>5, <1>8, <1>9, <2>1, <3>1
  <2>2. CASE s # new
    <3>1. s # old /\ tags'[s] = tags[s]
      BY <1>3, <2>2
    <3>2. PICK j \in DOMAIN rows : rows[j].tag = s /\ rows[j].worker = tags[s].worker
      BY <3>1 DEF Tracked, WornHasRow
    <3> QED
      BY <1>5, <1>8, <3>1, <3>2
  <2> QED
    BY <2>1, <2>2
<1> QED
  BY <1>4, <1>11, <1>12 DEF Tracked

LEMMA NextTracked == Typed /\ Tracked /\ [EvacuationNext]_vars => Tracked'
<1> SUFFICES ASSUME Typed, Tracked, [EvacuationNext]_vars PROVE Tracked'
  OBVIOUS
<1>1. CASE IngestStep
  <2>1. PICK p \in Ingests :
          \/ (Receive(p) \/ Find(p) \/ Create(p) \/ Gate(p) \/ LogPassage(p) \/ Save(p) \/ Rules(p))
             /\ UNCHANGED evacuationVars
          \/ LookUpEntry(p) \/ TickEntry(p) \/ DieAny(p)
    BY <1>1 DEF IngestStep
  <2>2. CASE Create(p) \/ Save(p)
    BY <2>2, CreateTracked, SaveTracked
  <2>3. CASE ~(Create(p) \/ Save(p))
    <3>1. UNCHANGED <<rows, tags>>
      BY <2>1, <2>3 DEF Receive, Find, Gate, LogPassage, Rules, LookUpEntry, TickEntry, DieAny, Die,
                        Only, deskVars
    <3> QED
      BY <3>1, SameTracked DEF SameWearers
  <2> QED
    BY <2>2, <2>3
<1>2. CASE SweepStep
  BY <1>2, SweepTracked
<1>3. CASE CorrectRow
  <2>1. \A i \in DOMAIN rows : rows[i] \in Row
    BY RowIdTyped DEF Typed
  <2>2. SameWearers /\ UNCHANGED tags
    BY <1>3, <2>1 DEF CorrectRow, SameWearers, Row
  <2> QED
    BY <2>2, SameTracked
<1>4. CASE Assign \/ Unassign \/ Replace
  BY <1>4, AssignTracked, UnassignTracked, ReplaceTracked
<1>5. CASE OfficerStep \/ Tick \/ Correct \/ UNCHANGED vars
  <2>1. UNCHANGED <<rows, tags>>
    BY <1>5 DEF OfficerStep, Tick, Correct, deskVars, positionVars, vars
  <2> QED
    BY <2>1, SameTracked DEF SameWearers
<1> QED
  BY <1>1, <1>2, <1>3, <1>4, <1>5 DEF EvacuationNext

LEMMA TrackedEnough == Typed /\ Tracked => AssignedTracked
<1> SUFFICES ASSUME Typed, Tracked PROVE AssignedTracked
  OBVIOUS
<1>1. \A t \in Tags : tags[t].status = "assigned" =>
        \E i \in DOMAIN rows : RowsOf(t) = {i} /\ rows[i].worker = tags[t].worker
  BY DEF Tracked, OneRowPerTag, WornHasRow, RowsOf
<1>2. \A w \in Crew, s, t \in Tags : s \in WornBy(w) /\ t \in WornBy(w) => s = t
  BY DEF Tracked, OneTagEach, WornBy
<1> QED
  BY <1>1, <1>2 DEF AssignedTracked

(* Whatever readings, the sweep and the desk do to each other, a tag that is   *)
(* worn has one row, of its wearer, and a worker wears one tag, for every      *)
(* number of workers, tags and requests.                                       *)
THEOREM WornIsTracked == EvacuationSpec => []AssignedTracked
<1>1. EvacuationSpec => []Tracked
  BY AlwaysTyped, InitTracked, NextTracked, PTL DEF EvacuationSpec
<1> QED
  BY <1>1, AlwaysTyped, TrackedEnough, PTL

-----------------------------------------------------------------------------
(* No report is closed over somebody who is missing.                       *)
-----------------------------------------------------------------------------
Complete(r) == \A w \in Crew : reports[r].roster[w] # "unaccounted"

(* A request that will close a report was forced with a note, or has counted *)
(* nobody, and nobody goes missing again.                                    *)
CloseIsSure ==
    \A o \in Officers : Asked(o, "close") =>
      (command[o].forced /\ command[o].note) \/ Complete(command[o].report)

ClosedWell ==
    \A r \in DOMAIN reports : reports[r].status = "closed" =>
      (reports[r].forced /\ reports[r].noted) \/ Complete(r)

LEMMA InitClosed == EvacuationInit => CloseIsSure /\ ClosedWell
  BY DEF EvacuationInit, CloseIsSure, ClosedWell, Asked, Nothing

(* Entries are ticked, and requests go on to anything but closing. *)
LEMMA TickedClosed ==
    ASSUME Typed, CloseIsSure, ClosedWell, DOMAIN reports' = DOMAIN reports,
           \A o \in Officers : Asked(o, "close")' => command'[o] = command[o],
           \A r \in DOMAIN reports :
             /\ reports'[r].status = reports[r].status /\ reports'[r].forced = reports[r].forced
             /\ reports'[r].noted = reports[r].noted
             /\ \A w \in Crew : reports'[r].roster[w] = "unaccounted"
                                  => reports[r].roster[w] = "unaccounted"
    PROVE  CloseIsSure' /\ ClosedWell'
<1>1. \A r \in DOMAIN reports : Complete(r) => Complete(r)'
  BY DEF Complete
<1>2. \A o \in Officers : Asked(o, "close") => command[o].report \in DOMAIN reports
  BY AskedTyped DEF Typed
<1>3. CloseIsSure'
  BY <1>1, <1>2 DEF CloseIsSure, Asked
<1> QED
  BY <1>1, <1>3 DEF ClosedWell

LEMMA SetEntryClosed ==
    ASSUME Typed, CloseIsSure, ClosedWell, NEW r \in DOMAIN reports, NEW w \in Crew,
           NEW to \in Entry \ {"unaccounted"}, SetEntry(r, w, to),
           \A o \in Officers : Asked(o, "close")' => command'[o] = command[o]
    PROVE  CloseIsSure' /\ ClosedWell'
<1>1. /\ DOMAIN reports' = DOMAIN reports
      /\ \A q \in DOMAIN reports : q # r => reports'[q] = reports[q]
      /\ reports'[r] = [reports[r] EXCEPT !.roster[w] = to]
  BY EntrySet DEF Typed
<1>2. reports[r] \in Report
  BY ElementOfSeq DEF Typed, ReportsTyped
<1>3. /\ reports'[r].status = reports[r].status /\ reports'[r].forced = reports[r].forced
      /\ reports'[r].noted = reports[r].noted
      /\ \A v \in Crew : reports'[r].roster[v] = IF v = w THEN to ELSE reports[r].roster[v]
  BY <1>1, <1>2 DEF Report
<1> QED
  BY <1>1, <1>3, TickedClosed

LEMMA CountClosed ==
    ASSUME Typed, CloseIsSure, ClosedWell, NEW o \in Officers, Count(o)
    PROVE  CloseIsSure' /\ ClosedWell'
<1> DEFINE c == command[o]
           refused == (Missing(c.report) /\ ~c.force) \/ (c.force /\ ~c.note)
           next == [step |-> "close", report |-> c.report, note |-> c.note,
                    forced |-> c.force /\ Missing(c.report)]
<1>1. UNCHANGED reports /\ \A q \in Officers : q # o => command'[q] = command[q]
  BY DEF Count, Ask, Typed, ReportsTyped
<1>2. \A r : Complete(r)' <=> Complete(r)
  BY <1>1 DEF Complete
<1>3. CASE refused
  <2>1. command'[o] = Nothing
    BY <1>3 DEF Count, Ask, Typed, ReportsTyped
  <2> QED
    BY <1>1, <1>2, <2>1 DEF CloseIsSure, ClosedWell, Asked, Nothing
<1>4. CASE ~refused
  <2>1. command'[o] = next
    BY <1>4 DEF Count, Ask, Typed, ReportsTyped
  <2>2. (c.force /\ Missing(c.report) /\ c.note) \/ Complete(c.report)
    BY <1>4 DEF Missing, Complete
  <2>3. ((command[o].forced /\ command[o].note) \/ Complete(command[o].report))'
    <3> DEFINE forced == c.force /\ Missing(c.report)
    <3>1. /\ command'[o].report = c.report /\ command'[o].note = c.note
          /\ command'[o].forced = forced
      <4>1. command'[o] = [step |-> "close", report |-> c.report, note |-> c.note, forced |-> forced]
        BY <2>1
      <4> HIDE DEF forced
      <4> QED
        BY <4>1
    <3>2. CASE forced /\ c.note
      BY <3>1, <3>2
    <3>3. CASE Complete(c.report)
      BY <1>2, <3>1, <3>3
    <3> QED
      BY <2>2, <3>2, <3>3
  <2>4. CloseIsSure'
    <3> SUFFICES ASSUME NEW q \in Officers, Asked(q, "close")'
                 PROVE  ((command[q].forced /\ command[q].note) \/ Complete(command[q].report))'
      BY DEF CloseIsSure
    <3>1. CASE q = o
      BY <2>3, <3>1
    <3>2. CASE q # o
      BY <1>1, <1>2, <3>2 DEF CloseIsSure, Asked
    <3> QED
      BY <3>1, <3>2
  <2> QED
    BY <1>1, <1>2, <2>4 DEF ClosedWell
<1> QED
  BY <1>3, <1>4

LEMMA CloseClosed ==
    ASSUME Typed, CloseIsSure, ClosedWell, NEW o \in Officers, Close(o)
    PROVE  CloseIsSure' /\ ClosedWell'
<1> DEFINE c == command[o]
<1>1. c.report \in DOMAIN reports /\ reports[c.report] \in Report
  BY AskedTyped, ElementOfSeq DEF Close, Typed, ReportsTyped
<1>2. /\ DOMAIN reports' = DOMAIN reports
      /\ reports'[c.report] = ClosedAs(reports[c.report], c)
      /\ \A r \in DOMAIN reports : r # c.report => reports'[r] = reports[r]
  BY <1>1 DEF Close, Typed, ReportsTyped
<1>3. /\ reports'[c.report].roster = reports[c.report].roster
      /\ c.forced => reports'[c.report].forced
      /\ c.note => reports'[c.report].noted
  BY <1>1, <1>2 DEF ClosedAs, Report
<1>4. \A r \in DOMAIN reports : Complete(r) => Complete(r)'
  BY <1>2, <1>3 DEF Complete
<1>5. /\ command'[o] = Nothing
      /\ \A q \in Officers : q # o => command'[q] = command[q]
  BY DEF Close, Ask, Typed, ReportsTyped
<1>6. CloseIsSure'
  <2>1. \A q \in Officers : Asked(q, "close")' => q # o /\ Asked(q, "close")
    BY <1>5 DEF Asked, Nothing
  <2>2. \A q \in Officers : Asked(q, "close") => command[q].report \in DOMAIN reports
    BY AskedTyped DEF Typed
  <2> QED
    BY <1>4, <1>5, <2>1, <2>2 DEF CloseIsSure
<1>7. ClosedWell'
  <2>1. (c.forced /\ c.note) \/ Complete(c.report)
    BY DEF CloseIsSure, Close
  <2> QED
    BY <1>1, <1>2, <1>3, <1>4, <2>1 DEF ClosedWell
<1> QED
  BY <1>6, <1>7

LEMMA TriggerClosed ==
    ASSUME Typed, CloseIsSure, ClosedWell, NEW o \in Officers, Trigger(o)
    PROVE  CloseIsSure' /\ ClosedWell'
<1> DEFINE report == [status |-> "open", forced |-> FALSE, noted |-> FALSE,
             roster |-> [w \in Crew |-> IF \E i \in OnSite : rows[i].worker = w
                                        THEN "unaccounted" ELSE "absent"]]
<1>1. \A q \in Officers : Asked(q, "close")' => Asked(q, "close") /\ command'[q] = command[q]
  BY DEF Trigger, Ask, Typed, ReportsTyped, Asked, Nothing
<1>2. report \in Report /\ report.status = "open"
  BY DEF Report, Entry
<1>3. reports' = reports \/ reports' = Append(reports, report)
  BY DEF Trigger
<1>4. CASE reports' = reports
  BY <1>1, <1>4, TickedClosed
<1>5. CASE reports' = Append(reports, report)
  <2> HIDE DEF report
  <2>1. /\ DOMAIN reports' = 1..(Len(reports) + 1) /\ \A i \in DOMAIN reports : reports'[i] = reports[i]
        /\ reports'[Len(reports) + 1] = report /\ DOMAIN reports = 1..Len(reports)
        /\ Len(reports) \in Nat
    BY <1>2, <1>5, AppendReport, AppendProperties, LenProperties DEF Typed, ReportsTyped
  <2>2. \A r \in DOMAIN reports' : r \in DOMAIN reports \/ reports'[r].status = "open"
    BY <1>2, <2>1
  <2>3. \A r \in DOMAIN reports : Complete(r)' <=> Complete(r)
    BY <2>1 DEF Complete
  <2>4. \A q \in Officers : Asked(q, "close") => command[q].report \in DOMAIN reports
    BY AskedTyped DEF Typed
  <2>5. CloseIsSure'
    BY <1>1, <2>3, <2>4 DEF CloseIsSure
  <2>6. ClosedWell'
    BY <2>1, <2>2, <2>3 DEF ClosedWell
  <2> QED
    BY <2>5, <2>6
<1> QED
  BY <1>3, <1>4, <1>5

LEMMA OfficerClosed ==
    ASSUME Typed, CloseIsSure, ClosedWell, OfficerStep
    PROVE  CloseIsSure' /\ ClosedWell'
<1>1. PICK o \in Officers :
        \/ AskTrigger(o) \/ Trigger(o) \/ AskMark(o) \/ Mark(o)
        \/ AskClose(o) \/ Count(o) \/ Close(o)
  BY DEF OfficerStep
<1>2. CASE AskTrigger(o) \/ AskMark(o) \/ AskClose(o)
  <2>1. UNCHANGED reports /\ \A q \in Officers : Asked(q, "close")' => command'[q] = command[q]
    BY <1>2 DEF AskTrigger, AskMark, AskClose, Ask, Asked, Typed, ReportsTyped
  <2> QED
    BY <2>1, TickedClosed
<1>3. CASE Mark(o)
  <2>1. command[o].report \in DOMAIN reports /\ command[o].worker \in Crew
    BY <1>3, AskedTyped DEF Mark, Typed
  <2>2. \A q \in Officers : Asked(q, "close")' => command'[q] = command[q]
    BY <1>3 DEF Mark, Ask, Asked, Nothing, Typed, ReportsTyped
  <2> QED
    BY <1>3, <2>1, <2>2, SetEntryClosed DEF Mark, Entry
<1> QED
  BY <1>1, <1>2, <1>3, TriggerClosed, CountClosed, CloseClosed

LEMMA NextClosed == Typed /\ CloseIsSure /\ ClosedWell /\ [EvacuationNext]_vars
                      => CloseIsSure' /\ ClosedWell'
<1> SUFFICES ASSUME Typed, CloseIsSure, ClosedWell, [EvacuationNext]_vars
             PROVE  CloseIsSure' /\ ClosedWell'
  OBVIOUS
<1>1. CASE OfficerStep
  BY <1>1, OfficerClosed
<1>2. ASSUME NEW p \in Ingests, TickEntry(p)
      PROVE  CloseIsSure' /\ ClosedWell'
  <2>1. found[p].report \in DOMAIN reports /\ found[p].source \in Entry \ {"unaccounted"}
    BY <1>2 DEF TickEntry, Typed, IngestTyped, Found
  <2>2. ingest[p].worker \in Crew
    BY <1>2, Holds DEF TickEntry, Typed, Holding
  <2> QED
    BY <1>2, <2>1, <2>2, SetEntryClosed DEF TickEntry
<1>3. CASE UNCHANGED <<reports, command>>
  BY <1>3, TickedClosed
<1>4. CASE IngestStep
  BY <1>2, <1>3, <1>4 DEF IngestStep, evacuationVars, LookUpEntry, DieAny
<1> QED
  BY <1>1, <1>3, <1>4 DEF EvacuationNext, SweepStep, evacuationVars, vars

(* However many officers account and close while readings account as well, no  *)
(* report is closed over somebody who is missing, but by force with a note.    *)
THEOREM ReportsClosedWell == EvacuationSpec => []ClosedAccounted
<1>1. EvacuationSpec => [](CloseIsSure /\ ClosedWell)
  BY AlwaysTyped, InitClosed, NextClosed, PTL DEF EvacuationSpec
<1>2. ClosedWell => ClosedAccounted
  BY DEF ClosedWell, ClosedAccounted, Complete
<1> QED
  BY <1>1, <1>2, PTL

-----------------------------------------------------------------------------
(* Requests that process readings of one worker or of one row at once.     *)
-----------------------------------------------------------------------------
Acts(p) ==
    \/ Receive(p) \/ Find(p) \/ Create(p) \/ Gate(p) \/ LogPassage(p) \/ Save(p) \/ Rules(p)
    \/ LookUpEntry(p) \/ TickEntry(p) \/ DieAny(p)

LEMMA OneActs == IngestStep => Witness /\ \E p \in Ingests : Acts(p)
  BY DEF IngestStep, Acts

LEMMA OthersWait ==
    ASSUME Typed, NEW p \in Ingests, Acts(p), NEW q \in Ingests, q # p
    PROVE  ingest'[q] = ingest[q]
  BY DEF Acts, Receive, Find, Create, Gate, LogPassage, Save, Rules, LookUpEntry, TickEntry,
     DieAny, Die, Goto, End, Typed, IngestTyped

(* A request that will log a passage still finds no passage too close, unless  *)
(* another one logged a passage of its worker.                                 *)
NoneLingers == \A p \in Ingests :
    ingest[p].step = "log" /\ "log" \notin overtaken[p]
    => ~Lingers(ingest[p].worker, ingest[p].at)

(* A request holds a row that is older than its reading, whatever the desk and *)
(* the sweep wrote to it since, unless another one saved it.                   *)
Ahead == \A p \in Ingests :
    ingest[p].step \in {"gate", "log", "save"} =>
      /\ ingest[p].row <= lastRow
      /\ ingest[p].row \in DOMAIN rows /\ "row" \notin overtaken[p]
         => rows[ingest[p].row].seen < ingest[p].at

LEMMA LogAppended ==
    ASSUME TablesTyped, NEW w \in Crew, NEW dir \in {"in", "out"}, NEW at \in Times,
           NEW source \in {"gate", "sweep", "correction"}, Logged(w, dir, at, source)
    PROVE  /\ DOMAIN logs' = DOMAIN logs \cup {Len(logs) + 1} /\ Len(logs) + 1 \notin DOMAIN logs
           /\ \A i \in DOMAIN logs : logs'[i] = logs[i] /\ logs[i] \in Passage
           /\ logs'[Len(logs) + 1] = [worker |-> w, dir |-> dir, at |-> at, source |-> source]
<1> DEFINE e == [worker |-> w, dir |-> dir, at |-> at, source |-> source]
<1>1. e \in Passage /\ logs \in Seq(Passage) /\ logs' = Append(logs, e)
  BY DEF Passage, TablesTyped, Logged
<1>2. \A i \in DOMAIN logs : logs[i] \in Passage
  BY <1>1, ElementOfSeq
<1> HIDE DEF e
<1>3. /\ Len(logs) \in Nat /\ DOMAIN logs = 1..Len(logs)
      /\ Len(logs') = Len(logs) + 1 /\ DOMAIN logs' = 1..Len(logs')
      /\ \A i \in 1..Len(logs) : logs'[i] = logs[i]
      /\ logs'[Len(logs) + 1] = e
  BY <1>1, AppendProperties, LenProperties
<1>4. DOMAIN logs' = DOMAIN logs \cup {Len(logs) + 1} /\ Len(logs) + 1 \notin DOMAIN logs
  BY <1>3
<1> QED
  BY <1>2, <1>3, <1>4 DEF e

(* A worker lingers after a passage is logged who did before, or whose passage *)
(* it was.                                                                     *)
LEMMA LingersBefore ==
    ASSUME TablesTyped, NEW w \in Crew, NEW dir \in {"in", "out"}, NEW at \in Times,
           NEW source \in {"gate", "sweep", "correction"}, Logged(w, dir, at, source),
           NEW other \in Crew, NEW then, w # other \/ source # "gate",
           NEW i \in DOMAIN logs', logs'[i].worker = other, logs'[i].source = "gate",
           logs'[i].at > then - Debounce
    PROVE  Lingers(other, then)
<1>1. /\ DOMAIN logs' = DOMAIN logs \cup {Len(logs) + 1}
      /\ \A k \in DOMAIN logs : logs'[k] = logs[k]
      /\ logs'[Len(logs) + 1] = [worker |-> w, dir |-> dir, at |-> at, source |-> source]
  BY LogAppended
<1>2. i # Len(logs) + 1
  BY <1>1
<1>3. i \in DOMAIN logs /\ logs'[i] = logs[i]
  BY <1>1, <1>2
<1> QED
  BY <1>3 DEF Lingers

LEMMA InitLingers == EvacuationInit => NoneLingers
  BY DEF EvacuationInit, PositionsInit, NoneLingers, Idle

LEMMA IngestLingers ==
    ASSUME Typed, NoneLingers, IngestStep
    PROVE  NoneLingers'
<1>1. PICK p \in Ingests : Acts(p)
  BY OneActs
<1>2. Witness
  BY OneActs
<1> SUFFICES ASSUME NEW q \in Ingests, ingest'[q].step = "log", "log" \notin overtaken'[q],
                    NEW i \in DOMAIN logs', logs'[i].worker = ingest'[q].worker,
                    logs'[i].source = "gate", logs'[i].at > ingest'[q].at - Debounce
             PROVE  FALSE
  BY DEF NoneLingers, Lingers
<1>3. "log" \notin overtaken[q] /\ "log" \notin Overtakes(q)
  BY <1>2 DEF Witness
<1>4. CASE q = p
  <2>1. ingest[p] \in {Idle} \cup Reading \cup Holding
    BY DEF Typed, IngestTyped
  <2>2. Gate(p)
    BY <1>1, <1>4, <2>1 DEF Acts, Receive, Find, Create, LogPassage, Save, Rules, LookUpEntry, TickEntry,
       DieAny, Die, Goto, End, Loaded, Idle, Reading, Holding, Typed, IngestTyped
  <2>3. ingest[p] \in Holding
    BY <2>2, Holds DEF Gate, Typed
  <2>4. UNCHANGED logs /\ ingest'[p].worker = ingest[p].worker /\ ingest'[p].at = ingest[p].at
        /\ ~Lingers(ingest[p].worker, ingest[p].at)
    BY <1>4, <2>2, <2>3 DEF Gate, Goto, Holding, Typed, IngestTyped
  <2> QED
    BY <1>4, <2>4 DEF Lingers
<1>5. CASE q # p
  <2>1. ingest'[q] = ingest[q]
    BY <1>1, <1>5, OthersWait
  <2>2. ~Lingers(ingest[q].worker, ingest[q].at) /\ ingest[q] \in Holding
    BY <1>3, <2>1, Holds DEF NoneLingers, Typed
  <2>3. CASE UNCHANGED logs
    BY <2>1, <2>2, <2>3 DEF Lingers
  <2>4. CASE LogPassage(p)
    <3>1. ingest[p] \in Holding
      BY <2>4, Holds DEF LogPassage, Typed
    <3>2. PICK dir \in {"in", "out"} : Logged(ingest[p].worker, dir, ingest[p].at, "gate")
      BY <2>4 DEF LogPassage
    <3>3. /\ ingest[p].worker \in Crew /\ ingest[q].worker \in Crew
          /\ ingest[p].at \in Times
      BY <2>2, <3>1 DEF Holding
    <3>4. Ends(p, "log") /\ logs' # logs
      <4>1. ingest'[p].step = "save"
        BY <2>4, <3>1 DEF LogPassage, Typed, IngestTyped, Holding
      <4>2. DOMAIN logs' # DOMAIN logs
        BY <3>2, <3>3, LogAppended DEF Typed
      <4> QED
        BY <2>4, <4>1, <4>2 DEF Ends, LogPassage
    <3>5. ingest[p].worker # ingest[q].worker
      BY <1>3, <1>5, <2>1, <3>4 DEF Overtakes
    <3>6. Lingers(ingest[q].worker, ingest[q].at)
      <4> DEFINE w == ingest[p].worker
                 at == ingest[p].at
                 other == ingest[q].worker
                 then == ingest[q].at
      <4>1. /\ w \in Crew /\ other \in Crew /\ at \in Times /\ w # other
            /\ Logged(w, dir, at, "gate")
            /\ logs'[i].worker = other /\ logs'[i].at > then - Debounce
        BY <2>1, <3>2, <3>3, <3>5
      <4> HIDE DEF w, at, other, then
      <4>2. Lingers(other, then)
        BY <4>1, LingersBefore DEF Typed
      <4> QED
        BY <4>2 DEF other, then
    <3> QED
      BY <2>2, <3>6
  <2> QED
    BY <1>1, <2>3, <2>4 DEF Acts, Receive, Find, Create, Gate, Save, Rules, LookUpEntry, TickEntry,
       DieAny, Die
<1> QED
  BY <1>4, <1>5

LEMMA NextLingers ==
    ASSUME Typed, NoneLingers, [EvacuationNext]_vars
    PROVE  NoneLingers'
<1>1. CASE IngestStep
  BY <1>1, IngestLingers
<1>2. ASSUME NEW w \in Crew, NEW dir \in {"in", "out"}, NEW source \in {"sweep", "correction"},
             Logged(w, dir, clock, source), UNCHANGED <<ingest, overtaken>>
      PROVE  NoneLingers'
  <2> SUFFICES ASSUME NEW q \in Ingests, ingest[q].step = "log", "log" \notin overtaken[q],
                      NEW i \in DOMAIN logs', logs'[i].worker = ingest[q].worker,
                      logs'[i].source = "gate", logs'[i].at > ingest[q].at - Debounce
               PROVE  FALSE
    BY <1>2 DEF NoneLingers, Lingers
  <2> DEFINE other == ingest[q].worker
             then == ingest[q].at
  <2>1. clock \in Times /\ source \in {"gate", "sweep", "correction"} /\ source # "gate"
    BY <1>2 DEF Typed, TablesTyped
  <2>2. /\ other \in Crew /\ ~Lingers(other, then)
        /\ logs'[i].worker = other /\ logs'[i].at > then - Debounce
    BY Holds DEF Holding, NoneLingers, Typed
  <2> HIDE DEF other, then
  <2> QED
    BY <1>2, <2>1, <2>2, LingersBefore DEF Typed
<1>3. CASE SweepLog /\ UNCHANGED overtaken
  <2>1. PICK w \in sweep.unlogged : Logged(w, "out", clock, "sweep")
    BY <1>3 DEF SweepLog
  <2>2. w \in Crew /\ UNCHANGED ingest
    BY <1>3, <2>1 DEF SweepLog, Typed, TablesTyped
  <2> QED
    BY <1>2, <1>3, <2>1, <2>2
<1>4. CASE Correct /\ UNCHANGED overtaken
  <2>1. PICK w \in Crew, dir \in {"in", "out"} : Logged(w, dir, clock, "correction")
    BY <1>4 DEF Correct
  <2> QED
    BY <1>2, <1>4, <2>1 DEF Correct
<1>5. CASE UNCHANGED <<logs, ingest, overtaken>>
  BY <1>5 DEF NoneLingers, Lingers
<1> QED
  BY <1>1, <1>3, <1>4, <1>5 DEF EvacuationNext, SweepStep, SweepStart, SweepRow, OfficerStep, Tick,
     CorrectRow, Assign, Unassign, Replace, Desk, vars, positionVars

LEMMA PassageApart ==
    ASSUME Typed, NoneLingers, [EvacuationNext]_vars, NEW p \in Ingests,
           Passes(p), "log" \notin overtaken[p],
           NEW i \in DOMAIN logs', NEW j \in DOMAIN logs', logs'[i].worker = logs'[j].worker,
           {logs'[i].source, logs'[j].source} = {"gate"}, i \in DOMAIN logs, j \notin DOMAIN logs
    PROVE  logs'[j].at - logs'[i].at >= Debounce
<1> DEFINE w == ingest[p].worker
           at == ingest[p].at
           dir == IF ~ingest[p].held.onSite THEN "in" ELSE "out"
<1>1. ingest[p] \in Holding
  BY Holds DEF Passes, Typed
<1>2. w \in Crew /\ at \in Times /\ at \in Int /\ dir \in {"in", "out"}
  BY <1>1, PositionsAssumption DEF PositionsAssumption, Holding, Times
<1>3. LogPassage(p)
  <2>1. IngestStep
    BY DEF Passes, EvacuationNext, SweepStep, SweepStart, SweepRow, SweepLog, OfficerStep, Tick, Correct,
       CorrectRow, Assign, Unassign, Replace, Desk, vars, positionVars
  <2>2. PICK q \in Ingests : Acts(q)
    BY <2>1, OneActs
  <2>3. q = p
    BY <2>2, OthersWait DEF Passes
  <2>4. ~DieAny(p) /\ ~Receive(p)
    BY <1>1 DEF DieAny, Die, Receive, End, Idle, Passes, Typed, IngestTyped
  <2> QED
    BY <2>2, <2>3, <2>4 DEF Acts, Find, Create, Gate, Save, Rules, LookUpEntry, TickEntry, Passes
<1>4. Logged(w, dir, at, "gate") /\ ~Lingers(w, at)
  BY <1>3 DEF LogPassage, NoneLingers
<1> HIDE DEF w, at, dir
<1>5. /\ logs'[j].worker = w /\ logs'[j].at = at
      /\ logs'[i] = logs[i] /\ logs[i] \in Passage
  <2>1. "gate" \in {"gate", "sweep", "correction"} /\ TablesTyped
    BY DEF Typed
  <2>2. /\ DOMAIN logs' = DOMAIN logs \cup {Len(logs) + 1}
        /\ \A k \in DOMAIN logs : logs'[k] = logs[k] /\ logs[k] \in Passage
        /\ logs'[Len(logs) + 1] = [worker |-> w, dir |-> dir, at |-> at, source |-> "gate"]
    BY <1>2, <1>4, <2>1, LogAppended
  <2>3. j = Len(logs) + 1
    BY <2>2
  <2> QED
    BY <2>2, <2>3
<1>6. logs[i].worker = w /\ logs[i].source = "gate" /\ logs[i].at \in Int
  BY <1>5, PositionsAssumption DEF PositionsAssumption, Passage, Times
<1>7. ~(logs[i].at > at - Debounce)
  BY <1>4, <1>6 DEF Lingers
<1> QED
  BY <1>2, <1>5, <1>6, <1>7, PositionsAssumption DEF PositionsAssumption

(* However many requests process readings, in whatever order they come and     *)
(* wherever a request dies, a passage is logged as far from all that were      *)
(* logged before it as the debounce, unless another request logged one of the  *)
(* worker after this one had looked.                                           *)
THEOREM PassagesKeptApart == EvacuationSpec => PassagesApart
<1>1. Typed /\ NoneLingers /\ [EvacuationNext]_vars => NoneLingers'
  BY NextLingers
<1>2. Typed /\ NoneLingers /\ [EvacuationNext]_vars
      => [\A p \in Ingests : Passes(p) => "log" \in overtaken[p] \/ LoggedApart]_vars
  BY PassageApart DEF LoggedApart
<1> QED
  BY <1>1, <1>2, AlwaysTyped, InitLingers, PTL DEF EvacuationSpec, PassagesApart

(* Where a row keeps its id, nothing but a reading makes it look newer. *)
LEMMA AheadKept ==
    ASSUME Typed, Ahead, lastRow' >= lastRow, lastRow' \in Nat, UNCHANGED <<ingest, overtaken>>,
           \A i \in DOMAIN rows' : i \in DOMAIN rows \/ i > lastRow,
           \A i \in DOMAIN rows' : i \in DOMAIN rows => rows'[i].seen \in {0, rows[i].seen}
    PROVE  Ahead'
<1> SUFFICES ASSUME NEW p \in Ingests, ingest[p].step \in {"gate", "log", "save"}
             PROVE  /\ ingest[p].row <= lastRow'
                    /\ ingest[p].row \in DOMAIN rows' /\ "row" \notin overtaken[p]
                       => rows'[ingest[p].row].seen < ingest[p].at
  BY DEF Ahead
<1>1. ingest[p] \in Holding
  BY Holds DEF Typed
<1>2. ingest[p].row \in Nat /\ ingest[p].at \in Nat \ {0} /\ lastRow \in Nat
  BY <1>1, PositionsAssumption DEF PositionsAssumption, Holding, RowIds, Times, Typed, TablesTyped
<1>3. ingest[p].row <= lastRow
  BY DEF Ahead
<1>4. ASSUME ingest[p].row \in DOMAIN rows', "row" \notin overtaken[p]
      PROVE  rows'[ingest[p].row].seen < ingest[p].at
  <2>1. ingest[p].row \in DOMAIN rows
    BY <1>2, <1>3, <1>4
  <2>2. rows[ingest[p].row].seen < ingest[p].at
    BY <1>4, <2>1 DEF Ahead
  <2> QED
    BY <1>2, <1>4, <2>1, <2>2
<1> QED
  BY <1>2, <1>3, <1>4

(* The request that acts keeps ahead of the row it loads. *)
LEMMA ActorAhead ==
    ASSUME Typed, Ahead, NEW p \in Ingests, Acts(p), "row" \in overtaken[p] => "row" \in overtaken'[p],
           ingest'[p].step \in {"gate", "log", "save"}
    PROVE  /\ ingest'[p].row <= lastRow'
           /\ ingest'[p].row \in DOMAIN rows' /\ "row" \notin overtaken'[p]
              => rows'[ingest'[p].row].seen < ingest'[p].at
<1>1. (\/ Receive(p) \/ Find(p) \/ Create(p) \/ Gate(p) \/ LogPassage(p) \/ Save(p) \/ Rules(p)
       \/ LookUpEntry(p) \/ TickEntry(p) \/ DieAny(p))
  BY DEF Acts
<1>2. ingest[p] \in {Idle} \cup Reading \cup Holding /\ ingest \in [Ingests -> {Idle} \cup Reading \cup Holding]
  BY DEF Typed, IngestTyped
<1>4. CASE Gate(p) \/ LogPassage(p)
  <2>1. ingest[p] \in Holding
    BY <1>4, Holds DEF Gate, LogPassage, Typed
  <2>2. /\ UNCHANGED <<rows, lastRow>>
        /\ ingest'[p].row = ingest[p].row /\ ingest'[p].at = ingest[p].at
    BY <1>2, <1>4, <2>1 DEF Gate, LogPassage, Goto, Holding
  <2>3. ingest[p].step \in {"gate", "log", "save"}
    BY <1>4 DEF Gate, LogPassage
  <2> QED
    BY <2>2, <2>3 DEF Ahead
<1>5. CASE Find(p)
  <2>1. ingest[p] \in Reading
    BY <1>5, Reads DEF Find, Typed
  <2>2. ~Goto(p, "create") /\ ~End(p)
    BY <1>2, <2>1 DEF Goto, End, Reading, Idle
  <2>3. PICK i \in RowsOf(ingest[p].tag) :
          Newer(ingest[p].at, rows[i]) /\ ingest' = [ingest EXCEPT ![p] = Loaded(p, i, rows[i])]
    BY <1>5, <2>2 DEF Find
  <2>4. ingest'[p].row = i /\ ingest'[p].at = ingest[p].at
    BY <1>2, <2>3 DEF Loaded
  <2>5. i \in DOMAIN rows /\ i <= lastRow /\ rows[i].seen \in Nat /\ ingest[p].at \in Nat
    <3>1. i \in DOMAIN rows
      BY <2>3 DEF RowsOf
    <3>2. rows[i] \in Row
      BY <3>1, RowIdTyped DEF Typed
    <3> QED
      BY <2>1, <3>1, <3>2, PositionsAssumption DEF PositionsAssumption, Row, Reading, Times, Typed, TablesTyped
  <2>6. UNCHANGED <<rows, lastRow>>
    BY <1>5 DEF Find
  <2> QED
    BY <2>3, <2>4, <2>5, <2>6 DEF Newer
<1>6. CASE Create(p)
  <2> DEFINE row == [tag |-> ingest[p].tag, worker |-> ingest[p].worker, zone |-> "nowhere",
                     seen |-> ingest[p].at - 1, onSite |-> FALSE]
  <2>1. ingest[p] \in Reading
    BY <1>6, Reads DEF Create, Typed
  <2>2. ~End(p)
    BY <1>2 DEF End, Idle
  <2>3. Insert(row) /\ ingest' = [ingest EXCEPT ![p] = Loaded(p, lastRow', row)]
    BY <1>6, <2>2 DEF Create
  <2>4. ingest'[p].row = lastRow' /\ ingest'[p].at = ingest[p].at
    BY <1>2, <2>3 DEF Loaded
  <2>5. rows'[lastRow'].seen = ingest[p].at - 1
    BY <2>3 DEF Insert, Put
  <2>6. ingest[p].at \in Nat /\ lastRow' \in Nat
    BY <2>1, <2>3, PositionsAssumption DEF PositionsAssumption, Reading, Times, Insert, Typed, TablesTyped
  <2> QED
    BY <2>4, <2>5, <2>6
<1>7. CASE Receive(p) \/ Save(p) \/ Rules(p) \/ LookUpEntry(p) \/ TickEntry(p) \/ DieAny(p)
  <2>1. ingest'[p].step \notin {"gate", "log", "save"}
    BY <1>2, <1>7 DEF Receive, Save, Rules, LookUpEntry, TickEntry, DieAny, Die, Goto, End, Idle, Reading, Holding
  <2> QED
    BY <2>1
<1> QED
  BY <1>1, <1>4, <1>5, <1>6, <1>7

(* The row of a request that waits is written by a save only, which overtakes. *)
LEMMA WaiterAhead ==
    ASSUME Typed, Ahead, NEW p \in Ingests, Acts(p), Witness, NEW q \in Ingests, q # p,
           ingest'[q].step \in {"gate", "log", "save"}
    PROVE  /\ ingest'[q].row <= lastRow'
           /\ ingest'[q].row \in DOMAIN rows' /\ "row" \notin overtaken'[q]
              => rows'[ingest'[q].row].seen < ingest'[q].at
<1>1. ingest'[q] = ingest[q]
  BY OthersWait
<1>2. ingest[q] \in Holding
  BY <1>1, Holds DEF Typed
<1>3. ingest[q].row \in Nat /\ ingest[q].row <= lastRow /\ lastRow \in Nat
  BY <1>1, <1>2, PositionsAssumption
     DEF PositionsAssumption, Ahead, Holding, RowIds, Typed, TablesTyped
<1>4. overtaken'[q] = overtaken[q] \cup Overtakes(q)
  BY DEF Witness
<1>5. CASE UNCHANGED <<rows, lastRow>>
  BY <1>1, <1>4, <1>5 DEF Ahead
<1>6. CASE Create(p) /\ ~UNCHANGED rows
  <2>1. lastRow' = lastRow + 1 /\ \E row : Put(lastRow + 1, row)
    BY <1>6 DEF Create, Insert
  <2>2. ingest[q].row # lastRow + 1
    BY <1>3
  <2> QED
    BY <1>1, <1>3, <1>4, <2>1, <2>2 DEF Ahead, Put
<1>7. CASE Save(p) /\ ~UNCHANGED rows
  <2>1. lastRow' = lastRow /\ \E row : Put(ingest[p].row, row)
    BY <1>7 DEF Save
  <2>2. Ends(p, "save")
    BY <1>7, Holds DEF Save, Ends, End, Idle, Holding, Typed, IngestTyped
  <2>3. CASE ingest[p].row = ingest[q].row
    <3>1. "row" \in Overtakes(q)
      BY <1>7, <2>2, <2>3 DEF Overtakes
    <3> QED
      BY <1>1, <1>3, <1>4, <2>1, <3>1
  <2>4. CASE ingest[p].row # ingest[q].row
    BY <1>1, <1>3, <1>4, <2>1, <2>4 DEF Ahead, Put
  <2> QED
    BY <2>3, <2>4
<1>8. CASE (Create(p) \/ Save(p)) /\ UNCHANGED rows
  BY <1>1, <1>3, <1>4, <1>8 DEF Ahead, Create, Insert, Save
<1>9. CASE Receive(p) \/ Find(p) \/ Gate(p) \/ LogPassage(p) \/ Rules(p) \/ LookUpEntry(p) \/ TickEntry(p)
             \/ DieAny(p)
  BY <1>5, <1>9 DEF Receive, Find, Gate, LogPassage, Rules, LookUpEntry, TickEntry, DieAny, Die, deskVars
<1> QED
  BY <1>6, <1>7, <1>8, <1>9 DEF Acts

LEMMA IngestAhead == ASSUME Typed, Ahead, IngestStep PROVE Ahead'
<1>1. PICK p \in Ingests : Acts(p)
  BY OneActs
<1>2. Witness
  BY OneActs
<1> SUFFICES ASSUME NEW q \in Ingests, ingest'[q].step \in {"gate", "log", "save"}
             PROVE  /\ ingest'[q].row <= lastRow'
                    /\ ingest'[q].row \in DOMAIN rows' /\ "row" \notin overtaken'[q]
                       => rows'[ingest'[q].row].seen < ingest'[q].at
  BY DEF Ahead
<1>3. "row" \in overtaken[q] => "row" \in overtaken'[q]
  BY <1>2 DEF Witness
<1>4. CASE q = p
  BY <1>1, <1>3, <1>4, ActorAhead
<1>5. CASE q # p
  BY <1>1, <1>2, <1>5, WaiterAhead
<1> QED
  BY <1>4, <1>5

(* The rows keep what they say of time; what a transaction inserts is new. *)
LEMMA OthersAhead ==
    ASSUME Typed, Ahead, UNCHANGED <<ingest, overtaken>>, lastRow' \in Nat,
           \/ SweepStep \/ Correct \/ CorrectRow \/ Assign \/ Unassign \/ Replace
           \/ UNCHANGED <<rows, lastRow>>
    PROVE  Ahead'
<1>1. \A i \in DOMAIN rows : rows[i] \in Row /\ i <= lastRow
  BY RowIdTyped, PositionsAssumption DEF PositionsAssumption, Typed, TablesTyped
<1>2. lastRow \in Nat
  BY PositionsAssumption DEF PositionsAssumption, Typed, TablesTyped
<1>3. CASE UNCHANGED <<rows, lastRow>>
  BY <1>2, <1>3, AheadKept
<1>4. CASE SweepStep
  <2>1. CASE SweepRow
    <3>1. PICK i : Update(i, [rows[i] EXCEPT !.onSite = FALSE])
      BY <2>1 DEF SweepRow
    <3> QED
      BY <1>1, <1>2, <3>1, AheadKept DEF Update, Put, Row
  <2> QED
    BY <1>3, <1>4, <2>1 DEF SweepStep, SweepStart, SweepLog, deskVars
<1>5. CASE Correct \/ CorrectRow
  <2>1. CASE CorrectRow
    BY <1>1, <1>2, <2>1, AheadKept DEF CorrectRow, Row
  <2> QED
    BY <1>3, <1>5, <2>1 DEF Correct, deskVars
<1>6. CASE Unassign
  BY <1>2, <1>6, AheadKept DEF Unassign, Cleared
<1>7. ASSUME NEW row, Insert(row)
      PROVE  Ahead'
  <2>1. /\ lastRow' = lastRow + 1 /\ DOMAIN rows' = DOMAIN rows \cup {lastRow + 1}
        /\ \A i \in DOMAIN rows : i # lastRow + 1 => rows'[i] = rows[i]
    BY <1>7 DEF Insert, Put
  <2> QED
    BY <1>1, <1>2, <2>1, AheadKept
<1>8. ASSUME NEW i \in DOMAIN rows, NEW row, Update(i, row), row.seen \in {0, rows[i].seen}
      PROVE  Ahead'
  BY <1>2, <1>8, AheadKept DEF Update, Put
<1>9. CASE Assign
  <2>1. PICK t \in Tags, w \in Crew :
          \/ Insert(OffSiteRow(t, w)) \/ \E i \in RowsOf(t) : Update(i, OffSiteRow(t, w))
    BY <1>9 DEF Assign
  <2>2. OffSiteRow(t, w).seen = 0
    BY DEF OffSiteRow
  <2> QED
    BY <1>7, <1>8, <2>1, <2>2 DEF RowsOf
<1>10. CASE Replace
  <2>1. PICK old \in Tags, new \in Tags, w \in Crew :
          \/ Insert(OffSiteRow(new, w))
          \/ \E i \in RowsOf(old) : Update(i, [rows[i] EXCEPT !.tag = new])
    BY <1>10 DEF Replace
  <2>2. \A i \in DOMAIN rows : [rows[i] EXCEPT !.tag = new].seen = rows[i].seen
    BY <1>1 DEF Row
  <2> QED
    BY <1>7, <1>8, <2>1, <2>2 DEF RowsOf
<1> QED
  BY <1>3, <1>4, <1>5, <1>6, <1>9, <1>10

LEMMA NextAhead ==
    ASSUME Typed, Typed', Ahead, [EvacuationNext]_vars
    PROVE  Ahead'
<1>1. lastRow' \in Nat
  BY PositionsAssumption DEF PositionsAssumption, Typed, TablesTyped
<1>2. CASE IngestStep
  BY <1>2, IngestAhead
<1>3. CASE ~IngestStep
  <2>1. UNCHANGED <<ingest, overtaken>>
    BY <1>3 DEF EvacuationNext, SweepStep, SweepStart, SweepRow, SweepLog, OfficerStep, Tick, Correct,
       CorrectRow, Assign, Unassign, Replace, Desk, vars, positionVars
  <2>2. \/ SweepStep \/ Correct \/ CorrectRow \/ Assign \/ Unassign \/ Replace
        \/ UNCHANGED <<rows, lastRow>>
    BY <1>3 DEF EvacuationNext, OfficerStep, Tick, deskVars, vars, positionVars
  <2> QED
    BY <1>1, <2>1, <2>2, OthersAhead
<1> QED
  BY <1>2, <1>3

LEMMA InitAhead == EvacuationInit => Ahead
  BY DEF EvacuationInit, PositionsInit, Ahead, Idle

LEMMA SaveForward ==
    ASSUME Typed, Ahead, [EvacuationNext]_vars, NEW p \in Ingests, Saves(p),
           "row" \notin overtaken[p], NEW i \in DOMAIN rows \cap DOMAIN rows'
    PROVE  rows'[i].seen >= rows[i].seen
<1>1. ingest[p] \in Holding /\ ingest[p].at \in Nat
  BY Holds, PositionsAssumption DEF PositionsAssumption, Saves, Holding, Times, Typed
<1>2. rows[i] \in Row /\ rows[i].seen \in Nat
  BY RowIdTyped, PositionsAssumption DEF PositionsAssumption, Row, Times, Typed
<1>3. IngestStep
  BY DEF Saves, EvacuationNext, SweepStep, SweepStart, SweepRow, SweepLog, OfficerStep, Tick, Correct,
     CorrectRow, Assign, Unassign, Replace, Desk, vars, positionVars
<1>4. Save(p) \/ DieAny(p)
  <2>1. PICK q \in Ingests : Acts(q)
    BY <1>3, OneActs
  <2>2. q = p
    BY <2>1, OthersWait DEF Saves
  <2>3. Receive(p) => ingest[p].step = "idle"
    BY DEF Receive, Idle
  <2> QED
    BY <2>1, <2>2, <2>3 DEF Saves, Acts, Find, Create, Gate, LogPassage, Rules, LookUpEntry, TickEntry
<1>5. CASE Save(p)
  <2>1. rows' = rows \/ Put(ingest[p].row, Saved(p, rows[ingest[p].row]))
    BY <1>5 DEF Save
  <2>2. CASE i = ingest[p].row
    <3>1. rows[i].seen < ingest[p].at
      BY <2>2 DEF Ahead, Saves
    <3>2. Saved(p, rows[i]).seen = ingest[p].at
      BY <1>2 DEF Saved, Row
    <3> QED
      BY <1>1, <1>2, <2>1, <2>2, <3>1, <3>2 DEF Put
  <2>3. CASE i # ingest[p].row
    BY <1>2, <2>1, <2>3 DEF Put
  <2> QED
    BY <2>2, <2>3
<1>6. CASE DieAny(p)
  BY <1>2, <1>6 DEF DieAny, Die
<1> QED
  BY <1>4, <1>5, <1>6

(* However many requests process readings, and whatever the desk, the sweep    *)
(* and corrections write meanwhile, no reading sets a row back to an older     *)
(* one, unless another request saved the row after this one had loaded it.     *)
THEOREM PositionsForward == EvacuationSpec => SeenForward
<1>1. Typed /\ Typed' /\ Ahead /\ [EvacuationNext]_vars => Ahead'
  BY NextAhead
<1>2. Typed /\ Ahead /\ [EvacuationNext]_vars
      => [\A p \in Ingests : Saves(p) => "row" \in overtaken[p] \/ Forward]_vars
  BY SaveForward DEF Forward
<1> QED
  BY <1>1, <1>2, AlwaysTyped, InitAhead, PTL DEF EvacuationSpec, SeenForward
=============================================================================
