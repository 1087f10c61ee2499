---------------------------- MODULE EdgeDelivery -----------------------------
(***************************************************************************)
(* How a reading travels from a pole to the server: the batcher and the    *)
(* SQLite outage buffer of an edge agent (ir4_edge), its HTTP client, and  *)
(* the ingest request on the server that stores each reading once and      *)
(* advances the live state.  The RFID agent has two threads that share one *)
(* buffer: the MQTT callback (Receiver) and the main loop (MainLoop).  The *)
(* gas agent has one thread, which polls and delivers: Threads =           *)
(* {Receiver} and SizeDue = 1.                                             *)
(*                                                                         *)
(* Events are numbered in the order the reader reports them; the repeats   *)
(* that TagBatcher.offer debounces change nothing and are not offered.     *)
(* A batch is a set of [id, ev] in the order of id: the id of the row for  *)
(* a batch peeked from the buffer, the arrival for a live one.             *)
(* Every result other than 200/202 (no connection, timeout, 429 five times,*)
(* 4xx, 5xx) is one failure: submit buffers the batch and flush leaves the *)
(* rows, whether the result is retriable or not.                           *)
(***************************************************************************)
EXTENDS Naturals, FiniteSets

CONSTANTS
    Events,       \* the readings, by number
    Threads,      \* the threads of the agent
    Receiver, MainLoop,
    Workers,      \* PHP workers that serve ingest requests
    None,         \* no caller
    SizeDue,      \* agent.max_batch: queue length that makes a batch due
    MaxBatch,     \* MAX_BATCH of a request
    MaxRows,      \* row cap of the buffer
    MaxLoops,     \* max_batches of one flush
    Refusable,    \* readings whose reference the server may not know
    UniqueCaught, \* the service takes a unique violation as a duplicate
    MaxFaults,    \* bound on failed requests
    MaxChanges,   \* bound on changes of the references
    MaxEnds,      \* bound on the ends of the agent's process
    MaxRowId      \* bound on the ids the buffer hands out

ASSUME EdgeAssumption ==
    /\ Events \subseteq Nat /\ IsFiniteSet(Events)
    /\ Threads \subseteq {Receiver, MainLoop} /\ Receiver \in Threads
    /\ None \notin Threads
    /\ Refusable \subseteq Events
    /\ SizeDue \in Nat /\ MaxBatch \in Nat /\ MaxRows \in Nat /\ MaxLoops \in Nat
    /\ UniqueCaught \in BOOLEAN
    /\ MaxFaults \in Nat /\ MaxChanges \in Nat /\ MaxEnds \in Nat /\ MaxRowId \in Nat

VARIABLES
    queue,     \* TagBatcher._queue, in memory
    rows,      \* table events of the buffer, on disk
    nextId,    \* the next AUTOINCREMENT id
    thread,    \* where each thread is in submit or flush
    running,   \* "up", "stopping" (after the final flush_all) or "down"
    job,       \* the ingest request each worker serves
    recorded,  \* readings with a row on the server
    passive,   \* of these, the ones with no live effect (see Insert)
    applied,   \* how often a reading advanced the live state
    refused,   \* readings the server rejects now
    offered,   \* history: readings that reached the batcher
    evicted,   \* history: readings dropped at the cap of the buffer
    dropped,   \* history: readings in memory when the process ended
    late,      \* history: readings the final flush_all did not take
    cut,       \* history: readings whose request died before the live state
    faults, changes, ends

edge    == <<queue, rows, nextId, thread, running>>
server  == <<job, recorded, passive, applied>>
history == <<offered, evicted, dropped, late, cut>>
vars    == <<edge, server, refused, history, faults, changes, ends>>

Row  == [id : Nat, ev : Events]
Evs(batch) == {r.ev : r \in batch}

\* The first n of a batch, table or queue: ORDER BY id ASC LIMIT n.
Oldest(batch, n) ==
    {r \in batch : Cardinality({x \in batch : x.id < r.id}) < n}

Resting == [pc |-> "idle", live |-> {}, rows |-> {}, back |-> {}, round |-> 0]
Thread  == [pc : {"idle", "post", "wait", "requeue", "peek"},
            live : SUBSET Row, rows : SUBSET Row, back : SUBSET Row, round : Nat]

\* The batch a thread sends: a live one, else the rows it peeked.
Sent(t) == IF thread[t].live # {} THEN thread[t].live ELSE thread[t].rows

Free == [step |-> "free", caller |-> None, batch |-> {}, todo |-> {}, rejected |-> {},
         cur |-> {}]
\* cur holds the one reading that the worker inserts or applies.
Job  == [step : {"free", "next", "insert", "apply"}, caller : Threads \cup {None},
         batch : SUBSET Row, todo : SUBSET Row, rejected : SUBSET Row,
         cur : SUBSET Events]

TypeOK ==
    /\ queue \subseteq Row /\ rows \subseteq Row /\ nextId \in Nat
    /\ thread \in [Threads -> Thread]
    /\ running \in {"up", "stopping", "down"}
    /\ job \in [Workers -> Job]
    /\ recorded \subseteq Events /\ passive \subseteq recorded
    /\ applied \in [Events -> Nat]
    /\ refused \subseteq Refusable
    /\ offered \subseteq Events /\ evicted \subseteq offered /\ dropped \subseteq offered
    /\ late \subseteq offered /\ cut \subseteq Events
    /\ faults \in Nat /\ changes \in Nat /\ ends \in Nat

Init ==
    /\ queue = {} /\ rows = {} /\ nextId = 0
    /\ thread = [t \in Threads |-> Resting]
    /\ running = "up"
    /\ job = [w \in Workers |-> Free]
    /\ recorded = {} /\ passive = {}
    /\ applied = [e \in Events |-> 0]
    /\ refused \in SUBSET Refusable
    /\ offered = {} /\ evicted = {} /\ dropped = {} /\ late = {} /\ cut = {}
    /\ faults = 0 /\ changes = 0 /\ ends = 0

-----------------------------------------------------------------------------
(* The buffer: each operator is one critical section under its lock.       *)

\* The rows a batch adds: INSERT OR IGNORE skips the uids the table holds.
NewRows(batch) ==
    LET new == {r \in batch : r.ev \notin Evs(rows)}
    IN  {[id |-> nextId + Cardinality({x \in new : x.id < r.id}), ev |-> r.ev] : r \in new}

\* Mutants: one row too many stays; the newest rows go.
ExcessOffByOne(new) ==
    IF new = {} THEN {}
    ELSE LET all == rows \cup new IN
         Oldest(all, IF Cardinality(all) > MaxRows THEN Cardinality(all) - MaxRows - 1 ELSE 0)

ExcessNewest(new) ==
    IF new = {} THEN {}
    ELSE LET all == rows \cup new IN
         IF Cardinality(all) > MaxRows THEN all \ Oldest(all, MaxRows) ELSE {}

\* What _evict_oldest_locked deletes once new rows came in.
Excess(new) ==
    IF new = {} THEN {}
    ELSE LET all == rows \cup new IN
         Oldest(all, IF Cardinality(all) > MaxRows THEN Cardinality(all) - MaxRows ELSE 0)

Enqueue(batch) ==
    LET new  == NewRows(batch)
        drop == Excess(new)
    IN  /\ nextId + Cardinality(new) <= MaxRowId
        /\ rows' = (rows \cup new) \ drop
        /\ nextId' = nextId + Cardinality(new)
        /\ evicted' = (evicted \ Evs(new)) \cup Evs(drop)

-----------------------------------------------------------------------------
(* The threads of the agent.                                               *)

Goto(t, state) == thread' = [thread EXCEPT ![t] = state]

\* submit: nothing to do for an empty batch.
Submitting(batch) ==
    IF batch = {} THEN Resting ELSE [Resting EXCEPT !.pc = "post", !.live = batch]

Flushing(round) == [Resting EXCEPT !.pc = "peek", !.round = round]

\* on_message: offer one reading; the batch goes out when the queue is full
\* (or the flush interval has passed).
Offer(e) ==
    /\ \/ running = "up"
       \/ running = "stopping" /\ MainLoop \in Threads
    /\ thread[Receiver].pc = "idle"
    /\ e \notin offered /\ \A x \in Events \ offered : e <= x
    /\ offered' = offered \cup {e}
    /\ late' = IF running = "stopping" THEN late \cup {e} ELSE late
    /\ LET q == queue \cup {[id |-> e, ev |-> e]} IN
       \E due \in {TRUE, Cardinality(q) >= SizeDue} :
          LET batch == IF due THEN Oldest(q, MaxBatch) ELSE {} IN
          /\ queue' = q \ batch
          /\ Goto(Receiver, Submitting(batch))
    /\ UNCHANGED <<rows, nextId, running, server, refused, evicted, dropped, cut,
                   faults, changes, ends>>

\* The main loop finds the flush interval passed.
FlushDue ==
    /\ MainLoop \in Threads /\ running = "up" /\ thread[MainLoop].pc = "idle"
    /\ queue # {}
    /\ LET batch == Oldest(queue, MaxBatch) IN
       /\ queue' = queue \ batch
       /\ Goto(MainLoop, Submitting(batch))
    /\ UNCHANGED <<rows, nextId, running, server, refused, history, faults, changes, ends>>

\* Mutant: the backlog is drained only behind a live batch.
DrainWhenQueued ==
    /\ MainLoop \in Threads /\ running = "up" /\ thread[MainLoop].pc = "idle"
    /\ rows # {} /\ queue # {}
    /\ Goto(MainLoop, Flushing(1))
    /\ UNCHANGED <<queue, rows, nextId, running, server, refused, history, faults, changes, ends>>

\* drain_pending_buffer, every 15 s while rows are pending.
Drain ==
    /\ MainLoop \in Threads /\ running = "up" /\ thread[MainLoop].pc = "idle"
    /\ rows # {}
    /\ Goto(MainLoop, Flushing(1))
    /\ UNCHANGED <<queue, rows, nextId, running, server, refused, history, faults, changes, ends>>

Peek(t) ==
    /\ thread[t].pc = "peek"
    /\ IF rows = {} \/ thread[t].round > MaxLoops
       THEN Goto(t, Resting)
       ELSE Goto(t, [thread[t] EXCEPT !.pc = "post", !.rows = Oldest(rows, MaxBatch)])
    /\ UNCHANGED <<queue, rows, nextId, running, server, refused, history, faults, changes, ends>>

\* The request reaches a worker.
Post(t, w) ==
    /\ thread[t].pc = "post" /\ job[w].step = "free"
    /\ Goto(t, [thread[t] EXCEPT !.pc = "wait"])
    /\ job' = [job EXCEPT ![w] = [step |-> "next", caller |-> t, batch |-> Sent(t),
                                  todo |-> Sent(t), rejected |-> {}, cur |-> {}]]
    /\ UNCHANGED <<queue, rows, nextId, running, recorded, passive, applied, refused,
                   history, faults, changes, ends>>

\* Mutant: a live batch that failed is not buffered.
FailDropsLive(t) ==
    /\ Goto(t, Resting)
    /\ UNCHANGED <<rows, nextId, evicted>>

\* submit buffers a live batch that failed; flush breaks and keeps the rows.
Fail(t) ==
    /\ Goto(t, Resting)
    /\ IF thread[t].live # {}
       THEN Enqueue(thread[t].live)
       ELSE UNCHANGED <<rows, nextId, evicted>>

\* The server is not reached, refuses the request, or is over its rate limit.
Unreachable(t) ==
    /\ thread[t].pc = "post" /\ faults < MaxFaults
    /\ Fail(t)
    /\ faults' = faults + 1
    /\ UNCHANGED <<queue, running, server, refused, offered, dropped, late, cut, changes, ends>>

Orphaned(t) ==
    [w \in Workers |-> IF job[w].caller = t THEN [job[w] EXCEPT !.caller = None] ELSE job[w]]

\* The client gives up, or the answer is lost; the worker goes on.
TimesOut(t) ==
    /\ thread[t].pc = "wait" /\ faults < MaxFaults
    /\ Fail(t)
    /\ job' = Orphaned(t)
    /\ faults' = faults + 1
    /\ UNCHANGED <<queue, running, recorded, passive, applied, refused,
                   offered, dropped, late, cut, changes, ends>>

\* Mutant: the whole batch leaves the buffer, as the docstring has it.
AcceptedDeletesAll(t, rejected) ==
    /\ rows' = IF thread[t].live # {} THEN rows ELSE rows \ thread[t].rows
    /\ Goto(t, Flushing(thread[t].round + 1))
    /\ UNCHANGED <<nextId, evicted>>

\* A 202: accepted rows leave the buffer, rejected ones are (re-)enqueued.
Accepted(t, rejected) ==
    IF thread[t].live # {}
    THEN /\ Enqueue(rejected)
         /\ Goto(t, Flushing(1))
    ELSE /\ rows' = rows \ (thread[t].rows \ rejected)
         /\ Goto(t, IF rejected = {}
                    THEN Flushing(thread[t].round + 1)
                    ELSE [thread[t] EXCEPT !.pc = "requeue", !.rows = {}, !.back = rejected])
         /\ UNCHANGED <<nextId, evicted>>

\* flush enqueues the rejected events after it deleted the others.
Requeue(t) ==
    /\ thread[t].pc = "requeue"
    /\ Enqueue(thread[t].back)
    /\ Goto(t, Flushing(thread[t].round + 1))
    /\ UNCHANGED <<queue, running, server, refused, offered, dropped, late, cut,
                   faults, changes, ends>>

-----------------------------------------------------------------------------
(* The ingest request: the events of the batch one after the other.        *)

\* Goes on with a step of the reading in cur, or with the next reading.
Process(w, step, cur) == job' = [job EXCEPT ![w].step = step, ![w].cur = cur]

\* The reference of the next reading is resolved, then its uid is looked up.
Check(w) ==
    /\ job[w].step = "next"
    /\ \E r \in job[w].todo :
          /\ \A x \in job[w].todo : r.id <= x.id
          /\ LET new == r.ev \notin refused \cup recorded IN
             job' = [job EXCEPT ![w].step = IF new THEN "insert" ELSE "next",
                                ![w].cur = IF new THEN {r.ev} ELSE {},
                                ![w].todo = @ \ {r},
                                ![w].rejected = IF r.ev \in refused THEN @ \cup {r} ELSE @]
    /\ UNCHANGED <<edge, recorded, passive, applied, refused, history, faults, changes, ends>>

\* Mutant of Insert: no unique index.
InsertWithoutIndex(w) ==
    /\ job[w].step = "insert"
    /\ \E e \in job[w].cur :
          /\ recorded' = recorded \cup {e}
          /\ Process(w, "apply", {e})
    /\ UNCHANGED <<edge, passive, applied, refused, history, faults, changes, ends>>

\* The row goes in.  A backfilled reading, a tag that is not assigned or a
\* reader without a zone is stored and nothing else.
Insert(w) ==
    /\ job[w].step = "insert"
    /\ \E e \in job[w].cur :
          /\ e \notin recorded
          /\ recorded' = recorded \cup {e}
          /\ \/ /\ Process(w, "apply", {e})
                /\ UNCHANGED passive
             \/ /\ Process(w, "next", {})
                /\ passive' = passive \cup {e}
    /\ UNCHANGED <<edge, applied, refused, history, faults, changes, ends>>

\* Another request stored the reading since Check: a unique violation, which
\* GasMonitoringService takes as a duplicate.
InsertDuplicate(w) ==
    /\ job[w].step = "insert" /\ UniqueCaught
    /\ \E e \in job[w].cur :
          /\ e \in recorded
          /\ Process(w, "next", {})
    /\ UNCHANGED <<edge, recorded, passive, applied, refused, history, faults, changes, ends>>

\* The caller of a request that ended in a 500.
CallerFails(w) ==
    IF job[w].caller # None THEN Fail(job[w].caller)
    ELSE UNCHANGED <<rows, nextId, evicted, thread>>

\* TrackingService lets it through: the request ends in a 500.
InsertThrows(w) ==
    /\ job[w].step = "insert" /\ ~UniqueCaught
    /\ \E e \in job[w].cur : e \in recorded
    /\ CallerFails(w)
    /\ job' = [job EXCEPT ![w] = Free]
    /\ UNCHANGED <<queue, running, recorded, passive, applied, refused,
                   offered, dropped, late, cut, faults, changes, ends>>

\* Mutant: the live state moves once, at the end of the batch.
ApplyAtEnd(w) ==
    /\ job[w].step = "apply"
    /\ \E e \in job[w].cur :
          /\ applied' = [applied EXCEPT ![e] = IF job[w].todo = {} THEN @ + 1 ELSE @]
          /\ Process(w, "next", {})
    /\ UNCHANGED <<edge, recorded, passive, refused, history, faults, changes, ends>>

\* advanceLiveState, or the evaluation of a gas reading.
Apply(w) ==
    /\ job[w].step = "apply"
    /\ \E e \in job[w].cur :
          /\ applied' = [applied EXCEPT ![e] = @ + 1]
          /\ Process(w, "next", {})
    /\ UNCHANGED <<edge, recorded, passive, refused, history, faults, changes, ends>>

\* The 202 reaches the thread that waits for it.
Answer(w) ==
    /\ job[w].step = "next" /\ job[w].todo = {}
    /\ job' = [job EXCEPT ![w] = Free]
    /\ IF job[w].caller # None
       THEN Accepted(job[w].caller, job[w].rejected)
       ELSE UNCHANGED <<rows, nextId, evicted, thread>>
    /\ UNCHANGED <<queue, running, recorded, passive, applied, refused,
                   offered, dropped, late, cut, faults, changes, ends>>

\* The worker dies in the middle of a batch; what it wrote stays.
WorkerDies(w) ==
    /\ job[w].step # "free" /\ faults < MaxFaults
    /\ CallerFails(w)
    /\ cut' = IF job[w].step = "apply" THEN cut \cup job[w].cur ELSE cut
    /\ job' = [job EXCEPT ![w] = Free]
    /\ faults' = faults + 1
    /\ UNCHANGED <<queue, running, recorded, passive, applied, refused,
                   offered, dropped, late, changes, ends>>

\* An operator registers, renames or retires what a reading refers to.
ChangeReferences ==
    /\ changes < MaxChanges
    /\ changes' = changes + 1
    /\ refused' \in SUBSET Refusable /\ refused' # refused
    /\ UNCHANGED <<edge, server, history, faults, ends>>

-----------------------------------------------------------------------------
(* The life of the agent's process.                                        *)

\* SIGTERM: the main loop sends what flush_all returns; the gas agent only
\* leaves its loop.
Stop ==
    /\ running = "up" /\ ends < MaxEnds
    /\ ends' = ends + 1
    /\ running' = "stopping"
    /\ IF MainLoop \in Threads
       THEN LET batch == Oldest(queue, MaxBatch) IN
            /\ thread[MainLoop].pc = "idle"
            /\ queue' = queue \ batch
            /\ Goto(MainLoop, Submitting(batch))
            /\ late' = late \cup Evs(queue \ batch)
       ELSE /\ thread[Receiver].pc = "idle"
            /\ UNCHANGED <<queue, thread, late>>
    /\ UNCHANGED <<rows, nextId, server, refused, offered, evicted, dropped, cut, faults, changes>>

\* In memory and nowhere else: the queue, and the live batches under way.
InMemory == Evs(queue) \cup UNION {Evs(thread[t].live) : t \in Threads}

ProcessGone ==
    /\ running' = "down"
    /\ dropped' = dropped \cup (InMemory \ (Evs(rows) \cup recorded))
    /\ queue' = {}
    /\ thread' = [t \in Threads |-> Resting]
    /\ job' = [w \in Workers |-> [job[w] EXCEPT !.caller = None]]
    /\ UNCHANGED <<rows, nextId, recorded, passive, applied, refused,
                   offered, evicted, late, cut, faults, changes>>

\* Mutant: the MQTT thread is not joined.
ExitWithoutJoin ==
    /\ running = "stopping"
    /\ MainLoop \in Threads => thread[MainLoop].pc = "idle"
    /\ ProcessGone
    /\ UNCHANGED ends

\* loop_stop joins the MQTT thread, buffer.close, and the process exits.
Exit ==
    /\ running = "stopping"
    /\ \A t \in Threads : thread[t].pc = "idle"
    /\ ProcessGone
    /\ UNCHANGED ends

\* Power cut, kill, or reboot.
Crash ==
    /\ running # "down" /\ ends < MaxEnds
    /\ ProcessGone
    /\ ends' = ends + 1

\* systemd starts the agent again; the buffer's file is as it was.
Start ==
    /\ running = "down"
    /\ running' = "up"
    /\ UNCHANGED <<queue, rows, nextId, thread, server, refused, history, faults, changes, ends>>

ThreadStep(t) == Peek(t) \/ Requeue(t) \/ \E w \in Workers : Post(t, w)
WorkerStep(w) == Check(w) \/ Insert(w) \/ InsertDuplicate(w) \/ InsertThrows(w)
                 \/ Apply(w) \/ Answer(w)

Next ==
    \/ \E e \in Events : Offer(e)
    \/ FlushDue \/ Drain \/ ChangeReferences \/ Stop \/ Exit \/ Crash \/ Start
    \/ \E t \in Threads : Peek(t) \/ Requeue(t) \/ Unreachable(t) \/ TimesOut(t)
    \/ \E t \in Threads, w \in Workers : Post(t, w)
    \/ \E w \in Workers : \/ Check(w) \/ Insert(w) \/ InsertDuplicate(w) \/ InsertThrows(w)
                          \/ Apply(w) \/ Answer(w) \/ WorkerDies(w)

Spec == Init /\ [][Next]_vars

\* The agent's loops and the server's workers go on; systemd restarts the
\* agent.  Nothing is assumed of the network, the operators or the readers.
Fairness ==
    /\ WF_vars(FlushDue) /\ WF_vars(Drain) /\ WF_vars(Exit) /\ WF_vars(Start)
    /\ \A t \in Threads : WF_vars(ThreadStep(t))
    /\ \A w \in Workers : WF_vars(WorkerStep(w))

FairSpec == Spec /\ Fairness
-----------------------------------------------------------------------------
(* Safety.                                                                 *)

\* A reading the agent took over is never silently lost (flush, submit,
\* TagBatcher): it is in memory or in the buffer of the agent, stored on the
\* server, or it went with the oldest rows at the cap, or with the process.
NothingVanishes ==
    \A e \in offered :
        e \in InMemory \cup Evs(rows) \cup recorded \cup evicted \cup dropped

\* However often a batch is retried, by whichever thread and while an earlier
\* try still runs on the server, a reading moves the live state at most once.
AppliedAtMostOnce == \A e \in Events : applied[e] <= 1

\* A stored reading had its live effect, or has none, or a worker is about to
\* apply it.  The one other case: the worker died between the insert and the
\* live state, and no retry repairs that, because it is a duplicate.
LiveEffectOnlyCut ==
    \A e \in recorded :
        \/ applied[e] = 1 \/ e \in passive \/ e \in cut
        \/ \E w \in Workers : job[w].step = "apply" /\ e \in job[w].cur

\* The table holds a uid once and no more rows than its cap.
BufferWithinCap ==
    /\ Cardinality(rows) <= MaxRows
    /\ \A r, s \in rows : r.ev = s.ev => r = s

\* A row leaves the buffer for the cap, or because the server has the reading:
\* no stale answer and no failed request deletes one that was not stored.
LeavesOnlyRecorded ==
    [][Evs(rows) \ Evs(rows)' \subseteq recorded' \cup evicted']_vars

\* A graceful stop loses only readings that came after the final flush_all, or
\* that it left in the queue: not the batch that the other thread is sending.
StopLosesOnlyLate ==
    [][running = "stopping" /\ running' = "down" /\ ends' = ends
       => dropped' \ dropped \subseteq late]_vars

\* At the cap the oldest readings go (buffer.py): whatever stays is newer.
DropsOldestFirst ==
    [][\A e \in evicted' \ evicted : \A r \in rows' : e < r.ev]_vars

\* Liveness of the RFID agent: once the server knows the references for good,
\* every reading gets there, unless the cap or the process's end took it.
EventuallyRecorded ==
    <>[](refused = {})
      => \A e \in Events : e \in offered ~> e \in recorded \cup evicted \cup dropped
=============================================================================
