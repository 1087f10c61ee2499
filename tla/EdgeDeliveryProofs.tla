------------------------- MODULE EdgeDeliveryProofs --------------------------
(***************************************************************************)
(* Theorems about EdgeDelivery, for every set of readings, threads and     *)
(* workers and every bound: its types, that no reading vanishes, that each *)
(* moves the live state at most once, that a row leaves the buffer only    *)
(* when its reading is stored or evicted, that the buffer keeps its cap,   *)
(* that a graceful stop loses no batch, and that a single thread evicts    *)
(* the oldest readings.                                                    *)
(***************************************************************************)
EXTENDS EdgeDelivery, FiniteSetTheorems, TLAPS

-----------------------------------------------------------------------------
(* The buffer's critical sections.                                         *)

\* The rows of a batch that come new into the table carry fresh ids and the
\* readings of the batch that the table does not hold.
LEMMA NewRowsFacts ==
    ASSUME NEW batch, batch \subseteq Row, IsFiniteSet(batch), nextId \in Nat
    PROVE  /\ NewRows(batch) \subseteq Row
           /\ IsFiniteSet(NewRows(batch))
           /\ Evs(NewRows(batch)) = Evs(batch) \ Evs(rows)
<1> DEFINE new   == {r \in batch : r.ev \notin Evs(rows)}
           id(r) == nextId + Cardinality({x \in new : x.id < r.id})
           add   == [r \in new |-> [id |-> id(r), ev |-> r.ev]]
<1>1. IsFiniteSet(new)
  BY FS_Subset
<1>2. ASSUME NEW r \in new PROVE id(r) \in Nat
  <2>1. IsFiniteSet({x \in new : x.id < r.id})
    BY <1>1, FS_Subset
  <2> QED BY <2>1, FS_CardinalityType
<1>3. NewRows(batch) = {add[r] : r \in new}
  BY DEF NewRows
<1>4. IsFiniteSet(NewRows(batch))
  <2>1. add \in Surjection(new, NewRows(batch))
    BY <1>3 DEF Surjection
  <2> QED BY <1>1, <2>1, FS_Surjection
<1>5. \A r \in new : add[r] \in Row /\ add[r].ev = r.ev
  BY <1>2 DEF Row
<1>6. Evs(NewRows(batch)) = {r.ev : r \in new}
  <2> HIDE DEF new, id, add
  <2> QED BY <1>3, <1>5 DEF Evs
<1>7. {r.ev : r \in new} = Evs(batch) \ Evs(rows)
  BY DEF Evs
<1>8. NewRows(batch) \subseteq Row
  BY <1>3, <1>5
<1> QED BY <1>4, <1>6, <1>7, <1>8

\* What enqueue does to the readings: those of the table and of the batch are
\* in the table afterwards or evicted, and nothing else comes in.
LEMMA EnqueueFacts ==
    ASSUME NEW batch, batch \subseteq Row, IsFiniteSet(batch), nextId \in Nat,
           rows \subseteq Row, IsFiniteSet(rows), Enqueue(batch)
    PROVE  /\ rows' \subseteq Row /\ IsFiniteSet(rows') /\ nextId' \in Nat
           /\ Evs(rows') \subseteq Evs(rows) \cup Evs(batch)
           /\ evicted' \subseteq evicted \cup Evs(rows) \cup Evs(batch)
           /\ Evs(rows) \cup Evs(batch) \cup evicted \subseteq Evs(rows') \cup evicted'
<1> DEFINE new  == NewRows(batch)
           drop == Excess(new)
<1>1. /\ new \subseteq Row
      /\ IsFiniteSet(new)
      /\ Evs(new) = Evs(batch) \ Evs(rows)
  BY NewRowsFacts
<1>2. /\ rows' = (rows \cup new) \ drop
      /\ nextId' = nextId + Cardinality(new)
      /\ evicted' = (evicted \ Evs(new)) \cup Evs(drop)
  BY DEF Enqueue
<1>3. drop \subseteq rows \cup new
  BY DEF Excess, Oldest
<1>4. rows' \subseteq Row /\ nextId' \in Nat
  BY <1>1, <1>2, FS_CardinalityType
<1>5. IsFiniteSet(rows')
  BY <1>1, <1>2, FS_Union, FS_Difference
<1>6. /\ Evs(rows \cup new) = Evs(rows) \cup Evs(new)
      /\ Evs(drop) \subseteq Evs(rows) \cup Evs(new)
      /\ Evs(rows') \subseteq Evs(rows) \cup Evs(new)
      /\ Evs(rows) \cup Evs(new) \subseteq Evs(rows') \cup Evs(drop)
  <2> HIDE DEF new, drop
  <2> QED BY <1>2, <1>3 DEF Evs
<1> HIDE DEF new, drop
<1> QED BY <1>1, <1>2, <1>4, <1>5, <1>6

-----------------------------------------------------------------------------
(* Types, with what they rest on: every batch is finite and holds readings *)
(* that were offered, and a job rejects or has to do parts of its batch.   *)

SoundBatch(b, known) == b \subseteq Row /\ IsFiniteSet(b) /\ Evs(b) \subseteq known

SoundThread(s, known) ==
    /\ s \in Thread
    /\ SoundBatch(s.live, known) /\ SoundBatch(s.rows, known) /\ SoundBatch(s.back, known)

SoundJob(j, known) ==
    /\ j \in Job
    /\ SoundBatch(j.batch, known) /\ SoundBatch(j.rejected, known)
    /\ j.todo \subseteq j.batch /\ j.rejected \subseteq j.batch

Sound ==
    /\ TypeOK
    /\ SoundBatch(queue, offered) /\ SoundBatch(rows, offered)
    /\ \A t \in Threads : SoundThread(thread[t], offered)
    /\ \A w \in Workers : SoundJob(job[w], offered)

LEMMA SoundParts ==
    ASSUME NEW known, NEW b, NEW c, SoundBatch(b, known)
    PROVE  /\ c \subseteq b => SoundBatch(c, known)
           /\ SoundBatch(b \ c, known)
           /\ SoundBatch(Oldest(b, MaxBatch), known)
           /\ SoundBatch({}, known)
           /\ SoundBatch(c, known) => SoundBatch(b \cup c, known)
<1>1. \A d : d \subseteq b => SoundBatch(d, known)
  BY FS_Subset DEF SoundBatch, Evs
<1>2. Oldest(b, MaxBatch) \subseteq b
  BY DEF Oldest
<1>3. SoundBatch(c, known) => SoundBatch(b \cup c, known)
  BY FS_Union DEF SoundBatch, Evs
<1> QED BY <1>1, <1>2, <1>3

\* What is sound stays so when more readings are offered.
LEMMA SoundGrows ==
    ASSUME NEW known, NEW more, known \subseteq more
    PROVE  /\ \A b : SoundBatch(b, known) => SoundBatch(b, more)
           /\ \A s : SoundThread(s, known) => SoundThread(s, more)
           /\ \A j : SoundJob(j, known) => SoundJob(j, more)
<1>1. \A b : SoundBatch(b, known) => SoundBatch(b, more)
  BY DEF SoundBatch
<1> QED BY <1>1 DEF SoundThread, SoundJob

\* A thread moves to a sound state.
LEMMA GotoSound ==
    ASSUME NEW known, NEW t \in Threads, NEW s, SoundThread(s, known), Goto(t, s),
           thread \in [Threads -> Thread], \A u \in Threads : SoundThread(thread[u], known)
    PROVE  /\ thread' \in [Threads -> Thread]
           /\ \A u \in Threads : SoundThread(thread'[u], known)
           /\ thread'[t] = s /\ \A u \in Threads \ {t} : thread'[u] = thread[u]
BY DEF Goto, SoundThread

LEMMA ThreadStates ==
    ASSUME NEW known, NEW b, SoundBatch(b, known), NEW round \in Nat
    PROVE  /\ SoundThread(Resting, known)
           /\ SoundThread(Submitting(b), known)
           /\ SoundThread(Flushing(round), known)
<1>1. SoundBatch({}, known)
  BY SoundParts
<1>2. SoundThread(Resting, known)
  BY <1>1 DEF SoundThread, Thread, Resting, SoundBatch
<1>3. SoundThread(Submitting(b), known)
  BY <1>1, <1>2 DEF SoundThread, Thread, Resting, SoundBatch, Submitting
<1>4. SoundThread(Flushing(round), known)
  BY <1>1 DEF SoundThread, Thread, Resting, SoundBatch, Flushing
<1> QED BY <1>2, <1>3, <1>4

\* A worker moves to a sound state.
LEMMA JobSound ==
    ASSUME NEW known, NEW w \in Workers, NEW j, SoundJob(j, known),
           job' = [job EXCEPT ![w] = j],
           job \in [Workers -> Job], \A v \in Workers : SoundJob(job[v], known)
    PROVE  job' \in [Workers -> Job] /\ \A v \in Workers : SoundJob(job'[v], known)
BY DEF SoundJob

LEMMA FreeSound ==
    ASSUME NEW known
    PROVE  SoundJob(Free, known)
<1>1. SoundBatch({}, known)
  BY FS_EmptySet DEF SoundBatch, Evs
<1>2. Free \in Job
  BY DEF Free, Job
<1> QED BY <1>1, <1>2 DEF SoundJob, Free

\* Enqueue keeps the table sound and evicts only offered readings.
LEMMA EnqueueSound ==
    ASSUME NEW batch, SoundBatch(batch, offered), Sound, Enqueue(batch)
    PROVE  /\ SoundBatch(rows', offered) /\ nextId' \in Nat
           /\ evicted' \subseteq offered
BY EnqueueFacts DEF Sound, SoundBatch, TypeOK

LEMMA FailSound ==
    ASSUME NEW t \in Threads, Sound, Fail(t)
    PROVE  /\ SoundBatch(rows', offered) /\ nextId' \in Nat
           /\ evicted' \subseteq offered
           /\ thread' \in [Threads -> Thread]
           /\ \A u \in Threads : SoundThread(thread'[u], offered)
<1>1. SoundThread(Resting, offered) /\ SoundBatch(thread[t].live, offered)
  BY ThreadStates DEF Sound, SoundThread
<1>2. /\ thread' \in [Threads -> Thread]
      /\ \A u \in Threads : SoundThread(thread'[u], offered)
  BY <1>1, GotoSound DEF Fail, Sound, TypeOK
<1>3. /\ SoundBatch(rows', offered) /\ nextId' \in Nat
      /\ evicted' \subseteq offered
  BY <1>1, EnqueueSound DEF Fail, Sound, TypeOK
<1> QED BY <1>2, <1>3

\* The steps of the agent's threads that leave the server alone.
LEMMA SoundAgent ==
    ASSUME Sound,
           \/ \E e \in Events : Offer(e)
           \/ FlushDue \/ Drain \/ Stop
           \/ \E t \in Threads : Peek(t) \/ Requeue(t) \/ Unreachable(t)
    PROVE  Sound'
<1>0. TypeOK /\ SoundBatch(queue, offered) /\ SoundBatch(rows, offered)
  BY DEF Sound
<1>1. ASSUME NEW e \in Events, Offer(e) PROVE Sound'
  <2> DEFINE q == queue \cup {[id |-> e, ev |-> e]}
  <2>1. Receiver \in Threads
    BY EdgeAssumption
  <2>2. PICK due \in BOOLEAN :
          LET batch == IF due THEN Oldest(q, MaxBatch) ELSE {} IN
          /\ queue' = q \ batch
          /\ Goto(Receiver, Submitting(batch))
    BY <1>1 DEF Offer
  <2> DEFINE batch == IF due THEN Oldest(q, MaxBatch) ELSE {}
  <2>3. /\ offered' = offered \cup {e} /\ offered \subseteq offered' /\ offered' \subseteq Events
        /\ late' \subseteq offered'
        /\ UNCHANGED <<rows, nextId, running, job, recorded, passive, applied, refused,
                       evicted, dropped, cut, faults, changes, ends>>
    BY <1>0, <1>1 DEF Offer, TypeOK, server
  <2>4. SoundBatch(q, offered')
    <3>1. IsFiniteSet(q)
      BY <1>0, FS_AddElement DEF SoundBatch
    <3>2. [id |-> e, ev |-> e] \in Row
      BY EdgeAssumption DEF Row
    <3>3. Evs(q) \subseteq offered'
      BY <1>0, <2>3 DEF SoundBatch, Evs
    <3> QED BY <1>0, <3>1, <3>2, <3>3 DEF SoundBatch
  <2> HIDE DEF q
  <2>5. SoundBatch(batch, offered') /\ SoundBatch(q \ batch, offered')
    BY <2>4, SoundParts
  <2>6. /\ SoundBatch(rows, offered')
        /\ \A t \in Threads : SoundThread(thread[t], offered')
        /\ \A w \in Workers : SoundJob(job[w], offered')
    BY <2>3, SoundGrows DEF Sound
  <2>7. /\ thread' \in [Threads -> Thread]
        /\ \A u \in Threads : SoundThread(thread'[u], offered')
    BY <1>0, <2>1, <2>2, <2>5, <2>6, GotoSound, ThreadStates DEF TypeOK
  <2>8. TypeOK'
    BY <1>0, <2>2, <2>3, <2>5, <2>7 DEF TypeOK, SoundBatch
  <2> QED BY <2>2, <2>3, <2>5, <2>6, <2>7, <2>8 DEF Sound
<1>2. ASSUME FlushDue PROVE Sound'
  <2> DEFINE batch == Oldest(queue, MaxBatch)
  <2>1. /\ MainLoop \in Threads /\ queue' = queue \ batch
        /\ Goto(MainLoop, Submitting(batch))
        /\ UNCHANGED <<rows, nextId, running, server, refused, history, faults, changes, ends>>
    BY <1>2 DEF FlushDue
  <2>2. SoundBatch(batch, offered) /\ SoundBatch(queue \ batch, offered)
    BY <1>0, SoundParts
  <2>3. /\ thread' \in [Threads -> Thread]
        /\ \A u \in Threads : SoundThread(thread'[u], offered)
    BY <1>0, <2>1, <2>2, GotoSound, ThreadStates DEF TypeOK, Sound
  <2> QED BY <1>0, <2>1, <2>2, <2>3 DEF Sound, TypeOK, server, history, SoundBatch
<1>3. ASSUME Drain PROVE Sound'
  <2>1. /\ MainLoop \in Threads
        /\ Goto(MainLoop, Flushing(1))
        /\ UNCHANGED <<queue, rows, nextId, running, server, refused, history,
                       faults, changes, ends>>
    BY <1>3 DEF Drain
  <2>2. /\ thread' \in [Threads -> Thread]
        /\ \A u \in Threads : SoundThread(thread'[u], offered)
    BY <1>0, <2>1, GotoSound, ThreadStates DEF TypeOK, Sound
  <2> QED BY <1>0, <2>1, <2>2 DEF Sound, TypeOK, server, history
<1>4. ASSUME Stop PROVE Sound'
  <2>1. CASE MainLoop \in Threads
    <3> DEFINE batch == Oldest(queue, MaxBatch)
    <3>1. /\ queue' = queue \ batch
          /\ Goto(MainLoop, Submitting(batch))
          /\ late' = late \cup Evs(queue \ batch)
      BY <1>4, <2>1 DEF Stop
    <3>2. SoundBatch(batch, offered) /\ SoundBatch(queue \ batch, offered)
      BY <1>0, SoundParts
    <3>3. /\ thread' \in [Threads -> Thread]
          /\ \A u \in Threads : SoundThread(thread'[u], offered)
      BY <1>0, <2>1, <3>1, <3>2, GotoSound, ThreadStates DEF TypeOK, Sound
    <3>4. late' \subseteq offered
      BY <1>0, <3>1, <3>2 DEF TypeOK, SoundBatch
    <3>5. /\ running' = "stopping" /\ ends' = ends + 1
          /\ UNCHANGED <<rows, nextId, server, refused, offered, evicted, dropped,
                         cut, faults, changes>>
      BY <1>4 DEF Stop
    <3>6. queue' \subseteq Row /\ late' \subseteq offered'
      BY <3>1, <3>2, <3>4, <3>5 DEF SoundBatch
    <3>7. job' = job /\ recorded' = recorded /\ passive' = passive /\ applied' = applied
      BY <3>5 DEF server
    <3>8. TypeOK'
      BY <1>0, <3>3, <3>5, <3>6, <3>7 DEF TypeOK
    <3> HIDE DEF batch
    <3> QED BY <1>0, <3>1, <3>2, <3>3, <3>5, <3>7, <3>8 DEF Sound
  <2>2. CASE MainLoop \notin Threads
    BY <1>0, <1>4, <2>2 DEF Stop, Sound, TypeOK, server
  <2> QED BY <2>1, <2>2
<1>5. ASSUME NEW t \in Threads, Peek(t) PROVE Sound'
  <2>1. SoundThread([thread[t] EXCEPT !.pc = "post", !.rows = Oldest(rows, MaxBatch)], offered)
    <3>1. SoundBatch(Oldest(rows, MaxBatch), offered)
      BY <1>0, SoundParts
    <3>2. SoundThread(thread[t], offered)
      BY DEF Sound
    <3> QED BY <3>1, <3>2 DEF SoundThread, Thread, SoundBatch
  <2>2. /\ thread' \in [Threads -> Thread]
        /\ \A u \in Threads : SoundThread(thread'[u], offered)
    BY <1>0, <1>5, <2>1, GotoSound, ThreadStates DEF TypeOK, Sound, Peek
  <2> QED BY <1>0, <1>5, <2>2 DEF Peek, Sound, TypeOK, server, history
<1>6. ASSUME NEW t \in Threads, Requeue(t) PROVE Sound'
  <2>1. SoundThread(thread[t], offered) /\ thread[t].round + 1 \in Nat
    BY DEF Sound, SoundThread, Thread
  <2>2. /\ SoundBatch(rows', offered) /\ nextId' \in Nat
        /\ evicted' \subseteq offered
    BY <1>6, <2>1, EnqueueSound DEF Requeue, SoundThread
  <2>3. /\ thread' \in [Threads -> Thread]
        /\ \A u \in Threads : SoundThread(thread'[u], offered)
    BY <1>0, <1>6, <2>1, GotoSound, ThreadStates DEF TypeOK, Sound, Requeue
  <2> QED BY <1>0, <1>6, <2>2, <2>3 DEF Requeue, Sound, TypeOK, server, SoundBatch
<1>7. ASSUME NEW t \in Threads, Unreachable(t) PROVE Sound'
  <2>1. /\ SoundBatch(rows', offered) /\ nextId' \in Nat
        /\ evicted' \subseteq offered
        /\ thread' \in [Threads -> Thread]
        /\ \A u \in Threads : SoundThread(thread'[u], offered)
    BY <1>7, FailSound DEF Unreachable
  <2> QED BY <1>0, <1>7, <2>1 DEF Unreachable, Sound, TypeOK, server, SoundBatch
<1> QED BY <1>1, <1>2, <1>3, <1>4, <1>5, <1>6, <1>7

\* A request that the worker drops, with or without a caller that waits.
LEMMA CallerFailsSound ==
    ASSUME NEW w \in Workers, Sound, CallerFails(w)
    PROVE  /\ SoundBatch(rows', offered) /\ nextId' \in Nat
           /\ evicted' \subseteq offered
           /\ thread' \in [Threads -> Thread]
           /\ \A u \in Threads : SoundThread(thread'[u], offered)
<1>1. job[w].caller # None => job[w].caller \in Threads
  BY DEF Sound, SoundJob, Job
<1>2. CASE job[w].caller # None
  BY <1>1, <1>2, FailSound DEF CallerFails
<1>3. CASE job[w].caller = None
  BY <1>3 DEF CallerFails, Sound, TypeOK
<1> QED BY <1>2, <1>3

\* A worker becomes free.
LEMMA FreedSound ==
    ASSUME NEW w \in Workers, Sound, job' = [job EXCEPT ![w] = Free]
    PROVE  job' \in [Workers -> Job] /\ \A v \in Workers : SoundJob(job'[v], offered)
BY JobSound, FreeSound DEF Sound, TypeOK

\* A step of a worker that changes nothing of the agent.
LEMMA WorkerStepSound ==
    ASSUME NEW w \in Workers, NEW j, SoundJob(j, offered), Sound,
           job' = [job EXCEPT ![w] = j],
           recorded' \subseteq Events, passive' \subseteq recorded',
           applied' \in [Events -> Nat],
           UNCHANGED <<edge, refused, history, faults, changes, ends>>
    PROVE  Sound'
<1>1. job' \in [Workers -> Job] /\ \A v \in Workers : SoundJob(job'[v], offered)
  BY JobSound DEF Sound, TypeOK
<1> QED BY <1>1 DEF Sound, TypeOK, edge, history

LEMMA SoundServer ==
    ASSUME Sound,
           \E w \in Workers :
              \/ Check(w) \/ Insert(w) \/ InsertDuplicate(w) \/ InsertThrows(w)
              \/ Apply(w) \/ Answer(w) \/ WorkerDies(w)
    PROVE  Sound'
<1>0. TypeOK /\ \A w \in Workers : SoundJob(job[w], offered) /\ job[w] \in Job
  BY DEF Sound, SoundJob
<1>1. ASSUME NEW w \in Workers, Check(w) PROVE Sound'
  <2>1. PICK r \in job[w].todo :
          job' = [job EXCEPT ![w].step = IF r.ev \notin refused \cup recorded THEN "insert" ELSE "next",
                             ![w].cur = IF r.ev \notin refused \cup recorded THEN {r.ev} ELSE {},
                             ![w].todo = @ \ {r},
                             ![w].rejected = IF r.ev \in refused THEN @ \cup {r} ELSE @]
    BY <1>1 DEF Check
  <2> DEFINE rej == IF r.ev \in refused THEN job[w].rejected \cup {r} ELSE job[w].rejected
             j == [job[w] EXCEPT !.step = IF r.ev \notin refused \cup recorded THEN "insert" ELSE "next",
                             !.cur = IF r.ev \notin refused \cup recorded THEN {r.ev} ELSE {},
                             !.todo = @ \ {r},
                             !.rejected = rej]
  <2>2. r \in job[w].batch /\ r \in Row /\ r.ev \in Events
    BY <1>0 DEF SoundJob, Job, Row
  <2>3. SoundBatch(rej, offered) /\ rej \subseteq job[w].batch
    <3>1. IsFiniteSet(job[w].rejected \cup {r})
      BY <1>0, FS_AddElement DEF SoundJob, SoundBatch
    <3>2. Evs(rej) \subseteq offered
      BY <1>0, <2>2 DEF SoundJob, SoundBatch, Evs
    <3> QED BY <1>0, <2>2, <3>1, <3>2 DEF SoundJob, SoundBatch
  <2>4. SoundJob(j, offered)
    <3> HIDE DEF rej
    <3> QED BY <1>0, <2>2, <2>3 DEF SoundJob, Job
  <2>5. job' = [job EXCEPT ![w] = j]
    BY <1>0, <2>1 DEF TypeOK
  <2> HIDE DEF j
  <2> QED BY <1>0, <1>1, <2>4, <2>5, WorkerStepSound DEF Check, TypeOK, edge, history
<1>2. ASSUME NEW w \in Workers, Insert(w) PROVE Sound'
  <2>1. PICK e \in job[w].cur :
          /\ recorded' = recorded \cup {e}
          /\ \/ Process(w, "apply", {e}) /\ passive' = passive
             \/ Process(w, "next", {}) /\ passive' = passive \cup {e}
    BY <1>2 DEF Insert
  <2>2. e \in Events
    BY <1>0 DEF Job
  <2>3. \E step \in {"apply", "next"}, cur \in SUBSET Events :
          job' = [job EXCEPT ![w] = [job[w] EXCEPT !.step = step, !.cur = cur]]
    BY <1>0, <2>1, <2>2 DEF Process, TypeOK
  <2>4. PICK j : SoundJob(j, offered) /\ job' = [job EXCEPT ![w] = j]
    BY <1>0, <2>3 DEF SoundJob, Job
  <2> QED BY <1>0, <1>2, <2>1, <2>2, <2>4, WorkerStepSound DEF Insert, TypeOK, edge, history
<1>3. ASSUME NEW w \in Workers, InsertDuplicate(w) PROVE Sound'
  <2>1. job' = [job EXCEPT ![w] = [job[w] EXCEPT !.step = "next", !.cur = {}]]
    BY <1>0, <1>3 DEF InsertDuplicate, Process, TypeOK
  <2>2. SoundJob([job[w] EXCEPT !.step = "next", !.cur = {}], offered)
    BY <1>0 DEF SoundJob, Job
  <2> QED BY <1>0, <1>3, <2>1, <2>2, WorkerStepSound DEF InsertDuplicate, TypeOK, edge, history
<1>4. ASSUME NEW w \in Workers, Apply(w) PROVE Sound'
  <2>1. PICK e \in job[w].cur :
          /\ applied' = [applied EXCEPT ![e] = @ + 1]
          /\ job' = [job EXCEPT ![w] = [job[w] EXCEPT !.step = "next", !.cur = {}]]
    BY <1>0, <1>4 DEF Apply, Process, TypeOK
  <2>2. SoundJob([job[w] EXCEPT !.step = "next", !.cur = {}], offered)
    BY <1>0 DEF SoundJob, Job
  <2>3. applied' \in [Events -> Nat]
    <3>1. e \in Events /\ applied \in [Events -> Nat]
      BY <1>0 DEF TypeOK, Job
    <3>2. applied[e] + 1 \in Nat
      BY <3>1
    <3> QED BY <2>1, <3>1, <3>2
  <2> QED BY <1>0, <1>4, <2>1, <2>2, <2>3, WorkerStepSound DEF Apply, TypeOK, edge, history
<1>5. ASSUME NEW w \in Workers, InsertThrows(w) PROVE Sound'
  <2>1. /\ CallerFails(w)
        /\ job' = [job EXCEPT ![w] = Free]
        /\ UNCHANGED <<queue, running, recorded, passive, applied, refused,
                       offered, dropped, late, cut, faults, changes, ends>>
    BY <1>5 DEF InsertThrows
  <2> QED BY <1>0, <2>1, CallerFailsSound, FreedSound DEF Sound, TypeOK, SoundBatch
<1>6. ASSUME NEW w \in Workers, WorkerDies(w) PROVE Sound'
  <2>1. /\ CallerFails(w)
        /\ job' = [job EXCEPT ![w] = Free]
        /\ cut' = IF job[w].step = "apply" THEN cut \cup job[w].cur ELSE cut
        /\ faults' = faults + 1
        /\ UNCHANGED <<queue, running, recorded, passive, applied, refused,
                       offered, dropped, late, changes, ends>>
    BY <1>6 DEF WorkerDies
  <2>2. cut' \subseteq Events
    BY <1>0, <2>1 DEF TypeOK, Job
  <2>3. /\ SoundBatch(rows', offered) /\ nextId' \in Nat /\ evicted' \subseteq offered
        /\ thread' \in [Threads -> Thread]
        /\ \A u \in Threads : SoundThread(thread'[u], offered)
    BY <2>1, CallerFailsSound
  <2>4. job' \in [Workers -> Job] /\ \A v \in Workers : SoundJob(job'[v], offered)
    BY <2>1, FreedSound
  <2>5. rows' \subseteq Row /\ faults' \in Nat
    BY <1>0, <2>1, <2>3 DEF SoundBatch, TypeOK
  <2>6. TypeOK'
    BY <1>0, <2>1, <2>2, <2>3, <2>4, <2>5 DEF TypeOK
  <2> QED BY <2>1, <2>3, <2>4, <2>6 DEF Sound
<1>7. ASSUME NEW w \in Workers, Answer(w) PROVE Sound'
  <2>1. job' = [job EXCEPT ![w] = Free]
        /\ UNCHANGED <<queue, running, recorded, passive, applied, refused,
                       offered, dropped, late, cut, faults, changes, ends>>
    BY <1>7 DEF Answer
  <2>2. /\ SoundBatch(rows', offered) /\ nextId' \in Nat /\ evicted' \subseteq offered
        /\ thread' \in [Threads -> Thread]
        /\ \A u \in Threads : SoundThread(thread'[u], offered)
    <3>1. CASE job[w].caller = None
      BY <1>0, <1>7, <3>1 DEF Answer, Sound, TypeOK
    <3>2. CASE job[w].caller # None
      <4> DEFINE t == job[w].caller
                 rej == job[w].rejected
      <4>1. t \in Threads /\ SoundBatch(rej, offered) /\ SoundThread(thread[t], offered)
        BY <1>0, <3>2 DEF SoundJob, Job, Sound
      <4>2. Accepted(t, rej)
        BY <1>7, <3>2 DEF Answer
      <4> HIDE DEF t, rej
      <4>4. CASE thread[t].live # {}
        <5>1. Enqueue(rej) /\ Goto(t, Flushing(1))
          BY <4>2, <4>4 DEF Accepted
        <5>2. /\ SoundBatch(rows', offered) /\ nextId' \in Nat /\ evicted' \subseteq offered
          BY <4>1, <5>1, EnqueueSound
        <5>3. /\ thread' \in [Threads -> Thread]
              /\ \A u \in Threads : SoundThread(thread'[u], offered)
          BY <1>0, <4>1, <5>1, GotoSound, ThreadStates DEF Sound, TypeOK
        <5> QED BY <5>2, <5>3
      <4>5. CASE thread[t].live = {}
        <5>1. /\ rows' = rows \ (thread[t].rows \ rej)
              /\ Goto(t, IF rej = {} THEN Flushing(thread[t].round + 1)
                         ELSE [thread[t] EXCEPT !.pc = "requeue", !.rows = {}, !.back = rej])
              /\ UNCHANGED <<nextId, evicted>>
          BY <4>2, <4>5 DEF Accepted
        <5>2. SoundBatch(rows', offered)
          BY <5>1, SoundParts DEF Sound
        <5>3. /\ SoundThread(Flushing(thread[t].round + 1), offered)
              /\ SoundThread([thread[t] EXCEPT !.pc = "requeue", !.rows = {}, !.back = rej], offered)
          <6>1. thread[t].round + 1 \in Nat /\ SoundBatch({}, offered)
            BY <4>1, SoundParts DEF SoundThread, Thread
          <6>2. SoundThread(Flushing(thread[t].round + 1), offered)
            BY <6>1, ThreadStates
          <6>3. [thread[t] EXCEPT !.pc = "requeue", !.rows = {}, !.back = rej] \in Thread
            BY <4>1 DEF SoundThread, Thread, SoundBatch
          <6> QED BY <4>1, <6>1, <6>2, <6>3 DEF SoundThread, Thread
        <5>4. /\ thread' \in [Threads -> Thread]
              /\ \A u \in Threads : SoundThread(thread'[u], offered)
          BY <1>0, <4>1, <5>1, <5>3, GotoSound DEF Sound, TypeOK
        <5> QED BY <1>0, <5>1, <5>2, <5>4 DEF TypeOK
      <4> QED BY <4>4, <4>5
    <3> QED BY <3>1, <3>2
  <2>3. job' \in [Workers -> Job] /\ \A v \in Workers : SoundJob(job'[v], offered)
    BY <2>1, FreedSound
  <2> QED BY <1>0, <2>1, <2>2, <2>3 DEF Sound, TypeOK, SoundBatch
<1> QED BY <1>1, <1>2, <1>3, <1>4, <1>5, <1>6, <1>7

\* Requests that lose their caller stay sound.
LEMMA OrphanSound ==
    ASSUME Sound, job' \in [Workers -> Job],
           \A w \in Workers :
              job'[w] = job[w] \/ job'[w] = [job[w] EXCEPT !.caller = None]
    PROVE  \A w \in Workers : SoundJob(job'[w], offered)
BY DEF Sound, SoundJob, Job

LEMMA SoundEnds ==
    ASSUME Sound,
           \/ ChangeReferences \/ Exit \/ Crash \/ Start
           \/ \E t \in Threads : TimesOut(t)
           \/ \E t \in Threads, w \in Workers : Post(t, w)
    PROVE  Sound'
<1>0. /\ TypeOK
      /\ \A w \in Workers : SoundJob(job[w], offered) /\ job[w] \in Job
      /\ \A t \in Threads : SoundThread(thread[t], offered)
  BY DEF Sound, SoundJob
<1>1. CASE ChangeReferences
  BY <1>0, <1>1 DEF ChangeReferences, Sound, TypeOK, edge, server, history
<1>2. CASE Start
  BY <1>0, <1>2 DEF Start, Sound, TypeOK, server, history
<1>3. CASE Exit \/ Crash
  <2>1. /\ ProcessGone /\ ends' \in Nat
        /\ UNCHANGED <<rows, nextId, recorded, passive, applied, refused,
                       offered, evicted, late, cut, faults, changes>>
    BY <1>0, <1>3 DEF Exit, Crash, ProcessGone, TypeOK
  <2>2. /\ running' = "down" /\ queue' = {}
        /\ thread' = [t \in Threads |-> Resting]
        /\ job' = [w \in Workers |-> [job[w] EXCEPT !.caller = None]]
        /\ dropped' \subseteq dropped \cup InMemory
    BY <2>1 DEF ProcessGone
  <2>3. dropped' \subseteq offered
    BY <1>0, <2>2 DEF InMemory, Sound, SoundThread, SoundBatch, TypeOK
  <2>4. /\ SoundBatch(queue', offered) /\ SoundThread(Resting, offered)
    BY <2>2, SoundParts, ThreadStates DEF Sound
  <2>5. /\ thread' \in [Threads -> Thread]
        /\ \A t \in Threads : SoundThread(thread'[t], offered)
    BY <2>2, <2>4 DEF SoundThread
  <2>6. job' \in [Workers -> Job]
    BY <1>0, <2>2 DEF Job
  <2>7. \A w \in Workers : SoundJob(job'[w], offered)
    BY <2>2, <2>6, OrphanSound
  <2>8. TypeOK'
    BY <1>0, <2>1, <2>2, <2>3, <2>5, <2>6 DEF TypeOK
  <2> QED BY <2>1, <2>4, <2>5, <2>7, <2>8 DEF Sound
<1>4. ASSUME NEW t \in Threads, TimesOut(t) PROVE Sound'
  <2>1. /\ Fail(t) /\ job' = Orphaned(t) /\ faults' = faults + 1
        /\ UNCHANGED <<queue, running, recorded, passive, applied, refused,
                       offered, dropped, late, cut, changes, ends>>
    BY <1>4 DEF TimesOut
  <2>2. /\ SoundBatch(rows', offered) /\ nextId' \in Nat /\ evicted' \subseteq offered
        /\ thread' \in [Threads -> Thread]
        /\ \A u \in Threads : SoundThread(thread'[u], offered)
    BY <2>1, FailSound
  <2>3. job' \in [Workers -> Job]
    BY <1>0, <2>1 DEF Orphaned, Job
  <2>4. \A w \in Workers : SoundJob(job'[w], offered)
    BY <2>1, <2>3, OrphanSound DEF Orphaned
  <2>5. rows' \subseteq Row /\ faults' \in Nat
    BY <1>0, <2>1, <2>2 DEF SoundBatch, TypeOK
  <2>6. TypeOK'
    BY <1>0, <2>1, <2>2, <2>3, <2>5 DEF TypeOK
  <2> QED BY <2>1, <2>2, <2>4, <2>6 DEF Sound
<1>5. ASSUME NEW t \in Threads, NEW w \in Workers, Post(t, w) PROVE Sound'
  <2> DEFINE j == [step |-> "next", caller |-> t, batch |-> Sent(t),
                   todo |-> Sent(t), rejected |-> {}, cur |-> {}]
  <2>1. /\ Goto(t, [thread[t] EXCEPT !.pc = "wait"])
        /\ job' = [job EXCEPT ![w] = j]
        /\ UNCHANGED <<queue, rows, nextId, running, recorded, passive, applied, refused,
                       history, faults, changes, ends>>
    BY <1>5 DEF Post
  <2>2. SoundThread([thread[t] EXCEPT !.pc = "wait"], offered)
    BY <1>0 DEF SoundThread, Thread
  <2>3. /\ thread' \in [Threads -> Thread]
        /\ \A u \in Threads : SoundThread(thread'[u], offered)
    BY <1>0, <2>1, <2>2, GotoSound DEF TypeOK
  <2>4. SoundJob(j, offered)
    <3>1. SoundBatch(Sent(t), offered) /\ SoundBatch({}, offered)
      BY <1>0, SoundParts DEF Sent, SoundThread
    <3>2. j \in Job
      BY <3>1 DEF Job, SoundBatch
    <3> QED BY <3>1, <3>2 DEF SoundJob
  <2> HIDE DEF j
  <2>5. job' \in [Workers -> Job] /\ \A v \in Workers : SoundJob(job'[v], offered)
    BY <1>0, <2>1, <2>4, JobSound DEF TypeOK
  <2>6. TypeOK'
    BY <1>0, <2>1, <2>3, <2>5 DEF TypeOK, history
  <2> QED BY <2>1, <2>3, <2>5, <2>6 DEF Sound, history
<1> QED BY <1>1, <1>2, <1>3, <1>4, <1>5

LEMMA SoundInit == Init => Sound
<1> SUFFICES ASSUME Init PROVE Sound
  OBVIOUS
<1>1. SoundBatch({}, offered)
  BY FS_EmptySet DEF SoundBatch, Evs
<1>2. SoundThread(Resting, offered)
  BY <1>1, ThreadStates
<1>3. SoundJob(Free, offered)
  BY FreeSound
<1>4. Resting \in Thread /\ Free \in Job
  BY <1>2, <1>3 DEF SoundThread, SoundJob
<1>5. TypeOK
  BY <1>4 DEF Init, TypeOK
<1> QED BY <1>1, <1>2, <1>3, <1>5 DEF Init, Sound

LEMMA SoundNext == Sound /\ [Next]_vars => Sound'
<1> SUFFICES ASSUME Sound, [Next]_vars PROVE Sound'
  OBVIOUS
<1>1. CASE UNCHANGED vars
  BY <1>1 DEF vars, edge, server, history, Sound, TypeOK
<1>2. CASE Next
  BY <1>2, SoundAgent, SoundServer, SoundEnds DEF Next
<1> QED BY <1>1, <1>2

\* Every value has its type, the readings in every batch were offered, and
\* every batch is finite.
THEOREM EdgeTypeCorrect == Spec => []TypeOK
<1>1. Sound => TypeOK
  BY DEF Sound
<1> QED BY <1>1, SoundInit, SoundNext, PTL DEF Spec

-----------------------------------------------------------------------------
(* At most once.  A reading is counted once because only the request that  *)
(* inserted its row applies it, and the unique index lets one insert it.   *)

Applies(w) == job[w].step = "apply"

Effects ==
    /\ \A e \in Events : applied[e] = 0 \/ (applied[e] = 1 /\ e \in recorded)
    /\ \A w \in Workers : Applies(w) =>
          \E e \in Events : job[w].cur = {e} /\ e \in recorded /\ applied[e] = 0
    /\ \A v, w \in Workers : v # w /\ Applies(v) /\ Applies(w)
                             => job[v].cur \cap job[w].cur = {}
    /\ LiveEffectOnlyCut

\* What a step must respect that neither inserts nor applies a reading: it
\* starts no apply, and ends one only by cutting its reading off.
LEMMA EffectsKept ==
    ASSUME Effects, UNCHANGED <<recorded, passive, applied>>, cut \subseteq cut',
           \A w \in Workers : job'[w].step = "apply" => Applies(w) /\ job'[w].cur = job[w].cur,
           \A w \in Workers : Applies(w) =>
               \/ job'[w].step = "apply" /\ job'[w].cur = job[w].cur
               \/ job[w].cur \subseteq cut'
    PROVE  Effects'
<1>1. \A e \in Events : applied'[e] = 0 \/ (applied'[e] = 1 /\ e \in recorded')
  BY DEF Effects
<1>2. \A w \in Workers : Applies(w)' =>
          \E e \in Events : job'[w].cur = {e} /\ e \in recorded' /\ applied'[e] = 0
  BY DEF Effects, Applies
<1>3. \A v, w \in Workers : v # w /\ Applies(v)' /\ Applies(w)'
                             => job'[v].cur \cap job'[w].cur = {}
  BY DEF Effects, Applies
<1>4. LiveEffectOnlyCut'
  BY DEF Effects, LiveEffectOnlyCut, Applies
<1> QED BY <1>1, <1>2, <1>3, <1>4 DEF Effects

LEMMA EffectsNext == Sound /\ Effects /\ [Next]_vars => Effects'
<1> SUFFICES ASSUME Sound, Effects, [Next]_vars PROVE Effects'
  OBVIOUS
<1>0. /\ TypeOK /\ job \in [Workers -> Job]
      /\ \A e \in Events : applied[e] \in Nat
      /\ \A w \in Workers : job[w].cur \subseteq Events
  BY DEF Sound, TypeOK, Job
<1>1. ASSUME UNCHANGED <<server, cut>> PROVE Effects'
  BY <1>1, EffectsKept DEF server, Applies
<1>2. ASSUME NEW w \in Workers, NEW j, job' = [job EXCEPT ![w] = j], j.step # "apply",
             UNCHANGED <<recorded, passive, applied>>, cut \subseteq cut',
             Applies(w) => job[w].cur \subseteq cut'
      PROVE  Effects'
  <2>1. \A v \in Workers : job'[v] = IF v = w THEN j ELSE job[v]
    BY <1>0, <1>2
  <2> QED BY <1>2, <2>1, EffectsKept DEF Applies
<1>3. ASSUME UNCHANGED <<recorded, passive, applied, cut>>,
             \A w \in Workers : job'[w].step = job[w].step /\ job'[w].cur = job[w].cur
      PROVE  Effects'
  BY <1>3, EffectsKept DEF Applies
<1>4. ASSUME \/ \E e \in Events : Offer(e)
             \/ FlushDue \/ Drain \/ ChangeReferences \/ Stop \/ Start
             \/ \E t \in Threads : Peek(t) \/ Requeue(t) \/ Unreachable(t)
             \/ UNCHANGED vars
      PROVE  Effects'
  BY <1>1, <1>4 DEF Offer, FlushDue, Drain, ChangeReferences, Stop, Start, Peek, Requeue,
                    Unreachable, vars, history
<1>5. ASSUME \/ Exit \/ Crash \/ \E t \in Threads : TimesOut(t) PROVE Effects'
  <2>1. UNCHANGED <<recorded, passive, applied, cut>>
    BY <1>5 DEF Exit, Crash, ProcessGone, TimesOut
  <2>2. \A w \in Workers : job'[w].step = job[w].step /\ job'[w].cur = job[w].cur
    BY <1>0, <1>5 DEF Exit, Crash, ProcessGone, TimesOut, Orphaned, Job
  <2> QED BY <1>3, <2>1, <2>2
<1>6. ASSUME NEW t \in Threads, NEW w \in Workers, Post(t, w) PROVE Effects'
  <2>1. /\ job[w].step = "free"
        /\ job' = [job EXCEPT ![w] = [step |-> "next", caller |-> t, batch |-> Sent(t),
                                      todo |-> Sent(t), rejected |-> {}, cur |-> {}]]
        /\ UNCHANGED <<recorded, passive, applied, cut>>
    BY <1>6 DEF Post, history
  <2>2. /\ job'[w].step # "apply" /\ ~Applies(w)
        /\ \A v \in Workers \ {w} : job'[v] = job[v]
    BY <1>0, <2>1 DEF Applies
  <2> QED BY <2>1, <2>2, EffectsKept DEF Applies
<1>7. ASSUME NEW w \in Workers, InsertDuplicate(w) PROVE Effects'
  <2>1. /\ ~Applies(w) /\ UNCHANGED <<recorded, passive, applied, cut>>
        /\ job' = [job EXCEPT ![w].step = "next", ![w].cur = {}]
    BY <1>7 DEF InsertDuplicate, Applies, Process, history
  <2>2. /\ job'[w].step # "apply"
        /\ \A v \in Workers \ {w} : job'[v] = job[v]
    BY <1>0, <2>1 DEF Job
  <2> QED BY <2>1, <2>2, EffectsKept DEF Applies
<1>8. ASSUME NEW w \in Workers, InsertThrows(w) \/ Answer(w) PROVE Effects'
  <2>1. /\ ~Applies(w) /\ UNCHANGED <<recorded, passive, applied, cut>>
        /\ job' = [job EXCEPT ![w] = Free] /\ Free.step # "apply"
    BY <1>8 DEF InsertThrows, Answer, Applies, Free
  <2> QED BY <1>2, <2>1
<1>12. ASSUME NEW w \in Workers, Check(w) PROVE Effects'
  <2>1. /\ ~Applies(w) /\ UNCHANGED <<recorded, passive, applied, cut>>
        /\ job'[w].step # "apply"
        /\ \A v \in Workers \ {w} : job'[v] = job[v]
    BY <1>0, <1>12 DEF Check, Applies, history, Job
  <2> QED BY <2>1, EffectsKept DEF Applies
<1>9. ASSUME NEW w \in Workers, WorkerDies(w) PROVE Effects'
  <2>1. /\ job' = [job EXCEPT ![w] = Free] /\ Free.step # "apply"
        /\ UNCHANGED <<recorded, passive, applied>>
        /\ cut' = IF job[w].step = "apply" THEN cut \cup job[w].cur ELSE cut
    BY <1>9 DEF WorkerDies, Free
  <2> QED BY <1>2, <2>1 DEF Applies
<1>10. ASSUME NEW w \in Workers, Insert(w) PROVE Effects'
  <2>1. PICK e \in job[w].cur :
          /\ e \notin recorded
          /\ recorded' = recorded \cup {e}
          /\ \/ Process(w, "apply", {e}) /\ passive' = passive
             \/ Process(w, "next", {}) /\ passive' = passive \cup {e}
    BY <1>10 DEF Insert
  <2>2. /\ applied' = applied /\ cut' = cut /\ e \in Events /\ applied[e] = 0
        /\ job[w].step = "insert"
        /\ \A v \in Workers \ {w} : job'[v] = job[v]
    BY <1>0, <1>10, <2>1 DEF Insert, history, Effects, Process
  <2>3. \/ job'[w].step = "apply" /\ job'[w].cur = {e} /\ passive' = passive
        \/ job'[w].step = "next" /\ passive' = passive \cup {e}
    BY <1>0, <2>1 DEF Process, Job
  <2>4. \A f \in Events : applied'[f] = 0 \/ (applied'[f] = 1 /\ f \in recorded')
    BY <2>1, <2>2 DEF Effects
  <2>5. \A v \in Workers : Applies(v)' =>
            \E f \in Events : job'[v].cur = {f} /\ f \in recorded' /\ applied'[f] = 0
    BY <2>1, <2>2, <2>3 DEF Effects, Applies
  <2>6. \A v \in Workers \ {w} : Applies(v)' => e \notin job'[v].cur
    BY <2>1, <2>2 DEF Effects, Applies
  <2>7. \A u, v \in Workers : u # v /\ Applies(u)' /\ Applies(v)'
                               => job'[u].cur \cap job'[v].cur = {}
    BY <2>2, <2>3, <2>6 DEF Effects, Applies
  <2>8. LiveEffectOnlyCut'
    BY <2>1, <2>2, <2>3 DEF Effects, LiveEffectOnlyCut, Applies
  <2> QED BY <2>4, <2>5, <2>7, <2>8 DEF Effects
<1>11. ASSUME NEW w \in Workers, Apply(w) PROVE Effects'
  <2>1. PICK e \in Events : job[w].cur = {e} /\ e \in recorded /\ applied[e] = 0
    BY <1>11 DEF Apply, Effects, Applies
  <2>2. /\ Applies(w) /\ applied' = [applied EXCEPT ![e] = @ + 1] /\ Process(w, "next", {})
        /\ UNCHANGED <<recorded, passive, cut>>
    BY <1>11, <2>1 DEF Apply, Applies, history
  <2>3. /\ applied'[e] = 1 /\ \A f \in Events \ {e} : applied'[f] = applied[f]
    BY <1>0, <2>1, <2>2 DEF TypeOK
  <2>4. /\ job'[w].step = "next" /\ \A v \in Workers \ {w} : job'[v] = job[v]
    BY <1>0, <2>2 DEF Process, Job
  <2>5. \A v \in Workers \ {w} : Applies(v) => e \notin job[v].cur
    BY <2>1, <2>2 DEF Effects
  <2>6. \A f \in Events : applied'[f] = 0 \/ (applied'[f] = 1 /\ f \in recorded')
    BY <2>1, <2>2, <2>3 DEF Effects
  <2>7. \A v \in Workers : Applies(v)' =>
            \E f \in Events : job'[v].cur = {f} /\ f \in recorded' /\ applied'[f] = 0
    BY <2>2, <2>3, <2>4, <2>5 DEF Effects, Applies
  <2>8. \A u, v \in Workers : u # v /\ Applies(u)' /\ Applies(v)'
                               => job'[u].cur \cap job'[v].cur = {}
    BY <2>4 DEF Effects, Applies
  <2>9. LiveEffectOnlyCut'
    BY <2>1, <2>2, <2>3, <2>4 DEF Effects, LiveEffectOnlyCut, Applies
  <2> QED BY <2>6, <2>7, <2>8, <2>9 DEF Effects
<1> QED BY <1>4, <1>5, <1>6, <1>7, <1>8, <1>9, <1>10, <1>11, <1>12 DEF Next

LEMMA EffectsInit == Init => Effects
BY DEF Init, Effects, Applies, Free, LiveEffectOnlyCut

\* However the requests of an agent overlap, and whichever of them are
\* repeated, a reading moves the live state at most once.
THEOREM AtMostOnce == Spec => []AppliedAtMostOnce
<1>1. Sound /\ Effects => AppliedAtMostOnce
  BY DEF Effects, AppliedAtMostOnce
<1> QED BY <1>1, SoundInit, SoundNext, EffectsInit, EffectsNext, PTL DEF Spec

\* A reading that is stored without its live effect is passive, about to be
\* applied, or was cut off by the death of its worker.
THEOREM EffectLostOnlyByCut == Spec => []LiveEffectOnlyCut
<1>1. Effects => LiveEffectOnlyCut
  BY DEF Effects
<1> QED BY <1>1, SoundInit, SoundNext, EffectsInit, EffectsNext, PTL DEF Spec

-----------------------------------------------------------------------------
(* Nothing vanishes.  Deleting the rows of an answered batch is safe since *)
(* the answer belongs to the batch the thread holds (Linked) and every row *)
(* of it that was not rejected is stored (Accounted).                      *)

\* A live batch is held only while it is sent.
Quiet == \A t \in Threads : thread[t].pc \in {"post", "wait"} \/ thread[t].live = {}

Linked ==
    /\ \A w \in Workers : job[w].caller # None =>
          /\ job[w].step # "free"
          /\ thread[job[w].caller].pc = "wait"
          /\ job[w].batch = Sent(job[w].caller)
    /\ \A v, w \in Workers : v # w /\ job[v].caller # None => job[v].caller # job[w].caller

Account(j, stored) ==
    /\ \A r \in j.batch : \/ r \in j.todo \/ r \in j.rejected \/ r.ev \in stored
                          \/ j.step = "insert" /\ r.ev \in j.cur
    /\ j.step = "insert" => \E e \in Events : j.cur = {e}

Accounted == \A w \in Workers : Account(job[w], recorded)

Kept == Quiet /\ Linked /\ Accounted /\ NothingVanishes

LEMMA KeptSame ==
    ASSUME Kept, UNCHANGED <<queue, rows, thread, job, recorded, offered, evicted, dropped>>
    PROVE  Kept'
BY DEF Kept, Quiet, Linked, Accounted, Account, NothingVanishes, InMemory, Sent

\* A step of a worker that leaves the agent alone.
LEMMA KeptWork ==
    ASSUME TypeOK, Kept, UNCHANGED <<queue, rows, thread, offered, evicted, dropped>>,
           recorded \subseteq recorded',
           NEW w \in Workers, NEW j, job' = [job EXCEPT ![w] = j], Account(j, recorded'),
           j.caller # None =>
              /\ j.caller = job[w].caller /\ j.batch = job[w].batch /\ j.step # "free"
    PROVE  Kept'
<1>1. job'[w] = j /\ \A v \in Workers \ {w} : job'[v] = job[v]
  BY DEF TypeOK
<1>2. Quiet'
  BY DEF Kept, Quiet
<1>3. \A v \in Workers : job'[v].caller # None =>
          job'[v].caller = job[v].caller /\ job'[v].batch = job[v].batch /\ job'[v].step # "free"
  BY <1>1 DEF Kept, Linked
<1>4. Linked'
  <2>1. thread' = thread /\ \A t : Sent(t)' = Sent(t)
    BY DEF Sent
  <2>2. Linked
    BY DEF Kept
  <2>3. \A v \in Workers : job'[v].caller # None =>
          /\ job'[v].step # "free"
          /\ thread'[job'[v].caller].pc = "wait"
          /\ job'[v].batch = Sent(job[v].caller)'
    BY <1>3, <2>1, <2>2 DEF Linked
  <2>4. \A u, v \in Workers : u # v /\ job'[u].caller # None => job'[u].caller # job'[v].caller
    BY <1>3, <2>2 DEF Linked
  <2> QED BY <2>3, <2>4 DEF Linked
<1>5. Accounted'
  BY <1>1 DEF Kept, Accounted, Account
<1>6. NothingVanishes'
  BY DEF Kept, NothingVanishes, InMemory
<1> QED BY <1>2, <1>4, <1>5, <1>6 DEF Kept

\* Thread t moves to state s, and no request has it as its caller any more.
LEMMA KeptMove ==
    ASSUME TypeOK, Kept, NEW t \in Threads, NEW s, Goto(t, s),
           s.pc \in {"post", "wait"} \/ s.live = {},
           recorded' = recorded, dropped' = dropped,
           offered' \subseteq offered \cup Evs(queue') \cup Evs(s.live),
           Evs(queue) \cup Evs(thread[t].live) \cup Evs(rows) \cup evicted
              \subseteq Evs(queue') \cup Evs(s.live) \cup Evs(rows') \cup evicted' \cup recorded,
           \A w \in Workers : \/ job'[w] = Free
                              \/ job'[w] = [job[w] EXCEPT !.caller = None]
                              \/ job'[w] = job[w] /\ job[w].caller # t
    PROVE  Kept'
<1>0. job \in [Workers -> Job]
  BY DEF TypeOK
<1>1. thread'[t] = s /\ \A u \in Threads \ {t} : thread'[u] = thread[u]
  BY DEF Goto, TypeOK
<1>2. Quiet'
  BY <1>1 DEF Kept, Quiet
<1>3. \A w \in Workers : job'[w].caller # None => job'[w] = job[w] /\ job[w].caller # t
  <2> SUFFICES ASSUME NEW w \in Workers
               PROVE  job'[w].caller # None => job'[w] = job[w] /\ job[w].caller # t
    OBVIOUS
  <2>1. Free.caller = None
    BY DEF Free
  <2>2. [job[w] EXCEPT !.caller = None].caller = None
    BY <1>0 DEF Job
  <2> QED BY <2>1, <2>2
<1>4. \A w \in Workers : job[w].caller # None => job[w].caller \in Threads
  BY <1>0 DEF Job
<1>5. Linked'
  BY <1>1, <1>3, <1>4 DEF Kept, Linked, Sent
<1>6. Accounted'
  <2> SUFFICES ASSUME NEW w \in Workers PROVE Account(job'[w], recorded)
    BY DEF Accounted
  <2>1. Account(Free, recorded)
    BY DEF Account, Free
  <2>2. Account(job[w], recorded)
    BY DEF Kept, Accounted
  <2>3. Account([job[w] EXCEPT !.caller = None], recorded)
    BY <1>0, <2>2 DEF Account, Job
  <2> QED BY <2>1, <2>2, <2>3
<1>7. ASSUME NEW e \in offered' PROVE e \in (InMemory \cup Evs(rows) \cup recorded \cup evicted \cup dropped)'
  <2>1. \A x : x \in InMemory <=> x \in Evs(queue) \/ \E u \in Threads : x \in Evs(thread[u].live)
    BY DEF InMemory
  <2>2. \A x : x \in InMemory' <=> x \in Evs(queue') \/ \E u \in Threads : x \in Evs(thread'[u].live)
    BY DEF InMemory
  <2>3. CASE e \in Evs(queue') \cup Evs(s.live)
    BY <1>1, <2>2, <2>3
  <2>4. CASE e \in offered
    <3>1. e \in InMemory \cup Evs(rows) \cup recorded \cup evicted \cup dropped
      BY <2>4 DEF Kept, NothingVanishes
    <3> QED BY <1>1, <2>1, <2>2, <3>1
  <2> QED BY <2>3, <2>4
<1>8. NothingVanishes'
  BY <1>7 DEF NothingVanishes
<1> QED BY <1>2, <1>5, <1>6, <1>8 DEF Kept

\* Fail keeps the table's readings and those of the live batch.
LEMMA FailKeeps ==
    ASSUME NEW t \in Threads, Sound, Fail(t)
    PROVE  /\ Goto(t, Resting) /\ Resting.live = {}
           /\ Evs(thread[t].live) \cup Evs(rows) \cup evicted \subseteq Evs(rows') \cup evicted'
<1>1. SoundBatch(thread[t].live, offered) /\ SoundBatch(rows, offered) /\ nextId \in Nat
  BY DEF Sound, SoundThread, TypeOK
<1>2. CASE thread[t].live # {}
  BY <1>1, <1>2, EnqueueFacts DEF Fail, SoundBatch, Resting
<1>3. CASE thread[t].live = {}
  BY <1>3 DEF Fail, Evs, Resting
<1> QED BY <1>2, <1>3

\* What the 202 of a request takes out of the buffer is stored.
LEMMA AcceptedKeeps ==
    ASSUME NEW w \in Workers, Sound, Kept, job[w].caller # None,
           job[w].step = "next", job[w].todo = {}, Accepted(job[w].caller, job[w].rejected)
    PROVE  /\ \E s : Goto(job[w].caller, s) /\ s.live = {}
           /\ Evs(thread[job[w].caller].live) \cup Evs(rows) \cup evicted
                \subseteq Evs(rows') \cup evicted' \cup recorded
<1> DEFINE t == job[w].caller
           rej == job[w].rejected
<1>1. /\ t \in Threads /\ SoundBatch(rej, offered) /\ SoundBatch(rows, offered) /\ nextId \in Nat
      /\ thread[t] \in Thread
  BY DEF Sound, SoundJob, Job, TypeOK, SoundThread
<1>2. Accepted(t, rej)
  OBVIOUS
<1>3. \A r \in Sent(t) : r \in rej \/ r.ev \in recorded
  <2>1. job[w].batch = Sent(t)
    BY DEF Kept, Linked
  <2>2. Account(job[w], recorded)
    BY DEF Kept, Accounted
  <2> QED BY <2>1, <2>2 DEF Account
<1> HIDE DEF t, rej
<1>4. CASE thread[t].live # {}
  <2>1. Enqueue(rej) /\ Goto(t, Flushing(1)) /\ Flushing(1).live = {}
    BY <1>2, <1>4 DEF Accepted, Flushing, Resting
  <2>2. Evs(thread[t].live) \subseteq Evs(rej) \cup recorded
    BY <1>3, <1>4 DEF Sent, Evs
  <2>3. Evs(rows) \cup Evs(rej) \cup evicted \subseteq Evs(rows') \cup evicted'
    BY <1>1, <2>1, EnqueueFacts DEF SoundBatch
  <2>4. \E s : Goto(t, s) /\ s.live = {}
    BY <2>1
  <2> QED BY <2>2, <2>3, <2>4 DEF t
<1>5. CASE thread[t].live = {}
  <2>1. /\ rows' = rows \ (thread[t].rows \ rej)
        /\ Goto(t, IF rej = {} THEN Flushing(thread[t].round + 1)
                   ELSE [thread[t] EXCEPT !.pc = "requeue", !.rows = {}, !.back = rej])
        /\ evicted' = evicted
    BY <1>2, <1>5 DEF Accepted
  <2>2. Evs(rows) \subseteq Evs(rows') \cup recorded
    BY <1>3, <1>5, <2>1 DEF Sent, Evs
  <2>3. /\ Flushing(thread[t].round + 1).live = {}
        /\ [thread[t] EXCEPT !.pc = "requeue", !.rows = {}, !.back = rej].live = {}
    BY <1>1, <1>5 DEF Flushing, Resting, Thread
  <2>4. \E s : Goto(t, s) /\ s.live = {}
    BY <2>1, <2>3
  <2> QED BY <1>5, <2>1, <2>2, <2>4 DEF t, Evs
<1> QED BY <1>4, <1>5

\* The steps of the agent's threads that leave the server alone.
LEMMA KeptAgent ==
    ASSUME Sound, Kept,
           \/ \E e \in Events : Offer(e)
           \/ FlushDue \/ Drain \/ Stop
           \/ \E t \in Threads : Peek(t) \/ Requeue(t) \/ Unreachable(t)
    PROVE  Kept'
<1>0. TypeOK
  BY DEF Sound
<1>1. \A t \in Threads : thread[t].pc # "wait" => \A w \in Workers : job[w].caller # t
  BY EdgeAssumption DEF Kept, Linked
<1>2. \A t \in Threads : thread[t].pc \notin {"post", "wait"} => thread[t].live = {}
  BY DEF Kept, Quiet
<1>3. Evs({}) = {}
  BY DEF Evs
<1>4. \A b : Submitting(b).live = b /\ (Submitting(b).pc = "post" \/ Submitting(b).live = {})
  BY DEF Submitting, Resting
<1>5. \A n : Flushing(n).live = {}
  BY DEF Flushing, Resting
<1>6. Resting.live = {}
  BY DEF Resting
<1>7. \A q, b : Evs(q) \subseteq Evs(q \ b) \cup Evs(b)
  BY DEF Evs
<1>8. ASSUME NEW e \in Events, Offer(e) PROVE Kept'
  <2> DEFINE q == queue \cup {[id |-> e, ev |-> e]}
  <2>1. Receiver \in Threads /\ thread[Receiver].pc = "idle"
    BY <1>8, EdgeAssumption DEF Offer
  <2>2. PICK batch :
          /\ queue' = q \ batch
          /\ Goto(Receiver, Submitting(batch))
    BY <1>8 DEF Offer
  <2>3. /\ offered' = offered \cup {e}
        /\ UNCHANGED <<rows, job, recorded, evicted, dropped>>
    BY <1>8 DEF Offer, server
  <2>4. Evs(q) = Evs(queue) \cup {e}
    <3>1. \A b, r : Evs(b \cup {r}) = Evs(b) \cup {r.ev}
      BY DEF Evs
    <3>2. Evs(q) = Evs(queue) \cup {[id |-> e, ev |-> e].ev}
      BY <3>1
    <3> QED BY <3>2
  <2>5. Evs(queue) \cup {e} \subseteq Evs(queue') \cup Evs(batch)
    BY <1>7, <2>2, <2>4
  <2> QED BY <1>0, <1>1, <1>2, <1>3, <1>4, <2>1, <2>2, <2>3, <2>5, KeptMove
<1>9. ASSUME MainLoop \in Threads, FlushDue \/ Stop PROVE Kept'
  <2> DEFINE batch == Oldest(queue, MaxBatch)
  <2>1. /\ thread[MainLoop].pc = "idle" /\ queue' = queue \ batch
        /\ Goto(MainLoop, Submitting(batch))
        /\ UNCHANGED <<rows, job, recorded, offered, evicted, dropped>>
    <3>1. CASE FlushDue
      BY <3>1 DEF FlushDue, server, history
    <3>2. CASE Stop
      BY <1>9, <3>2 DEF Stop, server
    <3> QED BY <1>9, <3>1, <3>2
  <2> HIDE DEF batch
  <2>2. Evs(queue) \subseteq Evs(queue') \cup Evs(batch)
    BY <1>7, <2>1
  <2> QED BY <1>0, <1>1, <1>2, <1>3, <1>4, <1>9, <2>1, <2>2, KeptMove
<1>10. ASSUME Drain PROVE Kept'
  <2>1. /\ MainLoop \in Threads /\ thread[MainLoop].pc = "idle"
        /\ Goto(MainLoop, Flushing(1))
        /\ UNCHANGED <<queue, rows, job, recorded, offered, evicted, dropped>>
    BY <1>10 DEF Drain, server, history
  <2> QED BY <1>0, <1>1, <1>2, <1>3, <1>5, <2>1, KeptMove
<1>11. ASSUME Stop, MainLoop \notin Threads PROVE Kept'
  BY <1>11, KeptSame DEF Stop, server
<1>12. ASSUME NEW t \in Threads, Peek(t) PROVE Kept'
  <2>1. /\ thread[t].pc = "peek" /\ thread[t].live = {} /\ thread[t] \in Thread
        /\ UNCHANGED <<queue, rows, job, recorded, offered, evicted, dropped>>
    BY <1>0, <1>2, <1>12 DEF Peek, server, history, TypeOK
  <2>2. PICK s : Goto(t, s) /\ s.live = {}
    <3>1. [thread[t] EXCEPT !.pc = "post", !.rows = Oldest(rows, MaxBatch)].live = {}
      BY <2>1 DEF Thread
    <3> QED BY <1>6, <1>12, <3>1 DEF Peek
  <2> QED BY <1>0, <1>1, <1>3, <2>1, <2>2, KeptMove
<1>13. ASSUME NEW t \in Threads, Requeue(t) PROVE Kept'
  <2>1. /\ thread[t].pc = "requeue" /\ thread[t].live = {}
        /\ Goto(t, Flushing(thread[t].round + 1)) /\ Enqueue(thread[t].back)
        /\ UNCHANGED <<queue, job, recorded, offered, dropped>>
    BY <1>2, <1>13 DEF Requeue, server
  <2>2. Evs(rows) \cup evicted \subseteq Evs(rows') \cup evicted'
    BY <1>0, <2>1, EnqueueFacts DEF Sound, SoundThread, SoundBatch, TypeOK
  <2> QED BY <1>0, <1>1, <1>3, <1>5, <2>1, <2>2, KeptMove
<1>14. ASSUME NEW t \in Threads, Unreachable(t) PROVE Kept'
  <2>1. /\ thread[t].pc = "post" /\ Fail(t)
        /\ UNCHANGED <<queue, job, recorded, offered, dropped>>
    BY <1>14 DEF Unreachable, server
  <2> QED BY <1>0, <1>1, <2>1, FailKeeps, KeptMove
<1> QED BY <1>8, <1>9, <1>10, <1>11, <1>12, <1>13, <1>14 DEF FlushDue

\* No other request has the caller of the one that ends.
LEMMA OtherCallers ==
    ASSUME TypeOK, Kept, NEW w \in Workers, job[w].caller # None, job' = [job EXCEPT ![w] = Free]
    PROVE  \A v \in Workers : job'[v] = Free \/ (job'[v] = job[v] /\ job[v].caller # job[w].caller)
<1>1. \A v \in Workers \ {w} : job'[v] = job[v]
  BY DEF TypeOK
<1>2. \A v \in Workers \ {w} : job[v].caller # job[w].caller
  BY DEF Kept, Linked
<1>3. job'[w] = Free
  BY DEF TypeOK
<1> QED BY <1>1, <1>2, <1>3

\* A request that ends without a 202: the batch of the caller that waits stays.
LEMMA KeptFailed ==
    ASSUME Sound, Kept, NEW w \in Workers, CallerFails(w), job' = [job EXCEPT ![w] = Free],
           UNCHANGED <<queue, recorded, offered, dropped>>
    PROVE  Kept'
<1>0. TypeOK /\ job[w] \in Job
  BY DEF Sound, TypeOK
<1>1. CASE job[w].caller = None
  <2>1. Account(Free, recorded') /\ Free.caller = None
    BY DEF Account, Free
  <2> QED BY <1>0, <1>1, <2>1, KeptWork DEF CallerFails
<1>2. CASE job[w].caller # None
  <2>1. job[w].caller \in Threads /\ Fail(job[w].caller)
    BY <1>0, <1>2 DEF Job, CallerFails
  <2>2. \A v \in Workers : job'[v] = Free \/ (job'[v] = job[v] /\ job[v].caller # job[w].caller)
    BY <1>0, <1>2, OtherCallers
  <2> QED BY <1>0, <2>1, <2>2, FailKeeps, KeptMove
<1> QED BY <1>1, <1>2

LEMMA KeptServer ==
    ASSUME Sound, Kept,
           \E w \in Workers :
              \/ Check(w) \/ Insert(w) \/ InsertDuplicate(w) \/ InsertThrows(w)
              \/ Apply(w) \/ Answer(w) \/ WorkerDies(w)
    PROVE  Kept'
<1>0. TypeOK /\ \A w \in Workers : job[w] \in Job /\ Account(job[w], recorded)
  BY DEF Sound, TypeOK, Kept, Accounted
<1>1. ASSUME NEW w \in Workers, NEW j, job' = [job EXCEPT ![w] = j],
             j.caller = job[w].caller, j.batch = job[w].batch, j.step # "free",
             Account(j, recorded'), recorded \subseteq recorded', UNCHANGED <<edge, history>>
      PROVE  Kept'
  BY <1>0, <1>1, KeptWork DEF edge, history
<1>2. ASSUME NEW w \in Workers, NEW step \in {"next", "apply"}, NEW cur,
             Process(w, step, cur), recorded \subseteq recorded', UNCHANGED <<edge, history>>,
             job[w].step = "insert" => job[w].cur \subseteq recorded'
      PROVE  Kept'
  <2> DEFINE j == [job[w] EXCEPT !.step = step, !.cur = cur]
  <2>1. job' = [job EXCEPT ![w] = j]
    BY <1>0, <1>2 DEF Process, TypeOK
  <2>2. /\ j.caller = job[w].caller /\ j.batch = job[w].batch /\ j.step = step
        /\ j.todo = job[w].todo /\ j.rejected = job[w].rejected
    BY <1>0 DEF Job
  <2> HIDE DEF j
  <2>3. Account(j, recorded')
    BY <1>0, <1>2, <2>2 DEF Account
  <2> QED BY <1>1, <1>2, <2>1, <2>2, <2>3
<1>3. ASSUME NEW w \in Workers, Check(w) PROVE Kept'
  <2>1. PICK r \in job[w].todo :
          job' = [job EXCEPT ![w].step = IF r.ev \notin refused \cup recorded THEN "insert" ELSE "next",
                             ![w].cur = IF r.ev \notin refused \cup recorded THEN {r.ev} ELSE {},
                             ![w].todo = @ \ {r},
                             ![w].rejected = IF r.ev \in refused THEN @ \cup {r} ELSE @]
    BY <1>3 DEF Check
  <2> DEFINE new == r.ev \notin refused \cup recorded
             j == [job[w] EXCEPT !.step = IF new THEN "insert" ELSE "next",
                             !.cur = IF new THEN {r.ev} ELSE {},
                             !.todo = @ \ {r},
                             !.rejected = IF r.ev \in refused THEN @ \cup {r} ELSE @]
  <2>2. job' = [job EXCEPT ![w] = j]
    BY <1>0, <2>1 DEF TypeOK
  <2>3. /\ j.caller = job[w].caller /\ j.batch = job[w].batch
        /\ j.step = IF new THEN "insert" ELSE "next"
        /\ j.cur = IF new THEN {r.ev} ELSE {}
        /\ j.todo = job[w].todo \ {r}
        /\ j.rejected = IF r.ev \in refused THEN job[w].rejected \cup {r} ELSE job[w].rejected
    BY <1>0 DEF Job
  <2>4. job[w].step = "next" /\ recorded' = recorded /\ UNCHANGED <<edge, history>>
    BY <1>3 DEF Check
  <2>5. r.ev \in Events
    BY <1>0 DEF Job, Row
  <2> HIDE DEF j
  <2>6. \A x \in j.batch : \/ x \in j.todo \/ x \in j.rejected \/ x.ev \in recorded
                           \/ j.step = "insert" /\ x.ev \in j.cur
    BY <1>0, <2>3, <2>4 DEF Account
  <2>7. j.step = "insert" => \E e \in Events : j.cur = {e}
    BY <2>3, <2>5
  <2> QED BY <1>1, <2>2, <2>3, <2>4, <2>6, <2>7 DEF Account
<1>4. ASSUME NEW w \in Workers, Insert(w) PROVE Kept'
  <2>1. PICK e \in job[w].cur :
          /\ recorded' = recorded \cup {e}
          /\ \E step \in {"next", "apply"} : \E cur : Process(w, step, cur)
    BY <1>4 DEF Insert
  <2>2. job[w].cur = {e}
    BY <1>0, <1>4, <2>1 DEF Insert, Account
  <2>3. UNCHANGED <<edge, history>>
    BY <1>4 DEF Insert
  <2> QED BY <1>2, <2>1, <2>2, <2>3
<1>5. ASSUME NEW w \in Workers, InsertDuplicate(w) PROVE Kept'
  <2>1. Process(w, "next", {}) /\ recorded' = recorded /\ UNCHANGED <<edge, history>>
    BY <1>5 DEF InsertDuplicate
  <2>2. job[w].cur \subseteq recorded
    BY <1>0, <1>5 DEF InsertDuplicate, Account
  <2> QED BY <1>2, <2>1, <2>2
<1>6. ASSUME NEW w \in Workers, Apply(w) PROVE Kept'
  <2>1. /\ Process(w, "next", {}) /\ recorded' = recorded /\ UNCHANGED <<edge, history>>
        /\ job[w].step = "apply"
    BY <1>6 DEF Apply
  <2> QED BY <1>2, <2>1
<1>7. ASSUME NEW w \in Workers, InsertThrows(w) \/ WorkerDies(w) PROVE Kept'
  BY <1>7, KeptFailed DEF InsertThrows, WorkerDies
<1>8. ASSUME NEW w \in Workers, Answer(w) PROVE Kept'
  <2>1. /\ job[w].step = "next" /\ job[w].todo = {}
        /\ job' = [job EXCEPT ![w] = Free]
        /\ UNCHANGED <<queue, recorded, offered, dropped>>
    BY <1>8 DEF Answer
  <2>2. CASE job[w].caller = None
    <3>1. Account(Free, recorded') /\ Free.caller = None
      BY DEF Account, Free
    <3> QED BY <1>0, <1>8, <2>1, <2>2, <3>1, KeptWork DEF Answer
  <2>3. CASE job[w].caller # None
    <3>1. job[w].caller \in Threads /\ Accepted(job[w].caller, job[w].rejected)
      BY <1>0, <1>8, <2>3 DEF Answer, Job
    <3>2. \A v \in Workers : job'[v] = Free \/ (job'[v] = job[v] /\ job[v].caller # job[w].caller)
      BY <1>0, <2>1, <2>3, OtherCallers
    <3>3. PICK s : Goto(job[w].caller, s) /\ s.live = {}
      BY <2>1, <2>3, <3>1, AcceptedKeeps
    <3>4. Evs(thread[job[w].caller].live) \cup Evs(rows) \cup evicted
             \subseteq Evs(rows') \cup evicted' \cup recorded
      BY <2>1, <2>3, <3>1, AcceptedKeeps
    <3> QED BY <1>0, <2>1, <3>1, <3>2, <3>3, <3>4, KeptMove
  <2> QED BY <2>2, <2>3
<1> QED BY <1>3, <1>4, <1>5, <1>6, <1>7, <1>8

LEMMA KeptEnds ==
    ASSUME Sound, Kept,
           \/ ChangeReferences \/ Exit \/ Crash \/ Start
           \/ \E t \in Threads : TimesOut(t)
           \/ \E t \in Threads, w \in Workers : Post(t, w)
    PROVE  Kept'
<1>0. /\ TypeOK
      /\ \A w \in Workers : job[w] \in Job /\ Account(job[w], recorded)
      /\ \A t \in Threads : thread[t] \in Thread
  BY DEF Sound, TypeOK, Kept, Accounted
<1>1. CASE ChangeReferences \/ Start
  BY <1>1, KeptSame DEF ChangeReferences, Start, edge, server, history
<1>2. CASE Exit \/ Crash
  <2>1. ProcessGone
    BY <1>2 DEF Exit, Crash
  <2>2. /\ dropped' = dropped \cup (InMemory \ (Evs(rows) \cup recorded))
        /\ thread' = [t \in Threads |-> Resting]
        /\ job' = [w \in Workers |-> [job[w] EXCEPT !.caller = None]]
        /\ UNCHANGED <<rows, recorded, offered, evicted>>
    BY <2>1 DEF ProcessGone
  <2>3. Quiet'
    BY <2>2 DEF Quiet, Resting
  <2>4. \A w \in Workers : job'[w].caller = None
    BY <1>0, <2>2 DEF Job
  <2>5. Linked'
    BY <2>4 DEF Linked
  <2>6. Accounted'
    <3> SUFFICES ASSUME NEW w \in Workers PROVE Account(job'[w], recorded')
      BY DEF Accounted
    <3> QED BY <1>0, <2>2 DEF Account, Job
  <2>7. NothingVanishes'
    BY <2>2 DEF Kept, NothingVanishes
  <2> QED BY <2>3, <2>5, <2>6, <2>7 DEF Kept
<1>3. ASSUME NEW t \in Threads, TimesOut(t) PROVE Kept'
  <2>1. /\ Fail(t) /\ job' = Orphaned(t) /\ UNCHANGED <<queue, recorded, offered, dropped>>
    BY <1>3 DEF TimesOut
  <2>2. \A w \in Workers : \/ job'[w] = [job[w] EXCEPT !.caller = None]
                           \/ job'[w] = job[w] /\ job[w].caller # t
    BY <2>1 DEF Orphaned
  <2> QED BY <1>0, <2>1, <2>2, FailKeeps, KeptMove
<1>4. ASSUME NEW t \in Threads, NEW w \in Workers, Post(t, w) PROVE Kept'
  <2> DEFINE s == [thread[t] EXCEPT !.pc = "wait"]
             j == [step |-> "next", caller |-> t, batch |-> Sent(t),
                   todo |-> Sent(t), rejected |-> {}, cur |-> {}]
  <2>1. /\ thread[t].pc = "post" /\ Goto(t, s) /\ job' = [job EXCEPT ![w] = j]
        /\ UNCHANGED <<queue, rows, recorded, offered, evicted, dropped>>
    BY <1>4 DEF Post, history
  <2>2. /\ thread'[t] = s /\ s.pc = "wait" /\ s.live = thread[t].live /\ s.rows = thread[t].rows
        /\ \A u \in Threads \ {t} : thread'[u] = thread[u]
    BY <1>0, <2>1 DEF Goto, TypeOK, Thread
  <2>3. \A u \in Threads : Sent(u)' = Sent(u)
    BY <2>2 DEF Sent
  <2>4. job'[w] = j /\ \A v \in Workers \ {w} : job'[v] = job[v]
    BY <1>0, <2>1 DEF TypeOK
  <2>5. /\ j.step = "next" /\ j.caller = t /\ j.batch = Sent(t) /\ j.todo = Sent(t)
    OBVIOUS
  <2> HIDE DEF s, j
  <2>6. \A v \in Workers : job[v].caller # None =>
            job[v].caller # t /\ job[v].caller \in Threads
    BY <1>0, <2>1 DEF Kept, Linked, Job
  <2>7. Quiet'
    BY <2>2 DEF Kept, Quiet
  <2>8. Linked'
    <3>1. \A v \in Workers : job'[v].caller # None =>
              /\ job'[v].step # "free"
              /\ thread'[job'[v].caller].pc = "wait"
              /\ job'[v].caller \in Threads
      BY <2>2, <2>4, <2>5, <2>6 DEF Kept, Linked
    <3>2. \A v \in Workers : job'[v].caller # None => job'[v].batch = Sent(job'[v].caller)
      BY <2>4, <2>5, <2>6 DEF Kept, Linked
    <3>3. \A u, v \in Workers : u # v /\ job'[u].caller # None => job'[u].caller # job'[v].caller
      BY <2>4, <2>5, <2>6 DEF Kept, Linked
    <3>4. \A u : Sent(u)' = IF thread'[u].live # {} THEN thread'[u].live ELSE thread'[u].rows
      BY DEF Sent
    <3>5. \A u \in Threads : Sent(u) = IF thread'[u].live # {} THEN thread'[u].live ELSE thread'[u].rows
      BY <2>3, <3>4
    <3> QED BY <3>1, <3>2, <3>3, <3>5 DEF Linked, Sent
  <2>9. Accounted'
    <3>1. Account(j, recorded)
      BY <2>5 DEF Account
    <3> QED BY <1>0, <2>1, <2>4, <3>1 DEF Accounted
  <2>10. NothingVanishes'
    <3>1. \A u \in Threads : thread'[u].live = thread[u].live
      BY <2>2
    <3>2. InMemory' = InMemory
      BY <2>1, <3>1 DEF InMemory
    <3> QED BY <2>1, <3>2 DEF Kept, NothingVanishes
  <2> QED BY <2>7, <2>8, <2>9, <2>10 DEF Kept
<1> QED BY <1>1, <1>2, <1>3, <1>4

LEMMA KeptInit == Init => Kept
BY DEF Init, Kept, Quiet, Linked, Accounted, Account, NothingVanishes, Resting, Free

LEMMA KeptNext == Sound /\ Kept /\ [Next]_vars => Kept'
<1> SUFFICES ASSUME Sound, Kept, [Next]_vars PROVE Kept'
  OBVIOUS
<1>1. CASE UNCHANGED vars
  BY <1>1, KeptSame DEF vars, edge, server, history
<1>2. CASE Next
  BY <1>2, KeptAgent, KeptServer, KeptEnds DEF Next
<1> QED BY <1>1, <1>2

\* A reading the agent took over is in its memory or its buffer, stored on the
\* server, evicted at the cap, or lost with the memory of a process: no answer,
\* no failure and no interleaving of the two threads loses one.
THEOREM ReadingsKept == Spec => []NothingVanishes
<1>1. Kept => NothingVanishes
  BY DEF Kept
<1> QED BY <1>1, SoundInit, SoundNext, KeptInit, KeptNext, PTL DEF Spec

LEMMA RowsKept ==
    ASSUME Sound, Kept, Next
    PROVE  Evs(rows) \subseteq Evs(rows') \cup evicted' \cup recorded'
<1>1. ASSUME NEW t \in Threads, Requeue(t) \/ Fail(t)
      PROVE  Evs(rows) \subseteq Evs(rows') \cup evicted'
  BY <1>1, EnqueueFacts, FailKeeps DEF Requeue, Sound, SoundThread, SoundBatch, TypeOK
<1>2. ASSUME NEW w \in Workers, CallerFails(w)
      PROVE  Evs(rows) \subseteq Evs(rows') \cup evicted'
  BY <1>1, <1>2 DEF CallerFails, Sound, TypeOK, Job
<1>3. ASSUME NEW w \in Workers, Answer(w)
      PROVE  Evs(rows) \subseteq Evs(rows') \cup evicted' \cup recorded'
  BY <1>3, AcceptedKeeps DEF Answer
<1>4. CASE \/ \E t \in Threads : Requeue(t) \/ Unreachable(t) \/ TimesOut(t)
           \/ \E w \in Workers : InsertThrows(w) \/ WorkerDies(w) \/ Answer(w)
  BY <1>1, <1>2, <1>3, <1>4 DEF Unreachable, TimesOut, InsertThrows, WorkerDies
<1>5. CASE rows' = rows
  BY <1>5
<1>6. \/ \E t \in Threads : Requeue(t) \/ Unreachable(t) \/ TimesOut(t)
      \/ \E w \in Workers : InsertThrows(w) \/ WorkerDies(w) \/ Answer(w)
      \/ rows' = rows
  BY DEF Next, Offer, FlushDue, Drain, ChangeReferences, Stop, Exit, Crash, ProcessGone, Start,
         Peek, Post, Check, Insert, InsertDuplicate, Apply, edge
<1> QED BY <1>4, <1>5, <1>6

\* A row leaves the buffer only when the server stored its reading or the cap
\* evicted it: neither a failed request nor an answer that comes late, after
\* another thread changed the table, deletes anything else.
THEOREM RowsLeaveStored == Spec => LeavesOnlyRecorded
<1>1. Sound /\ Kept /\ [Next]_vars
         => [Evs(rows) \ Evs(rows)' \subseteq recorded' \cup evicted']_vars
  <2>1. Evs(rows)' = Evs(rows')
    BY DEF Evs
  <2> QED BY <2>1, RowsKept
<1> QED BY <1>1, SoundInit, SoundNext, KeptInit, KeptNext, PTL DEF Spec, LeavesOnlyRecorded

-----------------------------------------------------------------------------
(* The cap.  The table holds a reading once and stays within its rows      *)
(* because ids tell the rows of every batch apart: LIMIT n deletes n rows  *)
(* then, and neither fewer nor more.                                       *)

\* No two rows of a batch share their id or their reading.
Apart(b) == \A r, s \in b : r.id = s.id \/ r.ev = s.ev => r = s

\* How many rows of a batch come before r.
Rank(b, r) == Cardinality({x \in b : x.id < r.id})

LEMMA RankFacts ==
    ASSUME NEW b \in SUBSET Row, IsFiniteSet(b)
    PROVE  /\ \A r \in b : Rank(b, r) \in Nat /\ Rank(b, r) < Cardinality(b)
           /\ \A r, s \in b : r.id < s.id => Rank(b, r) < Rank(b, s)
<1> DEFINE before(r) == {x \in b : x.id < r.id}
<1>0. \A r \in b : r.id \in Nat
  BY DEF Row
<1>1. \A r : before(r) \in SUBSET b /\ IsFiniteSet(before(r)) /\ Cardinality(before(r)) \in Nat
  BY FS_Subset, FS_CardinalityType
<1>2. Cardinality(b) \in Nat
  BY FS_CardinalityType
<1>3. ASSUME NEW r \in b PROVE Cardinality(before(r)) < Cardinality(b)
  <2>1. r \notin before(r)
    BY <1>0
  <2>2. Cardinality(before(r)) <= Cardinality(b) /\ Cardinality(before(r)) # Cardinality(b)
    BY <1>1, <2>1, FS_Subset
  <2>3. Cardinality(before(r)) \in Nat
    BY <1>1
  <2> HIDE DEF before
  <2> QED BY <1>2, <2>2, <2>3
<1>4. ASSUME NEW r \in b, NEW s \in b, r.id < s.id
      PROVE  Cardinality(before(r)) < Cardinality(before(s))
  <2>1. before(r) \in SUBSET before(s)
    BY <1>0, <1>4
  <2>2. r \in before(s) /\ r \notin before(r)
    BY <1>0, <1>4
  <2>3. Cardinality(before(r)) <= Cardinality(before(s)) /\ Cardinality(before(r)) # Cardinality(before(s))
    BY <1>1, <2>1, <2>2, FS_Subset
  <2> QED BY <1>1, <2>3
<1> QED BY <1>1, <1>3, <1>4 DEF Rank

\* DELETE ... ORDER BY id LIMIT n leaves n rows fewer, or none.
LEMMA OldestLeaves ==
    ASSUME NEW b \in SUBSET Row, IsFiniteSet(b), Apart(b), NEW n \in Nat
    PROVE  Cardinality(b \ Oldest(b, n)) <= IF n <= Cardinality(b) THEN Cardinality(b) - n ELSE 0
<1> DEFINE rest == b \ Oldest(b, n)
           last == Cardinality(b) - 1
           f    == [r \in rest |-> Rank(b, r)]
<1>1. Cardinality(b) \in Nat /\ last \in Int
  BY FS_CardinalityType
<1>2. ASSUME NEW r \in rest PROVE Rank(b, r) \in n..last
  <2>1. r \in b /\ ~(Rank(b, r) < n)
    BY DEF Oldest, Rank
  <2> QED BY <1>1, <2>1, RankFacts
<1>3. ASSUME NEW r \in rest, NEW s \in rest, Rank(b, r) = Rank(b, s) PROVE r = s
  <2>1. r \in b /\ s \in b /\ r.id \in Nat /\ s.id \in Nat
    BY DEF Row
  <2>2. Rank(b, r) \in Nat /\ Rank(b, s) \in Nat
    BY <2>1, RankFacts
  <2>3. ~(r.id < s.id) /\ ~(s.id < r.id)
    BY <1>3, <2>1, <2>2, RankFacts
  <2>4. r.id = s.id
    BY <2>1, <2>3
  <2> QED BY <2>1, <2>4 DEF Apart
<1>4. f \in Injection(rest, n..last)
  BY <1>2, <1>3 DEF Injection, IsInjective
<1>5. /\ IsFiniteSet(n..last)
      /\ Cardinality(n..last) = IF n > last THEN 0 ELSE last - n + 1
  <2>1. n \in Int
    OBVIOUS
  <2> HIDE DEF last, rest
  <2> QED BY <1>1, <2>1, FS_Interval
<1>6. Cardinality(rest) <= Cardinality(n..last) /\ IsFiniteSet(rest)
  BY <1>4, <1>5, FS_Injection
<1>7. Cardinality(rest) \in Nat
  BY <1>6, FS_CardinalityType
<1> QED BY <1>1, <1>5, <1>6, <1>7

\* The ids that enqueue hands out are new and all different.
LEMMA NewRowsApart ==
    ASSUME NEW batch \in SUBSET Row, IsFiniteSet(batch), Apart(batch), nextId \in Nat
    PROVE  /\ Apart(NewRows(batch))
           /\ \A r \in NewRows(batch) :
                 r.id >= nextId /\ r.id < nextId + Cardinality(NewRows(batch))
<1> DEFINE new    == {r \in batch : r.ev \notin Evs(rows)}
           row(r) == [id |-> nextId + Rank(new, r), ev |-> r.ev]
           add    == [r \in new |-> row(r)]
<1>1. new \in SUBSET Row /\ IsFiniteSet(new) /\ Apart(new)
  BY FS_Subset DEF Apart
<1>2. NewRows(batch) = {row(r) : r \in new}
  BY DEF NewRows, Rank
<1>3. \A r \in new : Rank(new, r) \in Nat /\ Rank(new, r) < Cardinality(new)
  BY <1>1, RankFacts
<1>4. ASSUME NEW r \in new, NEW s \in new, row(r).id = row(s).id \/ row(r).ev = row(s).ev
      PROVE  r = s
  <2>1. CASE r.ev = s.ev
    BY <1>1, <2>1 DEF Apart
  <2>2. CASE Rank(new, r) = Rank(new, s)
    <3>1. r.id \in Nat /\ s.id \in Nat
      BY <1>1 DEF Row
    <3>2. ~(r.id < s.id) /\ ~(s.id < r.id)
      BY <1>1, <1>3, <2>2, RankFacts
    <3>3. r.id = s.id
      BY <3>1, <3>2
    <3> QED BY <1>1, <3>3 DEF Apart
  <2>3. row(r).id = nextId + Rank(new, r) /\ row(s).id = nextId + Rank(new, s)
        /\ row(r).ev = r.ev /\ row(s).ev = s.ev
    OBVIOUS
  <2>4. Rank(new, r) \in Nat /\ Rank(new, s) \in Nat
    BY <1>3
  <2> HIDE DEF row, new
  <2>5. r.ev = s.ev \/ Rank(new, r) = Rank(new, s)
    BY <1>4, <2>3, <2>4
  <2> QED BY <2>1, <2>2, <2>5
<1>5. IsFiniteSet(NewRows(batch))
  BY NewRowsFacts
<1>6. Cardinality(new) <= Cardinality(NewRows(batch))
  <2>1. \A r \in new : add[r] = row(r)
    OBVIOUS
  <2> HIDE DEF row, new
  <2>2. add \in [new -> NewRows(batch)]
    BY <1>2
  <2>3. \A r, s \in new : add[r] = add[s] => r = s
    BY <1>4, <2>1
  <2>4. add \in Injection(new, NewRows(batch))
    BY <2>2, <2>3 DEF Injection, IsInjective
  <2> QED BY <1>5, <2>4, FS_Injection
<1>7. Cardinality(new) \in Nat /\ Cardinality(NewRows(batch)) \in Nat
  BY <1>1, <1>5, FS_CardinalityType
<1>8. ASSUME NEW r \in new
      PROVE  row(r).id >= nextId /\ row(r).id < nextId + Cardinality(NewRows(batch))
  <2>1. row(r).id = nextId + Rank(new, r) /\ Rank(new, r) \in Nat
        /\ Rank(new, r) < Cardinality(new)
    BY <1>3
  <2> HIDE DEF row, new
  <2> QED BY <1>6, <1>7, <2>1
<1> HIDE DEF row, new
<1>9. Apart(NewRows(batch))
  BY <1>2, <1>4 DEF Apart
<1> QED BY <1>2, <1>8, <1>9

\* The table as every critical section leaves it.
Table ==
    /\ Apart(rows) /\ Cardinality(rows) <= MaxRows
    /\ \A r \in rows : r.id < nextId

LEMMA EnqueueTable ==
    ASSUME NEW batch, SoundBatch(batch, offered), Apart(batch), Sound, Table, Enqueue(batch)
    PROVE  Table'
<1> DEFINE new  == NewRows(batch)
           all  == rows \cup new
           drop == Excess(new)
<1>1. /\ rows \in SUBSET Row /\ IsFiniteSet(rows) /\ nextId \in Nat
      /\ batch \in SUBSET Row /\ IsFiniteSet(batch)
  BY DEF Sound, SoundBatch, TypeOK
<1>2. /\ new \in SUBSET Row /\ IsFiniteSet(new) /\ Evs(new) \cap Evs(rows) = {}
      /\ Apart(new)
      /\ \A r \in new : r.id >= nextId /\ r.id < nextId + Cardinality(new)
  BY <1>1, NewRowsFacts, NewRowsApart
<1>3. /\ rows' = all \ drop /\ nextId' = nextId + Cardinality(new)
  BY DEF Enqueue
<1> HIDE DEF new
<1>4. Cardinality(new) \in Nat
  BY <1>2, FS_CardinalityType
<1>5. all \in SUBSET Row /\ IsFiniteSet(all) /\ Cardinality(all) \in Nat
  BY <1>1, <1>2, FS_Union, FS_CardinalityType
<1>6. Apart(all)
  <2>1. \A r \in rows, s \in new : r.ev # s.ev /\ r.id # s.id
    <3> SUFFICES ASSUME NEW r \in rows, NEW s \in new PROVE r.ev # s.ev /\ r.id # s.id
      OBVIOUS
    <3>1. r.ev # s.ev
      BY <1>2 DEF Evs
    <3>2. r.id < nextId /\ s.id >= nextId /\ r.id \in Nat /\ s.id \in Nat
      BY <1>1, <1>2 DEF Table, Row
    <3> QED BY <1>1, <3>1, <3>2
  <2> QED BY <1>2, <2>1 DEF Apart, Table
<1>7. \A r \in all : r.id < nextId'
  <2> SUFFICES ASSUME NEW r \in all PROVE r.id < nextId + Cardinality(new)
    BY <1>3
  <2>1. CASE r \in rows
    <3>1. r.id < nextId /\ r.id \in Nat
      BY <1>1, <2>1 DEF Table, Row
    <3> QED BY <1>1, <1>4, <3>1
  <2>2. CASE r \in new
    BY <1>2, <2>2
  <2> QED BY <2>1, <2>2
<1>8. Cardinality(rows') <= MaxRows
  <2>0. MaxRows \in Nat
    BY EdgeAssumption
  <2>1. CASE new = {}
    <3>1. rows' = rows
      BY <1>3, <2>1 DEF Excess
    <3> QED BY <3>1 DEF Table
  <2>2. CASE new # {} /\ Cardinality(all) > MaxRows
    <3>1. drop = Oldest(all, Cardinality(all) - MaxRows)
      BY <2>2 DEF Excess
    <3> HIDE DEF all, drop
    <3>2. Cardinality(all) - MaxRows \in Nat /\ Cardinality(all) - MaxRows <= Cardinality(all)
      BY <1>5, <2>0, <2>2
    <3>3. Cardinality(all \ drop) <= Cardinality(all) - (Cardinality(all) - MaxRows)
      BY <1>5, <1>6, <3>1, <3>2, OldestLeaves
    <3> QED BY <1>3, <1>5, <2>0, <3>3
  <2>3. CASE new # {} /\ ~(Cardinality(all) > MaxRows)
    <3>1. Cardinality(rows') <= Cardinality(all) /\ Cardinality(rows') \in Nat
      BY <1>3, <1>5, FS_Subset, FS_CardinalityType
    <3> HIDE DEF all
    <3> QED BY <1>5, <2>0, <2>3, <3>1
  <2> QED BY <2>1, <2>2, <2>3
<1>9. Apart(rows')
  BY <1>3, <1>6 DEF Apart
<1>10. \A r \in rows' : r.id < nextId'
  BY <1>3, <1>7
<1> QED BY <1>8, <1>9, <1>10 DEF Table, Apart

ApartThread(s) == Apart(s.live) /\ Apart(s.rows) /\ Apart(s.back)

\* A live batch comes from the queue, where a reading is its own id.
InOrder ==
    /\ \A r \in queue : r.id = r.ev
    /\ \A t \in Threads : ApartThread(thread[t])
    /\ \A w \in Workers : Apart(job[w].batch)

LEMMA ApartParts ==
    ASSUME NEW b, Apart(b)
    PROVE  /\ \A c : c \subseteq b => Apart(c)
           /\ \A n : Apart(Oldest(b, n))
           /\ Apart({})
           /\ ApartThread(Resting)
           /\ ApartThread(Submitting(b))
           /\ \A n : ApartThread(Flushing(n))
<1>1. /\ \A c : c \subseteq b => Apart(c)
      /\ Apart({})
  BY DEF Apart
<1>2. \A n : Oldest(b, n) \subseteq b
  BY DEF Oldest
<1>3. Resting.live = {} /\ Resting.rows = {} /\ Resting.back = {}
  BY DEF Resting
<1>4. \A n : Flushing(n).live = {} /\ Flushing(n).rows = {} /\ Flushing(n).back = {}
  BY DEF Flushing, Resting
<1>5. /\ Submitting(b).live = b
      /\ Submitting(b).rows = {} /\ Submitting(b).back = {}
  BY DEF Submitting, Resting
<1> QED BY <1>1, <1>2, <1>3, <1>4, <1>5 DEF ApartThread

LEMMA QueueApart ==
    ASSUME NEW q \in SUBSET Row, \A r \in q : r.id = r.ev
    PROVE  Apart(q)
BY DEF Apart, Row

\* The table changes in a critical section of enqueue, or it loses rows.
LEMMA TableStep ==
    ASSUME Sound, Table, InOrder, Next
    PROVE  Table'
<1>1. ASSUME rows' \subseteq rows, nextId' = nextId PROVE Table'
  <2>1. IsFiniteSet(rows) /\ nextId \in Nat /\ MaxRows \in Nat
    BY EdgeAssumption DEF Sound, SoundBatch, TypeOK
  <2>2. /\ Cardinality(rows') <= Cardinality(rows)
        /\ Cardinality(rows') \in Nat /\ Cardinality(rows) \in Nat
    BY <1>1, <2>1, FS_Subset, FS_CardinalityType
  <2>3. Cardinality(rows') <= MaxRows
    BY <2>1, <2>2 DEF Table
  <2>4. Apart(rows')
    BY <1>1 DEF Table, Apart
  <2> QED BY <1>1, <2>3, <2>4 DEF Table, Apart
<1>2. ASSUME NEW t \in Threads, Fail(t) PROVE Table'
  <2>1. SoundBatch(thread[t].live, offered) /\ Apart(thread[t].live)
    BY DEF Sound, SoundThread, InOrder, ApartThread
  <2> QED BY <1>1, <1>2, <2>1, EnqueueTable DEF Fail
<1>3. ASSUME NEW w \in Workers, CallerFails(w) PROVE Table'
  <2>1. job[w].caller # None => job[w].caller \in Threads
    BY DEF Sound, SoundJob, Job
  <2> QED BY <1>1, <1>2, <1>3, <2>1 DEF CallerFails
<1>4. ASSUME NEW t \in Threads, Requeue(t) PROVE Table'
  <2>1. SoundBatch(thread[t].back, offered) /\ Apart(thread[t].back)
    BY DEF Sound, SoundThread, InOrder, ApartThread
  <2> QED BY <1>4, <2>1, EnqueueTable DEF Requeue
<1>5. ASSUME NEW w \in Workers, Answer(w) PROVE Table'
  <2>1. SoundBatch(job[w].rejected, offered) /\ Apart(job[w].rejected)
    <3>1. SoundJob(job[w], offered) /\ Apart(job[w].batch)
      BY DEF Sound, InOrder
    <3> QED BY <3>1, ApartParts DEF SoundJob
  <2>2. CASE job[w].caller = None
    BY <1>1, <1>5, <2>2 DEF Answer
  <2>3. CASE job[w].caller # None
    <3>1. Accepted(job[w].caller, job[w].rejected)
      BY <1>5, <2>3 DEF Answer
    <3>2. \/ Enqueue(job[w].rejected)
          \/ rows' \subseteq rows /\ nextId' = nextId
      BY <3>1 DEF Accepted
    <3> QED BY <1>1, <2>1, <3>2, EnqueueTable
  <2> QED BY <2>2, <2>3
<1>6. CASE \/ \E t \in Threads : Requeue(t) \/ Unreachable(t) \/ TimesOut(t)
           \/ \E w \in Workers : InsertThrows(w) \/ WorkerDies(w) \/ Answer(w)
  BY <1>2, <1>3, <1>4, <1>5, <1>6 DEF Unreachable, TimesOut, InsertThrows, WorkerDies
<1>7. \/ \E t \in Threads : Requeue(t) \/ Unreachable(t) \/ TimesOut(t)
      \/ \E w \in Workers : InsertThrows(w) \/ WorkerDies(w) \/ Answer(w)
      \/ rows' = rows /\ nextId' = nextId
  BY DEF Next, Offer, FlushDue, Drain, ChangeReferences, Stop, Exit, Crash, ProcessGone, Start,
         Peek, Post, Check, Insert, InsertDuplicate, Apply, edge
<1> QED BY <1>1, <1>6, <1>7

\* A thread moves to a batch whose rows are apart, and no other one changes.
LEMMA InOrderMove ==
    ASSUME Sound, InOrder, NEW t \in Threads, NEW s, Goto(t, s), ApartThread(s),
           \A r \in queue' : r.id = r.ev,
           \A w \in Workers : job'[w].batch = job[w].batch \/ job'[w].batch = {}
    PROVE  InOrder'
<1>1. thread'[t] = s /\ \A u \in Threads \ {t} : thread'[u] = thread[u]
  BY DEF Goto, Sound, TypeOK
<1>2. \A u \in Threads : ApartThread(thread'[u])
  BY <1>1 DEF InOrder
<1>3. \A w \in Workers : Apart(job'[w].batch)
  BY DEF InOrder, Apart
<1> QED BY <1>2, <1>3 DEF InOrder, Apart, ApartThread

LEMMA InOrderNext ==
    ASSUME Sound, Table, InOrder, Next
    PROVE  InOrder'
<1>0. /\ TypeOK /\ queue \in SUBSET Row /\ Apart(queue) /\ Apart(rows) /\ Apart({})
      /\ \A r \in queue : r.id = r.ev
      /\ job \in [Workers -> Job] /\ thread \in [Threads -> Thread]
  BY QueueApart DEF Sound, TypeOK, Table, InOrder, Apart
<1>1. Free.batch = {}
  BY DEF Free
<1>2. ApartThread(Resting) /\ \A n : ApartThread(Flushing(n))
  BY <1>0, ApartParts
<1>3. ASSUME job' = job \/ \E w \in Workers : job' = [job EXCEPT ![w] = Free]
      PROVE  \A w \in Workers : job'[w].batch = job[w].batch \/ job'[w].batch = {}
  BY <1>0, <1>1, <1>3
<1>4. ASSUME NEW e \in Events, Offer(e) PROVE InOrder'
  <2> DEFINE q == queue \cup {[id |-> e, ev |-> e]}
  <2>1. Receiver \in Threads /\ e \in Nat
    BY EdgeAssumption
  <2>2. PICK batch : /\ batch \subseteq q /\ queue' = q \ batch
                     /\ Goto(Receiver, Submitting(batch))
    <3>1. PICK due \in BOOLEAN :
            LET batch == IF due THEN Oldest(q, MaxBatch) ELSE {} IN
            /\ queue' = q \ batch
            /\ Goto(Receiver, Submitting(batch))
      BY <1>4 DEF Offer
    <3>2. Oldest(q, MaxBatch) \subseteq q
      BY DEF Oldest
    <3> QED BY <3>1, <3>2
  <2>3. q \in SUBSET Row /\ \A r \in q : r.id = r.ev
    BY <1>0, <2>1 DEF Row
  <2>4. Apart(batch)
    BY <2>2, <2>3, QueueApart, ApartParts
  <2>5. \A r \in queue' : r.id = r.ev
    BY <2>2, <2>3
  <2>6. job' = job
    BY <1>4 DEF Offer, server
  <2> QED BY <1>3, <2>1, <2>2, <2>4, <2>5, <2>6, ApartParts, InOrderMove
<1>5. ASSUME MainLoop \in Threads, FlushDue \/ Stop PROVE InOrder'
  <2>1. /\ queue' = queue \ Oldest(queue, MaxBatch)
        /\ Goto(MainLoop, Submitting(Oldest(queue, MaxBatch)))
        /\ job' = job
    BY <1>5 DEF FlushDue, Stop, server
  <2>2. Apart(Oldest(queue, MaxBatch))
    BY <1>0, ApartParts
  <2> QED BY <1>0, <1>3, <1>5, <2>1, <2>2, ApartParts, InOrderMove
<1>6. ASSUME UNCHANGED <<queue, thread>>,
             \A w \in Workers : job'[w].batch = job[w].batch \/ job'[w].batch = {}
      PROVE  InOrder'
  <2>1. \A w \in Workers : Apart(job'[w].batch)
    BY <1>0, <1>6 DEF InOrder
  <2> QED BY <1>6, <2>1 DEF InOrder, Apart, ApartThread
<1>7. ASSUME NEW t \in Threads, Peek(t) \/ Requeue(t) PROVE InOrder'
  <2>1. /\ queue' = queue /\ job' = job
    BY <1>7 DEF Peek, Requeue, server
  <2>2. ApartThread([thread[t] EXCEPT !.pc = "post", !.rows = Oldest(rows, MaxBatch)])
    <3>1. Apart(Oldest(rows, MaxBatch)) /\ ApartThread(thread[t]) /\ thread[t] \in Thread
      BY <1>0, ApartParts DEF InOrder
    <3> QED BY <3>1 DEF ApartThread, Thread
  <2>3. PICK s : Goto(t, s) /\ ApartThread(s)
    BY <1>2, <1>7, <2>2 DEF Peek, Requeue
  <2> QED BY <1>0, <1>3, <2>1, <2>3, InOrderMove
<1>8. ASSUME NEW t \in Threads, Unreachable(t) \/ TimesOut(t) PROVE InOrder'
  <2>1. Goto(t, Resting) /\ queue' = queue
    BY <1>8 DEF Unreachable, TimesOut, Fail
  <2>2. \A w \in Workers : job'[w].batch = job[w].batch
    BY <1>0, <1>8 DEF Unreachable, TimesOut, Orphaned, server, Job
  <2> QED BY <1>0, <1>2, <2>1, <2>2, InOrderMove
<1>9. ASSUME NEW w \in Workers, InsertThrows(w) \/ WorkerDies(w) PROVE InOrder'
  <2>1. CallerFails(w) /\ job' = [job EXCEPT ![w] = Free] /\ queue' = queue
    BY <1>9 DEF InsertThrows, WorkerDies
  <2>2. CASE job[w].caller = None
    BY <1>3, <1>6, <2>1, <2>2 DEF CallerFails
  <2>3. CASE job[w].caller # None
    <3>1. job[w].caller \in Threads /\ Goto(job[w].caller, Resting)
      BY <1>0, <2>1, <2>3 DEF CallerFails, Fail, Job
    <3> QED BY <1>0, <1>2, <1>3, <2>1, <3>1, InOrderMove
  <2> QED BY <2>2, <2>3
<1>10. ASSUME NEW w \in Workers, Answer(w) PROVE InOrder'
  <2>1. job' = [job EXCEPT ![w] = Free] /\ queue' = queue
    BY <1>10 DEF Answer
  <2>2. CASE job[w].caller = None
    BY <1>3, <1>6, <1>10, <2>1, <2>2 DEF Answer
  <2>3. CASE job[w].caller # None
    <3> DEFINE t   == job[w].caller
               rej == job[w].rejected
               s   == [thread[t] EXCEPT !.pc = "requeue", !.rows = {}, !.back = rej]
    <3>1. t \in Threads /\ Accepted(t, rej)
      BY <1>0, <1>10, <2>3 DEF Answer, Job
    <3>2. Apart(rej)
      <4>1. SoundJob(job[w], offered) /\ Apart(job[w].batch)
        BY DEF Sound, InOrder
      <4> QED BY <4>1, ApartParts DEF SoundJob
    <3>3. thread[t] \in Thread /\ ApartThread(thread[t])
      BY <1>0, <3>1 DEF InOrder
    <3> HIDE DEF t, rej
    <3>4. ApartThread(s)
      BY <1>0, <3>2, <3>3 DEF ApartThread, Thread
    <3> HIDE DEF s
    <3>5. \E x : Goto(t, x) /\ ApartThread(x)
      BY <1>2, <3>1, <3>4 DEF Accepted, s
    <3> QED BY <1>0, <1>3, <2>1, <3>1, <3>5, InOrderMove
  <2> QED BY <2>2, <2>3
<1>11. ASSUME Exit \/ Crash PROVE InOrder'
  <2>1. ProcessGone
    BY <1>11 DEF Exit, Crash
  <2>2. /\ queue' = {} /\ \A t \in Threads : thread'[t] = Resting
        /\ \A w \in Workers : job'[w].batch = job[w].batch
    BY <1>0, <2>1 DEF ProcessGone, Job
  <2> QED BY <1>2, <2>2 DEF InOrder, Apart, ApartThread
<1>12. ASSUME NEW t \in Threads, NEW w \in Workers, Post(t, w) PROVE InOrder'
  <2> DEFINE s == [thread[t] EXCEPT !.pc = "wait"]
  <2>1. /\ queue' = queue /\ thread' = [thread EXCEPT ![t] = s]
        /\ job' = [job EXCEPT ![w] = [step |-> "next", caller |-> t, batch |-> Sent(t),
                                      todo |-> Sent(t), rejected |-> {}, cur |-> {}]]
    BY <1>12 DEF Post, Goto
  <2>2. ApartThread(thread[t]) /\ thread[t] \in Thread
    BY <1>0 DEF InOrder
  <2>3. ApartThread(s)
    BY <2>2 DEF ApartThread, Thread
  <2>4. Apart(Sent(t))
    BY <2>2 DEF ApartThread, Sent
  <2> HIDE DEF s
  <2>5. \A u \in Threads : ApartThread(thread'[u])
    BY <1>0, <2>1, <2>3 DEF InOrder
  <2>6. \A v \in Workers : Apart(job'[v].batch)
    BY <1>0, <2>1, <2>4 DEF InOrder
  <2> QED BY <1>0, <2>1, <2>5, <2>6 DEF InOrder, Apart, ApartThread
<1>13. ASSUME NEW w \in Workers, Check(w) \/ Insert(w) \/ InsertDuplicate(w) \/ Apply(w)
       PROVE  InOrder'
  <2>1. UNCHANGED <<queue, thread>>
    BY <1>13 DEF Check, Insert, InsertDuplicate, Apply, edge
  <2>2. \A v \in Workers : job'[v].batch = job[v].batch
    <3>1. CASE Check(w)
      BY <1>0, <3>1 DEF Check, Job
    <3>2. \A step, cur : Process(w, step, cur) => \A v \in Workers : job'[v].batch = job[v].batch
      BY <1>0 DEF Process, Job
    <3>3. CASE Insert(w) \/ InsertDuplicate(w) \/ Apply(w)
      BY <3>2, <3>3 DEF Insert, InsertDuplicate, Apply
    <3> QED BY <1>13, <3>1, <3>3
  <2> QED BY <1>6, <2>1, <2>2
<1>14. ASSUME Drain PROVE InOrder'
  BY <1>0, <1>2, <1>3, <1>14, InOrderMove DEF Drain, server
<1>15. ASSUME \/ ChangeReferences \/ Start \/ (Stop /\ MainLoop \notin Threads) PROVE InOrder'
  BY <1>3, <1>6, <1>15 DEF ChangeReferences, Start, Stop, edge, server
<1> QED BY <1>4, <1>5, <1>7, <1>8, <1>9, <1>10, <1>11, <1>12, <1>13, <1>14, <1>15
        DEF Next, FlushDue

LEMMA TableInit == Init => Table /\ InOrder
<1> SUFFICES ASSUME Init PROVE Table /\ InOrder
  OBVIOUS
<1>1. Table
  BY FS_EmptySet, EdgeAssumption DEF Init, Table, Apart
<1>2. Resting.live = {} /\ Resting.rows = {} /\ Resting.back = {} /\ Free.batch = {}
  BY DEF Resting, Free
<1>3. InOrder
  BY <1>2 DEF Init, InOrder, ApartThread, Apart
<1> QED BY <1>1, <1>3

LEMMA TableNext == Sound /\ Table /\ InOrder /\ [Next]_vars => Table' /\ InOrder'
<1> SUFFICES ASSUME Sound, Table, InOrder, [Next]_vars PROVE Table' /\ InOrder'
  OBVIOUS
<1>1. CASE UNCHANGED vars
  BY <1>1 DEF vars, edge, server, Table, InOrder, Apart, ApartThread
<1>2. CASE Next
  BY <1>2, TableStep, InOrderNext
<1> QED BY <1>1, <1>2

\* The outage buffer never holds a reading twice nor more rows than its cap,
\* whatever the two threads enqueue, put back and delete in between.
THEOREM BufferCapped == Spec => []BufferWithinCap
<1>1. Table => BufferWithinCap
  BY DEF Table, Apart, BufferWithinCap
<1> QED BY <1>1, SoundInit, SoundNext, TableInit, TableNext, PTL DEF Spec

-----------------------------------------------------------------------------
(* A graceful stop.  The RFID agent's final flush_all leaves what it does  *)
(* not take marked late; the gas agent sends every reading at once, so its *)
(* queue is empty whenever its thread rests.                               *)

\* How the agents run: two threads, or one that batches nothing.
Batching == MainLoop \in Threads \/ (SizeDue = 1 /\ MaxBatch > 0)

LeftLate ==
    /\ running = "stopping" /\ MainLoop \in Threads => Evs(queue) \subseteq late
    /\ MainLoop \notin Threads => queue = {}

LEMMA LeftLateNext ==
    ASSUME Batching, TypeOK, LeftLate, [Next]_vars
    PROVE  LeftLate'
<1>1. ASSUME UNCHANGED <<queue, late>>, running' = running \/ running' # "stopping"
      PROVE  LeftLate'
  BY <1>1 DEF LeftLate, Evs
<1>2. ASSUME NEW e \in Events, Offer(e) PROVE LeftLate'
  <2> DEFINE q == queue \cup {[id |-> e, ev |-> e]}
  <2>1. PICK due \in {TRUE, Cardinality(q) >= SizeDue} :
            queue' = q \ (IF due THEN Oldest(q, MaxBatch) ELSE {})
    BY <1>2 DEF Offer
  <2>2. running' = running /\ late' = IF running = "stopping" THEN late \cup {e} ELSE late
    BY <1>2 DEF Offer
  <2>3. CASE MainLoop \in Threads
    <3>1. queue' \subseteq q
      BY <2>1
    <3>2. Evs(queue') \subseteq Evs(queue) \cup {e}
      BY <3>1 DEF Evs
    <3> QED BY <2>2, <2>3, <3>2 DEF LeftLate
  <2>4. CASE MainLoop \notin Threads
    <3>1. q = {[id |-> e, ev |-> e]} /\ SizeDue = 1 /\ MaxBatch > 0 /\ MaxBatch \in Nat
      BY <2>4, EdgeAssumption DEF LeftLate, Batching
    <3>2. Cardinality(q) = 1
      BY <3>1, FS_Singleton
    <3>3. due = TRUE
      <4>1. Cardinality(q) >= SizeDue
        <5> HIDE DEF q
        <5> QED BY <3>1, <3>2
      <4>2. due = TRUE \/ due = (Cardinality(q) >= SizeDue)
        BY <2>1, Zenon
      <4> QED BY <4>1, <4>2, Zenon
    <3>4. Oldest(q, MaxBatch) = q
      <4>1. \A r \in q : {x \in q : x.id < r.id} = {}
        BY <3>1, EdgeAssumption
      <4>2. Cardinality({}) = 0
        BY FS_EmptySet
      <4> HIDE DEF q
      <4> QED BY <3>1, <4>1, <4>2 DEF Oldest
    <3> QED BY <2>1, <2>4, <3>3, <3>4 DEF LeftLate
  <2> QED BY <2>3, <2>4
<1>3. ASSUME FlushDue PROVE LeftLate'
  <2>1. MainLoop \in Threads /\ running' = "up"
    BY <1>3 DEF FlushDue
  <2> QED BY <2>1 DEF LeftLate
<1>4. ASSUME Stop PROVE LeftLate'
  <2>1. CASE MainLoop \in Threads
    BY <1>4, <2>1 DEF Stop, LeftLate, Evs
  <2>2. CASE MainLoop \notin Threads
    BY <1>4, <2>2 DEF Stop, LeftLate
  <2> QED BY <2>1, <2>2
<1>5. ASSUME Exit \/ Crash PROVE LeftLate'
  BY <1>5 DEF Exit, Crash, ProcessGone, LeftLate
<1>6. ASSUME \/ Drain \/ ChangeReferences \/ Start
             \/ \E t \in Threads : Peek(t) \/ Requeue(t) \/ Unreachable(t) \/ TimesOut(t)
             \/ \E t \in Threads, w \in Workers : Post(t, w)
             \/ UNCHANGED vars
      PROVE  LeftLate'
  BY <1>1, <1>6 DEF Drain, ChangeReferences, Start, Peek, Requeue, Unreachable, TimesOut, Post,
                    vars, edge, history
<1>7. ASSUME NEW w \in Workers,
             \/ Check(w) \/ Insert(w) \/ InsertDuplicate(w) \/ InsertThrows(w)
             \/ Apply(w) \/ Answer(w) \/ WorkerDies(w)
      PROVE  LeftLate'
  BY <1>1, <1>7 DEF Check, Insert, InsertDuplicate, InsertThrows, Apply, Answer, WorkerDies,
                    edge, history
<1> QED BY <1>2, <1>3, <1>4, <1>5, <1>6, <1>7 DEF Next

\* Whatever the agent still holds when it exits after a SIGTERM came in after
\* the final flush_all, or was left over by it: the other thread's batch, which
\* is joined before the exit, is never among it.
THEOREM StopIsGraceful ==
    ASSUME Batching
    PROVE  Spec => StopLosesOnlyLate
<1>1. Init => LeftLate
  BY DEF Init, LeftLate, Evs
<1>2. Sound /\ LeftLate /\ [Next]_vars => LeftLate'
  BY LeftLateNext DEF Sound
<1>3. Sound /\ Kept /\ LeftLate /\ [Next]_vars
         => [running = "stopping" /\ running' = "down" /\ ends' = ends
             => dropped' \ dropped \subseteq late]_vars
  <2> SUFFICES ASSUME Sound, Kept, LeftLate, Next, running = "stopping", running' = "down",
                      ends' = ends
               PROVE  dropped' \ dropped \subseteq late
    OBVIOUS
  <2>1. Exit
    <3>1. ends \in Nat
      BY DEF Sound, TypeOK
    <3>2. ~Crash
      BY <3>1 DEF Crash
    <3> QED BY <3>2 DEF Next, Offer, FlushDue, Drain, ChangeReferences, Stop, Start, Peek, Requeue,
                        Unreachable, TimesOut, Post, Check, Insert, InsertDuplicate, InsertThrows,
                        Apply, Answer, WorkerDies, edge
  <2>2. \A t \in Threads : Evs(thread[t].live) = {}
    <3>1. \A t \in Threads : thread[t].live = {}
      BY <2>1 DEF Exit, Kept, Quiet
    <3> QED BY <3>1 DEF Evs
  <2>3. InMemory = Evs(queue)
    BY <2>2 DEF InMemory
  <2>4. dropped' \ dropped \subseteq Evs(queue)
    BY <2>1, <2>3 DEF Exit, ProcessGone
  <2>5. Evs(queue) \subseteq late
    BY DEF LeftLate, Evs
  <2> QED BY <2>4, <2>5
<1> QED BY <1>1, <1>2, <1>3, SoundInit, SoundNext, KeptInit, KeptNext, PTL
        DEF Spec, StopLosesOnlyLate

-----------------------------------------------------------------------------
(* Oldest first.  One thread keeps the table in the order of the readings: *)
(* what it sends live is newer than the table, and what waits in the queue *)
(* is newer still.  Two threads may buffer their batches the  *)
(* other way round.                                                        *)

LEMMA OldestOlder ==
    ASSUME NEW b \in SUBSET Row, IsFiniteSet(b), Apart(b), NEW n \in Nat
    PROVE  \A r \in Oldest(b, n) : \A x \in b \ Oldest(b, n) : r.id < x.id
<1> SUFFICES ASSUME NEW r \in Oldest(b, n), NEW x \in b \ Oldest(b, n) PROVE r.id < x.id
  OBVIOUS
<1>1. r \in b /\ Rank(b, r) < n /\ ~(Rank(b, x) < n) /\ r # x
  BY DEF Oldest, Rank
<1>2. r.id \in Nat /\ x.id \in Nat /\ r.id # x.id
  BY <1>1 DEF Row, Apart
<1>3. Rank(b, r) \in Nat /\ Rank(b, x) \in Nat
  BY <1>1, RankFacts
<1>4. ~(x.id < r.id)
  BY <1>1, <1>3, RankFacts
<1> QED BY <1>2, <1>4

LEMMA NewRowsOrdered ==
    ASSUME NEW batch \in SUBSET Row, IsFiniteSet(batch), \A r \in batch : r.id = r.ev,
           nextId \in Nat
    PROVE  \A x, y \in NewRows(batch) : x.id < y.id => x.ev < y.ev
<1> DEFINE new    == {r \in batch : r.ev \notin Evs(rows)}
           row(r) == [id |-> nextId + Rank(new, r), ev |-> r.ev]
<1>1. new \in SUBSET Row /\ IsFiniteSet(new) /\ \A r \in new : r.id = r.ev /\ r.id \in Nat
  BY FS_Subset DEF Row
<1>2. NewRows(batch) = {row(r) : r \in new}
  BY DEF NewRows, Rank
<1>3. \A r \in new : Rank(new, r) \in Nat
  BY <1>1, RankFacts
<1>4. ASSUME NEW r \in new, NEW s \in new, row(r).id < row(s).id
      PROVE  row(r).ev < row(s).ev
  <2>1. Rank(new, r) < Rank(new, s)
    BY <1>3, <1>4
  <2>2. ~(s.id < r.id) /\ s.id # r.id
    <3>1. Rank(new, r) \in Nat /\ Rank(new, s) \in Nat
      BY <1>3
    <3>2. ~(s.id < r.id)
      BY <1>1, <2>1, <3>1, RankFacts
    <3>3. s.id = r.id => Rank(new, r) = Rank(new, s)
      BY DEF Rank
    <3> QED BY <2>1, <3>1, <3>2, <3>3
  <2>3. r.id < s.id
    BY <1>1, <2>2
  <2> QED BY <1>1, <2>3
<1> HIDE DEF row, new
<1> QED BY <1>2, <1>4

InSequence(b) == \A r, s \in b : r.id < s.id => r.ev < s.ev
Before(b, c)  == \A r \in b : \A s \in c : r.ev < s.ev

\* The table, the thread's batch and the queue, one after the other.
OneThread == LET s == thread[Receiver] IN
    /\ InSequence(rows) /\ Before(rows, s.live) /\ Before(rows \cup s.live, queue)
    /\ \A r \in s.live : r.id = r.ev
    /\ s.rows \subseteq rows /\ s.back \subseteq rows
    /\ \A x \in offered : \A y \in Events \ offered : x < y

EvictsOldest == \A e \in evicted' \ evicted : \A r \in rows' : e < r.ev

\* A batch newer than the table, or a part of the table, goes into it.
LEMMA EnqueueOneThread ==
    ASSUME NEW batch, SoundBatch(batch, offered), Sound, Table, InSequence(rows), Enqueue(batch),
           \/ Before(rows, batch) /\ \A r \in batch : r.id = r.ev
           \/ batch \subseteq rows
    PROVE  /\ EvictsOldest /\ InSequence(rows')
           /\ \A r \in rows' : r \in rows \/ r.ev \in Evs(batch)
           /\ batch \subseteq rows => rows' = rows
<1> DEFINE new  == NewRows(batch)
           all  == rows \cup new
           drop == Excess(new)
<1>1. /\ rows \in SUBSET Row /\ IsFiniteSet(rows) /\ nextId \in Nat
      /\ batch \in SUBSET Row /\ IsFiniteSet(batch)
  BY DEF Sound, SoundBatch, TypeOK
<1>2. /\ rows' = all \ drop
      /\ evicted' = (evicted \ Evs(new)) \cup Evs(drop)
  BY DEF Enqueue
<1>3. /\ new \in SUBSET Row /\ IsFiniteSet(new) /\ Evs(new) = Evs(batch) \ Evs(rows)
  BY <1>1, NewRowsFacts
<1>4. CASE batch \subseteq rows
  <2>1. Evs(new) = {}
    BY <1>3, <1>4 DEF Evs
  <2>2. new = {}
    BY <2>1 DEF Evs
  <2>3. drop = {}
    BY <2>2 DEF Excess
  <2> HIDE DEF drop
  <2>4. Evs(drop) = {} /\ rows' = rows
    BY <1>2, <2>2, <2>3 DEF Evs
  <2> QED BY <1>2, <2>4 DEF EvictsOldest
<1>5. CASE Before(rows, batch) /\ (\A r \in batch : r.id = r.ev) /\ ~(batch \subseteq rows)
  <2>1. Apart(batch)
    BY <1>1, <1>5, QueueApart
  <2>2. /\ Apart(new) /\ \A r \in new : r.id >= nextId
    BY <1>1, <2>1, NewRowsApart
  <2>3. InSequence(new)
    BY <1>1, <1>5, NewRowsOrdered DEF InSequence
  <2> HIDE DEF new
  <2>4. all \in SUBSET Row /\ IsFiniteSet(all) /\ Cardinality(all) \in Nat
    BY <1>1, <1>3, FS_Union, FS_CardinalityType
  <2>5. \A r \in rows : \A s \in new : r.id < s.id /\ r.ev < s.ev
    <3> SUFFICES ASSUME NEW r \in rows, NEW s \in new PROVE r.id < s.id /\ r.ev < s.ev
      OBVIOUS
    <3>1. PICK b \in batch : b.ev = s.ev
      BY <1>3 DEF Evs
    <3>2. r.ev < s.ev
      BY <1>5, <3>1 DEF Before
    <3>3. r.id \in Nat /\ s.id \in Nat /\ r.id < nextId /\ s.id >= nextId
      BY <1>1, <1>3, <2>2 DEF Row, Table
    <3>4. r.id < s.id
      BY <1>1, <3>3
    <3> QED BY <3>2, <3>4
  <2>6. \A r \in all : r.id \in Nat /\ r.ev \in Nat
    BY <2>4, EdgeAssumption DEF Row
  <2>7. InSequence(all)
    <3> SUFFICES ASSUME NEW r \in all, NEW s \in all, r.id < s.id PROVE r.ev < s.ev
      BY DEF InSequence
    <3>1. ~(r \in new /\ s \in rows)
      BY <2>5, <2>6
    <3> QED BY <2>3, <2>5, <3>1 DEF InSequence
  <2>8. Apart(all)
    <3>1. \A r \in rows : \A s \in new : r.id # s.id /\ r.ev # s.ev
      BY <2>5, <2>6
    <3> QED BY <2>2, <3>1 DEF Apart, Table
  <2>9. \A r \in drop : \A s \in all \ drop : r.ev < s.ev
    <3>1. CASE drop = {}
      BY <3>1
    <3>2. CASE drop # {}
      <4>1. PICK n \in Nat : drop = Oldest(all, n)
        <5>0. MaxRows \in Nat
          BY EdgeAssumption
        <5>1. drop = Oldest(all, IF Cardinality(all) > MaxRows THEN Cardinality(all) - MaxRows ELSE 0)
          BY <3>2 DEF Excess
        <5> HIDE DEF all, drop
        <5> QED BY <2>4, <5>0, <5>1
      <4>2. \A r \in drop : \A s \in all \ drop : r.id < s.id
        BY <2>4, <2>8, <4>1, OldestOlder
      <4>3. drop \subseteq all
        BY <4>1 DEF Oldest
      <4> QED BY <2>7, <4>2, <4>3 DEF InSequence
    <3> QED BY <3>1, <3>2
  <2>10. EvictsOldest
    BY <1>2, <2>9 DEF EvictsOldest, Evs
  <2>11. InSequence(rows')
    BY <1>2, <2>7 DEF InSequence
  <2>12. \A r \in rows' : r \in rows \/ r.ev \in Evs(batch)
    BY <1>2, <1>3 DEF Evs
  <2> QED BY <1>5, <2>10, <2>11, <2>12
<1> QED BY <1>4, <1>5

\* The thread moves on without a live batch; the table keeps rows or takes
\* readings of the live batch.
LEMMA OneThreadMove ==
    ASSUME Sound, OneThread, NEW s, Goto(Receiver, s), UNCHANGED <<queue, offered>>,
           s.live = {}, InSequence(rows'), s.rows \subseteq rows', s.back \subseteq rows',
           \A r \in rows' : r \in rows \/ r.ev \in Evs(thread[Receiver].live)
    PROVE  OneThread'
<1>1. thread'[Receiver] = s
  BY EdgeAssumption DEF Goto, Sound, TypeOK
<1>2. Before(rows' \cup s.live, queue)
  <2> SUFFICES ASSUME NEW r \in rows', NEW x \in queue PROVE r.ev < x.ev
    BY DEF Before
  <2>1. CASE r \in rows
    BY <2>1 DEF OneThread, Before
  <2>2. CASE r.ev \in Evs(thread[Receiver].live)
    BY <2>2 DEF OneThread, Before, Evs
  <2> QED BY <2>1, <2>2
<1>3. Before(rows', s.live) /\ \A r \in s.live : r.id = r.ev
  BY DEF Before
<1>4. \A x \in offered : \A y \in Events \ offered : x < y
  BY DEF OneThread
<1> QED BY <1>1, <1>2, <1>3, <1>4 DEF OneThread, InSequence, Before

LEMMA OneThreadNext ==
    ASSUME MainLoop \notin Threads, Sound, Kept, Table, InOrder, OneThread, Next
    PROVE  OneThread' /\ EvictsOldest
<1> DEFINE s == thread[Receiver]
<1>0. /\ Threads = {Receiver} /\ TypeOK /\ s \in Thread
      /\ SoundThread(s, offered) /\ SoundBatch(queue, offered) /\ SoundBatch(rows, offered)
      /\ s.pc \in {"post", "wait"} \/ s.live = {}
  BY EdgeAssumption DEF Sound, TypeOK, Kept, Quiet
<1>1. ASSUME evicted' = evicted PROVE EvictsOldest
  BY <1>1 DEF EvictsOldest
<1>2. ASSUME UNCHANGED <<rows, thread, queue, offered>> PROVE OneThread'
  BY <1>2 DEF OneThread, InSequence, Before
<1>3. /\ Resting.live = {} /\ Resting.rows = {} /\ Resting.back = {}
      /\ \A n : Flushing(n).live = {} /\ Flushing(n).rows = {} /\ Flushing(n).back = {}
  BY DEF Resting, Flushing
<1>4. ASSUME NEW e \in Events, Offer(e) PROVE OneThread' /\ EvictsOldest
  <2> DEFINE q == queue \cup {[id |-> e, ev |-> e]}
  <2>1. PICK batch : /\ batch = Oldest(q, MaxBatch) \/ batch = {}
                     /\ queue' = q \ batch /\ Goto(Receiver, Submitting(batch))
    BY <1>4 DEF Offer
  <2>2. /\ e \notin offered /\ (\A x \in Events \ offered : e <= x)
        /\ offered' = offered \cup {e} /\ rows' = rows /\ evicted' = evicted
    BY <1>4 DEF Offer
  <2>3. /\ q \in SUBSET Row /\ IsFiniteSet(q) /\ \A r \in q : r.id = r.ev
    <3>1. [id |-> e, ev |-> e] \in Row
      BY EdgeAssumption DEF Row
    <3>2. \A r \in q : r.id = r.ev
      BY DEF InOrder
    <3> QED BY <1>0, <3>1, <3>2, FS_AddElement DEF SoundBatch
  <2>4. Before(rows, q)
    <3>1. \A r \in rows : r.ev \in offered
      BY <1>0 DEF SoundBatch, Evs
    <3>2. \A r \in rows : r.ev < e
      BY <2>2, <3>1 DEF OneThread
    <3> QED BY <3>2 DEF OneThread, Before
  <2>5. Before(batch, queue')
    <3>1. CASE batch = {}
      BY <3>1 DEF Before
    <3>2. CASE batch = Oldest(q, MaxBatch)
      <4>1. Apart(q) /\ MaxBatch \in Nat
        BY <2>3, QueueApart, EdgeAssumption
      <4>2. batch \subseteq q
        BY <3>2 DEF Oldest
      <4> HIDE DEF q
      <4>3. \A r \in batch : \A x \in q \ batch : r.id < x.id
        BY <2>3, <3>2, <4>1, OldestOlder
      <4> QED BY <2>1, <2>3, <4>2, <4>3 DEF Before
    <3> QED BY <2>1, <3>1, <3>2
  <2>6. batch \subseteq q
    BY <2>1 DEF Oldest
  <2>7. thread'[Receiver] = Submitting(batch)
    BY <1>0, <2>1 DEF Goto, TypeOK
  <2>8. /\ Submitting(batch).live = batch
        /\ Submitting(batch).rows = {} /\ Submitting(batch).back = {}
    BY DEF Submitting, Resting
  <2>9. \A x \in offered' : \A y \in Events \ offered' : x < y
    <3> SUFFICES ASSUME NEW x \in offered', NEW y \in Events \ offered' PROVE x < y
      OBVIOUS
    <3>1. CASE x \in offered
      BY <2>2, <3>1 DEF OneThread
    <3>2. CASE x = e
      BY <2>2, <3>2, EdgeAssumption
    <3> QED BY <2>2, <3>1, <3>2
  <2> HIDE DEF q
  <2>10. Before(rows, batch) /\ Before(rows \cup batch, queue')
    BY <2>1, <2>4, <2>5, <2>6 DEF Before
  <2>11. OneThread'
    BY <2>2, <2>3, <2>6, <2>7, <2>8, <2>9, <2>10 DEF OneThread, InSequence, Before
  <2> QED BY <1>1, <2>2, <2>11
<1>5. ASSUME NEW t \in Threads, Peek(t) PROVE OneThread' /\ EvictsOldest
  <2>1. /\ t = Receiver /\ s.live = {} /\ rows' = rows
        /\ UNCHANGED <<queue, offered, evicted>>
    BY <1>0, <1>5 DEF Peek, history
  <2>2. /\ [s EXCEPT !.pc = "post", !.rows = Oldest(rows, MaxBatch)].live = {}
        /\ [s EXCEPT !.pc = "post", !.rows = Oldest(rows, MaxBatch)].rows \subseteq rows
        /\ [s EXCEPT !.pc = "post", !.rows = Oldest(rows, MaxBatch)].back \subseteq rows
    BY <1>0, <2>1 DEF Thread, Oldest, OneThread
  <2>3. \E x : Goto(Receiver, x) /\ x.live = {} /\ x.rows \subseteq rows /\ x.back \subseteq rows
    BY <1>3, <1>5, <2>1, <2>2 DEF Peek
  <2>4. InSequence(rows')
    BY <2>1 DEF OneThread, InSequence
  <2> QED BY <1>1, <2>1, <2>3, <2>4, OneThreadMove
<1>6. ASSUME NEW t \in Threads, Requeue(t) PROVE OneThread' /\ EvictsOldest
  <2>1. /\ t = Receiver /\ Enqueue(s.back) /\ Goto(t, Flushing(s.round + 1))
        /\ UNCHANGED <<queue, offered>> /\ s.back \subseteq rows
    BY <1>0, <1>6 DEF Requeue, OneThread
  <2>2. EvictsOldest /\ InSequence(rows') /\ rows' = rows
    BY <1>0, <2>1, EnqueueOneThread DEF SoundThread, OneThread
  <2> QED BY <1>3, <2>1, <2>2, OneThreadMove
<1>7. ASSUME NEW t \in Threads, Fail(t), UNCHANGED <<queue, offered>>
      PROVE  OneThread' /\ EvictsOldest
  <2>1. t = Receiver /\ Goto(t, Resting)
    BY <1>0, <1>7 DEF Fail
  <2>2. CASE s.live # {}
    <3>1. /\ Enqueue(s.live) /\ Before(rows, s.live) /\ (\A r \in s.live : r.id = r.ev)
          /\ InSequence(rows) /\ SoundBatch(s.live, offered)
      BY <1>0, <1>7, <2>1, <2>2 DEF Fail, OneThread, SoundThread
    <3>2. /\ EvictsOldest /\ InSequence(rows')
          /\ \A r \in rows' : r \in rows \/ r.ev \in Evs(s.live)
      BY <3>1, EnqueueOneThread
    <3> QED BY <1>3, <1>7, <2>1, <3>2, OneThreadMove
  <2>3. CASE s.live = {}
    <3>1. rows' = rows /\ evicted' = evicted
      BY <1>7, <2>1, <2>3 DEF Fail
    <3>2. InSequence(rows')
      BY <3>1 DEF OneThread, InSequence
    <3> QED BY <1>1, <1>3, <1>7, <2>1, <3>1, <3>2, OneThreadMove
  <2> QED BY <2>2, <2>3
<1>8. ASSUME NEW w \in Workers, CallerFails(w), UNCHANGED <<queue, offered>>
      PROVE  OneThread' /\ EvictsOldest
  <2>1. job[w].caller # None => job[w].caller \in Threads
    BY DEF Sound, SoundJob, Job
  <2> QED BY <1>1, <1>2, <1>7, <1>8, <2>1 DEF CallerFails
<1>9. ASSUME NEW w \in Workers, Answer(w) PROVE OneThread' /\ EvictsOldest
  <2>1. UNCHANGED <<queue, offered>>
    BY <1>9 DEF Answer
  <2>2. CASE job[w].caller = None
    BY <1>1, <1>2, <1>9, <2>1, <2>2 DEF Answer
  <2>3. CASE job[w].caller # None
    <3> DEFINE rej == job[w].rejected
    <3>1. /\ job[w].caller = Receiver /\ Accepted(Receiver, rej)
          /\ SoundBatch(rej, offered) /\ rej \subseteq job[w].batch
      BY <1>0, <1>9, <2>3 DEF Answer, Sound, SoundJob, Job
    <3>2. rej \subseteq Sent(Receiver)
      BY <2>3, <3>1 DEF Kept, Linked
    <3> HIDE DEF rej
    <3>3. CASE s.live # {}
      <4>1. Enqueue(rej) /\ Goto(Receiver, Flushing(1)) /\ rej \subseteq s.live
        BY <3>1, <3>2, <3>3 DEF Accepted, Sent
      <4>2. Before(rows, rej) /\ (\A r \in rej : r.id = r.ev) /\ InSequence(rows)
        BY <4>1 DEF OneThread, Before
      <4>3. /\ EvictsOldest /\ InSequence(rows')
            /\ \A r \in rows' : r \in rows \/ r.ev \in Evs(rej)
        BY <3>1, <4>1, <4>2, EnqueueOneThread
      <4>4. \A r \in rows' : r \in rows \/ r.ev \in Evs(s.live)
        BY <4>1, <4>3 DEF Evs
      <4> QED BY <1>3, <2>1, <4>1, <4>3, <4>4, OneThreadMove
    <3>4. CASE s.live = {}
      <4> DEFINE put == [s EXCEPT !.pc = "requeue", !.rows = {}, !.back = rej]
      <4>1. /\ rows' = rows \ (s.rows \ rej) /\ evicted' = evicted
            /\ Goto(Receiver, IF rej = {} THEN Flushing(s.round + 1) ELSE put)
        BY <3>1, <3>4 DEF Accepted
      <4>2. rej \subseteq rows'
        BY <3>2, <3>4, <4>1 DEF Sent, OneThread
      <4>3. put.live = {} /\ put.rows = {} /\ put.back = rej
        BY <1>0, <3>4 DEF Thread
      <4>4. InSequence(rows')
        BY <4>1 DEF OneThread, InSequence
      <4> HIDE DEF put
      <4>5. \E x : Goto(Receiver, x) /\ x.live = {} /\ x.rows \subseteq rows' /\ x.back \subseteq rows'
        BY <1>3, <4>1, <4>2, <4>3
      <4>6. \A r \in rows' : r \in rows
        BY <4>1
      <4> QED BY <1>1, <2>1, <4>1, <4>4, <4>5, <4>6, OneThreadMove
    <3> QED BY <3>3, <3>4
  <2> QED BY <2>2, <2>3
<1>10. ASSUME NEW t \in Threads, NEW w \in Workers, Post(t, w) PROVE OneThread' /\ EvictsOldest
  <2>1. /\ t = Receiver /\ UNCHANGED <<queue, rows, offered, evicted>>
        /\ thread' = [thread EXCEPT ![Receiver] = [s EXCEPT !.pc = "wait"]]
    BY <1>0, <1>10 DEF Post, Goto, history
  <2>2. /\ thread'[Receiver].live = s.live /\ thread'[Receiver].rows = s.rows
        /\ thread'[Receiver].back = s.back
    BY <1>0, <2>1 DEF TypeOK, Thread
  <2> QED BY <1>1, <2>1, <2>2 DEF OneThread, InSequence, Before
<1>11. ASSUME Exit \/ Crash PROVE OneThread' /\ EvictsOldest
  <2>1. /\ queue' = {} /\ thread'[Receiver] = Resting
        /\ UNCHANGED <<rows, offered, evicted>>
    BY <1>0, <1>11 DEF Exit, Crash, ProcessGone
  <2> QED BY <1>1, <1>3, <2>1 DEF OneThread, InSequence, Before
<1>12. ASSUME \/ ChangeReferences \/ Stop \/ Start
              \/ \E w \in Workers : Check(w) \/ Insert(w) \/ InsertDuplicate(w) \/ Apply(w)
       PROVE  OneThread' /\ EvictsOldest
  <2>1. UNCHANGED <<rows, thread, queue, offered, evicted>>
    BY <1>12 DEF ChangeReferences, Stop, Start, Check, Insert, InsertDuplicate, Apply,
                 edge, history
  <2> QED BY <1>1, <1>2, <2>1
<1>13. ~FlushDue /\ ~Drain
  BY DEF FlushDue, Drain
<1>14. ASSUME \/ \E t \in Threads : Unreachable(t) \/ TimesOut(t)
              \/ \E w \in Workers : InsertThrows(w) \/ WorkerDies(w)
       PROVE  OneThread' /\ EvictsOldest
  BY <1>7, <1>8, <1>14 DEF Unreachable, TimesOut, InsertThrows, WorkerDies
<1> QED BY <1>4, <1>5, <1>6, <1>9, <1>10, <1>11, <1>12, <1>13, <1>14 DEF Next

\* The gas agent's buffer drops its oldest readings at the cap and no other:
\* what a flush puts back is still in the table, so no reading comes into it
\* behind a newer one.
THEOREM OldestGoFirst ==
    ASSUME MainLoop \notin Threads
    PROVE  Spec => DropsOldestFirst
<1>1. Init => OneThread
  <2> SUFFICES ASSUME Init PROVE OneThread
    OBVIOUS
  <2>1. Receiver \in Threads
    BY EdgeAssumption
  <2>2. thread[Receiver].live = {} /\ thread[Receiver].rows = {} /\ thread[Receiver].back = {}
    BY <2>1 DEF Init, Resting
  <2> QED BY <2>2 DEF Init, OneThread, InSequence, Before
<1>2. Sound /\ Kept /\ Table /\ InOrder /\ OneThread /\ [Next]_vars
         => OneThread' /\ [\A e \in evicted' \ evicted : \A r \in rows' : e < r.ev]_vars
  <2> SUFFICES ASSUME Sound, Kept, Table, InOrder, OneThread, [Next]_vars
               PROVE  OneThread' /\ [\A e \in evicted' \ evicted : \A r \in rows' : e < r.ev]_vars
    OBVIOUS
  <2>1. CASE UNCHANGED vars
    BY <2>1 DEF vars, edge, history, OneThread, InSequence, Before
  <2>2. CASE Next
    BY <2>2, OneThreadNext DEF EvictsOldest
  <2> QED BY <2>1, <2>2
<1> QED BY <1>1, <1>2, SoundInit, SoundNext, KeptInit, KeptNext, TableInit, TableNext, PTL
        DEF Spec, DropsOldestFirst
=============================================================================
