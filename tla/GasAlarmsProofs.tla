--------------------------- MODULE GasAlarmsProofs ----------------------------
(***************************************************************************)
(* Theorems about GasAlarms, for every set of detectors, workers, users    *)
(* and permits.  Requests of a detector overlap as they please; the last   *)
(* two properties, about clear readings and about the alerts of open       *)
(* alarms, speak of the runs in which none did so far (doubled = {}).      *)
(***************************************************************************)
EXTENDS GasAlarms, TLAPS

(* What a request carries in each of its steps: a crossing has a level, one
   that counts clear readings has none, a request that is served has a
   detector, and only the step that suspends has permits left to do. *)
Fits(r) ==
    /\ r.pc \in {"cool", "count", "put"} => r.band \notin Level
    /\ r.pc \in {"cross", "escalate", "raise", "create", "open", "list", "suspend"}
       => r.band \in Level
    /\ r.pc # "idle" => r.det \in Detectors
    /\ r.pc # "suspend" => r.todo = {}

Fitting == \A w \in Workers : Fits(req[w])

(* The inductive invariant: with the requests, the history variable exposed
   only names permits that are still in force. *)
IInv ==
    /\ TypeOK
    /\ Fitting
    /\ exposed \subseteq InForce
    /\ AlarmReachesPermits

-----------------------------------------------------------------------------
(* Requests.                                                               *)

LEMMA FreeFits == Free \in Request /\ Fits(Free)
  BY DEF Free, Request, Fits, Band, Level

(* Whatever alarms a loop has left, it goes on to a step that fits. *)
LEMMA PastFits ==
    ASSUME NEW r \in Request, Fits(r), r.pc \in {"find", "hush"}
    PROVE  /\ Past(r) \in Request /\ Fits(Past(r))
           /\ Past(r).todo = r.todo /\ Past(r).pc # "list"
  <1> DEFINE left == r.list \ First(r.list)
  <1>1. left \in SUBSET AlarmIds
    BY DEF Request
  <1>2. left = r.list \ First(r.list)
    OBVIOUS
  <1> HIDE DEF left
  <1>3. Past(r) = [r EXCEPT !.list = left,
                            !.pc = IF left # {} THEN "resolve"
                                   ELSE IF r.band \in Level THEN "raise" ELSE "forget"]
    BY <1>2 DEF Past
  <1>4. Past(r) \in Request
    BY <1>1, <1>3 DEF Request
  <1>5. /\ Past(r).band = r.band /\ Past(r).det = r.det /\ Past(r).todo = r.todo
        /\ Past(r).pc = IF left # {} THEN "resolve"
                        ELSE IF r.band \in Level THEN "raise" ELSE "forget"
    BY <1>3 DEF Request
  <1> QED
    BY <1>4, <1>5 DEF Fits

(* The steps of a request that neither list nor suspend permits. *)
Plain(w) ==
    \/ Cross(w) \/ Escalate(w) \/ Cool(w) \/ Count(w) \/ Put(w) \/ Resolve(w)
    \/ Find(w) \/ Hush(w) \/ Raise(w) \/ Create(w) \/ OpenAlarm(w) \/ Forget(w)

(* Each of them leaves the request in a step that fits, with nothing to do. *)
LEMMA PlainRequest ==
    ASSUME TypeOK, Fitting, NEW w \in Workers, Plain(w)
    PROVE  \E r \in Request : /\ Fits(r) /\ req' = [req EXCEPT ![w] = r]
                              /\ r.todo = {} /\ req[w].todo = {}
                              /\ req[w].pc # "list"
                              /\ ~OpenAlarm(w) => r.pc # "list"
  <1> DEFINE q == req[w]
  <1>0. q \in Request /\ Fits(q)
    BY DEF TypeOK, Fitting
  <1>1. CASE Cross(w)
    <2> DEFINE r == [q EXCEPT !.pc = IF Open(q.det, {q.band}) # {} THEN "forget"
                                     ELSE IF q.band = "alarm" THEN "escalate" ELSE "raise"]
    <2>1. req' = [req EXCEPT ![w] = r] /\ q.pc = "cross"
      BY <1>1 DEF Cross, Goto, TypeOK
    <2>2. r \in Request /\ Fits(r) /\ r.todo = {} /\ r.pc # "list" /\ q.todo = {}
      BY <1>0, <2>1 DEF Request, Fits, Level
    <2> QED
      BY <2>1, <2>2
  <1>2. CASE Escalate(w)
    <2> DEFINE open == First(Open(q.det, {"warning"}))
               r == [q EXCEPT !.pc = IF open = {} THEN "raise" ELSE "resolve", !.list = open]
    <2>1. req' = [req EXCEPT ![w] = r] /\ q.pc = "escalate"
      BY <1>2 DEF Escalate, TypeOK
    <2>2. open \subseteq AlarmIds
      BY DEF First, Open
    <2> HIDE DEF open
    <2>3. r \in Request /\ Fits(r) /\ r.todo = {} /\ r.pc # "list" /\ q.todo = {}
      BY <1>0, <2>1, <2>2 DEF Request, Fits
    <2>4. q.pc # "list" /\ req' = [req EXCEPT ![w] = r]
      BY <2>1
    <2> HIDE DEF r
    <2> QED
      BY <2>3, <2>4
  <1>3. CASE Cool(w)
    <2> DEFINE open == Open(q.det, Level)
               r == [q EXCEPT !.pc = IF open = {} \/ q.band = "near" THEN "forget" ELSE "count",
                              !.list = open]
    <2>1. req' = [req EXCEPT ![w] = r] /\ q.pc = "cool"
      BY <1>3 DEF Cool, TypeOK
    <2>2. open \subseteq AlarmIds
      BY DEF Open
    <2> HIDE DEF open
    <2>3. r \in Request /\ Fits(r) /\ r.todo = {} /\ r.pc # "list" /\ q.todo = {}
      BY <1>0, <2>1, <2>2 DEF Request, Fits
    <2>4. q.pc # "list" /\ req' = [req EXCEPT ![w] = r]
      BY <2>1
    <2> HIDE DEF r
    <2> QED
      BY <2>3, <2>4
  <1>4. CASE Count(w)
    <2> DEFINE n == IF clean[q.det] = 0 THEN 1 ELSE 2
               r == [q EXCEPT !.pc = "put", !.count = n]
    <2>1. req' = [req EXCEPT ![w] = r] /\ q.pc = "count"
      BY <1>4 DEF Count, TypeOK
    <2>2. n \in 0..2
      OBVIOUS
    <2> HIDE DEF n
    <2>3. r \in Request /\ Fits(r) /\ r.todo = {} /\ r.pc # "list" /\ q.todo = {}
      BY <1>0, <2>1, <2>2 DEF Request, Fits
    <2>4. q.pc # "list" /\ req' = [req EXCEPT ![w] = r]
      BY <2>1
    <2> HIDE DEF r
    <2> QED
      BY <2>3, <2>4
  <1>5. CASE Put(w)
    <2> DEFINE r == IF q.count < 2 THEN Free ELSE [q EXCEPT !.pc = "resolve"]
    <2>1. req' = [req EXCEPT ![w] = r] /\ q.pc = "put"
      BY <1>5 DEF Put, TypeOK
    <2>2. Free.todo = {} /\ Free.pc = "idle"
      BY DEF Free
    <2>3. r \in Request /\ Fits(r) /\ r.todo = {} /\ r.pc # "list" /\ q.todo = {}
      BY <1>0, <2>1, <2>2, FreeFits DEF Request, Fits
    <2> QED
      BY <2>1, <2>3
  <1>6. CASE Resolve(w)
    <2> DEFINE r == [q EXCEPT !.pc = "find"]
    <2>1. req' = [req EXCEPT ![w] = r] /\ q.pc = "resolve"
      BY <1>6 DEF Resolve, Goto, TypeOK
    <2>2. r \in Request /\ Fits(r) /\ r.todo = {} /\ r.pc # "list" /\ q.todo = {}
      BY <1>0, <2>1 DEF Request, Fits
    <2> QED
      BY <2>1, <2>2
  <1>7. CASE Find(w)
    <2>1. q.pc = "find" /\ q.todo = {}
      BY <1>0, <1>7 DEF Find, Fits
    <2>2. \/ req' = [req EXCEPT ![w] = Past(q)]
          \/ \E a \in AlertIds : req' = [req EXCEPT ![w].pc = "hush", ![w].alert = a]
      BY <1>7 DEF Find, Last, Live
    <2>3. CASE req' = [req EXCEPT ![w] = Past(q)]
      BY <1>0, <2>1, <2>3, PastFits
    <2>4. ASSUME NEW a \in AlertIds, req' = [req EXCEPT ![w].pc = "hush", ![w].alert = a]
          PROVE  \E r \in Request : /\ Fits(r) /\ req' = [req EXCEPT ![w] = r]
                                    /\ r.todo = {} /\ r.pc # "list"
      <3> DEFINE r == [q EXCEPT !.pc = "hush", !.alert = a]
      <3>1. req' = [req EXCEPT ![w] = r]
        BY <2>4 DEF TypeOK
      <3>2. r \in Request /\ Fits(r) /\ r.todo = {} /\ r.pc # "list"
        BY <1>0, <2>1 DEF Request, Fits
      <3> QED
        BY <3>1, <3>2
    <2> QED
      BY <2>1, <2>2, <2>3, <2>4
  <1>8. CASE Hush(w)
    <2>1. q.pc = "hush" /\ req' = [req EXCEPT ![w] = Past(q)]
      BY <1>8 DEF Hush
    <2>2. q.todo = {}
      BY <1>0, <2>1 DEF Fits
    <2> QED
      BY <1>0, <2>1, <2>2, PastFits
  <1>9. CASE Raise(w)
    <2>1. q.pc = "raise" /\ q.todo = {}
      BY <1>0, <1>9 DEF Raise, Fits
    <2>2. \/ req' = [req EXCEPT ![w].pc = "create"]
          \/ \E a \in AlertIds : req' = [req EXCEPT ![w].pc = "open", ![w].alert = a]
      BY <1>9 DEF Raise, Goto, Last, Live
    <2>3. CASE req' = [req EXCEPT ![w].pc = "create"]
      <3> DEFINE r == [q EXCEPT !.pc = "create"]
      <3>1. req' = [req EXCEPT ![w] = r]
        BY <2>3 DEF TypeOK
      <3>2. r \in Request /\ Fits(r) /\ r.todo = {} /\ r.pc # "list"
        BY <1>0, <2>1 DEF Request, Fits
      <3> QED
        BY <2>1, <3>1, <3>2
    <2>4. ASSUME NEW a \in AlertIds, req' = [req EXCEPT ![w].pc = "open", ![w].alert = a]
          PROVE  \E r \in Request : /\ Fits(r) /\ req' = [req EXCEPT ![w] = r]
                                    /\ r.todo = {} /\ r.pc # "list"
      <3> DEFINE r == [q EXCEPT !.pc = "open", !.alert = a]
      <3>1. req' = [req EXCEPT ![w] = r]
        BY <2>4 DEF TypeOK
      <3>2. r \in Request /\ Fits(r) /\ r.todo = {} /\ r.pc # "list"
        BY <1>0, <2>1 DEF Request, Fits
      <3> QED
        BY <3>1, <3>2
    <2> QED
      BY <2>1, <2>2, <2>3, <2>4
  <1>10. CASE Create(w)
    <2>1. q.pc = "create" /\ q.todo = {}
      BY <1>0, <1>10 DEF Create, Fits
    <2>2. PICK a \in AlertIds : req' = [req EXCEPT ![w].pc = "open", ![w].alert = a]
      BY <1>10 DEF Create, First
    <2> DEFINE r == [q EXCEPT !.pc = "open", !.alert = a]
    <2>3. req' = [req EXCEPT ![w] = r]
      BY <2>2 DEF TypeOK
    <2>4. r \in Request /\ Fits(r) /\ r.todo = {} /\ r.pc # "list"
      BY <1>0, <2>1 DEF Request, Fits
    <2> QED
      BY <2>1, <2>3, <2>4
  <1>11. CASE OpenAlarm(w)
    <2> DEFINE r == [q EXCEPT !.pc = IF q.band = "alarm" THEN "list" ELSE "forget"]
    <2>1. req' = [req EXCEPT ![w] = r] /\ q.pc = "open"
      BY <1>11 DEF OpenAlarm, Goto, TypeOK
    <2>2. r \in Request /\ Fits(r) /\ r.todo = {} /\ q.todo = {}
      BY <1>0, <2>1 DEF Request, Fits
    <2> QED
      BY <1>11, <2>1, <2>2
  <1>12. CASE Forget(w)
    <2>1. q.pc = "forget" /\ req' = [req EXCEPT ![w] = Free]
      BY <1>12 DEF Forget
    <2>2. Free.todo = {} /\ Free.pc = "idle" /\ q.todo = {}
      BY <1>0, <2>1 DEF Free, Fits
    <2> QED
      BY <2>1, <2>2, FreeFits
  <1> QED
    BY <1>1, <1>2, <1>3, <1>4, <1>5, <1>6, <1>7, <1>8, <1>9, <1>10, <1>11, <1>12 DEF Plain

-----------------------------------------------------------------------------
(* Type correctness.                                                       *)

LEMMA InitInv == Init => IInv
  <1> SUFFICES ASSUME Init PROVE IInv
    OBVIOUS
  <1>1. TypeOK
    <2>1. /\ alarms \in [AlarmIds -> Alarm] /\ alerts \in [AlertIds -> Alert]
          /\ clean \in [Detectors -> 0..2] /\ permit \in [Permits -> Status]
      BY DEF Init, NoAlarm, NoAlert, Alarm, Alert, Status, Level
    <2>2. req \in [Workers -> Request] /\ user \in [Users -> Visit]
      BY FreeFits DEF Init, Away, Visit
    <2> QED
      BY <2>1, <2>2, GasAssumption DEF Init, TypeOK
  <1>2. Fitting
    BY FreeFits DEF Init, Fitting
  <1>3. exposed \subseteq InForce /\ AlarmReachesPermits
    BY DEF Init, AlarmReachesPermits
  <1> QED
    BY <1>1, <1>2, <1>3 DEF IInv

(* What a step of a request writes to the tables has the type of the tables. *)
LEMMA PlainTables ==
    ASSUME TypeOK, Fitting, NEW w \in Workers, Plain(w)
    PROVE  /\ alarms' \in [AlarmIds -> Alarm] /\ alerts' \in [AlertIds -> Alert]
           /\ clean' \in [Detectors -> 0..2]
           /\ permit' = permit /\ user' = user
           /\ exposed' \subseteq exposed \cup InForce /\ spared' \subseteq spared
           /\ silenced' = silenced /\ streak' = streak /\ kept' \subseteq kept
           /\ overtaken' \subseteq Workers /\ doubled' = doubled
           /\ readings' = readings /\ deaths' = deaths /\ acts' = acts
  <1>0. /\ alarms \in [AlarmIds -> Alarm] /\ alerts \in [AlertIds -> Alert]
        /\ clean \in [Detectors -> 0..2] /\ req[w] \in Request /\ Fits(req[w])
        /\ overtaken \subseteq Workers
    BY DEF TypeOK, Fitting
  <1>1. CASE Cross(w) \/ Escalate(w) \/ Cool(w) \/ Count(w) \/ Find(w) \/ Raise(w)
    BY <1>0, <1>1 DEF Cross, Escalate, Cool, Count, Find, Raise, tables, history
  <1>2. CASE Put(w)
    <2>1. req[w].count \in 0..2
      BY <1>0 DEF Request
    <2> QED
      BY <1>0, <1>2, <2>1 DEF Put, history
  <1>3. CASE Resolve(w)
    <2>1. PICK i : alarms' = [alarms EXCEPT ![i].st = "resolved"]
      BY <1>3 DEF Resolve
    <2>2. alarms' \in [AlarmIds -> Alarm]
      BY <1>0, <2>1 DEF Alarm
    <2> QED
      BY <1>0, <1>3, <2>2 DEF Resolve, history
  <1>4. CASE Hush(w)
    <2>1. alerts' = [alerts EXCEPT ![req[w].alert].st = "resolved"]
      BY <1>4 DEF Hush
    <2>2. alerts' \in [AlertIds -> Alert]
      BY <1>0, <2>1 DEF Alert
    <2> QED
      BY <1>0, <1>4, <2>2 DEF Hush, history
  <1>5. CASE Create(w)
    <2>1. [st |-> "open", det |-> req[w].det, level |-> req[w].band] \in Alert
      BY <1>0, <1>5 DEF Create, Fits, Request, Alert
    <2>2. alerts' \in [AlertIds -> Alert]
      BY <1>0, <1>5, <2>1 DEF Create
    <2> QED
      BY <1>0, <1>5, <2>2 DEF Create, history
  <1>6. CASE OpenAlarm(w)
    <2>1. [st |-> "open", det |-> req[w].det, level |-> req[w].band,
           alert |-> req[w].alert] \in Alarm
      BY <1>0, <1>6 DEF OpenAlarm, Fits, Request, Alarm
    <2>2. alarms' \in [AlarmIds -> Alarm]
      BY <1>0, <1>6, <2>1 DEF OpenAlarm
    <2> QED
      BY <1>0, <1>6, <2>2 DEF OpenAlarm
  <1>7. CASE Forget(w)
    <2>1. clean' \in [Detectors -> 0..2]
      <3>1. clean' = [clean EXCEPT ![req[w].det] = 0] /\ 0 \in 0..2
        BY <1>7 DEF Forget
      <3> QED
        BY <1>0, <3>1
    <2>2. kept' \subseteq kept
      BY <1>7 DEF Forget
    <2>3. /\ alarms' = alarms /\ alerts' = alerts /\ permit' = permit /\ user' = user
          /\ exposed' = exposed /\ spared' = spared /\ silenced' = silenced
          /\ streak' = streak /\ readings' = readings /\ deaths' = deaths /\ acts' = acts
          /\ overtaken' = overtaken /\ doubled' = doubled
      BY <1>7 DEF Forget
    <2> QED
      BY <1>0, <2>1, <2>2, <2>3
  <1> QED
    BY <1>1, <1>2, <1>3, <1>4, <1>5, <1>6, <1>7 DEF Plain

(* Any step that gives one request a fitting form keeps them all fitting. *)
LEMMA StillFitting ==
    ASSUME TypeOK, Fitting, NEW w \in Workers, NEW r \in Request, Fits(r),
           req' = [req EXCEPT ![w] = r]
    PROVE  req' \in [Workers -> Request] /\ Fitting'
  <1>1. req' \in [Workers -> Request]
    BY DEF TypeOK
  <1>2. \A v \in Workers : req'[v] = IF v = w THEN r ELSE req[v]
    BY DEF TypeOK
  <1>3. \A v \in Workers : Fits(req'[v])
    BY <1>2 DEF Fitting
  <1> QED
    BY <1>1, <1>3 DEF Fitting

(* The permits that an alarm left in force stay with the request that has
   them, when another kind of step happens. *)
LEMMA StillReached ==
    ASSUME TypeOK, AlarmReachesPermits, NEW w \in Workers, NEW r \in Request,
           req' = [req EXCEPT ![w] = r], req[w].pc # "list", req[w].todo = {},
           exposed' \subseteq exposed, spared \subseteq spared'
    PROVE  AlarmReachesPermits'
  <1> SUFFICES ASSUME NEW p \in exposed' \ spared'
               PROVE  \E v \in Workers : req'[v].pc = "list" \/ p \in req'[v].todo
    BY DEF AlarmReachesPermits
  <1>1. PICK v \in Workers : req[v].pc = "list" \/ p \in req[v].todo
    BY DEF AlarmReachesPermits
  <1>2. v # w
    BY <1>1
  <1>3. req'[v] = req[v]
    BY <1>2 DEF TypeOK
  <1> QED
    BY <1>1, <1>3

(* An aborted request leaves a fitting form and covers what it leaves undone. *)
LEMMA AbortKeeps ==
    ASSUME IInv, NEW w \in Workers, req[w].pc # "idle", Aborted(w), exposed' = exposed
    PROVE  /\ req' \in [Workers -> Request] /\ Fitting'
           /\ spared' \subseteq Permits /\ kept' \subseteq Detectors
           /\ overtaken' \subseteq Workers
           /\ AlarmReachesPermits'
  <1>0. req' = [req EXCEPT ![w] = Free] /\ req[w] \in Request /\ Fits(req[w])
    BY DEF Aborted, IInv, TypeOK, Fitting
  <1>1. req' \in [Workers -> Request] /\ Fitting'
    BY <1>0, FreeFits, StillFitting DEF IInv
  <1>2. spared' = spared \cup (IF req[w].pc = "list" THEN exposed ELSE req[w].todo)
    BY DEF Aborted
  <1>3. exposed \subseteq Permits /\ spared \subseteq Permits /\ req[w].todo \subseteq Permits
    BY <1>0 DEF IInv, TypeOK, Request
  <1>4. spared' \subseteq Permits
    BY <1>2, <1>3
  <1>5. kept' \subseteq Detectors /\ overtaken' \subseteq Workers
    BY <1>0 DEF Aborted, IInv, TypeOK, Fits
  <1>6. ASSUME NEW p \in exposed \ spared'
        PROVE  \E v \in Workers : req'[v].pc = "list" \/ p \in req'[v].todo
    <2>1. PICK v \in Workers : req[v].pc = "list" \/ p \in req[v].todo
      BY <1>2, <1>6 DEF IInv, AlarmReachesPermits
    <2>2. v # w
      BY <1>2, <1>6, <2>1
    <2>3. req'[v] = req[v]
      BY <1>0, <2>2 DEF IInv, TypeOK
    <2> QED
      BY <2>1, <2>3
  <1>7. AlarmReachesPermits'
    BY <1>6 DEF AlarmReachesPermits
  <1> QED
    BY <1>1, <1>4, <1>5, <1>7

-----------------------------------------------------------------------------
(* Every step keeps the invariant.                                         *)

LEMMA PlainInv ==
    ASSUME IInv, NEW w \in Workers, Plain(w)
    PROVE  IInv'
  <1>0. TypeOK /\ Fitting /\ exposed \subseteq InForce /\ AlarmReachesPermits
    BY DEF IInv
  <1>1. PICK r \in Request : /\ Fits(r) /\ req' = [req EXCEPT ![w] = r]
                             /\ r.todo = {} /\ req[w].todo = {}
                             /\ req[w].pc # "list"
                             /\ ~OpenAlarm(w) => r.pc # "list"
    BY <1>0, PlainRequest
  <1>2. req' \in [Workers -> Request] /\ Fitting'
    BY <1>0, <1>1, StillFitting
  <1>3. /\ alarms' \in [AlarmIds -> Alarm] /\ alerts' \in [AlertIds -> Alert]
        /\ clean' \in [Detectors -> 0..2]
        /\ permit' = permit /\ user' = user
        /\ exposed' \subseteq exposed \cup InForce /\ spared' \subseteq spared
        /\ silenced' = silenced /\ streak' = streak /\ kept' \subseteq kept
        /\ overtaken' \subseteq Workers /\ doubled' = doubled
        /\ readings' = readings /\ deaths' = deaths /\ acts' = acts
    BY <1>0, PlainTables
  <1>4. InForce \subseteq Permits
    BY DEF InForce
  <1>5. TypeOK'
    BY <1>0, <1>2, <1>3, <1>4 DEF TypeOK
  <1>6. InForce' = InForce
    BY <1>3 DEF InForce
  <1>7. exposed' \subseteq InForce'
    BY <1>0, <1>3, <1>6
  <1>8. AlarmReachesPermits'
    <2>1. CASE OpenAlarm(w) /\ req[w].band = "alarm"
      <3>1. req' = [req EXCEPT ![w].pc = "list"]
        BY <2>1 DEF OpenAlarm, Goto
      <3>2. req'[w].pc = "list"
        BY <1>0, <3>1 DEF TypeOK, Request
      <3> QED
        BY <3>2 DEF AlarmReachesPermits
    <2>2. CASE ~(OpenAlarm(w) /\ req[w].band = "alarm")
      <3>1. exposed' = exposed /\ spared' = spared
        BY <2>2 DEF Plain, Cross, Escalate, Cool, Count, Put, Resolve, Find, Hush, Raise,
                    Create, OpenAlarm, Forget, history
      <3> QED
        BY <1>0, <1>1, <3>1, StillReached
    <2> QED
      BY <2>1, <2>2
  <1> QED
    BY <1>2, <1>5, <1>7, <1>8 DEF IInv

LEMMA ListInv ==
    ASSUME IInv, NEW w \in Workers, List(w)
    PROVE  IInv'
  <1>0. TypeOK /\ Fitting /\ exposed \subseteq InForce /\ AlarmReachesPermits
    BY DEF IInv
  <1> DEFINE r == [req[w] EXCEPT !.pc = IF InForce = {} THEN "forget" ELSE "suspend",
                                 !.todo = InForce]
  <1>1. /\ req[w].pc = "list" /\ req' = [req EXCEPT ![w] = r]
        /\ UNCHANGED <<alarms, alerts, clean, permit, user, exposed, spared, silenced,
                       streak, kept, overtaken, doubled, readings, deaths, acts>>
    BY <1>0 DEF List, TypeOK, tables, history
  <1>2. req[w] \in Request /\ Fits(req[w])
    BY <1>0 DEF TypeOK, Fitting
  <1>3. InForce \subseteq Permits
    BY DEF InForce
  <1>4. r \in Request /\ Fits(r) /\ r.todo = InForce
    BY <1>1, <1>2, <1>3 DEF Request, Fits
  <1> HIDE DEF r
  <1>5. req' \in [Workers -> Request] /\ Fitting'
    BY <1>0, <1>1, <1>4, StillFitting
  <1>6. TypeOK'
    BY <1>0, <1>1, <1>5 DEF TypeOK
  <1>7. InForce' = InForce /\ exposed' = exposed
    BY <1>1 DEF InForce
  <1>8. req'[w].todo = InForce
    BY <1>0, <1>1, <1>4 DEF TypeOK
  <1>9. AlarmReachesPermits'
    BY <1>0, <1>7, <1>8 DEF AlarmReachesPermits
  <1> QED
    BY <1>0, <1>5, <1>6, <1>7, <1>9 DEF IInv

LEMMA SuspendInv ==
    ASSUME IInv, NEW w \in Workers, Suspend(w)
    PROVE  IInv'
  <1>0. TypeOK /\ Fitting /\ exposed \subseteq InForce /\ AlarmReachesPermits
    BY DEF IInv
  <1>1. PICK p \in First(req[w].todo) :
           /\ permit' = [permit EXCEPT ![p] = "suspended"]
           /\ exposed' = exposed \ {p}
           /\ req' = [req EXCEPT ![w].todo = @ \ {p},
                                 ![w].pc = IF req[w].todo = {p} THEN "forget" ELSE "suspend"]
    BY DEF Suspend
  <1>2. /\ req[w].pc = "suspend"
        /\ UNCHANGED <<alarms, alerts, clean, user, spared, silenced, streak, kept,
                       overtaken, doubled, readings, deaths, acts>>
    BY DEF Suspend
  <1>3. req[w] \in Request /\ Fits(req[w])
    BY <1>0 DEF TypeOK, Fitting
  <1> DEFINE r == [req[w] EXCEPT !.todo = req[w].todo \ {p},
                                 !.pc = IF req[w].todo = {p} THEN "forget" ELSE "suspend"]
  <1>4. req' = [req EXCEPT ![w] = r]
    BY <1>0, <1>1 DEF TypeOK
  <1>5. r \in Request /\ Fits(r) /\ r.todo = req[w].todo \ {p}
    BY <1>2, <1>3 DEF Request, Fits
  <1> HIDE DEF r
  <1>6. req' \in [Workers -> Request] /\ Fitting'
    BY <1>0, <1>4, <1>5, StillFitting
  <1>7. permit' \in [Permits -> Status] /\ exposed' \subseteq Permits
    BY <1>0, <1>1 DEF TypeOK, Status
  <1>8. TypeOK'
    BY <1>0, <1>2, <1>6, <1>7 DEF TypeOK
  <1>9. exposed' \subseteq InForce'
    BY <1>0, <1>1 DEF TypeOK, InForce
  <1>10. AlarmReachesPermits'
    <2> SUFFICES ASSUME NEW x \in exposed' \ spared'
                 PROVE  \E v \in Workers : req'[v].pc = "list" \/ x \in req'[v].todo
      BY DEF AlarmReachesPermits
    <2>1. x \in exposed \ spared /\ x # p
      BY <1>1, <1>2
    <2>2. PICK v \in Workers : req[v].pc = "list" \/ x \in req[v].todo
      BY <1>0, <2>1 DEF AlarmReachesPermits
    <2>3. CASE v = w
      <3>1. x \in r.todo
        BY <1>2, <1>5, <2>1, <2>2, <2>3
      <3>2. req'[w] = r
        BY <1>0, <1>4 DEF TypeOK
      <3> QED
        BY <3>1, <3>2
    <2>4. CASE v # w
      <3>1. req'[v] = req[v]
        BY <1>0, <1>4, <2>4 DEF TypeOK
      <3> QED
        BY <2>2, <3>1
    <2> QED
      BY <2>3, <2>4
  <1> QED
    BY <1>6, <1>8, <1>9, <1>10 DEF IInv

LEMMA AbortInv ==
    ASSUME IInv, NEW w \in Workers, SuspendThrows(w) \/ Die(w)
    PROVE  IInv'
  <1>0. TypeOK /\ exposed \subseteq InForce
    BY DEF IInv
  <1>1. /\ req[w].pc # "idle" /\ Aborted(w)
        /\ UNCHANGED <<alarms, alerts, clean, permit, user, exposed, silenced, streak,
                       doubled, readings, acts>>
    BY DEF SuspendThrows, Die, tables
  <1>2. deaths' \in 0..MaxDeaths
    <2>1. CASE SuspendThrows(w)
      BY <1>0, <2>1 DEF SuspendThrows, TypeOK
    <2>2. CASE Die(w)
      BY <1>0, <2>2, GasAssumption DEF Die, TypeOK
    <2> QED
      BY <2>1, <2>2
  <1>3. /\ req' \in [Workers -> Request] /\ Fitting'
        /\ spared' \subseteq Permits /\ kept' \subseteq Detectors
        /\ overtaken' \subseteq Workers
        /\ AlarmReachesPermits'
    BY <1>1, AbortKeeps
  <1>4. TypeOK'
    BY <1>0, <1>1, <1>2, <1>3 DEF TypeOK
  <1>5. exposed' \subseteq InForce'
    BY <1>0, <1>1 DEF InForce
  <1> QED
    BY <1>3, <1>4, <1>5 DEF IInv

LEMMA ReceiveInv ==
    ASSUME IInv, NEW w \in Workers, NEW d \in Detectors, NEW b \in Band, Receive(w, d, b)
    PROVE  IInv'
  <1>0. TypeOK /\ Fitting /\ exposed \subseteq InForce /\ AlarmReachesPermits
    BY DEF IInv
  <1> DEFINE first == IF b \in Level THEN "cross" ELSE "cool"
             r == [Free EXCEPT !.pc = first, !.det = d, !.band = b]
  <1>1. /\ req[w].pc = "idle" /\ req' = [req EXCEPT ![w] = r]
        /\ UNCHANGED <<alarms, alerts, clean, permit, user, exposed, spared, silenced,
                       kept, overtaken, deaths, acts>>
    BY DEF Receive, tables
  <1>a. first \in {"cross", "cool"} /\ (first = "cross" <=> b \in Level)
    OBVIOUS
  <1> HIDE DEF first
  <1>2. r \in Request /\ Fits(r)
    BY <1>a, FreeFits DEF Free, Request, Fits
  <1> HIDE DEF r
  <1>3. req' \in [Workers -> Request] /\ Fitting'
    BY <1>0, <1>1, <1>2, StillFitting
  <1>4. readings' \in 0..MaxReadings
    BY <1>0, GasAssumption DEF Receive, TypeOK
  <1>5. streak' \in [Detectors -> 0..2]
    <2>1. (IF b # "clear" THEN 0 ELSE IF streak[d] < 2 THEN streak[d] + 1 ELSE 2) \in 0..2
      BY <1>0 DEF TypeOK
    <2> QED
      BY <1>0, <2>1 DEF Receive, TypeOK
  <1>6. TypeOK'
    <2>1. doubled' \subseteq Detectors
      BY <1>0 DEF Receive, TypeOK
    <2> QED
      BY <1>0, <1>1, <1>3, <1>4, <1>5, <2>1 DEF TypeOK
  <1>7. req[w].todo = {}
    BY <1>0, <1>1 DEF Fitting, Fits
  <1>8. AlarmReachesPermits'
    BY <1>0, <1>1, <1>2, <1>7, StillReached
  <1>9. exposed' \subseteq InForce'
    BY <1>0, <1>1 DEF InForce
  <1> QED
    BY <1>3, <1>6, <1>8, <1>9 DEF IInv

(* Users, and the hour after which the counter is gone, leave requests alone. *)
LEMMA MoveInv ==
    ASSUME IInv, NEW p \in Permits, NEW from, NEW to \in Status, Move(p, from, to)
    PROVE  IInv'
  <1>0. TypeOK /\ Fitting /\ exposed \subseteq InForce /\ AlarmReachesPermits
    BY DEF IInv
  <1>1. /\ permit' = [permit EXCEPT ![p] = to] /\ exposed' = exposed \ {p}
        /\ acts < MaxActs /\ acts' = acts + 1
        /\ UNCHANGED <<alarms, alerts, clean, req, user, spared, silenced, streak, kept,
                       overtaken, doubled, readings, deaths>>
    BY DEF Move
  <1>2. permit' \in [Permits -> Status] /\ exposed' \subseteq Permits
    BY <1>0, <1>1 DEF TypeOK
  <1>3. acts' \in 0..MaxActs
    BY <1>0, <1>1, GasAssumption DEF TypeOK
  <1>4. TypeOK'
    BY <1>0, <1>1, <1>2, <1>3 DEF TypeOK
  <1>5. Fitting' /\ AlarmReachesPermits'
    BY <1>0, <1>1 DEF Fitting, AlarmReachesPermits
  <1>6. exposed' \subseteq InForce'
    BY <1>0, <1>1 DEF TypeOK, InForce
  <1> QED
    BY <1>4, <1>5, <1>6 DEF IInv

LEMMA UserInv ==
    ASSUME IInv, \/ \E d \in Detectors : Expire(d)
                 \/ \E u \in Users :
                       \/ Acknowledge(u) \/ ResolveAlert(u)
                       \/ \E a \in AlertIds, does \in {"acknowledge", "resolve"} :
                             Load(u, a, does)
    PROVE  IInv'
  <1>0. TypeOK /\ Fitting /\ exposed \subseteq InForce /\ AlarmReachesPermits
    BY DEF IInv
  <1>1. UNCHANGED <<alarms, permit, req, exposed, spared, streak, kept, overtaken, doubled,
                    readings, deaths>>
    BY DEF Expire, Acknowledge, ResolveAlert, Load, tables, history
  <1>2. Fitting' /\ AlarmReachesPermits' /\ exposed' \subseteq InForce'
    BY <1>0, <1>1 DEF Fitting, AlarmReachesPermits, InForce
  <1>3. ASSUME NEW d \in Detectors, Expire(d) PROVE TypeOK'
    <2>1. clean' \in [Detectors -> 0..2]
      BY <1>0, <1>3 DEF Expire, TypeOK
    <2> QED
      BY <1>0, <1>1, <1>3, <2>1 DEF Expire, history, TypeOK
  <1>4. ASSUME NEW u \in Users, NEW a \in AlertIds, NEW does \in {"acknowledge", "resolve"},
               Load(u, a, does)
        PROVE  TypeOK'
    <2>1. [alert |-> a, seen |-> alerts[a].st, does |-> does] \in Visit
      BY <1>0 DEF TypeOK, Alert, Visit
    <2>2. user' \in [Users -> Visit]
      BY <1>0, <1>4, <2>1 DEF Load, TypeOK
    <2>3. acts' \in 0..MaxActs
      BY <1>0, <1>4, GasAssumption DEF Load, TypeOK
    <2> QED
      BY <1>0, <1>1, <1>4, <2>2, <2>3 DEF Load, tables, history, TypeOK
  <1>5. ASSUME NEW u \in Users, Acknowledge(u) \/ ResolveAlert(u) PROVE TypeOK'
    <2>1. user' = [user EXCEPT ![u] = Away] /\ user[u] \in Visit /\ user[u].alert # 0
      BY <1>0, <1>5 DEF Acknowledge, ResolveAlert, TypeOK
    <2>2. user' \in [Users -> Visit]
      BY <1>0, <2>1 DEF Away, Visit, TypeOK
    <2>3. \/ alerts' = alerts
          \/ alerts' = [alerts EXCEPT ![user[u].alert].st = "acknowledged"]
          \/ alerts' = [alerts EXCEPT ![user[u].alert].st = "resolved"]
      BY <1>5 DEF Acknowledge, ResolveAlert
    <2>4. alerts' \in [AlertIds -> Alert]
      BY <1>0, <2>3 DEF TypeOK, Alert
    <2>5. silenced' \subseteq AlertIds
      BY <1>0, <1>5, <2>1 DEF Acknowledge, ResolveAlert, TypeOK, Visit, history
    <2>6. clean' = clean /\ acts' = acts
      BY <1>5 DEF Acknowledge, ResolveAlert
    <2> QED
      BY <1>0, <1>1, <2>2, <2>4, <2>5, <2>6 DEF TypeOK
  <1>6. TypeOK'
    BY <1>3, <1>4, <1>5
  <1> QED
    BY <1>2, <1>6 DEF IInv

LEMMA InductiveStep ==
    IInv /\ [Next]_vars => IInv'
  <1> SUFFICES ASSUME IInv, [Next]_vars PROVE IInv'
    OBVIOUS
  <1>1. CASE UNCHANGED vars
    BY <1>1 DEF IInv, TypeOK, Fitting, AlarmReachesPermits, InForce, vars, tables, history
  <1>2. ASSUME NEW w \in Workers, Step(w) PROVE IInv'
    BY <1>2, PlainInv, ListInv, SuspendInv, AbortInv DEF Step, Plain
  <1>3. ASSUME NEW w \in Workers, Die(w) PROVE IInv'
    BY <1>3, AbortInv
  <1>4. ASSUME NEW w \in Workers, NEW d \in Detectors, NEW b \in Band, Receive(w, d, b)
        PROVE  IInv'
    BY <1>4, ReceiveInv
  <1>5. ASSUME \/ \E d \in Detectors : Expire(d)
               \/ \E u \in Users :
                     \/ Acknowledge(u) \/ ResolveAlert(u)
                     \/ \E a \in AlertIds, does \in {"acknowledge", "resolve"} :
                           Load(u, a, does)
        PROVE  IInv'
    BY <1>5, UserInv
  <1>6. ASSUME NEW p \in Permits, Issue(p) \/ Stop(p) \/ Resume(p) \/ EndPermit(p)
        PROVE  IInv'
    BY <1>6, MoveInv DEF Issue, Stop, Resume, EndPermit, Status
  <1> QED
    BY <1>1, <1>2, <1>3, <1>4, <1>5, <1>6 DEF Next

LEMMA Invariance == Spec => []IInv
  <1>1. Init => IInv
    BY InitInv
  <1>2. IInv /\ [Next]_vars => IInv'
    BY InductiveStep
  <1> QED
    BY <1>1, <1>2, PTL DEF Spec

(* Every value of the tables, the requests and the history has its type. *)
THEOREM GasTypeCorrect == Spec => []TypeOK
  <1>1. IInv => TypeOK
    BY DEF IInv
  <1> QED
    BY <1>1, Invariance, PTL

(* A permit in force when a gas alarm opens is suspended, ends otherwise, is
   still on the list of the request, or was given up by a request that ended
   early: GasMonitoringService::suspendActivePermitsForDevice loses none. *)
THEOREM AlarmMeetsPermits == Spec => []AlarmReachesPermits
  <1>1. IInv => AlarmReachesPermits
    BY DEF IInv
  <1> QED
    BY <1>1, Invariance, PTL

-----------------------------------------------------------------------------
(* One open alarm per level, as long as no requests of a detector overlap. *)

(* Two requests of one detector are one request. *)
Single ==
    \A v, w \in Workers : req[v].det = req[w].det /\ req[w].det # None => v = w

(* It found no open alarm of its level, and there is none since. *)
WayClear ==
    \A w \in Workers : Opening(req[w]) => Open(req[w].det, {req[w].band}) = {}

(* A detector has one open alarm per level. *)
OneOpenPerLevel ==
    \A i, j \in AlarmIds :
        /\ alarms[i].st = "open" /\ alarms[j].st = "open"
        /\ alarms[i].det = alarms[j].det /\ alarms[i].level = alarms[j].level
        => i = j

OneInv == Single /\ WayClear /\ OneOpenPerLevel

(* What holds as long as no detector had two requests at once. *)
SerialOne == doubled = {} => OneInv

(* What a step of a request does to the requests and to the open alarms. *)
Frame(w) ==
    /\ req'[w].det \in {req[w].det, None}
    /\ Opening(req'[w]) =>
          /\ req'[w].det = req[w].det /\ req'[w].band = req[w].band
          /\ Opening(req[w]) \/ Open(req[w].det, {req[w].band}) = {}

NoneOpened == \A i \in AlarmIds : alarms'[i].st = "open" => alarms'[i] = alarms[i]

LEMMA OneInvInit == Init => OneInv
  BY DEF Init, OneInv, Single, WayClear, OneOpenPerLevel, Opening, Free, NoAlarm

(* A request that becomes free leaves nothing behind. *)
LEMMA FreeFrame ==
    ASSUME TypeOK, NEW w \in Workers, req' = [req EXCEPT ![w] = Free]
    PROVE  Frame(w)
  BY DEF TypeOK, Frame, Free, Opening

LEMMA PastFrame ==
    ASSUME TypeOK, Fitting, NEW w \in Workers, req[w].pc \in {"find", "hush"},
           req' = [req EXCEPT ![w] = Past(@)]
    PROVE  Frame(w)
  <1> DEFINE q == req[w]
             left == q.list \ First(q.list)
  <1>0. q \in Request
    BY DEF TypeOK
  <1>1. left = q.list \ First(q.list)
    OBVIOUS
  <1> HIDE DEF left
  <1>2. Past(q) = [q EXCEPT !.list = left,
                            !.pc = IF left # {} THEN "resolve"
                                   ELSE IF q.band \in Level THEN "raise" ELSE "forget"]
    BY <1>1 DEF Past
  <1>3. req'[w] = Past(q)
    BY DEF TypeOK
  <1>4. /\ Past(q).det = q.det /\ Past(q).band = q.band
        /\ q.band \in Level => Opening(q)
    BY <1>0, <1>2 DEF Request, Opening
  <1>5. Opening(Past(q)) => q.band \in Level
    BY <1>4 DEF Opening
  <1> QED
    BY <1>3, <1>4, <1>5 DEF Frame

LEMMA PlainFrame ==
    ASSUME TypeOK, Fitting, NEW w \in Workers, Plain(w)
    PROVE  Frame(w)
  <1> DEFINE q == req[w]
  <1>0. q \in Request /\ Fits(q)
    BY DEF TypeOK, Fitting
  <1>1. CASE Cross(w)
    <2> DEFINE open == Open(q.det, {q.band})
               pc == IF open # {} THEN "forget"
                     ELSE IF q.band = "alarm" THEN "escalate" ELSE "raise"
    <2>1. req'[w] = [q EXCEPT !.pc = pc]
      BY <1>1 DEF Cross, Goto, TypeOK
    <2>2. pc # "forget" => open = {}
      OBVIOUS
    <2>3. open = Open(q.det, {q.band})
      OBVIOUS
    <2>4. pc \in {"forget", "escalate", "raise"}
      OBVIOUS
    <2> HIDE DEF open, pc
    <2>5. req'[w].det = q.det /\ req'[w].band = q.band /\ req'[w].pc = pc
      BY <1>0, <2>1 DEF Request
    <2> QED
      BY <2>2, <2>3, <2>4, <2>5 DEF Frame, Opening
  <1>2. CASE Escalate(w)
    <2> DEFINE open == First(Open(q.det, {"warning"}))
               pc == IF open = {} THEN "raise" ELSE "resolve"
    <2>1. req'[w] = [q EXCEPT !.pc = pc, !.list = open] /\ q.pc = "escalate"
      BY <1>2 DEF Escalate, TypeOK
    <2> HIDE DEF open, pc
    <2>2. req'[w].det = q.det /\ req'[w].band = q.band
      BY <1>0, <2>1 DEF Request
    <2> QED
      BY <2>1, <2>2 DEF Frame, Opening
  <1>3. CASE Cool(w)
    <2> DEFINE open == Open(q.det, Level)
               pc == IF open = {} \/ q.band = "near" THEN "forget" ELSE "count"
    <2>1. req'[w] = [q EXCEPT !.pc = pc, !.list = open] /\ q.pc = "cool"
      BY <1>3 DEF Cool, TypeOK
    <2> HIDE DEF open, pc
    <2>2. req'[w].det = q.det /\ req'[w].band = q.band
      BY <1>0, <2>1 DEF Request
    <2> QED
      BY <1>0, <2>1, <2>2 DEF Frame, Opening, Fits
  <1>4. CASE Count(w)
    <2> DEFINE n == IF clean[q.det] = 0 THEN 1 ELSE 2
    <2>1. req'[w] = [q EXCEPT !.pc = "put", !.count = n] /\ q.pc = "count"
      BY <1>4 DEF Count, TypeOK
    <2> HIDE DEF n
    <2>2. req'[w].det = q.det /\ req'[w].pc = "put"
      BY <1>0, <2>1 DEF Request
    <2> QED
      BY <2>2 DEF Frame, Opening
  <1>5. CASE Put(w)
    <2>1. req'[w] = (IF q.count < 2 THEN Free ELSE [q EXCEPT !.pc = "resolve"]) /\ q.pc = "put"
      BY <1>5 DEF Put, TypeOK
    <2>2. CASE q.count < 2
      BY <2>1, <2>2 DEF Frame, Opening, Free
    <2>3. CASE ~(q.count < 2)
      <3>1. req'[w].det = q.det /\ req'[w].band = q.band
        BY <1>0, <2>1, <2>3 DEF Request
      <3> QED
        BY <1>0, <2>1, <3>1 DEF Frame, Opening, Fits
    <2> QED
      BY <2>2, <2>3
  <1>6. CASE Resolve(w)
    <2>1. req'[w] = [q EXCEPT !.pc = "find"] /\ q.pc = "resolve"
      BY <1>6 DEF Resolve, Goto, TypeOK
    <2>2. req'[w].det = q.det /\ req'[w].band = q.band
      BY <1>0, <2>1 DEF Request
    <2> QED
      BY <2>1, <2>2 DEF Frame, Opening
  <1>7. CASE Find(w)
    <2>1. q.pc = "find"
      BY <1>7 DEF Find
    <2>2. \/ req' = [req EXCEPT ![w] = Past(@)]
          \/ \E a : req' = [req EXCEPT ![w].pc = "hush", ![w].alert = a]
      BY <1>7 DEF Find
    <2>3. CASE req' = [req EXCEPT ![w] = Past(@)]
      BY <2>1, <2>3, PastFrame
    <2>4. ASSUME NEW a, req' = [req EXCEPT ![w].pc = "hush", ![w].alert = a]
          PROVE  Frame(w)
      <3>1. req'[w] = [q EXCEPT !.pc = "hush", !.alert = a]
        BY <2>4 DEF TypeOK
      <3>2. req'[w].det = q.det /\ req'[w].band = q.band
        BY <1>0, <3>1 DEF Request
      <3> QED
        BY <2>1, <3>2 DEF Frame, Opening
    <2> QED
      BY <2>2, <2>3, <2>4
  <1>8. CASE Hush(w)
    BY <1>8, PastFrame DEF Hush
  <1>9. CASE Raise(w) \/ Create(w)
    <2>1. q.pc \in {"raise", "create"}
      BY <1>9 DEF Raise, Create
    <2>2. \E a : \/ req'[w] = [q EXCEPT !.pc = "create"]
                 \/ req'[w] = [q EXCEPT !.pc = "open", !.alert = a]
      BY <1>9 DEF Raise, Create, Goto, TypeOK
    <2>3. req'[w].det = q.det /\ req'[w].band = q.band
      BY <1>0, <2>2 DEF Request
    <2>4. q.band \in Level
      BY <1>0, <2>1 DEF Fits
    <2> QED
      BY <2>1, <2>3, <2>4 DEF Frame, Opening
  <1>10. CASE OpenAlarm(w)
    <2> DEFINE pc == IF q.band = "alarm" THEN "list" ELSE "forget"
    <2>1. req'[w] = [q EXCEPT !.pc = pc]
      BY <1>10 DEF OpenAlarm, Goto, TypeOK
    <2>2. pc \in {"list", "forget"}
      OBVIOUS
    <2> HIDE DEF pc
    <2>3. req'[w].det = q.det /\ req'[w].pc = pc
      BY <1>0, <2>1 DEF Request
    <2> QED
      BY <2>2, <2>3 DEF Frame, Opening
  <1>11. CASE Forget(w)
    BY <1>11, FreeFrame DEF Forget
  <1> QED
    BY <1>1, <1>2, <1>3, <1>4, <1>5, <1>6, <1>7, <1>8, <1>9, <1>10, <1>11 DEF Plain

(* A step that opens no alarm keeps the invariant. *)
LEMMA QuietStep ==
    ASSUME TypeOK, OneInv, NEW w \in Workers, Frame(w), NoneOpened,
           \A v \in Workers \ {w} : req'[v] = req[v]
    PROVE  OneInv'
  <1>1. Single'
    BY DEF OneInv, Single, Frame
  <1>3. WayClear'
    <2> SUFFICES ASSUME NEW v \in Workers, Opening(req'[v]),
                        NEW i \in AlarmIds, alarms'[i].st = "open",
                        alarms'[i].det = req'[v].det, alarms'[i].level = req'[v].band
                 PROVE  FALSE
      BY DEF WayClear, Open, Opening
    <2>1. i \notin Open(req'[v].det, {req'[v].band})
      BY DEF OneInv, WayClear, Frame
    <2> QED
      BY <2>1 DEF Open, NoneOpened
  <1>4. OneOpenPerLevel'
    BY DEF OneInv, OneOpenPerLevel, NoneOpened
  <1> QED
    BY <1>1, <1>3, <1>4 DEF OneInv

(* The new alarm is the first of its level, and no other request of the
   detector is about to open one. *)
LEMMA OpenAlarmStep ==
    ASSUME IInv, OneInv, NEW w \in Workers, OpenAlarm(w)
    PROVE  OneInv'
  <1> DEFINE q == req[w]
  <1>0. TypeOK /\ Fitting /\ q \in Request /\ Fits(q) /\ q.pc = "open"
    BY DEF IInv, TypeOK, Fitting, OpenAlarm
  <1>1. Frame(w)
    BY <1>0, PlainFrame DEF Plain
  <1>2. \A v \in Workers \ {w} : req'[v] = req[v]
    BY <1>0 DEF OpenAlarm, Goto, TypeOK
  <1>3. q.det \in Detectors /\ q.det # None /\ q.band \in Level
    BY <1>0, GasAssumption DEF Fits
  <1>4. PICK i \in AlarmIds :
            alarms' = [alarms EXCEPT ![i] = [st |-> "open", det |-> q.det,
                                             level |-> q.band, alert |-> q.alert]]
    BY DEF OpenAlarm, First
  <1>5. /\ alarms'[i].det = q.det /\ alarms'[i].level = q.band
        /\ \A j \in AlarmIds \ {i} : alarms'[j] = alarms[j]
    BY <1>0, <1>4 DEF TypeOK
  <1>6. Open(q.det, {q.band}) = {}
    BY <1>0, <1>3 DEF OneInv, WayClear, Opening
  <1>7. OneOpenPerLevel'
    <2>1. \A j \in AlarmIds \ {i} :
             ~ (alarms'[j].st = "open" /\ alarms'[j].det = q.det /\ alarms'[j].level = q.band)
      BY <1>5, <1>6 DEF Open
    <2>2. \A j, k \in AlarmIds \ {i} :
             (/\ alarms'[j].st = "open" /\ alarms'[k].st = "open"
              /\ alarms'[j].det = alarms'[k].det /\ alarms'[j].level = alarms'[k].level) => j = k
      BY <1>5 DEF OneInv, OneOpenPerLevel
    <2> QED
      BY <1>5, <2>1, <2>2 DEF OneOpenPerLevel
  <1>8. Single'
    BY <1>1, <1>2 DEF OneInv, Single, Frame
  <1>9. ~ Opening(req'[w])
    BY <1>0 DEF OpenAlarm, Goto, TypeOK, Opening, Request
  <1>10. WayClear'
    <2> SUFFICES ASSUME NEW v \in Workers, Opening(req'[v]),
                        NEW j \in AlarmIds, alarms'[j].st = "open",
                        alarms'[j].det = req'[v].det, alarms'[j].level = req'[v].band
                 PROVE  FALSE
      BY DEF WayClear, Open, Opening
    <2>1. v # w /\ req'[v] = req[v]
      BY <1>2, <1>9
    <2>2. Open(req[v].det, {req[v].band}) = {}
      BY <2>1 DEF OneInv, WayClear
    <2>3. req[v].det # q.det
      BY <1>3, <2>1 DEF OneInv, Single
    <2> QED
      BY <1>5, <2>1, <2>2, <2>3 DEF Open
  <1> QED
    BY <1>7, <1>8, <1>10 DEF OneInv

(* Every other step of a request opens none. *)
LEMMA OtherFrame ==
    ASSUME IInv, NEW w \in Workers, Step(w) \/ Die(w), ~ OpenAlarm(w)
    PROVE  Frame(w) /\ NoneOpened /\ \A v \in Workers \ {w} : req'[v] = req[v]
  <1>0. TypeOK /\ Fitting
    BY DEF IInv
  <1>1. \A v \in Workers \ {w} : req'[v] = req[v]
    BY <1>0 DEF Step, Die, Aborted, TypeOK, Cross, Escalate, Cool, Count, Put, Resolve, Find,
                Hush, Raise, Create, List, Suspend, SuspendThrows, Forget, Goto
  <1>2. NoneOpened
    <2>1. CASE Resolve(w)
      BY <1>0, <2>1 DEF Resolve, NoneOpened, TypeOK, First, Alarm
    <2>2. CASE ~ Resolve(w)
      <3>1. alarms' = alarms
        BY <2>2 DEF Step, Die, Cross, Escalate, Cool, Count, Put, Find, Hush, Raise, Create,
                    List, Suspend, SuspendThrows, Forget, tables
      <3> QED
        BY <3>1 DEF NoneOpened
    <2> QED
      BY <2>1, <2>2
  <1>3. Frame(w)
    <2>1. CASE Plain(w)
      BY <1>0, <2>1, PlainFrame
    <2>2. CASE SuspendThrows(w) \/ Die(w)
      BY <1>0, <2>2, FreeFrame DEF SuspendThrows, Die, Aborted
    <2>3. CASE List(w)
      <3>1. req[w] \in Request
        BY <1>0 DEF TypeOK
      <3> DEFINE pc == IF InForce = {} THEN "forget" ELSE "suspend"
      <3>2. req'[w] = [req[w] EXCEPT !.pc = pc, !.todo = InForce]
        BY <1>0, <2>3 DEF List, TypeOK
      <3>3. pc \in {"forget", "suspend"}
        OBVIOUS
      <3> HIDE DEF pc
      <3>4. req'[w].det = req[w].det /\ req'[w].pc = pc
        BY <3>1, <3>2 DEF Request
      <3> QED
        BY <3>3, <3>4 DEF Frame, Opening
    <2>4. CASE Suspend(w)
      <3>1. req[w] \in Request
        BY <1>0 DEF TypeOK
      <3>2. PICK p \in Permits :
               req' = [req EXCEPT ![w].todo = @ \ {p},
                                  ![w].pc = IF req[w].todo = {p} THEN "forget" ELSE "suspend"]
        BY <2>4 DEF Suspend, First, TypeOK, Request, IInv
      <3> DEFINE pc == IF req[w].todo = {p} THEN "forget" ELSE "suspend"
      <3>3. pc \in {"forget", "suspend"}
        OBVIOUS
      <3>4. req'[w] = [req[w] EXCEPT !.todo = req[w].todo \ {p}, !.pc = pc]
        BY <1>0, <3>2 DEF TypeOK
      <3> HIDE DEF pc
      <3>5. req'[w].det = req[w].det /\ req'[w].pc = pc
        BY <3>1, <3>4 DEF Request
      <3> QED
        BY <3>3, <3>5 DEF Frame, Opening
    <2> QED
      BY <2>1, <2>2, <2>3, <2>4 DEF Step, Plain
  <1> QED
    BY <1>1, <1>2, <1>3

LEMMA OtherStep ==
    ASSUME IInv, OneInv, NEW w \in Workers, Step(w) \/ Die(w), ~ OpenAlarm(w)
    PROVE  OneInv'
  BY OtherFrame, QuietStep DEF IInv

(* A request starts when no other one of the detector is served. *)
LEMMA ReceiveStep ==
    ASSUME IInv, OneInv, NEW w \in Workers, NEW d \in Detectors, NEW b \in Band,
           Receive(w, d, b), doubled' = {}
    PROVE  OneInv'
  <1>0. TypeOK
    BY DEF IInv
  <1> DEFINE pc == IF b \in Level THEN "cross" ELSE "cool"
  <1>1. /\ req' = [req EXCEPT ![w] = [Free EXCEPT !.pc = pc, !.det = d, !.band = b]]
        /\ \A v \in Workers : req[v].det # d
        /\ UNCHANGED alarms
    BY DEF Receive, tables
  <1>2. pc \in {"cross", "cool"}
    OBVIOUS
  <1> HIDE DEF pc
  <1>3. req'[w].det = d /\ req'[w].pc = pc /\ \A v \in Workers \ {w} : req'[v] = req[v]
    BY <1>0, <1>1 DEF TypeOK, Free
  <1>4. Single'
    BY <1>1, <1>3 DEF OneInv, Single
  <1>5. WayClear'
    BY <1>1, <1>2, <1>3 DEF OneInv, WayClear, Opening, Open
  <1>6. OneOpenPerLevel'
    BY <1>1 DEF OneInv, OneOpenPerLevel
  <1> QED
    BY <1>4, <1>5, <1>6 DEF OneInv

(* What was served at once stays on record. *)
LEMMA SerialSoFar == [Next]_vars /\ doubled' = {} => doubled = {}
  <1> SUFFICES ASSUME [Next]_vars PROVE doubled \subseteq doubled'
    OBVIOUS
  <1>1. ASSUME NEW w \in Workers, Step(w) PROVE doubled' = doubled
    BY <1>1 DEF Step, Cross, Escalate, Cool, Count, Put, Resolve, Find, Hush, Raise, Create,
                OpenAlarm, List, Suspend, SuspendThrows, Forget, history
  <1>2. ASSUME NEW w \in Workers, Die(w) PROVE doubled' = doubled
    BY <1>2 DEF Die
  <1>3. ASSUME NEW w \in Workers, NEW d \in Detectors, NEW b \in Band, Receive(w, d, b)
        PROVE  doubled \subseteq doubled'
    BY <1>3 DEF Receive
  <1>4. ASSUME NEW d \in Detectors, Expire(d) PROVE doubled' = doubled
    BY <1>4 DEF Expire, history
  <1>5. ASSUME NEW u \in Users, \/ Acknowledge(u) \/ ResolveAlert(u)
                               \/ \E a \in AlertIds, does \in {"acknowledge", "resolve"} :
                                     Load(u, a, does)
        PROVE  doubled' = doubled
    BY <1>5 DEF Acknowledge, ResolveAlert, Load, history
  <1>6. ASSUME NEW p \in Permits, Issue(p) \/ Stop(p) \/ Resume(p) \/ EndPermit(p)
        PROVE  doubled' = doubled
    BY <1>6 DEF Issue, Stop, Resume, EndPermit, Move
  <1>7. CASE UNCHANGED vars
    BY <1>7 DEF vars, history
  <1> QED
    BY <1>1, <1>2, <1>3, <1>4, <1>5, <1>6, <1>7 DEF Next

LEMMA OneInvAlways == Spec => []SerialOne
  <1>1. Init => SerialOne
    BY OneInvInit DEF SerialOne
  <1>2. ASSUME IInv, SerialOne, [Next]_vars PROVE SerialOne'
    <2> SUFFICES ASSUME doubled' = {} PROVE OneInv'
      BY DEF SerialOne
    <2>0. OneInv
      BY <1>2, SerialSoFar DEF SerialOne
    <2> USE <1>2, <2>0
    <2>1. CASE UNCHANGED <<alarms, req>>
      BY <2>1 DEF OneInv, Single, WayClear, OneOpenPerLevel, Opening, Open
    <2>2. ASSUME NEW w \in Workers, Step(w) \/ Die(w) PROVE OneInv'
      BY <2>2, OpenAlarmStep, OtherStep
    <2>3. ASSUME NEW w \in Workers, NEW d \in Detectors, NEW b \in Band, Receive(w, d, b)
          PROVE  OneInv'
      BY <2>3, ReceiveStep
    <2>4. CASE \/ UNCHANGED vars
               \/ \E d \in Detectors : Expire(d)
               \/ \E u \in Users : \/ Acknowledge(u) \/ ResolveAlert(u)
                                   \/ \E a \in AlertIds, does \in {"acknowledge", "resolve"} :
                                         Load(u, a, does)
               \/ \E p \in Permits : Issue(p) \/ Stop(p) \/ Resume(p) \/ EndPermit(p)
      BY <2>1, <2>4 DEF vars, tables, Expire, Acknowledge, ResolveAlert, Load,
                        Issue, Stop, Resume, EndPermit, Move
    <2> QED
      BY <2>2, <2>3, <2>4 DEF Next
  <1>3. IInv /\ SerialOne /\ [Next]_vars => SerialOne'
    BY <1>2
  <1> QED
    BY <1>1, <1>3, Invariance, PTL DEF Spec

-----------------------------------------------------------------------------
(* A second open alarm, whether or not the requests of a detector overlap. *)

(* A request that is about to open an alarm and was not overtaken since it looked
   for one would find none now. *)
LooksAhead ==
    \A w \in Workers \ overtaken :
        Opening(req[w]) => Open(req[w].det, {req[w].band}) = {}

(* A step of a request that opens no alarm. *)
LEMMA LooksQuiet ==
    ASSUME TypeOK, LooksAhead, NEW w \in Workers, Frame(w), NoneOpened,
           \A v \in Workers \ {w} : req'[v] = req[v],
           overtaken \subseteq overtaken' \cup {w},
           w \in overtaken => ~ Opening(req'[w]) \/ w \in overtaken'
    PROVE  LooksAhead'
  <1> SUFFICES ASSUME NEW v \in Workers \ overtaken', Opening(req'[v]),
                      NEW i \in AlarmIds, alarms'[i].st = "open",
                      alarms'[i].det = req'[v].det, alarms'[i].level = req'[v].band
               PROVE  FALSE
    BY DEF LooksAhead, Open, Opening
  <1>1. v \notin overtaken
    BY DEF Frame
  <1>2. req'[v].det = req[v].det /\ req'[v].band = req[v].band
        /\ (Opening(req[v]) \/ Open(req[v].det, {req[v].band}) = {})
    BY DEF Frame
  <1>3. i \notin Open(req'[v].det, {req'[v].band})
    BY <1>1, <1>2 DEF LooksAhead
  <1> QED
    BY <1>3 DEF Open, NoneOpened

(* Whoever is about to open an alarm of the level is overtaken by one that opens. *)
LEMMA LooksOpen ==
    ASSUME IInv, LooksAhead, NEW w \in Workers, OpenAlarm(w)
    PROVE  LooksAhead'
  <1> DEFINE q == req[w]
  <1>0. TypeOK /\ Fitting /\ q \in Request /\ Fits(q) /\ q.pc = "open"
    BY DEF IInv, TypeOK, Fitting, OpenAlarm
  <1>1. \A v \in Workers \ {w} : req'[v] = req[v]
    BY <1>0 DEF OpenAlarm, Goto, TypeOK
  <1>2. PICK i \in AlarmIds :
            alarms' = [alarms EXCEPT ![i] = [st |-> "open", det |-> q.det,
                                             level |-> q.band, alert |-> q.alert]]
    BY DEF OpenAlarm, First
  <1>3. /\ alarms'[i].det = q.det /\ alarms'[i].level = q.band
        /\ \A j \in AlarmIds \ {i} : alarms'[j] = alarms[j]
    BY <1>0, <1>2 DEF TypeOK
  <1>4. ~ Opening(req'[w])
    BY <1>0 DEF OpenAlarm, Goto, TypeOK, Opening, Request
  <1>5. overtaken' = (overtaken \cup {v \in Workers : Alike(v, w)}) \ {w}
    BY DEF OpenAlarm
  <1> SUFFICES ASSUME NEW v \in Workers \ overtaken', Opening(req'[v]),
                      NEW j \in AlarmIds, alarms'[j].st = "open",
                      alarms'[j].det = req'[v].det, alarms'[j].level = req'[v].band
               PROVE  FALSE
    BY DEF LooksAhead, Open, Opening
  <1>6. v # w /\ req'[v] = req[v] /\ v \notin overtaken /\ ~ Alike(v, w)
    BY <1>1, <1>4, <1>5
  <1>7. j # i
    BY <1>3, <1>6 DEF Alike
  <1>8. j \in Open(req[v].det, {req[v].band})
    BY <1>3, <1>6, <1>7 DEF Open
  <1> QED
    BY <1>6, <1>8 DEF LooksAhead

LEMMA LooksStep == IInv /\ LooksAhead /\ [Next]_vars => LooksAhead'
  <1> SUFFICES ASSUME IInv, LooksAhead, [Next]_vars PROVE LooksAhead'
    OBVIOUS
  <1>0. TypeOK /\ Fitting
    BY DEF IInv
  <1>1. CASE UNCHANGED <<alarms, req, overtaken>>
    BY <1>1 DEF LooksAhead, Opening, Open
  <1>2. ASSUME NEW w \in Workers, Step(w) \/ Die(w), ~ OpenAlarm(w) PROVE LooksAhead'
    <2>1. Frame(w) /\ NoneOpened /\ \A v \in Workers \ {w} : req'[v] = req[v]
      BY <1>0, <1>2, OtherFrame
    <2>2. CASE SuspendThrows(w) \/ Die(w)
      <3>1. overtaken' = overtaken \ {w} /\ req'[w] = Free
        BY <1>0, <2>2 DEF SuspendThrows, Die, Aborted, TypeOK
      <3>2. ~ Opening(req'[w])
        BY <3>1 DEF Opening, Free
      <3>3. overtaken \subseteq overtaken' \cup {w}
        BY <3>1
      <3> QED
        BY <1>0, <2>1, <3>2, <3>3, LooksQuiet
    <2>3. CASE ~ (SuspendThrows(w) \/ Die(w))
      <3>1. overtaken' = overtaken
        BY <1>2, <2>3 DEF Step, Cross, Escalate, Cool, Count, Put, Resolve, Find, Hush, Raise,
                          Create, List, Suspend, Forget, history
      <3> QED
        BY <1>0, <2>1, <3>1, LooksQuiet
    <2> QED
      BY <2>2, <2>3
  <1>3. ASSUME NEW w \in Workers, NEW d \in Detectors, NEW b \in Band, Receive(w, d, b)
        PROVE  LooksAhead'
    <2> DEFINE pc == IF b \in Level THEN "cross" ELSE "cool"
    <2>1. /\ req' = [req EXCEPT ![w] = [Free EXCEPT !.pc = pc, !.det = d, !.band = b]]
          /\ UNCHANGED <<alarms, overtaken>>
      BY <1>3 DEF Receive, tables
    <2>2. pc \in {"cross", "cool"}
      OBVIOUS
    <2> HIDE DEF pc
    <2>3. req'[w].pc = pc /\ \A v \in Workers \ {w} : req'[v] = req[v]
      BY <1>0, <2>1 DEF TypeOK, Free
    <2> QED
      BY <2>1, <2>2, <2>3 DEF LooksAhead, Opening, Open
  <1>4. CASE \/ UNCHANGED vars
             \/ \E d \in Detectors : Expire(d)
             \/ \E u \in Users : \/ Acknowledge(u) \/ ResolveAlert(u)
                                 \/ \E a \in AlertIds, does \in {"acknowledge", "resolve"} :
                                       Load(u, a, does)
             \/ \E p \in Permits : Issue(p) \/ Stop(p) \/ Resume(p) \/ EndPermit(p)
    BY <1>1, <1>4 DEF vars, tables, history, Expire, Acknowledge, ResolveAlert, Load,
                      Issue, Stop, Resume, EndPermit, Move
  <1> QED
    BY <1>2, <1>3, <1>4, LooksOpen DEF Next

(* However many requests of a detector are served at once, and wherever workers die,
   a request opens a second alarm of a level only if the first was put on record after
   it had looked for one: raiseOrEscalate looks and creates in separate statements,
   and nothing but that gap doubles an alarm.  A worker at a time, or a lock on the
   detector, would make it one open alarm. *)
THEOREM OneOpen == Spec => SecondOnlyByOverlap
  <1>1. Init => LooksAhead
    BY DEF Init, LooksAhead, Opening, Free
  <1>2. IInv /\ LooksAhead
        => \A w \in Workers :
              req[w].pc = "open" /\ req'[w].pc \in {"list", "forget"}
              => w \in overtaken \/ Open(req[w].det, {req[w].band}) = {}
    <2> SUFFICES ASSUME IInv, LooksAhead, NEW w \in Workers, req[w].pc = "open",
                        w \notin overtaken
                 PROVE  Open(req[w].det, {req[w].band}) = {}
      OBVIOUS
    <2>1. Opening(req[w])
      BY DEF IInv, Fitting, Fits, Opening
    <2> QED
      BY <2>1 DEF LooksAhead
  <1>3. IInv /\ LooksAhead /\ [Next]_vars
        => [\A w \in Workers :
              req[w].pc = "open" /\ req'[w].pc \in {"list", "forget"}
              => w \in overtaken \/ Open(req[w].det, {req[w].band}) = {}]_vars
    BY <1>2
  <1> QED
    BY <1>1, <1>3, LooksStep, Invariance, PTL DEF Spec, SecondOnlyByOverlap

-----------------------------------------------------------------------------
(* Two clear readings, as long as no requests of a detector overlap.       *)

(* A reading of the detector that is not clear is being served. *)
Busy(d) == \E w \in Workers : req[w].det = d /\ req[w].band # "clear"

(* The counter is never ahead of the readings, except for a request that is
   going to forget it or ended before it could. *)
Agreed(d) == clean[d] <= streak[d] \/ d \in kept \/ Busy(d)

(* What a clear reading knows on its way through trackHysteresis. *)
Counts(r) ==
    /\ r.pc = "idle" => r.det = None
    /\ r.pc \in {"cool", "count", "put"} /\ r.band = "clear" => streak[r.det] >= 1
    /\ r.pc \in {"cool", "count"} /\ r.band = "clear"
       => clean[r.det] = 0 \/ streak[r.det] = 2 \/ r.det \in kept
    /\ r.pc \in {"count", "put"} => r.band = "clear"
    /\ r.pc = "put" => \/ r.count = 1
                       \/ r.count = 2 /\ (streak[r.det] = 2 \/ r.det \in kept)
    /\ r.pc \in {"resolve", "find", "hush"} /\ r.band = "clear"
       => streak[r.det] = 2 \/ r.det \in kept

CountInv ==
    /\ \A d \in Detectors : Agreed(d)
    /\ \A w \in Workers : Counts(req[w])

SerialCount == doubled = {} => CountInv

(* Past goes on with the same reading. *)
LEMMA PastKeeps ==
    ASSUME NEW r \in Request, r.pc \in {"find", "hush"}
    PROVE  /\ Past(r).det = r.det /\ Past(r).band = r.band
           /\ Past(r).list = r.list \ First(r.list)
           /\ \/ Past(r).pc = "resolve"
              \/ Past(r).pc \in {"raise", "forget"} /\ Past(r).list = {}
  <1> DEFINE left == r.list \ First(r.list)
             pc == IF left # {} THEN "resolve" ELSE IF r.band \in Level THEN "raise" ELSE "forget"
  <1>1. pc = "resolve" \/ (pc \in {"raise", "forget"} /\ left = {})
    OBVIOUS
  <1>2. Past(r) = [r EXCEPT !.list = left, !.pc = pc]
    BY DEF Past
  <1>3. left = r.list \ First(r.list)
    OBVIOUS
  <1> HIDE DEF left, pc
  <1>4. /\ Past(r).det = r.det /\ Past(r).band = r.band
        /\ Past(r).list = left /\ Past(r).pc = pc
    BY <1>2 DEF Request
  <1> QED
    BY <1>1, <1>3, <1>4

(* A step of a request touches the counter of its own detector only, and no
   other request is at work for that one. *)
LEMMA CountFrame ==
    ASSUME TypeOK, Fitting, Single, CountInv, NEW w \in Workers, NEW d \in Detectors,
           req[w].det = d \/ \A v \in Workers : req[v].det # d,
           req'[w].det \in {d, None},
           \A v \in Workers \ {w} : req'[v] = req[v],
           \A e \in Detectors \ {d} : /\ clean'[e] = clean[e] /\ streak'[e] = streak[e]
                                      /\ e \in kept' <=> e \in kept,
           req[w].det \in {d, None},
           Agreed(d)', Counts(req[w])'
    PROVE  CountInv'
  <1>0. d # None
    BY GasAssumption
  <1>1. ASSUME NEW e \in Detectors, e # d PROVE Agreed(e)'
    <2>1. Busy(e) => Busy(e)'
      BY <1>0, <1>1, GasAssumption DEF Busy
    <2> QED
      BY <1>1, <2>1 DEF CountInv, Agreed
  <1>2. ASSUME NEW v \in Workers, v # w PROVE Counts(req[v])'
    <2>1. req'[v] = req[v] /\ Counts(req[v]) /\ Fits(req[v])
      BY <1>2 DEF CountInv, Fitting
    <2>2. CASE req[v].pc = "idle"
      BY <2>1, <2>2 DEF Counts
    <2>3. CASE req[v].pc # "idle"
      <3>1. req[v].det \in Detectors /\ req[v].det # d
        BY <1>0, <1>2, <2>1, <2>3 DEF Fits, Single
      <3> QED
        BY <2>1, <3>1 DEF Counts
    <2> QED
      BY <2>2, <2>3
  <1>3. \A e \in Detectors : Agreed(e)'
    BY <1>1
  <1>4. \A v \in Workers : Counts(req[v])'
    BY <1>2
  <1> QED
    BY <1>3, <1>4 DEF CountInv

(* A step that leaves the counter alone goes on with the same reading. *)
LEMMA CountQuiet ==
    ASSUME TypeOK, Fitting, Single, CountInv, UNCHANGED <<clean, streak, kept>>,
           NEW w \in Workers, NEW r \in Request, req' = [req EXCEPT ![w] = r],
           req[w].pc # "idle",
           r.det = req[w].det, r.band = req[w].band, Counts(r)
    PROVE  CountInv'
  <1> DEFINE d == req[w].det
  <1>1. d \in Detectors
    BY DEF Fitting, Fits
  <1>2. req'[w] = r /\ \A v \in Workers \ {w} : req'[v] = req[v]
    BY DEF TypeOK
  <1>3. Agreed(d)'
    <2>1. Busy(d) => Busy(d)'
      BY <1>2 DEF Busy
    <2> QED
      BY <1>1, <2>1 DEF CountInv, Agreed
  <1>4. Counts(req[w])'
    BY <1>2 DEF Counts
  <1> QED
    BY <1>1, <1>2, <1>3, <1>4, CountFrame

(* A request ends: its counter agrees, or it is noted that it does not. *)
LEMMA CountFree ==
    ASSUME TypeOK, Fitting, Single, CountInv, NEW w \in Workers, NEW d \in Detectors,
           req[w].det = d, req' = [req EXCEPT ![w] = Free], streak' = streak,
           \A e \in Detectors \ {d} : clean'[e] = clean[e] /\ (e \in kept' <=> e \in kept),
           clean'[d] <= streak[d] \/ d \in kept'
    PROVE  CountInv'
  <1>1. /\ req'[w] = Free /\ Free.pc = "idle" /\ Free.det = None
        /\ \A v \in Workers \ {w} : req'[v] = req[v]
    BY DEF TypeOK, Free
  <1>2. Agreed(d)'
    BY DEF Agreed
  <1>3. Counts(req[w])'
    BY <1>1 DEF Counts
  <1> QED
    BY <1>1, <1>2, <1>3, CountFrame

(* The steps of a request that leave its counter alone. *)
LEMMA CountStep ==
    ASSUME TypeOK, Fitting, Single, CountInv, NEW w \in Workers,
           \/ Cross(w) \/ Escalate(w) \/ Cool(w) \/ Count(w) \/ Resolve(w) \/ Find(w)
           \/ Hush(w) \/ Raise(w) \/ Create(w) \/ OpenAlarm(w) \/ List(w) \/ Suspend(w)
    PROVE  CountInv'
  <1> DEFINE q == req[w]
  <1>0. /\ q \in Request /\ Fits(q) /\ Counts(q) /\ req \in [Workers -> Request]
        /\ Past(q) \in Request
        /\ UNCHANGED <<clean, streak, kept>>
        /\ q.pc # "idle"
    <2>1. q \in Request /\ Fits(q) /\ Counts(q) /\ req \in [Workers -> Request]
      BY DEF TypeOK, Fitting, CountInv
    <2>2. UNCHANGED <<clean, streak, kept>> /\ q.pc # "idle"
      BY DEF Cross, Escalate, Cool, Count, Resolve, Find, Hush, Raise, Create, OpenAlarm,
             List, Suspend, tables, history
    <2>3. Past(q) \in Request
      BY <2>1 DEF Past, Request
    <2> QED
      BY <2>1, <2>2, <2>3
  <1>1. ASSUME NEW r, req' = [req EXCEPT ![w] = r], r \in Request,
               r.det = q.det, r.band = q.band,
               r.pc \notin {"idle", "cool", "count", "put"},
               r.pc \in {"resolve", "find", "hush"} /\ r.band = "clear"
               => q.pc \in {"resolve", "find", "hush"}
        PROVE  CountInv'
    <2>1. Counts(r)
      BY <1>0, <1>1 DEF Counts
    <2> QED
      BY <1>0, <1>1, <2>1, CountQuiet
  <1>2. CASE Cross(w)
    <2>1. PICK pc \in {"forget", "escalate", "raise"} : req' = [req EXCEPT ![w].pc = pc]
      BY <1>2 DEF Cross, Goto
    <2>2. req' = [req EXCEPT ![w] = [q EXCEPT !.pc = pc]]
      BY <1>0, <2>1
    <2> QED
      BY <1>0, <1>1, <2>2 DEF Request
  <1>3. CASE Escalate(w)
    <2>1. PICK pc \in {"raise", "resolve"}, list \in SUBSET AlarmIds :
              req' = [req EXCEPT ![w].pc = pc, ![w].list = list]
      BY <1>3 DEF Escalate, First, Open
    <2>2. req' = [req EXCEPT ![w] = [q EXCEPT !.pc = pc, !.list = list]]
      BY <1>0, <2>1
    <2>3. q.band # "clear"
      BY <1>0, <1>3 DEF Escalate, Fits, Level
    <2> QED
      BY <1>0, <1>1, <2>2, <2>3 DEF Request
  <1>4. CASE Cool(w)
    <2>1. PICK pc \in {"forget", "count"}, list \in SUBSET AlarmIds :
              /\ req' = [req EXCEPT ![w].pc = pc, ![w].list = list]
              /\ pc = "count" => q.band # "near"
      BY <1>4 DEF Cool, Open
    <2> DEFINE r == [q EXCEPT !.pc = pc, !.list = list]
    <2>2. req' = [req EXCEPT ![w] = r]
      BY <1>0, <2>1
    <2>3. r \in Request /\ r.det = q.det /\ r.band = q.band /\ r.pc = pc
      BY <1>0 DEF Request
    <2>4. q.pc = "cool" /\ (pc = "count" => q.band = "clear")
      BY <1>0, <1>4, <2>1 DEF Cool, Fits, Request, Band
    <2> HIDE DEF r
    <2>5. Counts(r)
      BY <1>0, <2>3, <2>4 DEF Counts
    <2> QED
      BY <1>0, <2>2, <2>3, <2>5, CountQuiet
  <1>5. CASE Count(w)
    <2> DEFINE n == IF clean[q.det] = 0 THEN 1 ELSE 2
               r == [q EXCEPT !.pc = "put", !.count = n]
    <2>1. req' = [req EXCEPT ![w] = r] /\ q.pc = "count"
      BY <1>0, <1>5 DEF Count
    <2>2. n = 1 \/ (n = 2 /\ clean[q.det] # 0)
      OBVIOUS
    <2>5. n \in 0..2
      OBVIOUS
    <2> HIDE DEF n
    <2>3. /\ r \in Request /\ r.det = q.det /\ r.band = q.band /\ r.pc = "put"
          /\ r.count = n
      BY <1>0, <2>5 DEF Request
    <2> HIDE DEF r
    <2>4. Counts(r)
      BY <1>0, <2>1, <2>2, <2>3 DEF Counts
    <2> QED
      BY <1>0, <2>1, <2>3, <2>4, CountQuiet
  <1>6. CASE Resolve(w)
    <2>1. req' = [req EXCEPT ![w] = [q EXCEPT !.pc = "find"]] /\ q.pc = "resolve"
      BY <1>0, <1>6 DEF Resolve, Goto
    <2> QED
      BY <1>0, <1>1, <2>1 DEF Request
  <1>7. CASE Find(w) \/ Hush(w)
    <2>1. q.pc \in {"find", "hush"}
      BY <1>7 DEF Find, Hush
    <2>2. \/ req' = [req EXCEPT ![w] = Past(q)]
          \/ \E a \in AlertIds : req' = [req EXCEPT ![w] = [q EXCEPT !.pc = "hush", !.alert = a]]
      BY <1>0, <1>7 DEF Find, Hush, Last, Live
    <2>3. CASE req' = [req EXCEPT ![w] = Past(q)]
      BY <1>0, <1>1, <2>1, <2>3, PastKeeps
    <2>4. ASSUME NEW a \in AlertIds,
                 req' = [req EXCEPT ![w] = [q EXCEPT !.pc = "hush", !.alert = a]]
          PROVE  CountInv'
      <3> DEFINE r == [q EXCEPT !.pc = "hush", !.alert = a]
      <3>1. r \in Request /\ r.det = q.det /\ r.band = q.band /\ r.pc = "hush"
        BY <1>0 DEF Request
      <3> QED
        BY <1>1, <2>1, <2>4, <3>1
    <2> QED
      BY <2>2, <2>3, <2>4
  <1>8. CASE Raise(w) \/ Create(w)
    <2>1. \/ req' = [req EXCEPT ![w] = [q EXCEPT !.pc = "create"]]
          \/ \E a \in AlertIds : req' = [req EXCEPT ![w] = [q EXCEPT !.pc = "open", !.alert = a]]
      BY <1>0, <1>8 DEF Raise, Create, Goto, Last, Live, First
    <2>2. ASSUME NEW a \in AlertIds,
                 req' = [req EXCEPT ![w] = [q EXCEPT !.pc = "open", !.alert = a]]
          PROVE  CountInv'
      <3> DEFINE r == [q EXCEPT !.pc = "open", !.alert = a]
      <3>1. r \in Request /\ r.det = q.det /\ r.band = q.band /\ r.pc = "open"
        BY <1>0 DEF Request
      <3> QED
        BY <1>1, <2>2, <3>1
    <2>3. CASE req' = [req EXCEPT ![w] = [q EXCEPT !.pc = "create"]]
      BY <1>0, <1>1, <2>3 DEF Request
    <2> QED
      BY <2>1, <2>2, <2>3
  <1>9. CASE OpenAlarm(w)
    <2>1. PICK pc \in {"list", "forget"} : req' = [req EXCEPT ![w] = [q EXCEPT !.pc = pc]]
      BY <1>0, <1>9 DEF OpenAlarm, Goto
    <2> QED
      BY <1>0, <1>1, <2>1 DEF Request
  <1>10. CASE List(w) \/ Suspend(w)
    <2>1. PICK pc \in {"suspend", "forget"}, todo \in SUBSET Permits :
              req' = [req EXCEPT ![w] = [q EXCEPT !.pc = pc, !.todo = todo]]
      <3>1. CASE List(w)
        BY <1>0, <3>1 DEF List, InForce
      <3>2. CASE Suspend(w)
        <4>1. PICK p : req' = [req EXCEPT ![w].todo = @ \ {p},
                                  ![w].pc = IF req[w].todo = {p} THEN "forget" ELSE "suspend"]
          BY <3>2 DEF Suspend
        <4>2. q.todo \ {p} \in SUBSET Permits
          BY <1>0 DEF Request
        <4>3. req' = [req EXCEPT ![w] = [q EXCEPT !.todo = q.todo \ {p},
                                  !.pc = IF q.todo = {p} THEN "forget" ELSE "suspend"]]
          BY <1>0, <4>1
        <4> QED
          BY <4>2, <4>3
      <3> QED
        BY <1>10, <3>1, <3>2
    <2> DEFINE r == [q EXCEPT !.pc = pc, !.todo = todo]
    <2>2. r \in Request /\ r.det = q.det /\ r.band = q.band /\ r.pc = pc
      BY <1>0 DEF Request
    <2> HIDE DEF r
    <2> QED
      BY <1>1, <2>1, <2>2 DEF r
  <1> QED
    BY <1>2, <1>3, <1>4, <1>5, <1>6, <1>7, <1>8, <1>9, <1>10

(* The steps that write the counter, and the ends of a request. *)
LEMMA CountWritten ==
    ASSUME TypeOK, Fitting, Single, CountInv, NEW w \in Workers,
           Put(w) \/ Forget(w) \/ SuspendThrows(w) \/ Die(w)
    PROVE  CountInv'
  <1> DEFINE q == req[w]
  <1>0. /\ q \in Request /\ Fits(q) /\ Counts(q) /\ req \in [Workers -> Request]
        /\ q.pc # "idle" /\ q.det \in Detectors
    <2>1. q \in Request /\ Fits(q) /\ Counts(q) /\ req \in [Workers -> Request]
      BY DEF TypeOK, Fitting, CountInv
    <2>2. q.pc # "idle"
      BY DEF Put, Forget, SuspendThrows, Die
    <2> QED
      BY <2>1, <2>2 DEF Fits
  <1>1. PICK d \in Detectors : d = q.det
    BY <1>0
  <1>2. clean \in [Detectors -> 0..2] /\ streak \in [Detectors -> 0..2] /\ kept \subseteq Detectors
    BY DEF TypeOK
  <1>3. CASE Put(w)
    <2>1. /\ clean' = [clean EXCEPT ![d] = q.count] /\ UNCHANGED <<streak, kept>>
          /\ req' = [req EXCEPT ![w] = IF q.count < 2 THEN Free ELSE [q EXCEPT !.pc = "resolve"]]
          /\ q.pc = "put" /\ q.band = "clear"
      BY <1>0, <1>1, <1>3 DEF Put, history, Counts
    <2>2. /\ streak[d] >= 1
          /\ q.count = 1 \/ (q.count = 2 /\ (streak[d] = 2 \/ d \in kept))
      BY <1>0, <1>1, <2>1 DEF Counts
    <2>3. clean'[d] = q.count /\ \A e \in Detectors \ {d} : clean'[e] = clean[e]
      BY <1>2, <2>1
    <2>4. clean'[d] <= streak[d] \/ d \in kept'
      BY <1>2, <2>1, <2>2, <2>3
    <2>5. CASE q.count = 1
      <3>1. req' = [req EXCEPT ![w] = Free]
        BY <2>1, <2>5
      <3> QED
        BY <1>1, <2>1, <2>3, <2>4, <3>1, CountFree
    <2>6. CASE q.count = 2
      <3> DEFINE r == [q EXCEPT !.pc = "resolve"]
      <3>1. req' = [req EXCEPT ![w] = r]
        BY <2>1, <2>6
      <3>2. r \in Request /\ r.det = d /\ r.band = "clear" /\ r.pc = "resolve"
        BY <1>0, <1>1, <2>1 DEF Request
      <3> HIDE DEF r
      <3>3. req'[w] = r /\ \A v \in Workers \ {w} : req'[v] = req[v]
        BY <1>0, <3>1
      <3>4. Counts(req[w])'
        <4>1. streak'[r.det] = 2 \/ r.det \in kept'
          BY <2>1, <2>2, <2>6, <3>2
        <4> QED
          BY <3>2, <3>3, <4>1 DEF Counts
      <3>5. Agreed(d)'
        BY <2>1, <2>4 DEF Agreed
      <3> QED
        BY <1>1, <2>1, <2>3, <3>2, <3>3, <3>4, <3>5, CountFrame
    <2> QED
      BY <2>2, <2>5, <2>6
  <1>4. CASE Forget(w)
    <2>1. /\ clean' = [clean EXCEPT ![d] = 0] /\ streak' = streak /\ kept' = kept \ {d}
          /\ req' = [req EXCEPT ![w] = Free]
      BY <1>1, <1>4 DEF Forget
    <2>2. clean'[d] = 0 /\ \A e \in Detectors \ {d} : clean'[e] = clean[e]
      BY <1>2, <2>1
    <2>3. clean'[d] <= streak[d]
      BY <1>2, <2>2
    <2> QED
      BY <1>1, <2>1, <2>2, <2>3, CountFree
  <1>5. CASE SuspendThrows(w) \/ Die(w)
    <2>1. /\ req' = [req EXCEPT ![w] = Free] /\ UNCHANGED <<clean, streak>>
          /\ kept' = IF q.band = "clear" THEN kept ELSE kept \cup {d}
      BY <1>1, <1>5 DEF SuspendThrows, Die, Aborted, tables
    <2>2. clean'[d] <= streak[d] \/ d \in kept'
      <3>1. CASE q.band = "clear"
        <4>1. ~ Busy(d)
          BY <1>1, <3>1, GasAssumption DEF Busy, Single
        <4> QED
          BY <2>1, <3>1, <4>1 DEF CountInv, Agreed
      <3>2. CASE q.band # "clear"
        BY <2>1, <3>2
      <3> QED
        BY <3>1, <3>2
    <2> QED
      BY <1>1, <2>1, <2>2, CountFree
  <1> QED
    BY <1>3, <1>4, <1>5

(* A clear reading comes in behind a counter that agrees, or behind a note
   that it does not. *)
LEMMA CountReceive ==
    ASSUME TypeOK, Fitting, Single, CountInv, doubled' = {},
           NEW w \in Workers, NEW d \in Detectors, NEW b \in Band, Receive(w, d, b)
    PROVE  CountInv'
  <1> DEFINE pc == IF b \in Level THEN "cross" ELSE "cool"
             r  == [Free EXCEPT !.pc = pc, !.det = d, !.band = b]
  <1>0. /\ clean \in [Detectors -> 0..2] /\ streak \in [Detectors -> 0..2]
        /\ req \in [Workers -> Request]
    BY DEF TypeOK
  <1>1. /\ req' = [req EXCEPT ![w] = r] /\ \A v \in Workers : req[v].det # d
        /\ streak' = [streak EXCEPT ![d] = IF b # "clear" THEN 0 ELSE IF @ < 2 THEN @ + 1 ELSE 2]
        /\ UNCHANGED <<clean, kept>>
    BY DEF Receive, tables
  <1>2. pc \in {"cross", "cool"}
    OBVIOUS
  <1> HIDE DEF pc
  <1>3. r.pc = pc /\ r.det = d /\ r.band = b
    BY DEF Free
  <1> HIDE DEF r
  <1>4. req'[w] = r /\ \A v \in Workers \ {w} : req'[v] = req[v]
    BY <1>0, <1>1
  <1>5. ~ Busy(d) /\ (clean[d] <= streak[d] \/ d \in kept)
    <2>1. ~ Busy(d)
      BY <1>1 DEF Busy
    <2> QED
      BY <2>1 DEF CountInv, Agreed
  <1>6. /\ \A e \in Detectors \ {d} : streak'[e] = streak[e]
        /\ streak'[d] = IF b # "clear" THEN 0 ELSE IF streak[d] < 2 THEN streak[d] + 1 ELSE 2
    BY <1>0, <1>1
  <1>7. clean[d] \in 0..2 /\ streak[d] \in 0..2
    BY <1>0
  <1>8. b = "clear" => /\ streak'[d] >= 1
                       /\ clean[d] = 0 \/ streak'[d] = 2 \/ d \in kept
                       /\ clean[d] <= streak'[d] \/ d \in kept
    BY <1>5, <1>6, <1>7
  <1>9. Agreed(d)'
    <2>1. CASE b = "clear"
      BY <1>1, <1>8, <2>1 DEF Agreed
    <2>2. CASE b # "clear"
      <3>1. Busy(d)'
        BY <1>3, <1>4, <2>2 DEF Busy
      <3> QED
        BY <3>1 DEF Agreed
    <2> QED
      BY <2>1, <2>2
  <1>10. Counts(req[w])'
    BY <1>1, <1>2, <1>3, <1>4, <1>8 DEF Counts
  <1>11. req[w].det = None
    BY DEF Receive, CountInv, Counts
  <1> QED
    BY <1>1, <1>3, <1>4, <1>6, <1>9, <1>10, <1>11, CountFrame

(* As long as the readings of each detector were served one after the other,
   alarms are only resolved behind two clear readings in a row: an expired
   counter, a request that dies and a reading between the two can delay that and
   never advance it, except where a request ended before it forgot the count. *)
THEOREM TwoClearReadings == Spec => []TwoClear
  <1>1. Init => SerialCount
    <2> SUFFICES ASSUME Init PROVE CountInv
      BY DEF SerialCount
    <2>1. \A d \in Detectors : Agreed(d)
      BY DEF Init, Agreed
    <2>2. \A w \in Workers : Counts(req[w])
      BY DEF Init, Counts, Free
    <2> QED
      BY <2>1, <2>2 DEF CountInv
  <1>2. ASSUME IInv, SerialOne, SerialCount, [Next]_vars PROVE SerialCount'
    <2> SUFFICES ASSUME doubled' = {} PROVE CountInv'
      BY DEF SerialCount
    <2>a. OneInv /\ CountInv
      BY <1>2, SerialSoFar DEF SerialOne, SerialCount
    <2>0. TypeOK /\ Fitting /\ Single
      BY <1>2, <2>a DEF IInv, OneInv
    <2> USE <1>2, <2>a
    <2>1. ASSUME NEW w \in Workers, Step(w) \/ Die(w) PROVE CountInv'
      BY <2>0, <2>1, CountStep, CountWritten DEF Step
    <2>2. ASSUME NEW w \in Workers, NEW d \in Detectors, NEW b \in Band, Receive(w, d, b)
          PROVE  CountInv'
      BY <2>0, <2>2, CountReceive
    <2>3. CASE UNCHANGED <<clean, streak, kept, req>>
      BY <2>3 DEF CountInv, Agreed, Counts, Busy
    <2>4. ASSUME NEW d \in Detectors, Expire(d) PROVE CountInv'
      <3>1. /\ clean' = [clean EXCEPT ![d] = 0] /\ UNCHANGED <<req, streak, kept>>
            /\ clean \in [Detectors -> 0..2] /\ streak \in [Detectors -> 0..2]
        BY <2>0, <2>4 DEF Expire, history, TypeOK
      <3>2. clean'[d] = 0 /\ \A e \in Detectors \ {d} : clean'[e] = clean[e]
        BY <3>1
      <3>3. \A e \in Detectors : clean'[e] <= clean[e] /\ (clean[e] = 0 => clean'[e] = 0)
        BY <3>1, <3>2
      <3>4. \A e \in Detectors : Agreed(e)'
        <4> SUFFICES ASSUME NEW e \in Detectors PROVE Agreed(e)'
          OBVIOUS
        <4>1. Agreed(e)
          BY DEF CountInv
        <4>2. CASE e = d
          <5>1. clean'[e] <= streak[e]
            BY <3>1, <3>2, <4>2
          <5> QED
            BY <3>1, <5>1 DEF Agreed
        <4>3. CASE e # d
          BY <3>1, <3>2, <4>1, <4>3 DEF Agreed, Busy
        <4> QED
          BY <4>2, <4>3
      <3>5. \A w \in Workers : Counts(req[w])'
        <4> SUFFICES ASSUME NEW w \in Workers PROVE Counts(req[w])'
          OBVIOUS
        <4>1. Counts(req[w]) /\ Fits(req[w])
          BY <2>0 DEF CountInv, Fitting
        <4>2. req[w].pc # "idle" => req[w].det \in Detectors
          BY <4>1 DEF Fits
        <4> QED
          BY <3>1, <3>3, <4>1, <4>2 DEF Counts
      <3> QED
        BY <3>4, <3>5 DEF CountInv
    <2>5. CASE \/ UNCHANGED vars
               \/ \E u \in Users : \/ Acknowledge(u) \/ ResolveAlert(u)
                                   \/ \E a \in AlertIds, does \in {"acknowledge", "resolve"} :
                                         Load(u, a, does)
               \/ \E p \in Permits : Issue(p) \/ Stop(p) \/ Resume(p) \/ EndPermit(p)
      BY <2>3, <2>5 DEF vars, tables, history, Acknowledge, ResolveAlert, Load,
                        Issue, Stop, Resume, EndPermit, Move
    <2> QED
      BY <2>1, <2>2, <2>4, <2>5 DEF Next
  <1>3. SerialCount => TwoClear
    BY DEF SerialCount, CountInv, Counts, TwoClear
  <1>4. IInv /\ SerialOne /\ SerialCount /\ [Next]_vars => SerialCount'
    BY <1>2
  <1> QED
    BY <1>1, <1>3, <1>4, OneInvAlways, Invariance, PTL DEF Spec

-----------------------------------------------------------------------------
(* An open alarm sounds, as long as no requests of a detector overlap.     *)

Sounds(alert, det, level) == alert \in Live(det, level) \/ alert \in silenced

(* An alarm that the loop still has to resolve, and the one it did. *)
Waits(r, i)  == alarms[i].st = "open" /\ alarms[i].det = r.det
Closed(r, i) ==
    /\ alarms[i].st = "resolved" /\ alarms[i].det = r.det
    /\ Open(r.det, {alarms[i].level}) = {}

(* What a request holds is as it found it: no other request touches the rows
   of its detector. *)
Handles(r) ==
    /\ r.pc = "open" => Sounds(r.alert, r.det, r.band)
    /\ r.pc \in {"count", "put", "resolve"} => \A i \in r.list : Waits(r, i)
    /\ r.pc \in {"find", "hush"} =>
          /\ \A i \in r.list \ First(r.list) : Waits(r, i)
          /\ \A i \in First(r.list) : Closed(r, i)
    /\ r.pc = "hush" =>
          /\ r.alert \in AlertIds
          /\ alerts[r.alert].st # "none" /\ alerts[r.alert].det = r.det
          /\ \E i \in First(r.list) : alerts[r.alert].level = alarms[i].level

SoundAlarms ==
    \A i \in AlarmIds : alarms[i].st = "open" =>
        Sounds(alarms[i].alert, alarms[i].det, alarms[i].level)

SoundInv == SoundAlarms /\ \A w \in Workers : Handles(req[w])

SerialSound == doubled = {} => SoundInv

(* A step of a request of detector d only changes rows of d. *)
OwnAlarms(d) ==
    \A i \in AlarmIds :
        \/ alarms'[i] = alarms[i]
        \/ (alarms[i].st = "none" \/ alarms[i].det = d) /\ alarms'[i].det = d

OwnAlerts(d) ==
    \A a \in AlertIds :
        \/ alerts'[a] = alerts[a]
        \/ (alerts[a].st = "none" \/ alerts[a].det = d) /\ alerts'[a].det = d

LEMMA OthersHandle ==
    ASSUME TypeOK, Fitting, Single, SoundInv, NEW w \in Workers, NEW d \in Detectors,
           req[w].det = d \/ \A v \in Workers : req[v].det # d,
           \A v \in Workers \ {w} : req'[v] = req[v],
           OwnAlarms(d), OwnAlerts(d), silenced' = silenced,
           SoundAlarms', Handles(req[w])'
    PROVE  SoundInv'
  <1>0. d # None
    BY GasAssumption
  <1>1. ASSUME NEW v \in Workers, v # w PROVE Handles(req[v])'
    <2> DEFINE r == req[v]
    <2>1. req'[v] = r /\ Handles(r) /\ Fits(r) /\ r \in Request
      BY <1>1 DEF SoundInv, Fitting, TypeOK
    <2>2. CASE r.pc = "idle"
      BY <2>1, <2>2 DEF Handles
    <2>3. CASE r.pc # "idle"
      <3>1. r.det \in Detectors /\ r.det # d
        BY <1>0, <1>1, <2>1, <2>3 DEF Fits, Single
      <3>2. \A i \in AlarmIds :
                alarms[i].det = r.det /\ alarms[i].st # "none" => alarms'[i] = alarms[i]
        BY <3>1 DEF OwnAlarms
      <3>3. \A i \in AlarmIds : alarms'[i].det = r.det => alarms'[i] = alarms[i]
        BY <3>1 DEF OwnAlarms
      <3>4. \A a \in AlertIds :
                alerts[a].det = r.det /\ alerts[a].st # "none" => alerts'[a] = alerts[a]
        BY <3>1 DEF OwnAlerts
      <3>5. PICK q : q = r
        OBVIOUS
      <3> HIDE DEF r
      <3>6. \A i \in AlarmIds : Waits(q, i) => Waits(q, i)'
        BY <3>2, <3>5 DEF Waits
      <3>7. \A i \in AlarmIds : Closed(q, i) => Closed(q, i)' /\ alarms'[i] = alarms[i]
        BY <3>2, <3>3, <3>5 DEF Closed, Open
      <3>8. Sounds(q.alert, q.det, q.band) => Sounds(q.alert, q.det, q.band)'
        BY <3>4, <3>5 DEF Sounds, Live
      <3>9. q.list \subseteq AlarmIds /\ First(q.list) \subseteq q.list
        BY <2>1, <3>5 DEF Request, First
      <3>10. Handles(q)'
        BY <2>1, <3>4, <3>5, <3>6, <3>7, <3>8, <3>9 DEF Handles
      <3> QED
        BY <2>1, <3>5, <3>10 DEF Handles, r
    <2> QED
      BY <2>2, <2>3
  <1> QED
    BY <1>1 DEF SoundInv

(* A step that leaves alarms and alerts alone only has to handle its own. *)
LEMMA HandlesQuiet ==
    ASSUME TypeOK, SoundInv, UNCHANGED <<alarms, alerts, silenced>>,
           NEW w \in Workers, NEW r, req' = [req EXCEPT ![w] = r], Handles(r)
    PROVE  SoundInv'
  <1>1. \A v \in Workers : req'[v] = r \/ req'[v] = req[v]
    BY DEF TypeOK
  <1>2. \A v \in Workers : Handles(req'[v])
    BY <1>1 DEF SoundInv
  <1>3. \A v \in Workers : Handles(req[v])'
    BY <1>2 DEF Handles, Waits, Closed, Open, Sounds, Live
  <1>4. SoundAlarms'
    BY DEF SoundInv, SoundAlarms, Sounds, Live
  <1> QED
    BY <1>3, <1>4 DEF SoundInv

(* Past an alarm, the ones that are left still wait. *)
LEMMA HandlesPast ==
    ASSUME NEW r \in Request, r.pc \in {"find", "hush"},
           \A i \in r.list \ First(r.list) : Waits(r, i)
    PROVE  Handles(Past(r))
  BY PastKeeps DEF Handles, Waits

(* The steps that only move the request on. *)
LEMMA SoundQuiet ==
    ASSUME TypeOK, Fitting, SoundInv, NEW w \in Workers,
           \/ Cross(w) \/ Escalate(w) \/ Cool(w) \/ Count(w) \/ Put(w) \/ Find(w) \/ Raise(w)
           \/ List(w) \/ Suspend(w) \/ SuspendThrows(w) \/ Forget(w) \/ Die(w)
    PROVE  SoundInv'
  <1> DEFINE q == req[w]
  <1>0. /\ q \in Request /\ Fits(q) /\ Handles(q) /\ req \in [Workers -> Request]
    BY DEF TypeOK, Fitting, SoundInv
  <1>1. UNCHANGED <<alarms, alerts, silenced>>
    BY DEF Cross, Escalate, Cool, Count, Put, Find, Raise, List, Suspend, SuspendThrows,
           Forget, Die, tables, history
  <1>2. ASSUME NEW r, req' = [req EXCEPT ![w] = r],
               r.pc \notin {"open", "count", "put", "resolve", "find", "hush"}
        PROVE  SoundInv'
    BY <1>1, <1>2, HandlesQuiet DEF Handles
  <1>3. ASSUME NEW r \in Request, req' = [req EXCEPT ![w] = r],
               r.pc \in {"count", "put", "resolve"}, \A i \in r.list : Waits(r, i)
        PROVE  SoundInv'
    BY <1>1, <1>3, HandlesQuiet DEF Handles
  <1>4. CASE Cross(w)
    <2>1. PICK pc \in {"forget", "escalate", "raise"} : req' = [req EXCEPT ![w].pc = pc]
      BY <1>4 DEF Cross, Goto
    <2>2. req' = [req EXCEPT ![w] = [q EXCEPT !.pc = pc]]
      BY <1>0, <2>1
    <2> QED
      BY <1>0, <1>2, <2>2 DEF Request
  <1>5. CASE Escalate(w) \/ Cool(w)
    <2>1. PICK pc \in {"raise", "resolve", "forget", "count"}, list \in SUBSET AlarmIds :
              /\ req' = [req EXCEPT ![w].pc = pc, ![w].list = list]
              /\ list \subseteq Open(q.det, Level)
      <3>1. CASE Escalate(w)
        <4>1. First(Open(q.det, {"warning"})) \subseteq Open(q.det, Level)
          BY DEF First, Open, Level
        <4>2. Open(q.det, Level) \subseteq AlarmIds
          BY DEF Open
        <4> QED
          BY <3>1, <4>1, <4>2 DEF Escalate
      <3>2. CASE Cool(w)
        <4>1. Open(q.det, Level) \subseteq AlarmIds
          BY DEF Open
        <4> QED
          BY <3>2, <4>1 DEF Cool
      <3> QED
        BY <1>5, <3>1, <3>2
    <2> DEFINE r == [q EXCEPT !.pc = pc, !.list = list]
    <2>2. req' = [req EXCEPT ![w] = r]
      BY <1>0, <2>1
    <2>3. r \in Request /\ r.pc = pc /\ r.list = list /\ r.det = q.det
      BY <1>0 DEF Request
    <2>4. \A i \in list : Waits(r, i)
      BY <2>1, <2>3 DEF Open, Waits
    <2> HIDE DEF r
    <2> QED
      BY <1>2, <1>3, <2>2, <2>3, <2>4
  <1>6. CASE Count(w)
    <2> DEFINE n == IF clean[q.det] = 0 THEN 1 ELSE 2
               r == [q EXCEPT !.pc = "put", !.count = n]
    <2>1. req' = [req EXCEPT ![w] = r] /\ q.pc = "count"
      BY <1>0, <1>6 DEF Count
    <2>2. n \in 0..2
      OBVIOUS
    <2> HIDE DEF n
    <2>3. r \in Request /\ r.det = q.det /\ r.list = q.list /\ r.pc = "put"
      BY <1>0, <2>2 DEF Request
    <2>4. \A i \in r.list : Waits(r, i)
      BY <1>0, <2>1, <2>3 DEF Handles, Waits
    <2> HIDE DEF r
    <2> QED
      BY <1>3, <2>1, <2>3, <2>4
  <1>7. CASE Put(w)
    <2>1. req' = [req EXCEPT ![w] = IF q.count < 2 THEN Free ELSE [q EXCEPT !.pc = "resolve"]]
          /\ q.pc = "put"
      BY <1>0, <1>7 DEF Put
    <2>2. CASE q.count < 2
      BY <1>2, <2>1, <2>2 DEF Free
    <2>3. CASE ~ (q.count < 2)
      <3> DEFINE r == [q EXCEPT !.pc = "resolve"]
      <3>1. req' = [req EXCEPT ![w] = r]
        BY <2>1, <2>3
      <3>2. r \in Request /\ r.det = q.det /\ r.list = q.list /\ r.pc = "resolve"
        BY <1>0 DEF Request
      <3>3. \A i \in r.list : Waits(r, i)
        BY <1>0, <2>1, <3>2 DEF Handles, Waits
      <3> HIDE DEF r
      <3> QED
        BY <1>3, <3>1, <3>2, <3>3
    <2> QED
      BY <2>2, <2>3
  <1>8. CASE Find(w)
    <2>1. q.pc = "find"
      BY <1>8 DEF Find
    <2>2. PICK i \in First(q.list) :
             \/ req' = [req EXCEPT ![w] = Past(q)]
             \/ \E a \in Live(alarms[i].det, alarms[i].level) :
                   req' = [req EXCEPT ![w] = [q EXCEPT !.pc = "hush", !.alert = a]]
      BY <1>0, <1>8 DEF Find, Last
    <2>3. CASE req' = [req EXCEPT ![w] = Past(q)]
      BY <1>0, <1>1, <2>1, <2>3, HandlesPast, HandlesQuiet DEF Handles
    <2>4. ASSUME NEW a \in Live(alarms[i].det, alarms[i].level),
                 req' = [req EXCEPT ![w] = [q EXCEPT !.pc = "hush", !.alert = a]]
          PROVE  SoundInv'
      <3> DEFINE r == [q EXCEPT !.pc = "hush", !.alert = a]
      <3>1. r.det = q.det /\ r.list = q.list /\ r.alert = a /\ r.pc = "hush"
        BY <1>0 DEF Request
      <3> HIDE DEF r
      <3>2. /\ a \in AlertIds /\ alerts[a].st # "none"
            /\ alerts[a].det = alarms[i].det /\ alerts[a].level = alarms[i].level
        BY DEF Live
      <3>3. /\ \A j \in q.list \ First(q.list) : Waits(q, j)
            /\ \A j \in First(q.list) : Closed(q, j)
        BY <1>0, <2>1 DEF Handles
      <3>4. alarms[i].det = q.det
        BY <3>3 DEF Closed
      <3>5. /\ \A j \in r.list \ First(r.list) : Waits(r, j)
            /\ \A j \in First(r.list) : Closed(r, j)
        BY <3>1, <3>3 DEF Waits, Closed
      <3>6. Handles(r)
        BY <3>1, <3>2, <3>4, <3>5 DEF Handles
      <3> QED
        BY <1>1, <2>4, <3>6, HandlesQuiet DEF r
    <2> QED
      BY <2>2, <2>3, <2>4
  <1>9. CASE Raise(w)
    <2>1. \/ req' = [req EXCEPT ![w] = [q EXCEPT !.pc = "create"]]
          \/ \E a \in Live(q.det, q.band) :
                req' = [req EXCEPT ![w] = [q EXCEPT !.pc = "open", !.alert = a]]
      BY <1>0, <1>9 DEF Raise, Goto, Last
    <2>2. ASSUME NEW a \in Live(q.det, q.band),
                 req' = [req EXCEPT ![w] = [q EXCEPT !.pc = "open", !.alert = a]]
          PROVE  SoundInv'
      <3> DEFINE r == [q EXCEPT !.pc = "open", !.alert = a]
      <3>1. r.det = q.det /\ r.band = q.band /\ r.alert = a /\ r.pc = "open"
        BY <1>0 DEF Request
      <3>2. Handles(r)
        BY <3>1 DEF Handles, Sounds
      <3> QED
        BY <1>1, <2>2, <3>2, HandlesQuiet
    <2>3. CASE req' = [req EXCEPT ![w] = [q EXCEPT !.pc = "create"]]
      BY <1>0, <1>2, <2>3 DEF Request
    <2> QED
      BY <2>1, <2>2, <2>3
  <1>10. CASE List(w)
    <2>1. PICK pc \in {"suspend", "forget"} :
              req' = [req EXCEPT ![w] = [q EXCEPT !.pc = pc, !.todo = InForce]]
      BY <1>0, <1>10 DEF List
    <2> QED
      BY <1>0, <1>2, <2>1 DEF Request
  <1>11. CASE Suspend(w)
    <2>1. PICK p : req' = [req EXCEPT ![w].todo = @ \ {p},
                              ![w].pc = IF req[w].todo = {p} THEN "forget" ELSE "suspend"]
      BY <1>11 DEF Suspend
    <2>2. PICK pc \in {"suspend", "forget"} :
              req' = [req EXCEPT ![w] = [q EXCEPT !.todo = q.todo \ {p}, !.pc = pc]]
      BY <1>0, <2>1
    <2> QED
      BY <1>0, <1>2, <2>2 DEF Request
  <1>12. CASE SuspendThrows(w) \/ Forget(w) \/ Die(w)
    <2>1. req' = [req EXCEPT ![w] = Free] /\ Free.pc = "idle"
      BY <1>12 DEF SuspendThrows, Forget, Die, Aborted, Free
    <2> QED
      BY <1>2, <2>1
  <1> QED
    BY <1>4, <1>5, <1>6, <1>7, <1>8, <1>9, <1>10, <1>11, <1>12

(* A reading comes in. *)
LEMMA SoundReceive ==
    ASSUME TypeOK, SoundInv, NEW w \in Workers, NEW d \in Detectors, NEW b \in Band,
           Receive(w, d, b)
    PROVE  SoundInv'
  <1> DEFINE pc == IF b \in Level THEN "cross" ELSE "cool"
             r  == [Free EXCEPT !.pc = pc, !.det = d, !.band = b]
  <1>1. req' = [req EXCEPT ![w] = r] /\ UNCHANGED <<alarms, alerts, silenced>>
    BY DEF Receive, tables
  <1>2. pc \in {"cross", "cool"}
    OBVIOUS
  <1> HIDE DEF pc
  <1>3. r.pc = pc
    BY DEF Free
  <1> HIDE DEF r
  <1>4. Handles(r)
    BY <1>2, <1>3 DEF Handles
  <1> QED
    BY <1>1, <1>4, HandlesQuiet

(* The alarm that is resolved was the only open one of its level. *)
LEMMA SoundResolve ==
    ASSUME TypeOK, Fitting, Single, OneOpenPerLevel, SoundInv, NEW w \in Workers, Resolve(w)
    PROVE  SoundInv'
  <1> DEFINE q == req[w]
  <1>0. /\ q \in Request /\ Fits(q) /\ Handles(q) /\ req \in [Workers -> Request]
        /\ q.pc = "resolve" /\ q.det \in Detectors
    <2>1. q \in Request /\ Fits(q) /\ Handles(q) /\ req \in [Workers -> Request]
      BY DEF TypeOK, Fitting, SoundInv
    <2> QED
      BY <2>1 DEF Resolve, Fits
  <1>1. PICK d \in Detectors : d = q.det
    BY <1>0
  <1>2. PICK i \in First(q.list) : alarms' = [alarms EXCEPT ![i].st = "resolved"]
    BY DEF Resolve
  <1>3. /\ req' = [req EXCEPT ![w] = [q EXCEPT !.pc = "find"]]
        /\ UNCHANGED <<alerts, silenced>>
    BY <1>0 DEF Resolve, Goto, history
  <1>4. i \in AlarmIds /\ Waits(q, i)
    BY <1>0 DEF Handles, First, Request
  <1>5. /\ \A j \in AlarmIds \ {i} : alarms'[j] = alarms[j]
        /\ alarms'[i].st = "resolved" /\ alarms'[i].det = alarms[i].det
        /\ alarms'[i].level = alarms[i].level
    BY <1>2, <1>4 DEF TypeOK, Alarm
  <1>6. \A j \in First(q.list) : j = i
    <2>1. ASSUME NEW j \in First(q.list) PROVE j = i
      <3>1. i <= j /\ j <= i /\ i \in Nat /\ j \in Nat
        BY <1>0, GasAssumption DEF First, Request
      <3> QED
        BY <3>1
    <2> QED
      BY <2>1
  <1>7. PICK r : r = [q EXCEPT !.pc = "find"]
    OBVIOUS
  <1>8. r.pc = "find" /\ r.list = q.list /\ r.det = d /\ r.list \subseteq AlarmIds
    BY <1>0, <1>1, <1>7 DEF Request
  <1>9. \A j \in r.list \ First(r.list) : Waits(r, j)'
    <2>1. \A j \in r.list \ First(r.list) : Waits(q, j) /\ j # i /\ j \in AlarmIds
      BY <1>0, <1>2, <1>8 DEF Handles
    <2> QED
      BY <1>1, <1>5, <1>8, <2>1 DEF Waits
  <1>10. Closed(r, i)'
    <2>1. ASSUME NEW k \in AlarmIds, alarms'[k].st = "open", alarms'[k].det = r.det,
                 alarms'[k].level = alarms'[i].level
          PROVE  FALSE
      <3>1. k # i /\ alarms'[k] = alarms[k]
        BY <1>5, <2>1
      <3>2. alarms[i].st = "open" /\ alarms[i].det = r.det
        BY <1>1, <1>4, <1>8 DEF Waits
      <3> QED
        BY <1>4, <1>5, <2>1, <3>1, <3>2 DEF OneOpenPerLevel
    <2> QED
      BY <1>1, <1>4, <1>5, <1>8, <2>1 DEF Closed, Open, Waits
  <1>11. Handles(r)'
    BY <1>6, <1>8, <1>9, <1>10 DEF Handles
  <1>12. req'[w] = r /\ \A v \in Workers \ {w} : req'[v] = req[v]
    BY <1>0, <1>3, <1>7
  <1>13. Handles(req[w])'
    BY <1>11, <1>12 DEF Handles
  <1>14. OwnAlarms(d) /\ OwnAlerts(d)
    BY <1>1, <1>3, <1>4, <1>5 DEF OwnAlarms, OwnAlerts, Waits
  <1>15. SoundAlarms'
    BY <1>3, <1>5 DEF SoundInv, SoundAlarms, Sounds, Live
  <1> QED
    BY <1>1, <1>3, <1>12, <1>13, <1>14, <1>15, OthersHandle

(* The alert that is hushed belongs to a level that has no open alarm. *)
LEMMA SoundHush ==
    ASSUME TypeOK, Fitting, Single, SoundInv, NEW w \in Workers, Hush(w)
    PROVE  SoundInv'
  <1> DEFINE q == req[w]
  <1>0. /\ q \in Request /\ Fits(q) /\ Handles(q) /\ req \in [Workers -> Request]
        /\ q.pc = "hush" /\ q.det \in Detectors
    <2>1. q \in Request /\ Fits(q) /\ Handles(q) /\ req \in [Workers -> Request]
      BY DEF TypeOK, Fitting, SoundInv
    <2> QED
      BY <2>1 DEF Hush, Fits
  <1>1. PICK d \in Detectors : d = q.det
    BY <1>0
  <1>2. PICK a \in AlertIds : a = q.alert
    BY <1>0 DEF Handles
  <1>3. /\ alerts' = [alerts EXCEPT ![a].st = "resolved"]
        /\ req' = [req EXCEPT ![w] = Past(q)]
        /\ UNCHANGED <<alarms, silenced>>
    BY <1>2 DEF Hush, history
  <1>4. PICK i \in First(q.list) :
           /\ alerts[a].st # "none" /\ alerts[a].det = d
           /\ alerts[a].level = alarms[i].level /\ Closed(q, i)
    BY <1>0, <1>1, <1>2 DEF Handles
  <1>5. /\ \A b \in AlertIds \ {a} : alerts'[b] = alerts[b]
        /\ alerts'[a].det = alerts[a].det
    BY <1>3 DEF TypeOK, Alert
  <1>6. SoundAlarms'
    <2> SUFFICES ASSUME NEW k \in AlarmIds, alarms[k].st = "open"
                 PROVE  \/ alarms[k].alert \in Live(alarms[k].det, alarms[k].level)'
                        \/ alarms[k].alert \in silenced
      BY <1>3 DEF SoundAlarms, Sounds, Live
    <2>1. \/ alarms[k].alert \in Live(alarms[k].det, alarms[k].level)
          \/ alarms[k].alert \in silenced
      BY DEF SoundInv, SoundAlarms, Sounds
    <2>2. ASSUME alarms[k].alert = a, a \in Live(alarms[k].det, alarms[k].level) PROVE FALSE
      <3>1. alarms[k].det = q.det /\ alarms[k].level = alarms[i].level
        BY <1>1, <1>4, <2>2 DEF Live
      <3>2. k \in Open(q.det, {alarms[i].level})
        BY <3>1 DEF Open
      <3> QED
        BY <1>4, <3>2 DEF Closed
    <2> QED
      BY <1>3, <1>5, <2>1, <2>2 DEF Live
  <1>7. Handles(Past(q))
    BY <1>0, HandlesPast DEF Handles
  <1>8. Past(q).pc # "open" /\ Past(q).pc # "hush"
    BY <1>0, PastKeeps
  <1>9. PICK r : r = Past(q)
    OBVIOUS
  <1>10. Handles(r) /\ r.pc # "open" /\ r.pc # "hush"
    BY <1>7, <1>8, <1>9
  <1>11. Handles(r)'
    BY <1>3, <1>10 DEF Handles, Waits, Closed, Open
  <1>12. req'[w] = r /\ \A v \in Workers \ {w} : req'[v] = req[v]
    BY <1>0, <1>3, <1>9
  <1>13. Handles(req[w])'
    BY <1>11, <1>12 DEF Handles
  <1>14. OwnAlarms(d) /\ OwnAlerts(d)
    BY <1>3, <1>4, <1>5 DEF OwnAlarms, OwnAlerts
  <1> QED
    BY <1>1, <1>3, <1>6, <1>12, <1>13, <1>14, OthersHandle

(* A new alert, and then the alarm that carries it. *)
LEMMA SoundCreate ==
    ASSUME TypeOK, Fitting, Single, SoundInv, NEW w \in Workers, Create(w)
    PROVE  SoundInv'
  <1> DEFINE q == req[w]
  <1>0. /\ q \in Request /\ Fits(q) /\ req \in [Workers -> Request]
        /\ q.pc = "create" /\ q.det \in Detectors
    <2>1. q \in Request /\ Fits(q) /\ req \in [Workers -> Request]
      BY DEF TypeOK, Fitting
    <2> QED
      BY <2>1 DEF Create, Fits
  <1>1. PICK d \in Detectors : d = q.det
    BY <1>0
  <1>2. PICK a \in AlertIds :
           /\ alerts[a].st = "none"
           /\ alerts' = [alerts EXCEPT ![a] = [st |-> "open", det |-> d, level |-> q.band]]
           /\ req' = [req EXCEPT ![w] = [q EXCEPT !.pc = "open", !.alert = a]]
    BY <1>0, <1>1 DEF Create, First
  <1>3. UNCHANGED <<alarms, silenced>>
    BY DEF Create, history
  <1>4. /\ \A b \in AlertIds \ {a} : alerts'[b] = alerts[b]
        /\ alerts'[a] = [st |-> "open", det |-> d, level |-> q.band]
    BY <1>2 DEF TypeOK
  <1>5. PICK r : r = [q EXCEPT !.pc = "open", !.alert = a]
    OBVIOUS
  <1>6. r.pc = "open" /\ r.det = d /\ r.band = q.band /\ r.alert = a
    BY <1>0, <1>1, <1>5 DEF Request
  <1>7. Handles(r)'
    BY <1>4, <1>6 DEF Handles, Sounds, Live
  <1>8. req'[w] = r /\ \A v \in Workers \ {w} : req'[v] = req[v]
    BY <1>0, <1>2, <1>5
  <1>9. Handles(req[w])'
    BY <1>7, <1>8 DEF Handles
  <1>10. OwnAlarms(d) /\ OwnAlerts(d)
    BY <1>2, <1>3, <1>4 DEF OwnAlarms, OwnAlerts
  <1>11. SoundAlarms'
    BY <1>2, <1>3, <1>4 DEF SoundInv, SoundAlarms, Sounds, Live
  <1> QED
    BY <1>1, <1>3, <1>8, <1>9, <1>10, <1>11, OthersHandle

LEMMA SoundOpen ==
    ASSUME TypeOK, Fitting, Single, SoundInv, NEW w \in Workers, OpenAlarm(w)
    PROVE  SoundInv'
  <1> DEFINE q == req[w]
  <1>0. /\ q \in Request /\ Fits(q) /\ Handles(q) /\ req \in [Workers -> Request]
        /\ q.pc = "open" /\ q.det \in Detectors
    <2>1. q \in Request /\ Fits(q) /\ Handles(q) /\ req \in [Workers -> Request]
      BY DEF TypeOK, Fitting, SoundInv
    <2> QED
      BY <2>1 DEF OpenAlarm, Fits
  <1>1. PICK d \in Detectors : d = q.det
    BY <1>0
  <1>2. PICK i \in AlarmIds :
           /\ alarms[i].st = "none"
           /\ alarms' = [alarms EXCEPT ![i] = [st |-> "open", det |-> d, level |-> q.band,
                                               alert |-> q.alert]]
    BY <1>1 DEF OpenAlarm, First
  <1>3. PICK pc \in {"list", "forget"} : req' = [req EXCEPT ![w] = [q EXCEPT !.pc = pc]]
    BY <1>0 DEF OpenAlarm, Goto
  <1>4. UNCHANGED <<alerts, silenced>>
    BY DEF OpenAlarm
  <1>5. /\ \A j \in AlarmIds \ {i} : alarms'[j] = alarms[j]
        /\ alarms'[i] = [st |-> "open", det |-> d, level |-> q.band, alert |-> q.alert]
    BY <1>2 DEF TypeOK
  <1>6. Sounds(q.alert, d, q.band)
    BY <1>0, <1>1 DEF Handles
  <1>7. SoundAlarms'
    BY <1>4, <1>5, <1>6 DEF SoundInv, SoundAlarms, Sounds, Live
  <1>8. req'[w].pc = pc /\ \A v \in Workers \ {w} : req'[v] = req[v]
    BY <1>0, <1>3 DEF Request
  <1>9. Handles(req[w])'
    BY <1>8 DEF Handles
  <1>10. OwnAlarms(d) /\ OwnAlerts(d)
    BY <1>2, <1>4, <1>5 DEF OwnAlarms, OwnAlerts
  <1> QED
    BY <1>1, <1>4, <1>7, <1>8, <1>9, <1>10, OthersHandle

(* A user changes the status of an alert and nothing else; one that no longer
   sounds was resolved by a user. *)
LEMMA SoundUser ==
    ASSUME TypeOK, SoundInv, NEW u \in Users, Acknowledge(u) \/ ResolveAlert(u)
    PROVE  SoundInv'
  <1>1. UNCHANGED <<alarms, req>> /\ silenced \subseteq silenced'
    BY DEF Acknowledge, ResolveAlert, history
  <1>2. /\ \A a \in AlertIds : /\ alerts'[a].det = alerts[a].det
                               /\ alerts'[a].level = alerts[a].level
        /\ \A a \in AlertIds : alerts[a].st # "none" => alerts'[a].st # "none"
        /\ \A a \in AlertIds : \/ alerts'[a].st = alerts[a].st
                               \/ alerts'[a].st = "acknowledged"
                               \/ a \in silenced'
    <2>1. CASE Acknowledge(u)
      <3>1. \/ alerts' = alerts
            \/ alerts' = [alerts EXCEPT ![user[u].alert].st = "acknowledged"]
        BY <2>1 DEF Acknowledge
      <3> QED
        BY <3>1 DEF TypeOK, Alert
    <2>2. CASE ResolveAlert(u)
      <3>1. \/ alerts' = alerts
            \/ /\ alerts' = [alerts EXCEPT ![user[u].alert].st = "resolved"]
               /\ user[u].alert \in silenced'
        BY <2>2 DEF ResolveAlert
      <3>2. CASE alerts' = alerts
        BY <3>2
      <3>3. CASE /\ alerts' = [alerts EXCEPT ![user[u].alert].st = "resolved"]
                 /\ user[u].alert \in silenced'
        <4>1. \A a \in AlertIds : alerts'[a] = IF a = user[u].alert
                                               THEN [alerts[a] EXCEPT !.st = "resolved"]
                                               ELSE alerts[a]
          BY <3>3 DEF TypeOK
        <4>2. \A a \in AlertIds : alerts[a] \in Alert
          BY DEF TypeOK
        <4>3. \A a \in AlertIds : /\ alerts'[a].det = alerts[a].det
                                  /\ alerts'[a].level = alerts[a].level
                                  /\ alerts'[a].st = IF a = user[u].alert THEN "resolved"
                                                     ELSE alerts[a].st
          BY <4>1, <4>2 DEF Alert
        <4> QED
          BY <3>3, <4>3
      <3> QED
        BY <3>1, <3>2, <3>3
    <2> QED
      BY <2>1, <2>2
  <1>3. \A a, det, level : Sounds(a, det, level) => Sounds(a, det, level)'
    BY <1>1, <1>2 DEF Sounds, Live
  <1>4. SoundAlarms'
    <2> SUFFICES ASSUME NEW i \in AlarmIds, alarms[i].st = "open"
                 PROVE  \/ alarms[i].alert \in Live(alarms[i].det, alarms[i].level)'
                        \/ alarms[i].alert \in silenced'
      BY <1>1 DEF SoundAlarms, Sounds, Live
    <2>1. PICK row : row = alarms[i] /\ row = alarms'[i]
      BY <1>1
    <2>2. Sounds(row.alert, row.det, row.level)
      BY <2>1 DEF SoundInv, SoundAlarms, Sounds
    <2>3. Sounds(row.alert, row.det, row.level)'
      BY <1>3, <2>2
    <2> QED
      BY <2>1, <2>3 DEF Sounds, Live
  <1>5. ASSUME NEW v \in Workers PROVE Handles(req[v])'
    <2>1. PICK r : r = req[v]
      OBVIOUS
    <2>2. Handles(r) /\ req'[v] = r
      BY <1>1, <2>1 DEF SoundInv
    <2>3. Handles(r)'
      BY <1>1, <1>2, <1>3, <2>2 DEF Handles, Waits, Closed, Open
    <2> QED
      BY <2>2, <2>3 DEF Handles
  <1> QED
    BY <1>4, <1>5 DEF SoundInv

(* Nothing that the invariant is about changes. *)
LEMMA SoundStutter ==
    ASSUME SoundInv, UNCHANGED <<alarms, alerts, silenced, req>>
    PROVE  SoundInv'
  BY DEF SoundInv, SoundAlarms, Handles, Waits, Closed, Sounds, Open, Live

(* As long as the requests of no detector overlapped, an open gas alarm has a live
   alert under the dedupe key of its own detector and level, unless a user
   resolved that alert: escalating, two clear readings, and a worker that dies
   between the row of the alarm and the row of the alert leave no alarm that is
   on without one.  resolveAlarm closes the newest live alert of the key, and
   raiseOrEscalate takes a live one over: both are safe only because no other
   alarm of the key is open, and no other request of the detector is at work. *)
THEOREM AlarmsSound == Spec => []OpenAlarmSounds
  <1>1. Init => SerialSound
    BY DEF Init, SerialSound, SoundInv, SoundAlarms, Handles, NoAlarm, Free
  <1>2. ASSUME IInv, SerialOne, SerialSound, [Next]_vars PROVE SerialSound'
    <2> SUFFICES ASSUME doubled' = {} PROVE SoundInv'
      BY DEF SerialSound
    <2>a. OneInv /\ SoundInv
      BY <1>2, SerialSoFar DEF SerialOne, SerialSound
    <2>0. TypeOK /\ Fitting /\ Single /\ OneOpenPerLevel
      BY <1>2, <2>a DEF IInv, OneInv
    <2> USE <1>2, <2>a
    <2>1. ASSUME NEW w \in Workers, Step(w) \/ Die(w) PROVE SoundInv'
      BY <2>0, <2>1, SoundQuiet, SoundResolve, SoundHush, SoundCreate, SoundOpen DEF Step
    <2>2. ASSUME NEW w \in Workers, NEW d \in Detectors, NEW b \in Band, Receive(w, d, b)
          PROVE  SoundInv'
      BY <2>0, <2>2, SoundReceive
    <2>3. ASSUME NEW u \in Users, Acknowledge(u) \/ ResolveAlert(u) PROVE SoundInv'
      BY <2>0, <2>3, SoundUser
    <2>4. CASE \/ UNCHANGED vars
               \/ \E d \in Detectors : Expire(d)
               \/ \E u \in Users, a \in AlertIds, does \in {"acknowledge", "resolve"} :
                     Load(u, a, does)
               \/ \E p \in Permits : Issue(p) \/ Stop(p) \/ Resume(p) \/ EndPermit(p)
      <3>1. UNCHANGED <<alarms, alerts, silenced, req>>
        BY <2>4 DEF vars, tables, history, Expire, Load, Issue, Stop, Resume, EndPermit, Move
      <3> QED
        BY <3>1, SoundStutter
    <2> QED
      BY <2>1, <2>2, <2>3, <2>4 DEF Next
  <1>3. SerialSound => OpenAlarmSounds
    BY DEF SerialSound, SoundInv, SoundAlarms, Sounds, OpenAlarmSounds
  <1>4. IInv /\ SerialOne /\ SerialSound /\ [Next]_vars => SerialSound'
    BY <1>2
  <1> QED
    BY <1>1, <1>3, <1>4, Invariance, OneInvAlways, PTL DEF Spec
=============================================================================
