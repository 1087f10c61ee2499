----------------------------- MODULE OfficeProofs -----------------------------
(***************************************************************************)
(* Theorems about the pages of the office: the history of the zones that   *)
(* readers and cameras cover, the custody of equipment, the crews of       *)
(* permits, the settings, the lists and their filters and the dialogs of   *)
(* the registers, for every number of units, items, requests, desks,       *)
(* documents, workers, roles, settings, rows and steps.                    *)
(***************************************************************************)
EXTENDS MCOffice, CrewReadiness, SequenceTheorems, FiniteSetTheorems, WellFoundedInduction, TLAPS

-----------------------------------------------------------------------------
(* Numbers and sequences.                                                  *)

LEMMA LeastNatural ==
    ASSUME NEW T \in SUBSET Nat, T # {}
    PROVE  \E m \in T : \A k \in T : m <= k
  <1>1. PICK m \in T : \A k \in T : <<k, m>> \notin OpToRel(<, Nat)
    BY WFMin, NatLessThanWellFounded, Zenon
  <1>2. \A k \in T : ~ (k < m)
    BY <1>1, Zenon DEF OpToRel
  <1> QED
    BY <1>2

(* What is equal from one element to the next is equal throughout. *)
LEMMA EqualThroughout ==
    ASSUME NEW s, NEW i \in Nat, NEW j \in Nat, i <= j,
           \A k \in i..(j - 1) : s[k] = s[k + 1]
    PROVE  s[i] = s[j]
  <1> DEFINE T == {k \in i..j : s[k] # s[i]}
  <1>1. SUFFICES ASSUME T # {} PROVE FALSE
    <2>1. j \in i..j
      OBVIOUS
    <2> QED
      BY <2>1
  <1>2. T \in SUBSET Nat
    OBVIOUS
  <1>3. PICK m \in T : \A k \in T : m <= k
    BY <1>1, <1>2, LeastNatural
  <1>4. m \in i..j /\ s[m] # s[i]
    BY <1>3
  <1>5. m - 1 \in i..(j - 1) /\ (m - 1) + 1 = m
    BY <1>4
  <1>6. m - 1 \notin T
    BY <1>3, <1>5
  <1>7. s[m - 1] = s[i]
    BY <1>5, <1>6
  <1> QED
    BY <1>4, <1>5, <1>7

LEMMA RemovedSeq ==
    ASSUME NEW S, NEW s \in Seq(S), NEW i \in DOMAIN s
    PROVE  /\ RemoveAt(s, i) \in Seq(S) /\ Len(RemoveAt(s, i)) = Len(s) - 1
           /\ Len(s) \in Nat /\ i \in 1..Len(s)
           /\ \A k \in 1..(Len(s) - 1) :
                 RemoveAt(s, i)[k] = IF k < i THEN s[k] ELSE s[k + 1]
  <1>1. Len(s) \in Nat /\ i \in 1..Len(s) /\ \A j \in 1..Len(s) : s[j] \in S
    BY LenProperties, ElementOfSeq
  <1>2. PICK n \in Nat : n = Len(s)
    BY <1>1
  <1>3. i \in 1..n /\ (i - 1) + (n - i) = n - 1
    BY <1>1, <1>2
  <1>4. PICK a : a = SubSeq(s, 1, i - 1)
    OBVIOUS
  <1>5. PICK b : b = SubSeq(s, i + 1, n)
    OBVIOUS
  <1>6. /\ a \in Seq(S) /\ Len(a) = i - 1 /\ \A k \in 1..(i - 1) : a[k] = s[k]
    <2>1. /\ a \in Seq(S) /\ Len(a) = (IF 1 <= i - 1 THEN (i - 1) - 1 + 1 ELSE 0)
          /\ \A k \in 1..((i - 1) - 1 + 1) : a[k] = s[1 + k - 1]
      BY <1>1, <1>3, <1>4, SubSeqProperties
    <2>2. (i - 1) - 1 + 1 = i - 1 /\ \A k \in 1..(i - 1) : 1 + k - 1 = k
      BY <1>3
    <2> QED
      BY <1>3, <2>1, <2>2
  <1>7. /\ b \in Seq(S) /\ Len(b) = n - i /\ \A k \in 1..(n - i) : b[k] = s[i + k]
    <2>1. PICK m \in Int : m = i + 1
      BY <1>3
    <2>2. n \in Int /\ \A j \in m..n : s[j] \in S
      BY <1>1, <1>2, <1>3, <2>1
    <2>3. /\ b \in Seq(S) /\ Len(b) = (IF m <= n THEN n - m + 1 ELSE 0)
          /\ \A k \in 1..(n - m + 1) : b[k] = s[m + k - 1]
      BY <1>5, <2>1, <2>2, SubSeqProperties
    <2>4. n - m + 1 = n - i /\ (IF m <= n THEN n - m + 1 ELSE 0) = n - i
      BY <1>3, <2>1
    <2>5. \A k \in 1..(n - i) : m + k - 1 = i + k
      BY <1>3, <2>1
    <2> QED
      BY <2>3, <2>4, <2>5
  <1>8. RemoveAt(s, i) = a \o b
    BY <1>2, <1>4, <1>5 DEF RemoveAt
  <1>9. /\ a \o b \in Seq(S) /\ Len(a \o b) = n - 1
        /\ \A k \in 1..(n - 1) : (a \o b)[k] = IF k <= i - 1 THEN a[k] ELSE b[k - (i - 1)]
    <2>1. /\ a \o b \in Seq(S) /\ Len(a \o b) = Len(a) + Len(b)
          /\ \A k \in 1..(Len(a) + Len(b)) :
                (a \o b)[k] = IF k <= Len(a) THEN a[k] ELSE b[k - Len(a)]
      BY <1>6, <1>7, ConcatProperties
    <2>2. Len(a) + Len(b) = n - 1
      BY <1>3, <1>6, <1>7
    <2> QED
      BY <1>6, <2>1, <2>2
  <1>10. ASSUME NEW k \in 1..(n - 1)
         PROVE  (a \o b)[k] = IF k < i THEN s[k] ELSE s[k + 1]
    <2>1. CASE k < i
      <3>1. k <= i - 1 /\ k \in 1..(i - 1)
        BY <1>3, <2>1
      <3> QED
        BY <1>6, <1>9, <2>1, <3>1
    <2>2. CASE ~ (k < i)
      <3>1. ~ (k <= i - 1) /\ k - (i - 1) \in 1..(n - i) /\ i + (k - (i - 1)) = k + 1
        BY <1>3, <2>2
      <3> QED
        BY <1>7, <1>9, <2>2, <3>1
    <2> QED
      BY <2>1, <2>2
  <1> QED
    BY <1>1, <1>2, <1>8, <1>9, <1>10

(* Which element was removed is known but for equal neighbours. *)
LEMMA SameRemoved ==
    ASSUME NEW S, NEW s \in Seq(S), NEW i \in DOMAIN s, NEW j \in DOMAIN s, i <= j,
           RemoveAt(s, i) = RemoveAt(s, j)
    PROVE  s[i] = s[j]
  <1>1. PICK n \in Nat : n = Len(s)
    BY LenProperties
  <1>2. i \in 1..n /\ j \in 1..n
    BY <1>1, LenProperties
  <1>3. /\ \A k \in 1..(n - 1) : RemoveAt(s, i)[k] = IF k < i THEN s[k] ELSE s[k + 1]
        /\ \A k \in 1..(n - 1) : RemoveAt(s, j)[k] = IF k < j THEN s[k] ELSE s[k + 1]
    BY <1>1, RemovedSeq
  <1>4. ASSUME NEW k \in i..(j - 1) PROVE s[k] = s[k + 1]
    <2>1. k \in 1..(n - 1) /\ ~ (k < i) /\ k < j
      BY <1>2
    <2> QED
      BY <1>3, <2>1
  <1>5. i \in Nat /\ j \in Nat
    BY <1>2
  <1> QED
    BY <1>4, <1>5, EqualThroughout

-----------------------------------------------------------------------------
(* Repositioning.                                                          *)

(* The rows of a unit: at most one is open, every other one ends where the open
   one starts or before, and from the first on each time falls in one zone. *)
Tiled(held) ==
    /\ held \in SUBSET Row
    /\ held = {} \/ \E o \in held :
          Bound(held) = {o} /\ \A b \in held \ {o} : b.until <= o.from
    /\ \A t \in 1..Horizon :
          (\E b \in held : b.from <= t) => \E z : Covering(held, t) = {z}

LEMMA HorizonIs == Horizon \in Nat \ {0} /\ LastTime \in 1..Horizon
  BY RepositioningAssumption DEF RepositioningAssumption, Horizon

ReposInv ==
    /\ ReposTypeOK
    /\ bindings \in [Units -> SUBSET Row]
    /\ \A u \in Units : Tiled(bindings[u])

LEMMA TiledBound ==
    ASSUME NEW held, Tiled(held)
    PROVE  held \subseteq Row /\ Cardinality(Bound(held)) <= 1
  <1>1. CASE held = {}
    BY <1>1, FS_EmptySet DEF Bound, Tiled
  <1>2. ASSUME NEW o, Bound(held) = {o} PROVE Cardinality(Bound(held)) <= 1
    <2>1. Cardinality({o}) = 1
      BY FS_Singleton
    <2> QED
      BY <1>2, <2>1
  <1> QED
    BY <1>1, <1>2 DEF Tiled

(* The first row of a unit.                                                *)
LEMMA TiledFirst ==
    ASSUME NEW zone \in Zones, NEW from \in 1..Horizon
    PROVE  Tiled({[zone |-> zone, from |-> from, until |-> OpenEnd]})
  <1> USE HorizonIs
  <1>1. PICK n : n = [zone |-> zone, from |-> from, until |-> OpenEnd]
    OBVIOUS
  <1>2. n \in Row /\ n.from = from /\ n.until = OpenEnd /\ n.zone = zone
    BY <1>1 DEF Row, OpenEnd
  <1>3. Bound({n}) = {n}
    BY <1>2 DEF Bound
  <1>4. ASSUME NEW t \in 1..Horizon, n.from <= t PROVE Covering({n}, t) = {zone}
    BY <1>2, <1>4 DEF Covering, OpenEnd
  <1>5. Tiled({n})
    BY <1>2, <1>3, <1>4 DEF Tiled
  <1> QED
    BY <1>1, <1>5

(* What a rebind that is not out of order does to the rows: the zones of the
   times before it stay, and it opens the only zone from its time on. *)
LEMMA MovedTiled ==
    ASSUME NEW held, Tiled(held), NEW zone \in Zones, NEW effective \in 1..Horizon,
           \A b \in Bound(held) : effective >= b.from
    PROVE  /\ Tiled(Moved(held, zone, effective))
           /\ \A t \in 1..Horizon : t < effective =>
                 Covering(Moved(held, zone, effective), t) = Covering(held, t)
  <1> USE HorizonIs
  <1>1. PICK n : n = [zone |-> zone, from |-> effective, until |-> OpenEnd]
    OBVIOUS
  <1>2. n \in Row /\ n.from = effective /\ n.until = OpenEnd /\ n.zone = zone
    BY <1>1 DEF Row, OpenEnd
  <1>3. CASE held = {}
    <2>1. Moved(held, zone, effective) = {n}
      BY <1>1, <1>3 DEF Moved, Bound
    <2>2. \A t \in 1..Horizon : t < effective => Covering({n}, t) = {}
      BY <1>2 DEF Covering
    <2> QED
      BY <1>1, <1>3, <2>1, <2>2, TiledFirst DEF Covering
  <1>4. ASSUME NEW o \in held, Bound(held) = {o}, \A b \in held \ {o} : b.until <= o.from
        PROVE  /\ Tiled(Moved(held, zone, effective))
               /\ \A t \in 1..Horizon : t < effective =>
                     Covering(Moved(held, zone, effective), t) = Covering(held, t)
    <2>1. o \in Row /\ o.from \in 1..Horizon /\ o.until = OpenEnd /\ effective >= o.from
      BY <1>4 DEF Bound, Tiled, Row
    <2>2. PICK c : c = [o EXCEPT !.until = effective]
      OBVIOUS
    <2>3. c \in Row /\ c.from = o.from /\ c.until = effective /\ c.zone = o.zone
      BY <2>1, <2>2 DEF Row, OpenEnd
    <2>4. PICK new : new = (held \ {o}) \cup {c} \cup {n}
      OBVIOUS
    <2>5. Moved(held, zone, effective) = new
      BY <1>1, <1>4, <2>2, <2>4 DEF Moved
    <2>6. \A b \in held \ {o} : b \in Row /\ b.until <= o.from /\ b.from \in 1..Horizon
                                  /\ b.until \in 1..OpenEnd
      BY <1>4 DEF Tiled, Row
    <2>7. \A b \in (held \ {o}) \cup {c} :
             /\ b \in Row /\ b.until <= effective /\ b.until # OpenEnd
      BY <2>1, <2>3, <2>6 DEF OpenEnd
    <2>8. Bound(new) = {n} /\ n \in new
      BY <1>2, <2>4, <2>7 DEF Bound
    <2>9. \A b \in new \ {n} : b.until <= n.from
      BY <1>2, <2>4, <2>7
    <2>10. ASSUME NEW t \in 1..Horizon, t < effective
           PROVE  Covering(new, t) = Covering(held, t)
      <3>1. (c.from <= t /\ t < c.until) <=> (o.from <= t /\ t < o.until)
        BY <2>1, <2>3, <2>10 DEF OpenEnd
      <3>2. ~ (n.from <= t)
        BY <1>2, <2>10
      <3> QED
        BY <2>3, <2>4, <3>1, <3>2 DEF Covering
    <2>11. ASSUME NEW t \in 1..Horizon, t >= effective
           PROVE  Covering(new, t) = {zone}
      <3>1. n.from <= t /\ t < n.until
        BY <1>2, <2>11 DEF OpenEnd
      <3>2. \A b \in (held \ {o}) \cup {c} : ~ (t < b.until)
        BY <2>7, <2>11 DEF Row, OpenEnd
      <3>3. {x \in new : x.from <= t /\ t < x.until} = {n}
        BY <2>4, <3>1, <3>2
      <3> QED
        BY <1>2, <3>3 DEF Covering
    <2>12. ASSUME NEW t \in 1..Horizon, t < effective, \E b \in new : b.from <= t
           PROVE  \E b \in held : b.from <= t
      BY <1>2, <2>3, <2>4, <2>12
    <2>13. \A t \in 1..Horizon : (\E b \in new : b.from <= t) => \E z : Covering(new, t) = {z}
      <3>1. SUFFICES ASSUME NEW t \in 1..Horizon, \E b \in new : b.from <= t
                     PROVE  \E z : Covering(new, t) = {z}
        OBVIOUS
      <3>2. CASE t < effective
        BY <2>10, <2>12, <3>1, <3>2 DEF Tiled
      <3>3. CASE t >= effective
        BY <2>11, <3>3
      <3>4. t < effective \/ t >= effective
        OBVIOUS
      <3> QED
        BY <3>2, <3>3, <3>4
    <2>14. new \in SUBSET Row
      BY <1>2, <2>4, <2>7
    <2> QED
      BY <2>5, <2>8, <2>9, <2>10, <2>13, <2>14 DEF Tiled
  <1> QED
    BY <1>3, <1>4 DEF Tiled

LEMMA ReposStarts == ASSUME ReposInit PROVE ReposInv
  <1> USE HorizonIs
  <1>1. PICK at \in [Units -> Zones \cup {NoZone}] :
            /\ bindings = [u \in Units |-> IF at[u] = NoZone THEN {}
                             ELSE {[zone |-> at[u], from |-> 1, until |-> OpenEnd]}]
            /\ cards = [u \in Units |-> [zone |-> at[u], picked |-> NoZone, input |-> label]]
    BY DEF ReposInit
  <1>2. Tiled({})
    BY DEF Tiled
  <1>3. \A u \in Units : Tiled(bindings[u])
    <2>1. SUFFICES ASSUME NEW u \in Units PROVE Tiled(bindings[u])
      OBVIOUS
    <2>2. CASE at[u] = NoZone
      BY <1>1, <1>2, <2>2
    <2>3. CASE at[u] # NoZone
      <3>1. at[u] \in Zones /\ 1 \in 1..Horizon
        BY <2>3
      <3>2. Tiled({[zone |-> at[u], from |-> 1, until |-> OpenEnd]})
        BY <3>1, TiledFirst
      <3> QED
        BY <1>1, <2>3, <3>2
    <2> QED
      BY <2>2, <2>3
  <1>4. bindings \in [Units -> SUBSET Row]
    <2>1. \A u \in Units : bindings[u] \in SUBSET Row
      BY <1>3 DEF Tiled
    <2>2. bindings = [u \in Units |-> bindings[u]]
      BY <1>1
    <2> QED
      BY <2>1, <2>2
  <1>5. cards \in [Units -> [zone : Zones \cup {NoZone}, picked : Zones \cup {NoZone},
                            input : Labels]]
    BY <1>1 DEF ReposInit
  <1>6. rebinds \in Seq(Rebind) /\ Len(rebinds) <= asked /\ asked \in 0..MaxRebinds
    BY EmptySeq, RepositioningAssumption DEF ReposInit, RepositioningAssumption
  <1>7. time \in 1..LastTime /\ label \in Labels
    BY DEF ReposInit
  <1>8. \A u \in Units : bindings[u] \subseteq Row /\ Cardinality(Bound(bindings[u])) <= 1
    BY <1>3, TiledBound
  <1> QED
    BY <1>3, <1>4, <1>5, <1>6, <1>7, <1>8 DEF ReposInv, ReposTypeOK

(* A request that is put in the queue, or read: nothing else changes.      *)
LEMMA QueueKeeps ==
    ASSUME ReposInv, UNCHANGED <<bindings, label, cards>>, time' \in 1..LastTime,
           rebinds' \in Seq(Rebind), Len(rebinds') <= asked', asked' \in 0..MaxRebinds
    PROVE  ReposInv'
  BY DEF ReposInv, ReposTypeOK

LEMMA AskKeeps ==
    ASSUME ReposInv, NEW u \in Units, NEW z \in Zones, NEW l \in Labels,
           NEW asks \in BOOLEAN, Ask(u, z, l, asks)
    PROVE  ReposInv'
  <1>1. PICK r : r = [unit |-> u, zone |-> z, label |-> l, page |-> asks, effective |-> NotRead]
    OBVIOUS
  <1>2. r \in Rebind
    BY <1>1, HorizonIs DEF Rebind, NotRead
  <1>3. rebinds' \in Seq(Rebind) /\ Len(rebinds') = Len(rebinds) + 1 /\ Len(rebinds) \in Nat
    BY <1>1, <1>2, AppendProperties, LenProperties DEF Ask, ReposInv, ReposTypeOK
  <1>4. /\ asked \in 0..MaxRebinds /\ asked < MaxRebinds /\ asked' = asked + 1
        /\ Len(rebinds) <= asked /\ MaxRebinds \in Nat
    BY RepositioningAssumption DEF Ask, ReposInv, ReposTypeOK, RepositioningAssumption
  <1>5. Len(rebinds') <= asked' /\ asked' \in 0..MaxRebinds
    BY <1>3, <1>4
  <1>6. UNCHANGED <<bindings, label, cards, time>> /\ time \in 1..LastTime
    BY DEF Ask, ReposInv, ReposTypeOK
  <1> QED
    BY <1>3, <1>5, <1>6, QueueKeeps

LEMMA ReadKeeps ==
    ASSUME ReposInv, NEW i \in DOMAIN rebinds, ReadClock(i) PROVE ReposInv'
  <1>1. rebinds \in Seq(Rebind) /\ time \in 1..LastTime /\ asked \in 0..MaxRebinds
    BY DEF ReposInv, ReposTypeOK
  <1>2. PICK r \in Rebind : r = rebinds[i]
    BY <1>1, LenProperties, ElementOfSeq
  <1>3. PICK at \in 0..Horizon :
             rebinds' = [rebinds EXCEPT ![i] = [r EXCEPT !.effective = at]]
    <2>1. CASE rebinds' = [rebinds EXCEPT ![i].effective = time]
      <3>1. time \in 0..Horizon
        BY <1>1, RepositioningAssumption DEF Horizon, RepositioningAssumption
      <3> QED
        BY <1>2, <2>1, <3>1
    <2>2. ASSUME NEW at \in 1..(time + Ahead),
                 rebinds' = [rebinds EXCEPT ![i].effective = at]
          PROVE  \E t \in 0..Horizon :
                    rebinds' = [rebinds EXCEPT ![i] = [r EXCEPT !.effective = t]]
      <3>1. at \in 0..Horizon
        BY <1>1, RepositioningAssumption DEF Horizon, RepositioningAssumption
      <3> QED
        BY <1>2, <2>2, <3>1
    <2> QED
      BY <2>1, <2>2 DEF ReadClock
  <1>4. PICK q \in Rebind : q = [r EXCEPT !.effective = at]
    <2>1. [r EXCEPT !.effective = at] \in Rebind
      BY DEF Rebind
    <2> QED
      BY <2>1
  <1>5. rebinds' = [rebinds EXCEPT ![i] = q]
    BY <1>3, <1>4
  <1>6. rebinds' \in Seq(Rebind) /\ Len(rebinds') = Len(rebinds)
    BY <1>1, <1>5, ExceptSeq, LenProperties
  <1>7. UNCHANGED <<bindings, label, cards, time, asked>> /\ Len(rebinds) <= asked
    BY DEF ReadClock, ReposInv, ReposTypeOK
  <1> QED
    BY <1>1, <1>6, <1>7, QueueKeeps

(* The answer of a request: the rows of every unit still tile its history. *)
LEMMA AnswerKeeps ==
    ASSUME ReposInv, NEW i \in DOMAIN rebinds, Answered(i), UNCHANGED <<time, asked>>,
           bindings' \in [Units -> SUBSET Row], \A u \in Units : Tiled(bindings'[u]),
           label' \in Labels
    PROVE  ReposInv'
  <1>1. /\ rebinds \in Seq(Rebind) /\ time \in 1..LastTime /\ asked \in 0..MaxRebinds
        /\ Len(rebinds) <= asked
        /\ cards \in [Units -> [zone : Zones \cup {NoZone}, picked : Zones \cup {NoZone},
                                input : Labels]]
    BY DEF ReposInv, ReposTypeOK
  <1>2. /\ rebinds' \in Seq(Rebind) /\ Len(rebinds') = Len(rebinds) - 1
        /\ Len(rebinds) \in Nat
    BY <1>1, RemovedSeq DEF Answered
  <1>3. Len(rebinds') <= asked'
    BY <1>1, <1>2
  <1>4. ASSUME NEW u \in Units
        PROVE  (LET open == Bound(bindings'[u])
                IN  IF open = {} THEN NoZone ELSE (CHOOSE b \in open : TRUE).zone)
                  \in Zones \cup {NoZone}
    <2>1. \A b \in Bound(bindings'[u]) : b.zone \in Zones
      BY DEF Bound, Row
    <2>2. Bound(bindings'[u]) # {} =>
            (CHOOSE b \in Bound(bindings'[u]) : TRUE) \in Bound(bindings'[u])
      OBVIOUS
    <2> QED
      BY <2>1, <2>2
  <1>5. cards' \in [Units -> [zone : Zones \cup {NoZone}, picked : Zones \cup {NoZone},
                            input : Labels]]
    BY <1>1, <1>4 DEF Answered
  <1>6. \A u \in Units :
           bindings'[u] \subseteq Row /\ Cardinality(Bound(bindings'[u])) <= 1
    BY TiledBound
  <1> QED
    BY <1>1, <1>2, <1>3, <1>5, <1>6 DEF ReposInv, ReposTypeOK

(* A rebind, and what it does to the unit it is for. *)
LEMMA BindMoves ==
    ASSUME ReposInv, NEW i \in DOMAIN rebinds, BindUnit(i)
    PROVE  /\ ReposInv'
           /\ \A u \in Units : bindings'[u] # bindings[u] => rebinds[i].unit = u
           /\ \A u \in Units, t \in 1..Horizon :
                 rebinds[i].unit = u /\ t < rebinds[i].effective =>
                    Covering(bindings'[u], t) = Covering(bindings[u], t)
  <1>1. PICK r \in Rebind : r = rebinds[i]
    BY LenProperties, ElementOfSeq DEF ReposInv, ReposTypeOK
  <1>2. /\ r.unit \in Units /\ r.zone \in Zones /\ r.label \in Labels
        /\ r.effective \in 1..Horizon
    BY <1>1, HorizonIs DEF Rebind, BindUnit, NotRead
  <1>3. /\ bindings \in [Units -> SUBSET Row] /\ \A u \in Units : Tiled(bindings[u])
        /\ label \in Labels
    BY DEF ReposInv, ReposTypeOK
  <1>4. Answered(i) /\ UNCHANGED <<time, asked>>
    BY DEF BindUnit
  <1>5. CASE Follows(r.unit, r.effective)
    <2>1. PICK new : new = Moved(bindings[r.unit], r.zone, r.effective)
      OBVIOUS
    <2>2. bindings' = [bindings EXCEPT ![r.unit] = new] /\ label' = r.label
      BY <1>1, <1>5, <2>1 DEF BindUnit
    <2>3. /\ Tiled(new)
          /\ \A t \in 1..Horizon : t < r.effective =>
                Covering(new, t) = Covering(bindings[r.unit], t)
      BY <1>2, <1>3, <1>5, <2>1, MovedTiled DEF Follows
    <2>4. bindings' \in [Units -> SUBSET Row]
      BY <1>2, <1>3, <2>2, <2>3 DEF Tiled
    <2>5. \A u \in Units : Tiled(bindings'[u])
      BY <1>2, <1>3, <2>2, <2>3
    <2>6. ReposInv'
      BY <1>2, <1>4, <2>2, <2>4, <2>5, AnswerKeeps
    <2>7. \A u \in Units : bindings'[u] # bindings[u] => r.unit = u
      BY <1>2, <1>3, <2>2
    <2>8. bindings'[r.unit] = new
      BY <1>2, <1>3, <2>2
    <2> QED
      BY <1>1, <2>3, <2>6, <2>7, <2>8
  <1>6. CASE ~ Follows(r.unit, r.effective)
    <2>1. UNCHANGED <<bindings, label>>
      BY <1>1, <1>6 DEF BindUnit
    <2>2. /\ bindings' \in [Units -> SUBSET Row] /\ \A u \in Units : Tiled(bindings'[u])
          /\ label' \in Labels
      BY <1>3, <2>1
    <2>3. ReposInv'
      BY <1>4, <2>2, AnswerKeeps
    <2> QED
      BY <2>1, <2>3
  <1> QED
    BY <1>5, <1>6

LEMMA ReposKept ==
    ASSUME ReposInv, [ReposNext]_reposVars PROVE ReposInv'
  <1>1. ASSUME NEW u \in Units, NEW z \in Zones \cup {NoZone}, PickZone(u, z) PROVE ReposInv'
    <2>1. cards' \in [Units -> [zone : Zones \cup {NoZone}, picked : Zones \cup {NoZone},
                               input : Labels]]
      BY <1>1 DEF PickZone, ReposInv, ReposTypeOK
    <2> QED
      BY <1>1, <2>1 DEF PickZone, ReposInv, ReposTypeOK
  <1>2. ASSUME NEW u \in Units, NEW l \in Labels, TypeLabel(u, l) PROVE ReposInv'
    <2>1. cards' \in [Units -> [zone : Zones \cup {NoZone}, picked : Zones \cup {NoZone},
                               input : Labels]]
      BY <1>2 DEF TypeLabel, ReposInv, ReposTypeOK
    <2> QED
      BY <1>2, <2>1 DEF TypeLabel, ReposInv, ReposTypeOK
  <1>3. ASSUME NEW u \in Units, PressRebind(u) PROVE ReposInv'
    <2>1. cards[u].picked \in Zones /\ cards[u].input \in Labels
      BY <1>3 DEF PressRebind, ReposInv, ReposTypeOK
    <2>2. Ask(u, cards[u].picked, cards[u].input, TRUE)
      BY <1>3 DEF PressRebind
    <2> QED
      BY <2>1, <2>2, AskKeeps
  <1>4. ASSUME NEW u \in Units, NEW z \in Zones, NEW l \in Labels, OtherOperator(u, z, l)
        PROVE  ReposInv'
    BY <1>4, AskKeeps DEF OtherOperator
  <1>5. ASSUME NEW i \in DOMAIN rebinds, ReadClock(i) PROVE ReposInv'
    BY <1>5, ReadKeeps
  <1>6. ASSUME NEW i \in DOMAIN rebinds, BindUnit(i) PROVE ReposInv'
    BY <1>6, BindMoves
  <1>7. ASSUME NEW i \in DOMAIN rebinds, RefuseZone(i) PROVE ReposInv'
    <2>1. /\ bindings' \in [Units -> SUBSET Row] /\ \A u \in Units : Tiled(bindings'[u])
          /\ label' \in Labels /\ UNCHANGED <<time, asked>> /\ Answered(i)
      BY <1>7 DEF RefuseZone, ReposInv, ReposTypeOK
    <2> QED
      BY <2>1, AnswerKeeps
  <1>8. CASE ClockTicks
    <2>1. time' \in 1..LastTime
      BY <1>8, RepositioningAssumption
      DEF ClockTicks, ReposInv, ReposTypeOK, RepositioningAssumption
    <2> QED
      BY <1>8, <2>1 DEF ClockTicks, ReposInv, ReposTypeOK
  <1>9. CASE UNCHANGED reposVars
    BY <1>9 DEF reposVars, ReposInv, ReposTypeOK
  <1> QED
    BY <1>1, <1>2, <1>3, <1>4, <1>5, <1>6, <1>7, <1>8, <1>9 DEF ReposNext

(* The past of a unit, as PastStands says it of one step. *)
PastKept ==
    \A u \in Units : \A i \in DOMAIN rebinds :
       rebinds' = RemoveAt(rebinds, i) /\ rebinds[i].unit = u
       => \A t \in 1..Horizon : t < rebinds[i].effective =>
             Covering(bindings'[u], t) = Covering(bindings[u], t)

LEMMA PastIsKept ==
    ASSUME ReposInv, [ReposNext]_reposVars PROVE PastKept
  <1>1. ASSUME NEW j \in DOMAIN rebinds, BindUnit(j) PROVE PastKept
    <2>1. SUFFICES ASSUME NEW u \in Units, NEW i \in DOMAIN rebinds,
                          rebinds' = RemoveAt(rebinds, i), rebinds[i].unit = u,
                          NEW t \in 1..Horizon, t < rebinds[i].effective
                   PROVE  Covering(bindings'[u], t) = Covering(bindings[u], t)
      BY DEF PastKept
    <2>2. rebinds \in Seq(Rebind) /\ DOMAIN rebinds \subseteq Nat
      BY LenProperties DEF ReposInv, ReposTypeOK
    <2>3. rebinds' = RemoveAt(rebinds, j)
      BY <1>1 DEF BindUnit, Answered
    <2>4. i <= j \/ j <= i
      BY <2>2
    <2>5. rebinds[i] = rebinds[j]
      BY <2>1, <2>2, <2>3, <2>4, SameRemoved
    <2> QED
      BY <1>1, <2>1, <2>5, BindMoves
  <1>2. ASSUME UNCHANGED bindings PROVE PastKept
    BY <1>2 DEF PastKept
  <1> QED
    BY <1>1, <1>2
    DEF ReposNext, reposVars, PickZone, TypeLabel, PressRebind, OtherOperator, Ask,
        ReadClock, RefuseZone, ClockTicks

LEMMA ReposOneZone == ASSUME ReposInv PROVE ReposTypeOK /\ OneZoneAtATime
  <1>1. ASSUME NEW u \in Units, NEW t \in 1..Horizon, \E b \in bindings[u] : b.from <= t
        PROVE  Cardinality(Covering(bindings[u], t)) = 1
    <2>1. PICK z : Covering(bindings[u], t) = {z}
      BY <1>1 DEF ReposInv, Tiled
    <2> QED
      BY <2>1, FS_Singleton
  <1> QED
    BY <1>1 DEF ReposInv, OneZoneAtATime

(* However many requests rebind units at once, and in whatever order the server
   takes the times they read, every time since a unit was first bound falls in
   one zone, and a rebind leaves the zones of the times before it alone (bind,
   resolveZoneAt). *)
THEOREM HistoryIsKept == ReposSpec => HistoryStands
  <1>1. ReposInit => ReposInv
    BY ReposStarts
  <1>2. ReposInv /\ [ReposNext]_reposVars => ReposInv'
    BY ReposKept
  <1>3. ReposInv => ReposTypeOK /\ OneZoneAtATime
    BY ReposOneZone
  <1>4. ReposInv /\ [ReposNext]_reposVars => [PastKept]_reposVars
    BY PastIsKept
  <1> QED
    BY <1>1, <1>2, <1>3, <1>4, PTL DEF ReposSpec, HistoryStands, PastStands, PastKept

-----------------------------------------------------------------------------
(* The custody of equipment.                                               *)
Checkout == [item : Items, open : BOOLEAN]

(* The rows of the server have their types. *)
RowsTyped ==
    /\ status \in [Items -> ItemStatus]
    /\ checkouts \in Seq(Checkout)
    /\ lock \in [Items -> {"free"} \cup Clients]
    /\ tx \in [Clients -> CustodyRequest]
    /\ writing \subseteq [id : 1..MaxCalls, item : Items, loaded : ItemStatus, to : ItemStatus,
                        checked : BOOLEAN]
    /\ writesMade \in 0..MaxCalls

(* The checkout that a client has checked and not yet inserted. *)
ItemChecked(w, i) == tx[w].kind = "checkout" /\ tx[w].stage = "checked" /\ tx[w].target = i

(* Whoever checked an item holds its row, and nobody else does. *)
LockIsChecked == \A i \in Items, w \in Clients : lock[i] = w <=> ItemChecked(w, i)

(* While the row of an item is held, the item is in service and in. *)
HeldIsFree == \A i \in Items : lock[i] # "free" => status[i] = "in_service" /\ OpenRow(i) = {}

OpenOnce == \A i \in Items : \A r, s \in OpenRow(i) : r = s

(* Whether the client is about to add a checkout. *)
Adds(w) == IF tx[w].kind = "checkout" /\ tx[w].stage \in {"posted", "checked"} THEN 1 ELSE 0
RowsBounded == Len(checkouts) + Adds("desk") + Adds("other") <= MaxRows + 1

ServerInv == RowsTyped /\ LockIsChecked /\ HeldIsFree /\ OpenOnce /\ RowsBounded

(* A label is looked up from the page of the scan alone, and the dialogs are on
   the pages that have them. *)
PageTyped ==
    /\ place \in Places
    /\ known = NoItem \/ known \in [item : Items, open : 0..(MaxRows + 1)]
    /\ outOpen \in BOOLEAN /\ retOpen \in BOOLEAN
    /\ place = "show" => known # NoItem /\ ~(outOpen /\ retOpen)
    /\ place = "checkouts" => ~outOpen
    /\ outFields \in Items \cup {Blank} /\ retFields \in 0..(MaxRows + 1)
    /\ lookups \subseteq Items
    /\ place # "scan" => lookups = {}

(* What is filled in is for what the dialog is about. *)
FilledForShown ==
    /\ outOpen /\ outFields # Blank => outFields = known.item
    /\ retOpen /\ retFields # 0 => retFields = known.open

PostedForShown ==
    /\ tx["desk"].kind = "checkout" => tx["desk"].about = tx["desk"].target
    /\ tx["desk"].kind = "return" => tx["desk"].about \in {0, tx["desk"].target}

PageInv == PageTyped /\ FilledForShown

CustodyInv == ServerInv /\ PageInv /\ PostedForShown

LEMMA CustodyStarts == CustodyInit => CustodyInv
  <1> SUFFICES ASSUME CustodyInit PROVE CustodyInv
    OBVIOUS
  <1>1. checkouts \in Seq(Checkout) /\ Len(checkouts) = 0 /\ CheckoutIds = {}
    BY DEF CustodyInit, CheckoutIds
  <1>2. \A i \in Items : OpenRow(i) = {}
    BY <1>1 DEF OpenRow
  <1>3. \A i \in Items : Snapshot(i) = [item |-> i, open |-> 0]
    BY <1>2 DEF Snapshot, OpenCheckout
  <1>4. tx \in [Clients -> CustodyRequest] /\ \A w \in Clients : tx[w].kind = "none"
    BY DEF CustodyInit, CustodyRequest, NoRequest
  <1>5. RowsTyped
    BY <1>1, <1>4, CustodyAssumption DEF CustodyInit, RowsTyped, ItemStatus
  <1>6. LockIsChecked /\ HeldIsFree /\ OpenOnce /\ PostedForShown
    BY <1>2, <1>4
    DEF CustodyInit, LockIsChecked, HeldIsFree, OpenOnce, ItemChecked, PostedForShown, Clients
  <1>7. RowsBounded
    BY <1>1, <1>4, CustodyAssumption DEF RowsBounded, Adds, Clients
  <1>8. PageTyped
    <2>1. known = NoItem \/ (known \in [item : Items, open : 0..(MaxRows + 1)])
      BY <1>3, CustodyAssumption DEF CustodyInit
    <2>2. place = "show" => known # NoItem
      BY <1>3, CustodyAssumption DEF CustodyInit, NoItem
    <2>3. retFields \in 0..(MaxRows + 1)
      BY CustodyAssumption DEF CustodyInit
    <2>4. place \in Places /\ outOpen = FALSE /\ retOpen = FALSE /\ outFields = Blank /\ lookups = {}
      BY DEF CustodyInit
    <2> HIDE DEF CustodyInit
    <2> QED
      BY <2>1, <2>2, <2>3, <2>4, Zenon DEF PageTyped
  <1>9. FilledForShown
    BY DEF CustodyInit, FilledForShown
  <1> QED
    BY <1>5, <1>6, <1>7, <1>8, <1>9 DEF CustodyInv, ServerInv, PageInv

LEMMA OpenIsId ==
    ASSUME RowsTyped, RowsBounded, NEW i \in Items
    PROVE  /\ OpenCheckout(i) \in 0..(MaxRows + 1)
           /\ Snapshot(i) \in [item : Items, open : 0..(MaxRows + 1)]
           /\ Snapshot(i) # NoItem /\ Snapshot(i).item = i
  <1>1. CheckoutIds = 1..Len(checkouts) /\ Len(checkouts) \in Nat
    BY DEF RowsTyped, CheckoutIds
  <1>2. Adds("desk") \in {0, 1} /\ Adds("other") \in {0, 1}
    BY DEF Adds
  <1>3. Len(checkouts) <= MaxRows + 1
    BY <1>1, <1>2, CustodyAssumption DEF RowsBounded
  <1>4. OpenCheckout(i) \in 0..(MaxRows + 1)
    <2>1. OpenRow(i) \subseteq 1..Len(checkouts)
      BY <1>1 DEF OpenRow
    <2>2. CASE OpenRow(i) = {}
      BY <2>2, CustodyAssumption DEF OpenCheckout
    <2>3. CASE OpenRow(i) # {}
      <3>1. OpenCheckout(i) \in OpenRow(i)
        BY <2>3 DEF OpenCheckout
      <3> QED
        BY <3>1, <2>1, <1>1, <1>3, CustodyAssumption
    <2> QED
      BY <2>2, <2>3
  <1> QED
    BY <1>4, CustodyAssumption DEF Snapshot, NoItem

(* A render keeps the fields for what is shown. *)
LEMMA RenderKeeps ==
    ASSUME PageInv, NEW k, NEW o \in BOOLEAN, NEW r \in BOOLEAN, Render(k, o, r),
           k = NoItem \/ k \in [item : Items, open : 0..(MaxRows + 1)],
           place = "show" => k # NoItem /\ ~(o /\ r),
           place = "checkouts" => ~o,
           place' = place, lookups' \subseteq lookups \/ (lookups' \subseteq Items /\ place = "scan")
    PROVE  PageInv'
  <1>1. FilledForShown'
    BY DEF PageInv, FilledForShown, Render, Cleared, OutTarget, RetTarget
  <1>2. outFields' \in Items \cup {Blank} /\ retFields' \in 0..(MaxRows + 1)
    BY CustodyAssumption DEF PageInv, PageTyped, Render
  <1> QED
    BY <1>1, <1>2 DEF PageInv, PageTyped, Render

LEMMA PageStepsKeep ==
    ASSUME CustodyInv,
           \/ PressCheckOut \/ PressReturn \/ Revisit \/ Dismiss \/ FillOut \/ FillReturn
           \/ \E r \in CheckoutIds : PickRow(r)
           \/ \E i \in Items : Scan(i) \/ LookedUp(i) \/ LookupFails(i)
    PROVE  CustodyInv'
  <1>1. UNCHANGED serverVars /\ UNCHANGED tx
    BY DEF PressCheckOut, PressReturn, Revisit, Dismiss, FillOut, FillReturn, PickRow, Scan,
           LookedUp, LookupFails
  <1>2. ServerInv' /\ PostedForShown'
    <2>1. RowsTyped' /\ PostedForShown' /\ RowsBounded'
      BY <1>1 DEF CustodyInv, ServerInv, serverVars, RowsTyped, PostedForShown, RowsBounded, Adds
    <2>2. LockIsChecked' /\ HeldIsFree' /\ OpenOnce'
      BY <1>1 DEF CustodyInv, ServerInv, serverVars, LockIsChecked, HeldIsFree, OpenOnce,
                  ItemChecked, OpenRow, CheckoutIds
    <2> QED
      BY <2>1, <2>2 DEF ServerInv
  <1>3. known = NoItem \/ known \in [item : Items, open : 0..(MaxRows + 1)]
    BY DEF CustodyInv, PageInv, PageTyped
  <1>4. RowsTyped /\ RowsBounded /\ PageInv /\ outOpen \in BOOLEAN /\ retOpen \in BOOLEAN
    BY DEF CustodyInv, ServerInv, PageInv, PageTyped
  <1>5. CASE PressCheckOut
    BY <1>3, <1>4, <1>5, RenderKeeps, <1>2
    DEF PressCheckOut, PageInv, PageTyped, CustodyInv
  <1>6. CASE PressReturn
    BY <1>3, <1>4, <1>6, RenderKeeps, <1>2
    DEF PressReturn, PageInv, PageTyped, CustodyInv
  <1>7. CASE Revisit
    <2>1. known.item \in Items
      BY <1>3, <1>4, <1>7 DEF Revisit, PageInv, PageTyped
    <2> QED
      BY <2>1, <1>4, <1>7, OpenIsId, RenderKeeps, <1>2
      DEF Revisit, PageInv, PageTyped, CustodyInv
  <1>8. CASE Dismiss
    <2>1. Left = NoItem \/ Left \in [item : Items, open : 0..(MaxRows + 1)]
      BY <1>3 DEF Left
    <2>2. place = "show" => Left # NoItem
      BY <1>4 DEF Left, PageInv, PageTyped
    <2>3. PICK o \in BOOLEAN, r \in BOOLEAN :
               /\ Render(Left, o, r)
               /\ (o => outOpen) /\ (r => retOpen) /\ ~(o /\ r /\ place = "show")
      BY <1>4, <1>8 DEF Dismiss, PageInv, PageTyped
    <2> QED
      BY <2>1, <2>2, <2>3, <1>4, <1>8, RenderKeeps, <1>2
      DEF Dismiss, PageInv, PageTyped, CustodyInv
  <1>9. CASE FillOut
    BY <1>2, <1>3, <1>4, <1>9 DEF FillOut, PageInv, PageTyped, FilledForShown, CustodyInv
  <1>10. CASE FillReturn
    <2>1. known.open \in 0..(MaxRows + 1)
      BY <1>3, <1>10, CustodyAssumption DEF FillReturn, NoItem
    <2> QED
      BY <1>2, <1>4, <1>10, <2>1 DEF FillReturn, PageInv, PageTyped, FilledForShown, CustodyInv
  <1>11. CASE \E r \in CheckoutIds : PickRow(r)
    <2>1. PICK r \in CheckoutIds : PickRow(r)
      BY <1>11
    <2>2. Len(checkouts) <= MaxRows + 1 /\ Len(checkouts) \in Nat /\ CheckoutIds = 1..Len(checkouts)
      <3>1. Adds("desk") \in {0, 1} /\ Adds("other") \in {0, 1}
        BY DEF Adds
      <3>2. Len(checkouts) \in Nat /\ CheckoutIds = 1..Len(checkouts)
        BY <1>4 DEF RowsTyped, CheckoutIds
      <3> QED
        BY <3>1, <3>2, <1>4, CustodyAssumption DEF RowsBounded
    <2>3. checkouts[r].item \in Items
      <3>1. checkouts[r] \in Checkout
        BY <1>4, <2>2 DEF RowsTyped
      <3> QED
        BY <3>1 DEF Checkout
    <2>4. r \in 0..(MaxRows + 1)
      BY <2>2, CustodyAssumption
    <2> QED
      BY <2>1, <2>3, <2>4, <1>4, RenderKeeps, <1>2, CustodyAssumption
      DEF PickRow, PageInv, PageTyped, CustodyInv
  <1>12. CASE \E i \in Items : Scan(i)
    <2>1. PICK i \in Items : Scan(i)
      BY <1>12
    <2> QED
      BY <2>1, <1>4, RenderKeeps, <1>2 DEF Scan, PageInv, PageTyped, CustodyInv
  <1>13. CASE \E i \in Items : LookedUp(i)
    <2>1. PICK i \in Items : LookedUp(i)
      BY <1>13
    <2>2. place = "scan"
      BY <2>1, <1>4 DEF LookedUp, PageInv, PageTyped
    <2>3. PICK o \in BOOLEAN, r \in BOOLEAN : Render(Snapshot(i), o, r)
      BY <2>1, <1>4 DEF LookedUp
    <2> QED
      BY <2>1, <2>2, <2>3, <1>4, OpenIsId, RenderKeeps, <1>2
      DEF LookedUp, PageInv, PageTyped, CustodyInv
  <1>14. CASE \E i \in Items : LookupFails(i)
    BY <1>14, <1>2, <1>4 DEF LookupFails, PageInv, PageTyped, FilledForShown, CustodyInv
  <1> QED
    BY <1>5, <1>6, <1>7, <1>8, <1>9, <1>10, <1>11, <1>12, <1>13, <1>14

(* A request that moves on leaves the rows alone. *)
LEMMA RequestsKeep ==
    ASSUME CustodyInv, SubmitOut \/ SubmitReturn \/ RequestAnswered
    PROVE  CustodyInv'
  <1>1. UNCHANGED serverVars /\ tx'["other"] = tx["other"] /\ place' = place /\ lookups' = lookups
    BY DEF SubmitOut, SubmitReturn, RequestAnswered, pageVars, CustodyInv, ServerInv, RowsTyped, Clients
  <1>2. tx \in [Clients -> CustodyRequest] /\ tx["desk"] \in CustodyRequest
    BY DEF CustodyInv, ServerInv, RowsTyped, Clients
  <1>3. PICK q \in CustodyRequest :
            /\ tx' = [tx EXCEPT !["desk"] = q]
            /\ q.kind \in {"none", "checkout", "return"}
            /\ q.kind = "none" \/ q.stage = "posted"
            /\ q.kind = "checkout" => q.about = q.target /\ Len(checkouts) < MaxRows
            /\ q.kind = "return" => q.about \in {0, q.target}
            /\ ~ (tx["desk"].kind = "checkout" /\ tx["desk"].stage = "checked")
    <2>1. CASE SubmitOut
      <3> DEFINE q == [kind |-> "checkout", target |-> known.item, about |-> outFields,
                      stage |-> "posted"]
      <3>1. known.item \in Items /\ outFields = known.item
        BY <2>1 DEF SubmitOut, CustodyInv, PageInv, PageTyped, FilledForShown
      <3>2. q \in CustodyRequest
        BY <3>1 DEF CustodyRequest
      <3>3. tx["desk"].kind = "none"
        BY <2>1 DEF SubmitOut, NoRequest
      <3> QED
        BY <2>1, <3>1, <3>2, <3>3 DEF SubmitOut
    <2>2. CASE SubmitReturn
      <3> DEFINE q == [kind |-> "return", target |-> known.open, about |-> retFields,
                      stage |-> "posted"]
      <3>1. known.open \in 0..(MaxRows + 1)
        BY <2>2, CustodyAssumption DEF SubmitReturn, CustodyInv, PageInv, PageTyped, NoItem
      <3>2. retFields \in {0, known.open}
        BY <2>2 DEF SubmitReturn, CustodyInv, PageInv, FilledForShown
      <3>3. known.open \in 1..(MaxRows + 1) /\ retFields \in 0..(MaxRows + 1)
        BY <3>1, <3>2, <2>2, CustodyAssumption DEF SubmitReturn
      <3>4. q \in CustodyRequest
        BY <3>3 DEF CustodyRequest
      <3>5. tx["desk"].kind = "none"
        BY <2>2 DEF SubmitReturn, NoRequest
      <3> QED
        BY <2>2, <3>2, <3>4, <3>5 DEF SubmitReturn
    <2>3. CASE RequestAnswered
      BY <2>3 DEF RequestAnswered, NoRequest, CustodyRequest
    <2> QED
      BY <2>1, <2>2, <2>3
  <1>4. tx'["desk"] = q /\ tx' \in [Clients -> CustodyRequest]
    <2>1. tx' = [tx EXCEPT !["desk"] = q] /\ q \in CustodyRequest
      BY <1>3, Zenon
    <2> HIDE <1>3
    <2> QED
      BY <1>2, <2>1 DEF Clients
  <1>5. RowsTyped' /\ PostedForShown'
    <2>1. RowsTyped'
      BY <1>1, <1>4 DEF CustodyInv, ServerInv, serverVars, RowsTyped
    <2>2. PostedForShown'
      BY <1>3, <1>4 DEF PostedForShown
    <2> QED
      BY <2>1, <2>2
  <1>6. LockIsChecked'
    BY <1>1, <1>3, <1>4 DEF CustodyInv, ServerInv, serverVars, LockIsChecked, ItemChecked, Clients
  <1>7. HeldIsFree' /\ OpenOnce'
    BY <1>1 DEF CustodyInv, ServerInv, serverVars, HeldIsFree, OpenOnce, OpenRow, CheckoutIds
  <1>8. RowsBounded'
    <2>1. Adds("other")' = Adds("other") /\ Adds("other") \in {0, 1} /\ Adds("desk") \in {0, 1}
      BY <1>1 DEF Adds
    <2>2. Adds("desk")' = 0 \/ (Adds("desk")' = 1 /\ Len(checkouts) < MaxRows)
      BY <1>3, <1>4 DEF Adds
    <2>3. Len(checkouts) \in Nat /\ checkouts' = checkouts
      BY <1>1 DEF serverVars, CustodyInv, ServerInv, RowsTyped
    <2> QED
      BY <2>1, <2>2, <2>3, CustodyAssumption DEF CustodyInv, ServerInv, RowsBounded
  <1>9. PageInv'
    <2>1. CASE SubmitOut \/ SubmitReturn
      BY <2>1 DEF SubmitOut, SubmitReturn, pageVars, CustodyInv, PageInv, PageTyped, FilledForShown
    <2>2. CASE RequestAnswered
      <3>1. place = "show" => known.item \in Items
        BY DEF CustodyInv, PageInv, PageTyped
      <3> DEFINE k == IF place = "show" THEN Snapshot(known.item)
                      ELSE IF tx["desk"].stage = "done" THEN NoItem ELSE known
      <3>2. k = NoItem \/ k \in [item : Items, open : 0..(MaxRows + 1)]
        BY <3>1, OpenIsId DEF CustodyInv, ServerInv, PageInv, PageTyped
      <3>3. place = "show" => k # NoItem
        BY <3>1, OpenIsId DEF CustodyInv, ServerInv
      <3> HIDE DEF k
      <3>4. CASE tx["desk"].stage = "done"
        <4>1. /\ known' = k /\ outFields' = Blank /\ retFields' = 0
              /\ outOpen' \in BOOLEAN /\ retOpen' \in BOOLEAN
              /\ (outOpen' => outOpen) /\ (retOpen' => retOpen)
          BY <2>2, <3>4 DEF RequestAnswered, k, CustodyInv, PageInv, PageTyped
        <4> QED
          BY <4>1, <3>2, <3>3, <1>1, CustodyAssumption
          DEF CustodyInv, PageInv, PageTyped, FilledForShown
      <3>5. CASE tx["desk"].stage # "done"
        <4>1. Render(k, outOpen, retOpen)
          BY <2>2, <3>5 DEF RequestAnswered, k
        <4> QED
          BY <4>1, <3>2, <3>3, <1>1, RenderKeeps DEF CustodyInv, PageInv, PageTyped
      <3> QED
        BY <3>4, <3>5
    <2> QED
      BY <2>1, <2>2
  <1> QED
    BY <1>5, <1>6, <1>7, <1>8, <1>9 DEF CustodyInv, ServerInv

(* A change of a status waits for the row to be free. *)
LEMMA StatusWritesKeep ==
    ASSUME CustodyInv,
           \/ \E i \in Items, to \in Writes : LoadItem(i, to)
           \/ \E c \in writing : CheckReturned(c) \/ SaveItem(c)
    PROVE  CustodyInv'
  <1>1. UNCHANGED <<checkouts, lock, tx, pageVars>>
    BY DEF LoadItem, CheckReturned, SaveItem
  <1>2. PageInv' /\ PostedForShown'
    BY <1>1 DEF pageVars, CustodyInv, PageInv, PageTyped, FilledForShown, PostedForShown
  <1>3. LockIsChecked' /\ OpenOnce' /\ RowsBounded'
    <2>1. LockIsChecked'
      BY <1>1 DEF CustodyInv, ServerInv, LockIsChecked, ItemChecked
    <2>2. OpenOnce'
      BY <1>1 DEF CustodyInv, ServerInv, OpenOnce, OpenRow, CheckoutIds
    <2>3. RowsBounded'
      BY <1>1 DEF CustodyInv, ServerInv, RowsBounded, Adds
    <2> QED
      BY <2>1, <2>2, <2>3
  <1>4. \A i \in Items : OpenRow(i)' = OpenRow(i)
    BY <1>1 DEF OpenRow, CheckoutIds
  <1>5. RowsTyped' /\ HeldIsFree'
    <2>1. CASE \E i \in Items, to \in Writes : LoadItem(i, to)
      <3>1. PICK i \in Items, to \in Writes : LoadItem(i, to)
        BY <2>1
      <3>2. writesMade \in 0..MaxCalls /\ writesMade < MaxCalls /\ writesMade' = writesMade + 1
        BY <3>1 DEF LoadItem, CustodyInv, ServerInv, RowsTyped
      <3>3. writesMade' \in 1..MaxCalls
        BY <3>2, CustodyAssumption
      <3>4. to \in ItemStatus /\ status[i] \in ItemStatus
        BY DEF Writes, ProfileWrites, InspectionWrites, MaintenanceWrites, RetireWrites, ItemStatus,
               CustodyInv, ServerInv, RowsTyped
      <3>5. status' = status
        BY <3>1 DEF LoadItem
      <3>6. writing' \subseteq [id : 1..MaxCalls, item : Items, loaded : ItemStatus, to : ItemStatus,
                               checked : BOOLEAN]
        <4> DEFINE checked == to # "retired"
        <4>1. checked \in BOOLEAN
          OBVIOUS
        <4>2. writing' = writing \cup {[id |-> writesMade', item |-> i, loaded |-> status[i],
                                       to |-> to, checked |-> checked]}
          BY <3>1 DEF LoadItem
        <4> HIDE DEF checked
        <4> QED
          BY <4>1, <4>2, <3>3, <3>4 DEF CustodyInv, ServerInv, RowsTyped
      <3>7. writesMade' \in 0..MaxCalls
        BY <3>3
      <3> QED
        BY <1>1, <1>4, <3>5, <3>6, <3>7 DEF CustodyInv, ServerInv, RowsTyped, HeldIsFree
    <2>2. CASE \E c \in writing : CheckReturned(c)
      <3>1. PICK c \in writing : CheckReturned(c)
        BY <2>2
      <3>2. c \in [id : 1..MaxCalls, item : Items, loaded : ItemStatus, to : ItemStatus,
                   checked : BOOLEAN]
        BY DEF CustodyInv, ServerInv, RowsTyped
      <3>3. writing' \subseteq [id : 1..MaxCalls, item : Items, loaded : ItemStatus, to : ItemStatus,
                               checked : BOOLEAN]
        BY <3>1, <3>2 DEF CheckReturned, CustodyInv, ServerInv, RowsTyped
      <3>4. status' = status /\ writesMade' = writesMade
        BY <3>1 DEF CheckReturned
      <3> QED
        BY <1>1, <1>4, <3>3, <3>4 DEF CustodyInv, ServerInv, RowsTyped, HeldIsFree
    <2>3. CASE \E c \in writing : SaveItem(c)
      <3>1. PICK c \in writing : SaveItem(c)
        BY <2>3
      <3>2. c.item \in Items /\ c.to \in ItemStatus
        BY DEF CustodyInv, ServerInv, RowsTyped
      <3>3. status' \in [Items -> ItemStatus]
        BY <3>1, <3>2 DEF SaveItem, CustodyInv, ServerInv, RowsTyped
      <3>4. writesMade' = writesMade /\ writing' \subseteq writing
        BY <3>1 DEF SaveItem
      <3>5. \A i \in Items : lock[i] # "free" => status'[i] = status[i]
        BY <3>1, <3>2 DEF SaveItem, CustodyInv, ServerInv, RowsTyped
      <3>6. HeldIsFree'
        BY <1>1, <1>4, <3>5 DEF CustodyInv, ServerInv, HeldIsFree
      <3> QED
        BY <1>1, <3>3, <3>4, <3>6 DEF CustodyInv, ServerInv, RowsTyped
    <2> QED
      BY <2>1, <2>2, <2>3
  <1> QED
    BY <1>2, <1>3, <1>5 DEF CustodyInv, ServerInv

(* What the request of a client becomes as the server deals with it. *)
LEMMA StagedRequest ==
    ASSUME RowsTyped, NEW w \in Clients, NEW i \in Items,
           NEW s \in {"checked", "refused", "done"}, StageTx(w, i, s),
           w = "desk" => tx[w].kind = "checkout" \/ (tx[w].kind = "return" /\ s # "checked")
    PROVE  /\ tx' \in [Clients -> CustodyRequest]
           /\ \A v \in Clients \ {w} : tx'[v] = tx[v]
           /\ w = "desk" => /\ tx'[w].kind = tx[w].kind /\ tx'[w].target = tx[w].target
                            /\ tx'[w].about = tx[w].about /\ tx'[w].stage = s
           /\ w = "other" /\ s = "checked" => ItemChecked(w, i)'
           /\ w = "other" /\ s # "checked" => tx'[w] = NoRequest
  <1>1. tx \in [Clients -> CustodyRequest]
    BY DEF RowsTyped
  <1>2. CASE w = "desk"
    <2>1. tx' = [tx EXCEPT !["desk"] = [tx["desk"] EXCEPT !.stage = s]]
      BY <1>2 DEF StageTx
    <2>2. tx["desk"] \in CustodyRequest /\ tx["desk"].kind # "none"
      BY <1>1, <1>2 DEF Clients
    <2> DEFINE q == [tx["desk"] EXCEPT !.stage = s]
    <2>3. /\ q \in CustodyRequest /\ q.stage = s /\ q.kind = tx["desk"].kind
          /\ q.target = tx["desk"].target /\ q.about = tx["desk"].about
      <3>1. CASE tx["desk"] \in [kind : {"checkout"}, target : Items, about : Items,
                                 stage : {"posted", "checked", "done", "refused"}]
        BY <3>1 DEF CustodyRequest
      <3>2. CASE tx["desk"] \in [kind : {"return"}, target : 1..(MaxRows + 1), about : 0..(MaxRows + 1),
                                 stage : {"posted", "done", "refused"}]
        <4>1. s \in {"done", "refused"}
          BY <3>2, <1>2
        <4> QED
          BY <3>2, <4>1 DEF CustodyRequest
      <3> QED
        BY <2>2, <3>1, <3>2 DEF CustodyRequest, NoRequest
    <2> HIDE DEF q
    <2>4. tx' = [tx EXCEPT !["desk"] = q]
      BY <2>1 DEF q
    <2> QED
      BY <1>1, <1>2, <2>3, <2>4 DEF Clients
  <1>3. CASE w = "other" /\ s = "checked"
    <2> DEFINE q == [kind |-> "checkout", target |-> i, about |-> i, stage |-> s]
    <2>1. q \in CustodyRequest /\ q.kind = "checkout" /\ q.stage = "checked" /\ q.target = i
      BY <1>3 DEF CustodyRequest
    <2>2. tx' = [tx EXCEPT !["other"] = q]
      BY <1>3 DEF StageTx
    <2> HIDE DEF q
    <2> QED
      BY <1>1, <1>3, <2>1, <2>2 DEF Clients, ItemChecked
  <1>4. CASE w = "other" /\ s # "checked"
    <2>1. tx' = [tx EXCEPT !["other"] = NoRequest]
      BY <1>4 DEF StageTx
    <2>2. NoRequest \in CustodyRequest
      BY DEF CustodyRequest
    <2> QED
      BY <1>1, <1>4, <2>1, <2>2 DEF Clients
  <1> QED
    BY <1>2, <1>3, <1>4 DEF Clients

(* A request that is taken up is the one posted, or one of the other client. *)
LEMMA PostedIs ==
    ASSUME RowsTyped, RowsBounded, NEW w \in Clients, NEW kind, NEW t, IsPosted(w, kind, t)
    PROVE  /\ w = "desk" => tx[w].kind = kind /\ tx[w].target = t /\ tx[w].stage = "posted"
           /\ w = "other" => tx[w].kind = "none" /\ (kind = "checkout" => Len(checkouts) < MaxRows)
  BY DEF IsPosted, NoRequest, Clients

LEMMA LocksKeep ==
    ASSUME CustodyInv, NEW w \in Clients, NEW i \in Items, LockItem(w, i)
    PROVE  CustodyInv'
  <1>1. UNCHANGED <<status, checkouts, writing, writesMade, pageVars>>
    BY DEF LockItem
  <1>2. /\ RowsTyped /\ LockIsChecked /\ HeldIsFree /\ OpenOnce /\ RowsBounded /\ PageInv
        /\ PostedForShown
    BY DEF CustodyInv, ServerInv
  <1>3. /\ w = "desk" => tx[w].kind = "checkout" /\ tx[w].target = i /\ tx[w].stage = "posted"
        /\ w = "other" => tx[w].kind = "none" /\ Len(checkouts) < MaxRows
    BY <1>2, PostedIs DEF LockItem
  <1>4. PICK s \in {"checked", "refused"} :
            /\ StageTx(w, i, s) /\ lock[i] = "free"
            /\ lock' = IF s = "checked" THEN [lock EXCEPT ![i] = w] ELSE lock
            /\ s = "checked" => status[i] = "in_service" /\ OpenCheckout(i) = 0
    BY DEF LockItem
  <1>5. /\ tx' \in [Clients -> CustodyRequest]
        /\ \A v \in Clients \ {w} : tx'[v] = tx[v]
        /\ w = "desk" => /\ tx'[w].kind = tx[w].kind /\ tx'[w].target = tx[w].target
                         /\ tx'[w].about = tx[w].about /\ tx'[w].stage = s
        /\ w = "other" /\ s = "checked" => ItemChecked(w, i)'
        /\ w = "other" /\ s # "checked" => tx'[w] = NoRequest
    BY <1>2, <1>3, <1>4, StagedRequest
  <1>6. RowsTyped'
    BY <1>1, <1>2, <1>4, <1>5 DEF RowsTyped
  <1>7. PageInv'
    BY <1>1, <1>2 DEF pageVars, PageInv, PageTyped, FilledForShown
  <1>8. PostedForShown'
    BY <1>2, <1>5 DEF PostedForShown, Clients
  <1>9. LockIsChecked'
    <2> SUFFICES ASSUME NEW j \in Items, NEW v \in Clients
                 PROVE  lock'[j] = v <=> ItemChecked(v, j)'
      BY DEF LockIsChecked
    <2>1. lock[j] = v <=> ItemChecked(v, j)
      BY <1>2 DEF LockIsChecked
    <2>2. ~ ItemChecked(w, j)
      BY <1>3 DEF ItemChecked, Clients
    <2>3. lock'[j] = IF s = "checked" /\ j = i THEN w ELSE lock[j]
      BY <1>2, <1>4 DEF RowsTyped
    <2>4. v # "free"
      BY DEF Clients
    <2>5. v # w => (ItemChecked(v, j)' <=> ItemChecked(v, j))
      BY <1>5 DEF ItemChecked
    <2>6. ItemChecked(w, j)' <=> s = "checked" /\ j = i
      BY <1>3, <1>5 DEF ItemChecked, NoRequest, Clients
    <2> QED
      BY <2>1, <2>2, <2>3, <2>4, <2>5, <2>6, <1>4
  <1>10. \A j \in Items : OpenRow(j)' = OpenRow(j)
    BY <1>1 DEF OpenRow, CheckoutIds
  <1>11. HeldIsFree'
    <2>1. s = "checked" => OpenRow(i) = {}
      <3>1. 0 \notin OpenRow(i)
        BY <1>2 DEF OpenRow, CheckoutIds, RowsTyped
      <3>2. OpenRow(i) # {} => OpenCheckout(i) \in OpenRow(i)
        BY DEF OpenCheckout
      <3> QED
        BY <1>4, <3>1, <3>2
    <2> QED
      BY <2>1, <1>1, <1>2, <1>4, <1>10 DEF HeldIsFree, RowsTyped
  <1>12. OpenOnce'
    BY <1>2, <1>10 DEF OpenOnce
  <1>13. RowsBounded'
    <2>1. Len(checkouts) \in Nat /\ checkouts' = checkouts
      BY <1>1, <1>2 DEF RowsTyped
    <2>2. CASE w = "desk"
      <3>1. Adds("desk") = 1 /\ Adds("desk")' \in {0, 1}
        BY <1>3, <2>2 DEF Adds
      <3>2. Adds("other")' = Adds("other") /\ Adds("other") \in {0, 1}
        BY <1>5, <2>2 DEF Adds, Clients
      <3> QED
        BY <2>1, <3>1, <3>2, <1>2, CustodyAssumption DEF RowsBounded
    <2>3. CASE w = "other"
      <3>1. Adds("other")' \in {0, 1} /\ Len(checkouts) < MaxRows
        BY <1>3, <2>3 DEF Adds
      <3>2. Adds("desk")' = Adds("desk") /\ Adds("desk") \in {0, 1}
        BY <1>5, <2>3 DEF Adds, Clients
      <3> QED
        BY <2>1, <3>1, <3>2, <1>2, CustodyAssumption DEF RowsBounded
    <2> QED
      BY <2>2, <2>3 DEF Clients
  <1> QED
    BY <1>6, <1>7, <1>8, <1>9, <1>11, <1>12, <1>13 DEF CustodyInv, ServerInv

LEMMA InsertsKeep ==
    ASSUME CustodyInv, NEW w \in Clients, InsertRow(w)
    PROVE  CustodyInv' /\ status[tx[w].target] = "in_service"
  <1>1. UNCHANGED <<status, writing, writesMade, pageVars>>
    BY DEF InsertRow
  <1>2. /\ RowsTyped /\ LockIsChecked /\ HeldIsFree /\ OpenOnce /\ RowsBounded /\ PageInv
        /\ PostedForShown
    BY DEF CustodyInv, ServerInv
  <1>3. tx[w] \in CustodyRequest /\ tx[w].kind = "checkout" /\ tx[w].stage = "checked"
    BY <1>2 DEF RowsTyped, InsertRow
  <1>4. PICK i \in Items : i = tx[w].target
    BY <1>3 DEF CustodyRequest, NoRequest
  <1>5. /\ checkouts' = Append(checkouts, [item |-> i, open |-> TRUE])
        /\ lock' = [lock EXCEPT ![i] = "free"] /\ StageTx(w, i, "done")
    BY <1>4 DEF InsertRow
  <1>6. ItemChecked(w, i)
    BY <1>3, <1>4 DEF ItemChecked
  <1>7. lock[i] = w /\ w # "free"
    BY <1>2, <1>4, <1>6 DEF LockIsChecked, Clients
  <1>8. status[i] = "in_service" /\ OpenRow(i) = {}
    BY <1>2, <1>4, <1>7 DEF HeldIsFree
  <1>9. /\ tx' \in [Clients -> CustodyRequest]
        /\ \A v \in Clients \ {w} : tx'[v] = tx[v]
        /\ w = "desk" => /\ tx'[w].kind = tx[w].kind /\ tx'[w].target = tx[w].target
                         /\ tx'[w].about = tx[w].about /\ tx'[w].stage = "done"
        /\ w = "other" => tx'[w] = NoRequest
    BY <1>2, <1>3, <1>4, <1>5, StagedRequest
  <1>10. /\ checkouts \in Seq(Checkout) /\ checkouts' \in Seq(Checkout)
         /\ Len(checkouts) \in Nat /\ Len(checkouts') = Len(checkouts) + 1
         /\ \A r \in 1..Len(checkouts) : checkouts'[r] = checkouts[r]
         /\ checkouts'[Len(checkouts) + 1] = [item |-> i, open |-> TRUE]
         /\ CheckoutIds = 1..Len(checkouts) /\ CheckoutIds' = 1..(Len(checkouts) + 1)
    <2> DEFINE e == [item |-> i, open |-> TRUE]
    <2>1. e \in Checkout
      BY <1>4 DEF Checkout
    <2>2. checkouts' = Append(checkouts, e)
      BY <1>5
    <2> HIDE DEF e
    <2>3. checkouts \in Seq(Checkout)
      BY <1>2 DEF RowsTyped
    <2>4. /\ checkouts' \in Seq(Checkout) /\ Len(checkouts') = Len(checkouts) + 1
          /\ \A r \in 1..Len(checkouts) : checkouts'[r] = checkouts[r]
          /\ checkouts'[Len(checkouts) + 1] = e
      BY <2>1, <2>2, <2>3, AppendProperties
    <2>5. Len(checkouts) \in Nat /\ CheckoutIds = 1..Len(checkouts)
      BY <2>3 DEF CheckoutIds
    <2>6. CheckoutIds' = 1..Len(checkouts')
      BY <2>4 DEF CheckoutIds
    <2>7. checkouts'[Len(checkouts) + 1] = [item |-> i, open |-> TRUE]
      BY <2>4 DEF e
    <2> QED
      BY <2>3, <2>4, <2>5, <2>6, <2>7, Zenon
  <1>11. RowsTyped'
    BY <1>1, <1>2, <1>4, <1>5, <1>9, <1>10 DEF RowsTyped
  <1>12. PageInv'
    BY <1>1, <1>2 DEF pageVars, PageInv, PageTyped, FilledForShown
  <1>13. PostedForShown'
    BY <1>2, <1>9 DEF PostedForShown, Clients
  <1>14. LockIsChecked'
    <2> SUFFICES ASSUME NEW j \in Items, NEW v \in Clients
                 PROVE  lock'[j] = v <=> ItemChecked(v, j)'
      BY DEF LockIsChecked
    <2>1. lock[j] = v <=> ItemChecked(v, j)
      BY <1>2 DEF LockIsChecked
    <2>2. ItemChecked(w, j) => j = i
      BY <1>6 DEF ItemChecked
    <2>3. lock'[j] = IF j = i THEN "free" ELSE lock[j]
      BY <1>2, <1>4, <1>5 DEF RowsTyped
    <2>4. v # "free"
      BY DEF Clients
    <2>5. v # w => (ItemChecked(v, j)' <=> ItemChecked(v, j))
      BY <1>9 DEF ItemChecked
    <2>6. ~ ItemChecked(w, j)'
      BY <1>9 DEF ItemChecked, NoRequest, Clients
    <2> QED
      BY <2>1, <2>2, <2>3, <2>4, <2>5, <2>6, <1>7
  <1>15. ASSUME NEW j \in Items
         PROVE  OpenRow(j)' = IF j = i THEN {Len(checkouts) + 1} ELSE OpenRow(j)
    <2>1. OpenRow(j)' = OpenRow(j) \cup (IF j = i THEN {Len(checkouts) + 1} ELSE {})
      BY <1>10 DEF OpenRow
    <2> QED
      BY <2>1, <1>8
  <1>16. HeldIsFree'
    <2> SUFFICES ASSUME NEW j \in Items, lock'[j] # "free"
                 PROVE  status'[j] = "in_service" /\ OpenRow(j)' = {}
      BY DEF HeldIsFree
    <2> QED
      BY <1>1, <1>2, <1>5, <1>15 DEF HeldIsFree, RowsTyped
  <1>17. OpenOnce'
    <2> SUFFICES ASSUME NEW j \in Items, NEW r \in OpenRow(j)', NEW q \in OpenRow(j)'
                 PROVE  r = q
      BY DEF OpenOnce
    <2> QED
      BY <1>2, <1>15 DEF OpenOnce
  <1>18. RowsBounded'
    <2>1. Adds(w) = 1 /\ Adds(w)' = 0
      BY <1>3, <1>9 DEF Adds, NoRequest, Clients
    <2>2. \A v \in Clients \ {w} : Adds(v)' = Adds(v) /\ Adds(v) \in {0, 1}
      BY <1>9 DEF Adds
    <2> QED
      BY <2>1, <2>2, <1>2, <1>10, CustodyAssumption DEF RowsBounded, Clients
  <1> QED
    BY <1>8, <1>11, <1>12, <1>13, <1>14, <1>16, <1>17, <1>18, <1>4 DEF CustodyInv, ServerInv

LEMMA ReturnsKeep ==
    ASSUME CustodyInv, NEW w \in Clients, NEW r \in CheckoutIds, ReturnRow(w, r)
    PROVE  CustodyInv'
  <1>1. UNCHANGED <<status, lock, writing, writesMade, pageVars>>
    BY DEF ReturnRow
  <1>2. /\ RowsTyped /\ LockIsChecked /\ HeldIsFree /\ OpenOnce /\ RowsBounded /\ PageInv
        /\ PostedForShown
    BY DEF CustodyInv, ServerInv
  <1>3. /\ w = "desk" => tx[w].kind = "return"
        /\ w = "other" => tx[w].kind = "none"
    BY <1>2, PostedIs DEF ReturnRow
  <1>4. PICK s \in {"done", "refused"} : StageTx(w, checkouts[r].item, s)
    BY DEF ReturnRow
  <1>5. checkouts[r] \in Checkout /\ checkouts \in Seq(Checkout) /\ r \in 1..Len(checkouts)
    BY <1>2 DEF RowsTyped, CheckoutIds
  <1>6. checkouts[r].item \in Items
    BY <1>5 DEF Checkout
  <1>7. /\ tx' \in [Clients -> CustodyRequest]
        /\ \A v \in Clients \ {w} : tx'[v] = tx[v]
        /\ w = "desk" => /\ tx'[w].kind = tx[w].kind /\ tx'[w].target = tx[w].target
                         /\ tx'[w].about = tx[w].about
        /\ w = "other" => tx'[w] = NoRequest
    BY <1>2, <1>3, <1>4, <1>6, StagedRequest
  <1>8. /\ checkouts' \in Seq(Checkout) /\ Len(checkouts') = Len(checkouts)
        /\ CheckoutIds' = CheckoutIds
        /\ \A q \in CheckoutIds : /\ checkouts'[q].item = checkouts[q].item
                                  /\ checkouts'[q].open => checkouts[q].open
    <2> DEFINE e == [checkouts[r] EXCEPT !.open = FALSE]
    <2>1. e \in Checkout /\ e.item = checkouts[r].item /\ e.open = FALSE
      BY <1>5 DEF Checkout
    <2>2. checkouts' = [checkouts EXCEPT ![r] = e]
      BY DEF ReturnRow
    <2> HIDE DEF e
    <2>3. /\ checkouts' \in Seq(Checkout) /\ Len(checkouts') = Len(checkouts)
          /\ \A q \in 1..Len(checkouts) : checkouts'[q] = IF q = r THEN e ELSE checkouts[q]
      BY <1>5, <2>1, <2>2, ExceptSeq
    <2> QED
      BY <2>1, <2>3, <1>5 DEF CheckoutIds
  <1>9. ASSUME NEW j \in Items PROVE OpenRow(j)' \subseteq OpenRow(j)
    <2> SUFFICES ASSUME NEW q \in OpenRow(j)' PROVE q \in OpenRow(j)
      OBVIOUS
    <2>1. q \in CheckoutIds' /\ checkouts'[q].item = j /\ checkouts'[q].open
      BY Zenon DEF OpenRow
    <2>2. q \in CheckoutIds /\ checkouts[q].item = j /\ checkouts[q].open
      BY <2>1, <1>8, Zenon
    <2> QED
      BY <2>2, Zenon DEF OpenRow
  <1>10. RowsTyped'
    BY <1>1, <1>2, <1>7, <1>8 DEF RowsTyped
  <1>11. PageInv'
    BY <1>1, <1>2 DEF pageVars, PageInv, PageTyped, FilledForShown
  <1>12. PostedForShown'
    BY <1>2, <1>7 DEF PostedForShown, Clients
  <1>13. LockIsChecked'
    <2>1. \A j \in Items, v \in Clients : ItemChecked(v, j)' <=> ItemChecked(v, j)
      BY <1>3, <1>7 DEF ItemChecked, NoRequest, Clients
    <2> QED
      BY <2>1, <1>1, <1>2 DEF LockIsChecked
  <1>14. HeldIsFree' /\ OpenOnce'
    <2>1. ASSUME NEW j \in Items, lock'[j] # "free"
          PROVE  status'[j] = "in_service" /\ OpenRow(j)' = {}
      BY <2>1, <1>1, <1>2, <1>9 DEF HeldIsFree
    <2>2. ASSUME NEW j \in Items, NEW p \in OpenRow(j)', NEW q \in OpenRow(j)'
          PROVE  p = q
      BY <1>2, <1>9 DEF OpenOnce
    <2> QED
      BY <2>1, <2>2 DEF HeldIsFree, OpenOnce
  <1>15. RowsBounded'
    <2>1. \A v \in Clients : Adds(v)' = Adds(v)
      BY <1>3, <1>7 DEF Adds, NoRequest, Clients
    <2> QED
      BY <2>1, <1>2, <1>8 DEF RowsBounded, Clients
  <1> QED
    BY <1>10, <1>11, <1>12, <1>13, <1>14, <1>15 DEF CustodyInv, ServerInv

(* Every step keeps the invariant. *)
LEMMA CustodyStepsKeep == CustodyInv /\ [CustodyNext]_custodyVars => CustodyInv'
  <1> SUFFICES ASSUME CustodyInv, [CustodyNext]_custodyVars PROVE CustodyInv'
    OBVIOUS
  <1>1. CASE UNCHANGED custodyVars
    <2>1. /\ UNCHANGED serverVars /\ UNCHANGED tx /\ UNCHANGED pageVars
      BY <1>1 DEF custodyVars
    <2>2. PageInv' /\ PostedForShown'
      BY <2>1 DEF pageVars, CustodyInv, PageInv, PageTyped, FilledForShown, PostedForShown
    <2>3. RowsTyped' /\ RowsBounded'
      BY <2>1 DEF CustodyInv, ServerInv, serverVars, RowsTyped, RowsBounded, Adds
    <2>4. LockIsChecked'
      BY <2>1 DEF CustodyInv, ServerInv, serverVars, LockIsChecked, ItemChecked
    <2>5. HeldIsFree' /\ OpenOnce'
      BY <2>1 DEF CustodyInv, ServerInv, serverVars, HeldIsFree, OpenOnce, OpenRow, CheckoutIds
    <2> QED
      BY <2>2, <2>3, <2>4, <2>5 DEF CustodyInv, ServerInv
  <1>2. CASE \/ PressCheckOut \/ PressReturn \/ Revisit \/ Dismiss \/ FillOut \/ FillReturn
             \/ \E r \in CheckoutIds : PickRow(r)
             \/ \E i \in Items : Scan(i) \/ LookedUp(i) \/ LookupFails(i)
    BY <1>2, PageStepsKeep
  <1>3. CASE SubmitOut \/ SubmitReturn \/ RequestAnswered
    BY <1>3, RequestsKeep
  <1>4. CASE \/ \E i \in Items, to \in Writes : LoadItem(i, to)
             \/ \E c \in writing : CheckReturned(c) \/ SaveItem(c)
    BY <1>4, StatusWritesKeep
  <1>5. CASE \E w \in Clients : InsertRow(w)
    BY <1>5, InsertsKeep
  <1>6. CASE \E w \in Clients : \E i \in Items : LockItem(w, i)
    BY <1>6, LocksKeep
  <1>7. CASE \E w \in Clients : \E r \in CheckoutIds : ReturnRow(w, r)
    BY <1>7, ReturnsKeep
  <1> QED
    BY <1>1, <1>2, <1>3, <1>4, <1>5, <1>6, <1>7 DEF CustodyNext

LEMMA CustodyHolds ==
    ASSUME CustodyInv PROVE CustodyTypeOK /\ OneOpenCheckout /\ FieldsForShown
  <1>1. /\ RowsTyped /\ OpenOnce /\ RowsBounded /\ PageTyped /\ FilledForShown /\ PostedForShown
    BY DEF CustodyInv, ServerInv, PageInv
  <1>2. Len(checkouts) <= MaxRows + 1
    <2>1. Adds("desk") \in {0, 1} /\ Adds("other") \in {0, 1}
      BY DEF Adds
    <2>2. Len(checkouts) \in Nat
      BY <1>1 DEF RowsTyped
    <2> QED
      BY <2>1, <2>2, <1>1, CustodyAssumption DEF RowsBounded
  <1>3. CustodyTypeOK
    BY <1>1, <1>2 DEF CustodyTypeOK, RowsTyped, PageTyped, Checkout
  <1>4. FieldsForShown
    BY <1>1 DEF FieldsForShown, FilledForShown, PostedForShown
  <1>5. ASSUME NEW i \in Items PROVE Cardinality(OpenRow(i)) <= 1
    <2>1. CASE OpenRow(i) = {}
      BY <2>1, FS_EmptySet
    <2>2. CASE OpenRow(i) # {}
      <3>1. PICK r : OpenRow(i) = {r}
        BY <2>2, <1>1 DEF OpenOnce
      <3>2. Cardinality({r}) = 1
        BY FS_Singleton
      <3> QED
        BY <3>1, <3>2
    <2> QED
      BY <2>1, <2>2
  <1> QED
    BY <1>3, <1>4, <1>5 DEF OneOpenCheckout

(* A return closes the checkout it names. *)
ReturnsNamed ==
    \A r \in CheckoutIds :
        /\ tx["desk"].kind = "return" /\ tx'["desk"] # tx["desk"]
        /\ checkouts[r].open /\ ~checkouts'[r].open
        => r = tx["desk"].target

LEMMA ReturnsTheNamed == CustodyInv /\ [CustodyNext]_custodyVars => ReturnsNamed
  <1> SUFFICES ASSUME CustodyInv, [CustodyNext]_custodyVars, NEW r \in CheckoutIds,
                      tx["desk"].kind = "return", tx'["desk"] # tx["desk"],
                      checkouts[r].open, ~checkouts'[r].open
               PROVE  r = tx["desk"].target
    BY DEF ReturnsNamed
  <1>1. RowsTyped /\ RowsBounded
    BY DEF CustodyInv, ServerInv
  <1>2. checkouts \in Seq(Checkout) /\ r \in 1..Len(checkouts)
    BY <1>1 DEF RowsTyped, CheckoutIds
  <1>3. CASE UNCHANGED checkouts
    BY <1>3
  <1>4. CASE \E w \in Clients : InsertRow(w)
    <2>1. PICK w \in Clients : InsertRow(w)
      BY <1>4
    <2>2. PICK e : checkouts' = Append(checkouts, e)
      BY <2>1 DEF InsertRow
    <2>3. checkouts'[r] = checkouts[r]
      BY <2>2, <1>2
    <2> QED
      BY <2>3
  <1>5. CASE \E w \in Clients : \E q \in CheckoutIds : ReturnRow(w, q)
    <2>1. PICK w \in Clients, q \in CheckoutIds : ReturnRow(w, q)
      BY <1>5
    <2>2. r = q
      BY <2>1, <1>2 DEF ReturnRow, CheckoutIds
    <2>3. w = "desk"
      <3>1. CASE w = "other"
        <4>1. tx' = [tx EXCEPT !["other"] = NoRequest] \/ \E z : tx' = [tx EXCEPT !["other"] = z]
          BY <2>1, <3>1 DEF ReturnRow, StageTx
        <4>2. tx'["desk"] = tx["desk"]
          BY <4>1, <1>1 DEF RowsTyped, Clients
        <4> QED
          BY <4>2
      <3> QED
        BY <3>1 DEF Clients
    <2> QED
      BY <2>1, <2>2, <2>3, <1>1, PostedIs DEF ReturnRow
  <1> QED
    BY <1>3, <1>4, <1>5
    DEF CustodyNext, custodyVars, serverVars, PressCheckOut, PressReturn, Revisit, Dismiss, FillOut,
        FillReturn, PickRow, Scan, LookedUp, LookupFails, SubmitOut, SubmitReturn, RequestAnswered,
        LoadItem, CheckReturned, SaveItem, LockItem

(* What is issued is in service. *)
IssuedServes ==
    Len(checkouts') > Len(checkouts) =>
        status'[checkouts'[Len(checkouts')].item] = "in_service"

LEMMA IssuesServe == CustodyInv /\ [CustodyNext]_custodyVars => IssuedServes
  <1> SUFFICES ASSUME CustodyInv, [CustodyNext]_custodyVars, Len(checkouts') > Len(checkouts)
               PROVE  status'[checkouts'[Len(checkouts')].item] = "in_service"
    BY DEF IssuedServes
  <1>1. checkouts \in Seq(Checkout) /\ Len(checkouts) \in Nat
    BY DEF CustodyInv, ServerInv, RowsTyped
  <1>2. CASE UNCHANGED checkouts
    BY <1>1, <1>2
  <1>3. CASE \E w \in Clients : InsertRow(w)
    <2>1. PICK w \in Clients : InsertRow(w)
      BY <1>3
    <2>2. status' = status /\ status[tx[w].target] = "in_service"
      BY <2>1, InsertsKeep DEF InsertRow
    <2> DEFINE e == [item |-> tx[w].target, open |-> TRUE]
    <2>3. checkouts' = Append(checkouts, e) /\ e.item = tx[w].target
      BY <2>1 DEF InsertRow
    <2> HIDE DEF e
    <2>4. checkouts'[Len(checkouts')] = e
      BY <2>3, <1>1
    <2> QED
      BY <2>2, <2>3, <2>4
  <1>4. CASE \E w \in Clients : \E q \in CheckoutIds : ReturnRow(w, q)
    <2>1. PICK w \in Clients, q \in CheckoutIds : ReturnRow(w, q)
      BY <1>4
    <2>2. Len(checkouts') = Len(checkouts)
      BY <2>1, <1>1 DEF ReturnRow, CheckoutIds
    <2> QED
      BY <2>2, <1>1
  <1> QED
    BY <1>2, <1>3, <1>4
    DEF CustodyNext, custodyVars, serverVars, PressCheckOut, PressReturn, Revisit, Dismiss, FillOut,
        FillReturn, PickRow, Scan, LookedUp, LookupFails, SubmitOut, SubmitReturn, RequestAnswered,
        LoadItem, CheckReturned, SaveItem, LockItem

(* However the desk, the other clients and the writes of a status interleave,
   an item is out at most once, it was in service when it was issued, a return
   closes the checkout the dialog named, and what was filled in for one item is
   never posted for another (checkout, returnCheckout, the effects of the two
   dialogs). *)
THEOREM CustodyIsKept == CustodySpec => CustodyKept
  <1>1. CustodyInit => CustodyInv
    BY CustodyStarts
  <1>2. CustodyInv /\ [CustodyNext]_custodyVars => CustodyInv'
    BY CustodyStepsKeep
  <1>3. CustodyInv => CustodyTypeOK /\ OneOpenCheckout /\ FieldsForShown
    BY CustodyHolds
  <1>4. CustodyInv /\ [CustodyNext]_custodyVars
        => [ReturnsNamed]_custodyVars /\ [IssuedServes]_custodyVars
    BY ReturnsTheNamed, IssuesServe
  <1> QED
    BY <1>1, <1>2, <1>3, <1>4, PTL
    DEF CustodySpec, CustodyKept, ReturnsWhatWasShown, IssuedInService, ReturnsNamed, IssuedServes

-----------------------------------------------------------------------------
(* CrewReadiness.                                                          *)
-----------------------------------------------------------------------------
(* A row that names a role names one of the type; the blank one names none. *)
RowOf(t) == [role : CrewRoles[t] \cup {NoRole}, worker : Workers \cup {Nobody}]

(* The rows of a form for type t: one at least. *)
FormRows(t) == {s \in Seq(RowOf(t)) : Len(s) \in 1..MaxCrew}

CrewOf(t) == {crew \in SUBSET Of(t) : IsFiniteSet(crew) /\ Cardinality(crew) <= MaxCrew}

DocsInv == DocumentsTypeOK /\ \A d \in Docs : OnFile(d) => FileThere(d)

PermitInv == permit # NoPermit => permit \in Permit /\ permit.crew \in CrewOf(permit.type)

FormInv ==
    crewForm # Away =>
      /\ \E a \in {"create", "show"}, t \in PermitTypes : \E s \in FormRows(t) :
            crewForm = [at |-> a, type |-> t, rows |-> s]
      /\ crewForm.at = "show" => permit # NoPermit /\ permit.type = crewForm.type

CrewInv == DocsInv /\ PermitInv /\ FormInv /\ ready \subseteq Person

(* Documents. *)
LEMMA DocsStart == DocumentsInit => DocsInv
  <1> SUFFICES ASSUME DocumentsInit PROVE DocsInv
    OBVIOUS
  <1>1. documents = [d \in Docs |-> NotYet] /\ day \in 1..MaxTime
    BY DocumentsAssumption DEF DocumentsInit
  <1>2. \A d \in Docs : ~ OnFile(d)
    BY <1>1 DEF OnFile
  <1> QED
    BY <1>1, <1>2 DEF DocsInv, DocumentsTypeOK

LEMMA DateIs == ASSUME day \in 1..MaxTime, NEW e \in Dates PROVE e \in 0..MaxTime + 1
  BY DocumentsAssumption DEF Dates, Forever

LEMMA FileIs ==
    ASSUME NEW d \in Docs, OnFile(d), documents \in [Docs -> Document \cup {NotYet, Deleted}]
    PROVE  documents[d] \in Document
  BY DEF OnFile

(* A write of one document, or of several alike. *)
LEMMA DocsWritten ==
    ASSUME DocsInv, NEW after \in [Docs -> Document \cup {NotYet, Deleted}],
           documents' = after, day' \in 1..MaxTime,
           \A d \in Docs : after[d] \in Document /\ after[d] # documents[d]
                              => (after[d].type \in NeedFile => after[d].hasFile)
    PROVE  DocsInv'
  <1>1. ASSUME NEW d \in Docs, OnFile(d)' PROVE FileThere(d)'
    <2>1. after[d] \in Document
      BY <1>1 DEF OnFile
    <2>2. CASE after[d] = documents[d]
      BY <1>1, <2>2 DEF DocsInv, OnFile, FileThere
    <2>3. CASE after[d] # documents[d]
      BY <2>1, <2>3 DEF FileThere
    <2> QED
      BY <2>2, <2>3
  <1> QED
    BY <1>1 DEF DocsInv, DocumentsTypeOK

LEMMA DocsKept == DocsInv /\ [DocumentsNext]_docVars => DocsInv'
  <1> SUFFICES ASSUME DocsInv, [DocumentsNext]_docVars PROVE DocsInv'
    OBVIOUS
  <1> DEFINE Cell == Document \cup {NotYet, Deleted}
  <1>1. documents \in [Docs -> Cell] /\ day \in 1..MaxTime
    BY DEF DocsInv, DocumentsTypeOK
  <1>2. ASSUME NEW w \in Workers, NEW t \in DocTypes, NEW files \in 0..2, NEW e \in Dates,
               Upload(w, t, files, e)
        PROVE  DocsInv'
    <2>0. PICK some \in BOOLEAN : some = (files > 0)
      <3>1. (files > 0) \in BOOLEAN
        OBVIOUS
      <3> QED
        BY <3>1, Zenon
    <2> DEFINE row == [worker |-> w, type |-> t, status |-> "pending",
                       expires |-> e, hasFile |-> some]
    <2>1. row \in Document /\ (row.type \in NeedFile => row.hasFile)
      <3>1. e \in 0..MaxTime + 1 /\ (t \in NeedFile => some)
        BY <1>1, <1>2, <2>0, DateIs DEF Upload, Acceptable
      <3> QED
        BY <3>1 DEF Document
    <2>2. PICK new : documents' = [d \in Docs |-> IF d \notin new THEN documents[d] ELSE row]
                     /\ day' = day
      BY <1>2, <2>0 DEF Upload
    <2> HIDE DEF row
    <2>3. documents' \in [Docs -> Cell]
      BY <1>1, <2>1, <2>2
    <2>4. \A d \in Docs : documents'[d] # documents[d] => documents'[d] = row
      BY <2>2
    <2> QED
      BY <1>1, <2>1, <2>2, <2>3, <2>4, DocsWritten
  <1>3. ASSUME NEW d \in Docs, NEW hasFile \in BOOLEAN, NEW e \in Dates,
               SaveDocument(d, hasFile, e)
        PROVE  DocsInv'
    <2>1. documents[d] \in Document
      BY <1>1, <1>3, FileIs DEF SaveDocument
    <2> DEFINE row == [documents[d] EXCEPT !.expires = e, !.hasFile = hasFile,
                                           !.status = "pending"]
    <2>2. row \in Document /\ (row.type \in NeedFile => row.hasFile)
      BY <1>1, <1>3, <2>1, DateIs DEF Document, SaveDocument, Acceptable
    <2>3. documents' = [documents EXCEPT ![d] = row] /\ day' = day
      BY <1>1, <1>3 DEF SaveDocument
    <2> HIDE DEF row
    <2>4. documents' \in [Docs -> Cell]
          /\ \A x \in Docs : documents'[x] # documents[x] => documents'[x] = row
      BY <1>1, <2>2, <2>3
    <2> QED
      BY <1>1, <2>2, <2>3, <2>4, DocsWritten
  <1>4. ASSUME NEW d \in Docs, Verify(d) \/ RejectDocument(d) PROVE DocsInv'
    <2>1. documents[d] \in Document /\ FileThere(d)
      BY <1>1, <1>4, FileIs DEF Verify, RejectDocument, DocsInv
    <2>2. PICK s \in {"verified", "rejected"} :
             documents' = [documents EXCEPT ![d].status = s] /\ day' = day
      BY <1>4 DEF Verify, RejectDocument
    <2> DEFINE row == [documents[d] EXCEPT !.status = s]
    <2>3. row \in Document /\ (row.type \in NeedFile => row.hasFile)
      BY <2>1 DEF Document, FileThere
    <2>4. documents' = [documents EXCEPT ![d] = row]
      BY <2>2
    <2> HIDE DEF row
    <2>5. documents' \in [Docs -> Cell]
          /\ \A x \in Docs : documents'[x] # documents[x] => documents'[x] = row
      BY <1>1, <2>3, <2>4
    <2> QED
      BY <1>1, <2>2, <2>3, <2>5, DocsWritten
  <1>5. ASSUME NEW d \in Docs, DeleteDocument(d) PROVE DocsInv'
    <2>1. documents' = [documents EXCEPT ![d] = Deleted] /\ day' = day
      BY <1>5 DEF DeleteDocument
    <2>2. documents' \in [Docs -> Cell]
          /\ \A x \in Docs : documents'[x] # documents[x] => documents'[x] \notin Document
      BY <1>1, <2>1 DEF Deleted, Document
    <2> QED
      BY <1>1, <2>1, <2>2, DocsWritten
  <1>6. CASE DayPasses
    <2>1. documents' = documents /\ day' \in 1..MaxTime
      BY <1>1, <1>6, DocumentsAssumption DEF DayPasses
    <2> QED
      BY <1>1, <2>1, DocsWritten
  <1>7. CASE UNCHANGED docVars
    BY <1>1, <1>7, DocsWritten DEF docVars
  <1> QED
    BY <1>2, <1>3, <1>4, <1>5, <1>6, <1>7 DEF DocumentsNext

(* The badge. *)
LEMMA ReadyIsVerified == DocsInv => ReadyShowsVerified
  <1> SUFFICES ASSUME DocsInv, NEW t \in PermitTypes, NEW p \in Of(t), MayBeReady(p, t),
                      NEW req \in Requirements[t][p.role], req.verified
               PROVE  Badge(p.worker, req.doc) = {"verified"}
    BY DEF ReadyShowsVerified
  <1> DEFINE found == DocumentsOf(p.worker, req.doc)
             Rank(d) == IF ~ InDate(d) THEN 0
                        ELSE CASE documents[d].status = "verified" -> 3
                               [] documents[d].status = "pending" -> 2
                               [] OTHER -> 1
             best == {d \in found : \A e \in found : Rank(e) <= Rank(d)}
             Worn(d) == IF ~ InDate(d) THEN "expired"
                        ELSE IF documents[d].status = "verified" /\ ~ FileThere(d)
                             THEN "pending" ELSE documents[d].status
  <1>1. PICK d \in Considered(p.worker, req.doc) : Fulfils(d, req)
    BY DEF MayBeReady
  <1>2. d \in found /\ InDate(d) /\ documents[d].status = "verified"
    BY <1>1 DEF Considered, Fulfils
  <1>3. Rank(d) = 3 /\ \A e \in found : Rank(e) \in 0..3
    BY <1>2
  <1>4. ASSUME NEW e \in found, Rank(e) = 3 PROVE InDate(e) /\ documents[e].status = "verified"
    BY <1>4
  <1>5. \A e \in found : FileThere(e)
    BY DEF DocsInv, DocumentsOf
  <1>6. Badge(p.worker, req.doc) = {Worn(e) : e \in best}
    BY <1>2 DEF Badge
  <1> HIDE DEF Rank
  <1>7. d \in best /\ \A e \in best : e \in found /\ Rank(e) = 3
    BY <1>2, <1>3
  <1>8. \A e \in best : Worn(e) = "verified"
    BY <1>4, <1>5, <1>7
  <1> HIDE DEF best, Worn
  <1> QED
    BY <1>6, <1>7, <1>8

(* The rows of a form. *)
LEMMA FormIs ==
    ASSUME FormInv, crewForm # Away
    PROVE  /\ crewForm.type \in PermitTypes /\ crewForm.rows \in FormRows(crewForm.type)
           /\ crewForm.at \in {"create", "show"}
           /\ crewForm = [at |-> crewForm.at, type |-> crewForm.type, rows |-> crewForm.rows]
           /\ crewForm.at = "show" => permit # NoPermit /\ permit.type = crewForm.type
  BY DEF FormInv

LEMMA FormIsOpen == ASSUME NEW a \in {"create", "show"}, NEW t, NEW s
                    PROVE  [at |-> a, type |-> t, rows |-> s] # Away
  BY DEF Away

LEMMA BlankFits == ASSUME NEW t PROVE <<BlankRow>> \in FormRows(t)
  <1>1. BlankRow \in RowOf(t)
    BY DEF BlankRow, RowOf
  <1>2. <<BlankRow>> \in Seq(RowOf(t)) /\ Len(<<BlankRow>>) = 1
    BY <1>1
  <1> QED
    BY <1>2, CrewAssumption DEF FormRows

LEMMA NamedFit == ASSUME NEW t \in PermitTypes, NEW s \in FormRows(t) PROVE Named(s) \subseteq Of(t)
  <1> SUFFICES ASSUME NEW r \in Named(s) PROVE r \in Of(t)
    OBVIOUS
  <1>1. PICK i \in DOMAIN s : r = s[i]
    BY DEF Named, ToSet
  <1>2. r \in RowOf(t)
    BY <1>1, ElementOfSeq DEF FormRows
  <1>3. r \in [role : CrewRoles[t], worker : Workers]
    BY <1>2 DEF RowOf, Named
  <1>4. CrewRoles[t] \subseteq AllRoles
    BY DEF AllRoles
  <1> QED
    BY <1>3, <1>4 DEF Of, Person

LEMMA PostedFits ==
    ASSUME FormInv, crewForm # Away, WellFormed PROVE PostedCrew \in CrewOf(crewForm.type)
  <1>1. PICK t, s : /\ t \in PermitTypes /\ s \in FormRows(t)
                     /\ t = crewForm.type /\ s = crewForm.rows
    BY FormIs
  <1>2. PostedCrew \subseteq Of(t)
    BY <1>1, NamedFit DEF WellFormed
  <1>3. s \in Seq(RowOf(t)) /\ Len(s) \in 1..MaxCrew /\ DOMAIN s = 1..Len(s)
    BY <1>1, LenProperties DEF FormRows
  <1>4. IsFiniteSet(1..Len(s)) /\ Cardinality(1..Len(s)) = Len(s)
    BY <1>3, FS_Interval
  <1>5. PostedRows \subseteq 1..Len(s)
    BY <1>1, <1>3 DEF PostedRows
  <1>6. IsFiniteSet(PostedRows) /\ Cardinality(PostedRows) <= Len(s)
    BY <1>4, <1>5, FS_Subset
  <1>7. [i \in PostedRows |-> s[i]] \in Surjection(PostedRows, PostedCrew)
    BY <1>1 DEF Surjection, PostedCrew
  <1>8. IsFiniteSet(PostedCrew) /\ Cardinality(PostedCrew) <= Cardinality(PostedRows)
    BY <1>6, <1>7, FS_Surjection DEF ExistsSurjection
  <1>9. Cardinality(PostedCrew) <= MaxCrew
    BY <1>3, <1>6, <1>8, FS_CardinalityType, CrewAssumption
  <1> QED
    BY <1>1, <1>2, <1>8, <1>9 DEF CrewOf

LEMMA StoredFits ==
    ASSUME NEW t, NEW crew \in CrewOf(t)
    PROVE  (IF crew = {} THEN <<BlankRow>> ELSE SetToSeq(crew)) \in FormRows(t)
  <1>1. CASE crew = {}
    BY <1>1, BlankFits
  <1>2. CASE crew # {}
    <2>1. IsFiniteSet(crew) /\ Cardinality(crew) \in Nat /\ Cardinality(crew) <= MaxCrew
      BY FS_CardinalityType DEF CrewOf
    <2>2. Cardinality(crew) # 0
      BY <1>2, <2>1, FS_EmptySet
    <2>3. PICK n \in 1..MaxCrew : n = Cardinality(crew)
      BY <2>1, <2>2, CrewAssumption
    <2>4. \E f \in [1..n -> crew] : IsInjective(f)
      BY <2>1, <2>3, FS_CardinalityType DEF ExistsBijection, Bijection, Injection
    <2>5. SetToSeq(crew) \in [1..n -> crew]
      BY <2>3, <2>4 DEF SetToSeq
    <2>6. crew \subseteq RowOf(t)
      BY DEF CrewOf, Of, Person, RowOf
    <2>7. SetToSeq(crew) \in [1..n -> RowOf(t)]
      BY <2>5, <2>6
    <2>8. SetToSeq(crew) \in Seq(RowOf(t)) /\ Len(SetToSeq(crew)) = n
      BY <2>3, <2>7, CrewAssumption
    <2> QED
      BY <1>2, <2>3, <2>8 DEF FormRows
  <1> QED
    BY <1>1, <1>2

LEMMA ReadersFit == ASSUME NEW t, ReadWorkers(t) PROVE ready' \subseteq Person
  BY DEF ReadWorkers, Of

(* Steps. *)
LEMMA DocsSame == ASSUME DocsInv, UNCHANGED docVars PROVE DocsInv'
  BY DocsKept

LEMMA PermitSame == ASSUME PermitInv, UNCHANGED permit PROVE PermitInv'
  BY DEF PermitInv, CrewOf, Of

LEMMA FormSame ==
    ASSUME FormInv, UNCHANGED crewForm, permit # NoPermit => permit' # NoPermit,
           permit # NoPermit => permit'.type = permit.type
    PROVE  FormInv'
  BY DEF FormInv

(* Other rows in the form. *)
LEMMA RowsKeep ==
    ASSUME CrewInv, crewForm # Away, NEW filled \in FormRows(crewForm.type), FormChanges(filled)
    PROVE  CrewInv'
  <1>1. UNCHANGED <<permit, ready>> /\ UNCHANGED docVars
        /\ crewForm' = [at |-> crewForm.at, type |-> crewForm.type, rows |-> filled]
    BY FormIs DEF FormChanges, CrewInv
  <1>2. FormInv'
    BY <1>1, FormIs DEF CrewInv, FormInv
  <1> QED
    BY <1>1, <1>2, DocsSame, PermitSame DEF CrewInv

LEMMA RowStepsKeep ==
    ASSUME CrewInv, AddRow \/ \E i \in 1..MaxCrew : \/ RemoveRow(i)
                      \/ \E r \in AllRoles \cup {NoRole} : ChooseRole(i, r)
                      \/ \E w \in Workers \cup {Nobody} : ChooseWorker(i, w)
    PROVE  CrewInv'
  <1>1. crewForm # Away
    BY DEF AddRow, RemoveRow, ChooseRole, ChooseWorker
  <1>2. PICK t, s : /\ t \in PermitTypes /\ s \in FormRows(t)
                     /\ t = crewForm.type /\ s = crewForm.rows
    BY <1>1, FormIs DEF CrewInv
  <1>3. s \in Seq(RowOf(t)) /\ Len(s) \in 1..MaxCrew /\ DOMAIN s = 1..Len(s)
    BY <1>2, LenProperties DEF FormRows
  <1>4. CASE AddRow
    <2>1. BlankRow \in RowOf(t) /\ Len(s) < MaxCrew
      BY <1>2, <1>4 DEF AddRow, BlankRow, RowOf
    <2>2. Append(s, BlankRow) \in Seq(RowOf(t)) /\ Len(Append(s, BlankRow)) = Len(s) + 1
      BY <1>3, <2>1, AppendProperties
    <2>3. Append(s, BlankRow) \in FormRows(t)
      BY <1>3, <2>1, <2>2, CrewAssumption DEF FormRows
    <2> QED
      BY <1>1, <1>2, <1>4, <2>3, RowsKeep DEF AddRow
  <1>5. ASSUME NEW i \in 1..MaxCrew, RemoveRow(i) PROVE CrewInv'
    <2>1. i \in DOMAIN s /\ Len(s) > 1
      BY <1>2, <1>5 DEF RemoveRow
    <2>2. RemoveAt(s, i) \in Seq(RowOf(t)) /\ Len(RemoveAt(s, i)) = Len(s) - 1
      BY <1>3, <2>1, RemovedSeq
    <2>3. RemoveAt(s, i) \in FormRows(t)
      BY <1>3, <2>1, <2>2, CrewAssumption DEF FormRows
    <2> QED
      BY <1>1, <1>2, <1>5, <2>3, RowsKeep DEF RemoveRow
  <1>6. ASSUME NEW i \in 1..MaxCrew, NEW row \in RowOf(t), i \in DOMAIN s,
               FormChanges([s EXCEPT ![i] = row])
        PROVE  CrewInv'
    <2>1. [s EXCEPT ![i] = row] \in Seq(RowOf(t)) /\ Len([s EXCEPT ![i] = row]) = Len(s)
      BY <1>3, <1>6, ExceptSeq
    <2>2. [s EXCEPT ![i] = row] \in FormRows(t)
      BY <1>3, <2>1 DEF FormRows
    <2> QED
      BY <1>1, <1>2, <1>6, <2>2, RowsKeep
  <1>7. ASSUME NEW i \in 1..MaxCrew, NEW r, ChooseRole(i, r) PROVE CrewInv'
    <2>1. [role |-> r, worker |-> Nobody] \in RowOf(t)
      BY <1>2, <1>7 DEF ChooseRole, RowOf
    <2> QED
      BY <1>2, <1>6, <1>7, <2>1 DEF ChooseRole
  <1>8. ASSUME NEW i \in 1..MaxCrew, NEW w \in Workers \cup {Nobody}, ChooseWorker(i, w)
        PROVE  CrewInv'
    <2>1. i \in DOMAIN s /\ s[i] \in RowOf(t)
      BY <1>2, <1>3, <1>8, ElementOfSeq DEF ChooseWorker
    <2>2. [s[i] EXCEPT !.worker = w] \in RowOf(t)
      BY <2>1 DEF RowOf
    <2>3. [s EXCEPT ![i].worker = w] = [s EXCEPT ![i] = [s[i] EXCEPT !.worker = w]]
      OBVIOUS
    <2> QED
      BY <1>2, <1>6, <1>8, <2>1, <2>2, <2>3 DEF ChooseWorker
  <1> QED
    BY <1>4, <1>5, <1>7, <1>8

(* A page that is opened, read again or left. *)
LEMMA Opened ==
    ASSUME CrewInv, NEW a \in {"create", "show"}, NEW t \in PermitTypes, NEW s \in FormRows(t),
           crewForm' = [at |-> a, type |-> t, rows |-> s],
           a = "show" => permit' # NoPermit /\ permit'.type = t
    PROVE  FormInv'
  <1>1. crewForm'.at = a /\ crewForm'.type = t
    OBVIOUS
  <1> QED
    BY <1>1 DEF FormInv

LEMMA PageKeeps ==
    ASSUME CrewInv, \/ \E t \in PermitTypes : OpenCreate(t) \/ ChooseType(t)
                    \/ OpenShow \/ LeavePage \/ ReloadPage \/ SaveRefused
    PROVE  CrewInv'
  <1>1. UNCHANGED permit /\ UNCHANGED docVars
    BY DEF OpenCreate, ChooseType, OpenShow, LeavePage, ReloadPage, SaveRefused
  <1>2. ready' \subseteq Person
    BY ReadersFit
    DEF OpenCreate, ChooseType, OpenShow, LeavePage, ReloadPage, SaveRefused, CrewInv
  <1>3. FormInv'
    <2>1. ASSUME NEW t \in PermitTypes, OpenCreate(t) \/ ChooseType(t) PROVE FormInv'
      <3>1. crewForm' = [at |-> "create", type |-> t, rows |-> <<BlankRow>>]
        <4>1. CASE OpenCreate(t)
          BY <4>1 DEF OpenCreate
        <4>2. CASE ChooseType(t)
          BY <4>2, FormIs DEF ChooseType, CrewInv
        <4> QED
          BY <2>1, <4>1, <4>2
      <3> QED
        BY <2>1, <3>1, BlankFits, Opened
    <2>2. CASE OpenShow
      <3>1. permit # NoPermit
        BY <2>2 DEF OpenShow, NoPermit
      <3>2. permit.type \in PermitTypes /\ permit.crew \in CrewOf(permit.type)
        BY <3>1 DEF CrewInv, PermitInv, Permit
      <3>3. StoredRows \in FormRows(permit.type)
        BY <3>2, StoredFits DEF StoredRows
      <3>4. crewForm' = [at |-> "show", type |-> permit.type, rows |-> StoredRows]
        BY <2>2 DEF OpenShow
      <3> QED
        BY <1>1, <3>1, <3>2, <3>3, <3>4, Opened
    <2>3. CASE LeavePage
      BY <2>3 DEF LeavePage, FormInv
    <2>4. CASE ReloadPage \/ SaveRefused
      BY <1>1, <2>4, FormSame DEF ReloadPage, SaveRefused, CrewInv
    <2> QED
      BY <2>1, <2>2, <2>3, <2>4
  <1> QED
    BY <1>1, <1>2, <1>3, DocsSame, PermitSame DEF CrewInv

(* What the server makes of a stored permit. *)
LEMMA PermitWritten ==
    ASSUME CrewInv, permit # NoPermit, NEW p \in Permit, p.type = permit.type,
           p.crew \in CrewOf(p.type), permit' = p, UNCHANGED crewForm, UNCHANGED docVars,
           ready' \subseteq Person
    PROVE  CrewInv'
  <1>1. p # NoPermit
    BY DEF Permit, NoPermit
  <1>2. PermitInv'
    BY <1>1 DEF PermitInv, CrewOf, Of
  <1>3. FormInv'
    BY <1>1, FormSame DEF CrewInv
  <1> QED
    BY <1>2, <1>3, DocsSame DEF CrewInv

(* Every change of a stored permit: its crew, by a save of the page, or its
   status or its renewals, which leave the crew. *)
Filled(p) == \/ p = [permit EXCEPT !.crew = PostedCrew] /\ WellFormed
             \/ p = permit

Advanced(p) ==
    \/ permit.status \in {"draft", "rejected"} /\ p = [permit EXCEPT !.status = "pending"]
    \/ /\ permit.status = "pending" /\ p = [permit EXCEPT !.status = "active"]
       /\ Checked(permit)
    \/ permit.status = "pending" /\ p = [permit EXCEPT !.status = "rejected"]
    \/ permit.status = "active" /\ p = [permit EXCEPT !.status = "suspended"]
    \/ permit.status = "suspended" /\ p = [permit EXCEPT !.status = "active"]
    \/ /\ permit.status = "active" /\ p = [permit EXCEPT !.renewals = 1]
       /\ \A person \in permit.crew : MayBeReady(person, permit.type)

Moves == SubmitPermit \/ Issue \/ Reject \/ Suspend \/ Resume \/ Renew

LEMMA UpdateIs ==
    ASSUME CrewInv, UpdateDraft
    PROVE  /\ permit # NoPermit /\ permit.status \in {"draft", "rejected"}
           /\ crewForm # Away /\ crewForm.at = "show" /\ Filled(permit')
           /\ UNCHANGED crewForm /\ UNCHANGED docVars /\ ReadWorkers(crewForm.type)
  <1>1. permit # NoPermit /\ permit.status \in {"draft", "rejected"}
    BY DEF UpdateDraft, NoPermit
  <1>2. Filled(permit')
    <2>1. CASE Saved(permit.type) /\ permit' = [permit EXCEPT !.crew = PostedCrew]
      BY <2>1 DEF Saved, Filled
    <2>2. CASE permit' = [permit EXCEPT !.crew = RolledBack(@, permit.type)]
      <3>1. permit' = [permit EXCEPT !.crew = permit.crew]
        BY <2>2 DEF RolledBack
      <3>2. permit \in Permit
        BY <1>1 DEF CrewInv, PermitInv
      <3> QED
        BY <3>1, <3>2 DEF Filled, Permit
    <2> QED
      BY <2>1, <2>2 DEF UpdateDraft
  <1> QED
    BY <1>1, <1>2 DEF UpdateDraft

LEMMA MoveIs ==
    ASSUME Moves
    PROVE  /\ permit # NoPermit /\ Advanced(permit')
           /\ UNCHANGED <<crewForm, ready>> /\ UNCHANGED docVars
  <1>1. CASE SubmitPermit
    BY <1>1 DEF SubmitPermit, Advanced, NoPermit
  <1>2. CASE Issue \/ Reject \/ Suspend \/ Resume
    BY <1>2 DEF Issue, Reject, Suspend, Resume, PermitMoves, Advanced, NoPermit
  <1>3. CASE Renew
    BY <1>3 DEF Renew, Advanced, NoPermit
  <1> QED
    BY <1>1, <1>2, <1>3 DEF Moves

LEMMA ServerKeeps == ASSUME CrewInv, CreateDraft \/ UpdateDraft \/ Moves PROVE CrewInv'
  <1>1. CASE CreateDraft
    <2>1. PICK t : t \in PermitTypes /\ t = crewForm.type
      BY <1>1, FormIs DEF CreateDraft, CrewInv
    <2>2. PICK crew : crew = PostedCrew /\ crew \in CrewOf(t)
      BY <1>1, <2>1, PostedFits DEF CreateDraft, Saved, CrewInv
    <2>3. permit' = [status |-> "draft", type |-> t, renewals |-> 0, crew |-> crew]
      BY <1>1, <2>1, <2>2 DEF CreateDraft
    <2>4. permit' \in Permit /\ permit'.type = t /\ permit'.crew = crew
      BY <2>1, <2>2, <2>3 DEF Permit, CrewOf, Of
    <2>5. permit' # NoPermit
      BY <2>4 DEF Permit, NoPermit
    <2>6. PermitInv'
      BY <2>2, <2>4 DEF PermitInv, CrewOf, Of
    <2>7. PICK s : /\ s \in FormRows(t)
                   /\ s = IF crew = {} THEN <<BlankRow>> ELSE SetToSeq(crew)
      BY <2>2, StoredFits
    <2>8. crewForm' = [at |-> "show", type |-> t, rows |-> s]
      BY <1>1, <2>1, <2>4, <2>7 DEF CreateDraft
    <2>9. FormInv'
      BY <2>1, <2>4, <2>5, <2>7, <2>8, Opened
    <2>10. ready' \subseteq Person /\ UNCHANGED docVars
      BY <1>1, ReadersFit DEF CreateDraft
    <2> QED
      BY <2>6, <2>9, <2>10, DocsSame DEF CrewInv
  <1>2. CASE UpdateDraft
    <2>1. /\ permit # NoPermit /\ crewForm # Away /\ crewForm.at = "show" /\ Filled(permit')
          /\ UNCHANGED crewForm /\ UNCHANGED docVars /\ ReadWorkers(crewForm.type)
      BY <1>2, UpdateIs
    <2>2. permit \in Permit /\ permit.crew \in CrewOf(permit.type)
          /\ permit.type = crewForm.type
      BY <2>1 DEF CrewInv, PermitInv, FormInv
    <2>3. PICK crew : crew \in CrewOf(permit.type) /\ permit' = [permit EXCEPT !.crew = crew]
      <3>1. CASE permit' = permit
        BY <2>2, <3>1 DEF Permit
      <3>2. CASE permit' = [permit EXCEPT !.crew = PostedCrew] /\ WellFormed
        BY <2>1, <2>2, <3>2, PostedFits DEF CrewInv
      <3> QED
        BY <2>1, <3>1, <3>2 DEF Filled
    <2>4. permit' \in Permit /\ permit'.type = permit.type /\ permit'.crew = crew
      BY <2>2, <2>3 DEF Permit, CrewOf, Of
    <2>5. ready' \subseteq Person
      BY <2>1, ReadersFit
    <2> QED
      BY <2>1, <2>3, <2>4, <2>5, PermitWritten
  <1>3. CASE Moves
    <2>1. /\ permit # NoPermit /\ Advanced(permit')
          /\ UNCHANGED <<crewForm, ready>> /\ UNCHANGED docVars
      BY <1>3, MoveIs
    <2>2. permit \in Permit /\ permit.crew \in CrewOf(permit.type)
      BY <2>1 DEF CrewInv, PermitInv
    <2>3. permit' \in Permit /\ permit'.type = permit.type /\ permit'.crew = permit.crew
      BY <2>1, <2>2 DEF Permit, Advanced
    <2> QED
      BY <2>1, <2>2, <2>3, PermitWritten DEF CrewInv
  <1> QED
    BY <1>1, <1>2, <1>3

LEMMA CrewStarts == CrewInit => CrewInv
  BY DocsStart DEF CrewInit, CrewInv, PermitInv, FormInv

LEMMA CrewKept == CrewInv /\ [CrewNext]_<<docVars, crewVars>> => CrewInv'
  <1> SUFFICES ASSUME CrewInv, [CrewNext]_<<docVars, crewVars>> PROVE CrewInv'
    OBVIOUS
  <1>1. CASE [DocumentsNext]_docVars /\ UNCHANGED crewVars
    BY <1>1, DocsKept, PermitSame, FormSame DEF CrewInv, crewVars
  <1>2. CASE CreateDraft \/ UpdateDraft \/ Moves
    BY <1>2, ServerKeeps
  <1> QED
    BY <1>1, <1>2, RowStepsKeep, PageKeeps DEF CrewNext, Moves

LEMMA CrewTyped == CrewInv => CrewTypeOK /\ CrewOfType /\ ReadyShowsVerified
  <1> SUFFICES ASSUME CrewInv PROVE CrewTypeOK /\ CrewOfType /\ ReadyShowsVerified
    OBVIOUS
  <1>1. DocumentsTypeOK /\ ReadyShowsVerified /\ ready \subseteq Person
    BY ReadyIsVerified DEF CrewInv, DocsInv
  <1>2. permit \in Permit \cup {NoPermit} /\ CrewOfType
    BY DEF CrewInv, PermitInv, CrewOfType, CrewOf
  <1>3. ASSUME crewForm # Away
        PROVE  /\ crewForm.at \in {"create", "show"} /\ crewForm.type \in PermitTypes
               /\ crewForm.rows \in BoundedSeq(CrewRow, MaxCrew) /\ crewForm.rows # <<>>
    <2>1. PICK t, s : /\ t \in PermitTypes /\ s \in FormRows(t)
                     /\ t = crewForm.type /\ s = crewForm.rows
      BY <1>3, FormIs DEF CrewInv
    <2>2. RowOf(t) \subseteq CrewRow
      BY <2>1 DEF RowOf, CrewRow, AllRoles
    <2>3. s \in Seq(RowOf(t)) /\ Len(s) \in 1..MaxCrew
      BY <2>1 DEF FormRows
    <2>4. s \in [1..Len(s) -> CrewRow] /\ Len(s) \in 0..MaxCrew
      BY <2>2, <2>3, LenProperties, ElementOfSeq, CrewAssumption
    <2>5. s \in BoundedSeq(CrewRow, MaxCrew)
      BY <2>4 DEF BoundedSeq, SeqOf
    <2>6. s # <<>>
      BY <2>3
    <2> QED
      BY <1>3, <2>1, <2>5, <2>6, FormIs DEF CrewInv
  <1> QED
    BY <1>1, <1>2, <1>3 DEF CrewTypeOK

(* A save takes the crew that was posted, and only for a draft. *)
WholeSave ==
    permit # NoPermit /\ permit'.crew # permit.crew
    => permit'.crew = PostedCrew /\ permit.status \in {"draft", "rejected"}

(* Whoever is on a permit that is issued or renewed holds what the role wants. *)
ReadyWhenIssued ==
    permit # NoPermit
    /\ \/ permit.status = "pending" /\ permit'.status = "active"
       \/ permit'.renewals > permit.renewals
    => \A p \in permit.crew : \A req \in Requirements[permit.type][p.role] : Holds(p, req)

LEMMA ReadyHolds ==
    ASSUME NEW p, NEW t, MayBeReady(p, t), NEW req \in Requirements[t][p.role]
    PROVE  Holds(p, req)
  BY DEF MayBeReady, Considered, Holds

LEMMA PermitSteps ==
    ASSUME CrewInv, [CrewNext]_<<docVars, crewVars>>, permit # NoPermit
    PROVE  permit' = permit \/ UpdateDraft \/ Moves
  BY DEF CrewNext, crewVars, OpenCreate, ChooseType, OpenShow, LeavePage, ReloadPage, AddRow,
         RemoveRow, ChooseRole, ChooseWorker, FormChanges, CreateDraft, SaveRefused, Moves

LEMMA StepsFit ==
    ASSUME CrewInv, [CrewNext]_<<docVars, crewVars>> PROVE WholeSave /\ ReadyWhenIssued
  <1> SUFFICES ASSUME permit # NoPermit PROVE WholeSave /\ ReadyWhenIssued
    BY DEF WholeSave, ReadyWhenIssued
  <1>1. permit \in Permit
    BY DEF CrewInv, PermitInv
  <1>2. permit.renewals \in 0..1 /\ ~ (permit.renewals > permit.renewals)
    BY <1>1 DEF Permit
  <1>3. CASE permit' = permit
    BY <1>2, <1>3 DEF WholeSave, ReadyWhenIssued
  <1>4. CASE UpdateDraft
    <2>1. permit.status \in {"draft", "rejected"} /\ Filled(permit')
      BY <1>4, UpdateIs
    <2>2. /\ permit'.crew = permit.crew \/ permit'.crew = PostedCrew
          /\ permit'.renewals = permit.renewals
      BY <1>1, <2>1 DEF Filled, Permit
    <2> QED
      BY <1>2, <2>1, <2>2 DEF WholeSave, ReadyWhenIssued
  <1>5. CASE Moves
    <2>1. Advanced(permit')
      BY <1>5, MoveIs
    <2>2. permit'.crew = permit.crew
      BY <1>1, <2>1 DEF Advanced, Permit
    <2>3. \/ \A p \in permit.crew : MayBeReady(p, permit.type)
          \/ /\ permit'.renewals = permit.renewals
             /\ ~ (permit.status = "pending" /\ permit'.status = "active")
      BY <1>1, <2>1 DEF Advanced, Permit, Checked
    <2> QED
      BY <1>2, <2>2, <2>3, ReadyHolds DEF WholeSave, ReadyWhenIssued
  <1> QED
    BY <1>3, <1>4, <1>5, PermitSteps

(* Whatever happens to the documents while a page is open, a permit has the crew
   that was saved last, of roles of its type, and whoever may fill a role shows a
   verified badge for all it wants verified (PermitService::updateDraft,
   WorkerDocumentReadinessService::assessRole). *)
THEOREM CrewIsAsSaved == CrewSpec => CrewAsSaved
  <1>1. CrewInit => CrewInv
    BY CrewStarts
  <1>2. CrewInv /\ [CrewNext]_<<docVars, crewVars>> => CrewInv'
    BY CrewKept
  <1>3. CrewInv => CrewTypeOK /\ CrewOfType /\ ReadyShowsVerified
    BY CrewTyped
  <1>4. CrewInv /\ [CrewNext]_<<docVars, crewVars>> => [WholeSave]_<<docVars, crewVars>>
    BY StepsFit
  <1> QED
    BY <1>1, <1>2, <1>3, <1>4, PTL DEF CrewSpec, CrewAsSaved, SaveIsWhole, WholeSave

(* Whenever a permit is issued or renewed, everybody on it holds in date what the
   role requires (PermitService::assertAllPersonnelDocuments). *)
THEOREM IssuedCrewIsReady == CrewSpec => IssuedCrewReady
  <1>1. CrewInit => CrewInv
    BY CrewStarts
  <1>2. CrewInv /\ [CrewNext]_<<docVars, crewVars>> => CrewInv'
    BY CrewKept
  <1>3. CrewInv /\ [CrewNext]_<<docVars, crewVars>> => [ReadyWhenIssued]_<<docVars, crewVars>>
    BY StepsFit
  <1> QED
    BY <1>1, <1>2, <1>3, PTL DEF CrewSpec, IssuedCrewReady, ReadyWhenIssued

-----------------------------------------------------------------------------
(* SettingsPage.                                                           *)
(* An edit was asked for, and what was confirmed in the dialog is one. *)
FieldsInv ==
    /\ shown \in Holding /\ edits \in Holding
    /\ picked \subseteq Settings /\ confirmed \subseteq picked \cap Sensitive
    /\ \A k \in Settings \ Sensitive : edits[k] # shown[k] => k \in picked
    /\ group \in DOMAIN Groups /\ locating \in BOOLEAN
    /\ \/ asking = Nothing
       \/ \E k \in Sensitive : \E v \in ValuesOf[k] : asking = [key |-> k, value |-> v]

StoredInv ==
    /\ stored \in Holding /\ \A k \in Settings : Accepted(k, stored[k])
    /\ otherSaves \in 0..MaxOtherSaves

(* A save: settings of its group, chosen by the user, the sensitive ones only
   where they were confirmed. *)
Carried(p) ==
    \E s \in {"sent", "taken"}, g \in DOMAIN Groups :
       \E ks, vs, cf, ch :
          /\ p = [at |-> s, group |-> g, keys |-> ks, values |-> vs, confirmed |-> cf,
                  chosen |-> ch]
          /\ ks # {} /\ ks \subseteq ToSet(Groups[g])
          /\ ks \ Sensitive \subseteq ch /\ cf \subseteq ch

SetInv == FieldsInv /\ StoredInv /\ (put = Nothing \/ put = Served \/ Carried(put))

LEMMA InGroup == ASSUME NEW g \in DOMAIN Groups PROVE ToSet(Groups[g]) \subseteq Settings
  BY DEF Settings

LEMMA HeldWith ==
    ASSUME NEW f \in Holding, NEW k \in Settings, NEW v \in ValuesOf[k]
    PROVE  [f EXCEPT ![k] = v] \in Holding
  BY DEF Holding

LEMMA SettingsStart == SettingsInit => SetInv
  <1> SUFFICES ASSUME SettingsInit PROVE SetInv
    OBVIOUS
  <1>1. 0 \in 0..MaxOtherSaves
    BY SettingsAssumption
  <1> QED
    BY <1>1, SettingsAssumption DEF SettingsInit, SetInv, FieldsInv, StoredInv

LEMMA SameStored == ASSUME StoredInv, UNCHANGED <<stored, otherSaves>> PROVE StoredInv'
  BY DEF StoredInv, Accepted

LEMMA SameFields ==
    ASSUME FieldsInv, UNCHANGED <<shown, edits, confirmed, group, asking, locating, picked>>
    PROVE  FieldsInv'
  BY DEF FieldsInv

LEMMA SamePut ==
    ASSUME put = Nothing \/ put = Served \/ Carried(put), UNCHANGED put
    PROVE  (put = Nothing \/ put = Served \/ Carried(put))'
  BY DEF Carried

(* The fields. *)
LEMMA FieldStepsKeep ==
    ASSUME SetInv, \/ \E g \in DOMAIN Groups : SelectTab(g)
                   \/ \E k \in Settings : \E v \in ValuesOf[k] : HandleChange(k, v)
                   \/ AcceptDialog \/ CancelDialog \/ RefreshLocation
                   \/ \E found \in BOOLEAN : Located(found)
                   \/ DiscardActiveTab
    PROVE  SetInv'
  <1>1. UNCHANGED <<stored, shown, put, otherSaves>>
    BY DEF SelectTab, HandleChange, AcceptDialog, CancelDialog, RefreshLocation, Located,
           DiscardActiveTab, PageOnly
  <1>2. FieldsInv
    BY DEF SetInv
  <1>3. ASSUME NEW g \in DOMAIN Groups, SelectTab(g) PROVE FieldsInv'
    BY <1>1, <1>2, <1>3 DEF SelectTab, FieldsInv
  <1>4. ASSUME NEW k \in Settings, NEW v \in ValuesOf[k], HandleChange(k, v) PROVE FieldsInv'
    <2>1. CASE k \in Sensitive /\ v # shown[k]
      BY <1>1, <1>2, <1>4, <2>1 DEF HandleChange, FieldsInv
    <2>2. CASE ~ (k \in Sensitive /\ v # shown[k])
      <3>1. /\ edits' = [edits EXCEPT ![k] = v] /\ confirmed' = confirmed \ {k}
            /\ picked' = IF k \in Sensitive THEN picked \ {k} ELSE picked \cup {k}
            /\ UNCHANGED <<asking, group, locating>>
        BY <1>4, <2>2 DEF HandleChange, ApplyValue
      <3>2. edits' \in Holding
        BY <1>2, <3>1, HeldWith DEF FieldsInv
      <3>3. \A x \in Settings : edits'[x] = IF x = k THEN v ELSE edits[x]
        BY <1>2, <3>1 DEF FieldsInv, Holding
      <3> QED
        BY <1>1, <1>2, <3>1, <3>2, <3>3 DEF FieldsInv
    <2> QED
      BY <2>1, <2>2
  <1>5. ASSUME AcceptDialog PROVE FieldsInv'
    <2>1. PICK k, v : k \in Sensitive /\ v \in ValuesOf[k] /\ asking = [key |-> k, value |-> v]
      BY <1>2, <1>5 DEF AcceptDialog, FieldsInv
    <2>2. k \in Settings
      BY <2>1, SettingsAssumption
    <2>3. /\ edits' = [edits EXCEPT ![k] = v] /\ confirmed' = confirmed \cup {k}
          /\ picked' = picked \cup {k} /\ asking' = Nothing /\ UNCHANGED <<group, locating>>
      BY <1>5, <2>1 DEF AcceptDialog, ApplyValue
    <2>4. edits' \in Holding
      BY <1>2, <2>1, <2>2, <2>3, HeldWith DEF FieldsInv
    <2>5. \A x \in Settings : edits'[x] = IF x = k THEN v ELSE edits[x]
      BY <1>2, <2>3 DEF FieldsInv, Holding
    <2> QED
      BY <1>1, <1>2, <2>2, <2>1, <2>3, <2>4, <2>5 DEF FieldsInv, Nothing
  <1>6. ASSUME CancelDialog PROVE FieldsInv'
    BY <1>1, <1>2, <1>6 DEF CancelDialog, FieldsInv, Nothing
  <1>7. ASSUME RefreshLocation PROVE FieldsInv'
    BY <1>1, <1>2, <1>7 DEF RefreshLocation, FieldsInv, Nothing
  <1>8. ASSUME NEW found \in BOOLEAN, Located(found) PROVE FieldsInv'
    <2>1. CASE ~ found
      BY <1>1, <1>2, <1>8, <2>1 DEF Located, FieldsInv
    <2>2. CASE found
      <3>1. /\ edits' = [edits EXCEPT ![Coords] = "known"] /\ picked' = picked \cup {Coords}
            /\ locating' = FALSE /\ UNCHANGED <<confirmed, group, asking>>
        BY <1>8, <2>2 DEF Located
      <3>2. Coords \in Settings /\ "known" \in ValuesOf[Coords]
        BY SettingsAssumption
      <3>3. edits' \in Holding
        BY <1>2, <3>1, <3>2, HeldWith DEF FieldsInv
      <3>4. \A x \in Settings : edits'[x] = IF x = Coords THEN "known" ELSE edits[x]
        BY <1>2, <3>1 DEF FieldsInv, Holding
      <3> QED
        BY <1>1, <1>2, <3>1, <3>2, <3>3, <3>4 DEF FieldsInv
    <2> QED
      BY <2>1, <2>2
  <1>9. ASSUME DiscardActiveTab PROVE FieldsInv'
    <2>1. PICK keys : /\ edits' = [k \in Settings |-> IF k \in keys THEN shown[k] ELSE edits[k]]
                      /\ confirmed' = confirmed \ keys /\ picked' = picked \ keys
                      /\ UNCHANGED <<group, asking, locating>>
      BY <1>9 DEF DiscardActiveTab
    <2>2. \A k \in Settings : edits'[k] = IF k \in keys THEN shown[k] ELSE edits[k]
      BY <2>1
    <2>3. \A k \in Settings : edits'[k] \in ValuesOf[k]
      BY <1>2, <2>2 DEF FieldsInv, Holding
    <2>4. edits' \in Holding
      BY <2>1, <2>3 DEF Holding
    <2> QED
      BY <1>1, <1>2, <2>1, <2>2, <2>4 DEF FieldsInv
  <1>10. FieldsInv'
    BY <1>3, <1>4, <1>5, <1>6, <1>7, <1>8, <1>9
  <1> QED
    BY <1>1, <1>10, SameStored, SamePut DEF SetInv

(* The next setting of a save that is written. *)
LEMMA NextSetting ==
    ASSUME SetInv, SetNext
    PROVE  \E k \in Settings :
             /\ k \in put.keys /\ Carried(put) /\ UNCHANGED otherSaves
             /\ \/ stored' = stored
                \/ /\ stored' = [stored EXCEPT ![k] = put.values[k]]
                   /\ k \in Sensitive => k \in put.confirmed
                   /\ Accepted(k, put.values[k])
             /\ put' = Served \/ (put' = [put EXCEPT !.keys = @ \ {k}] /\ put.keys # {k})
  <1>1. put # Nothing /\ put.at = "taken"
    BY DEF SetNext
  <1>2. Carried(put)
    BY <1>1 DEF SetInv, Served
  <1>3. PICK g \in DOMAIN Groups :
           g = put.group /\ put.keys # {} /\ put.keys \subseteq ToSet(Groups[g])
    BY <1>2 DEF Carried
  <1> DEFINE left == {i \in DOMAIN Groups[g] : Groups[g][i] \in put.keys}
  <1>4. left # {}
    BY <1>3 DEF ToSet
  <1>5. left \in SUBSET Nat
    <2>1. Groups[g] \in Seq(Settings)
      BY SettingsAssumption
    <2>2. DOMAIN Groups[g] \subseteq Nat
      BY <2>1, LenProperties
    <2> QED
      BY <2>2
  <1>6. PICK i \in left : i = CHOOSE x \in left : \A j \in left : x <= j
    BY <1>4, <1>5, LeastNatural
  <1>7. PICK k \in put.keys : k = Groups[g][i]
    BY <1>6
  <1>8. k \in Settings
    BY <1>3, <1>7, InGroup
  <1> DEFINE taken == (k \in Sensitive => k \in put.confirmed) /\ Accepted(k, put.values[k])
  <1>9. /\ stored' = IF taken THEN [stored EXCEPT ![k] = put.values[k]] ELSE stored
        /\ put' = IF taken /\ put.keys # {k} THEN [put EXCEPT !.keys = @ \ {k}] ELSE Served
        /\ UNCHANGED otherSaves
    <2>1. NextKey = k
      BY <1>3, <1>6, <1>7 DEF NextKey
    <2> QED
      BY <2>1 DEF SetNext, Serves
  <1> QED
    BY <1>2, <1>7, <1>8, <1>9

LEMMA SetNextKeeps == ASSUME SetInv, SetNext PROVE SetInv'
  <1>1. FieldsInv'
    BY SameFields DEF SetNext, Serves, SetInv
  <1>2. PICK k \in Settings :
             /\ k \in put.keys /\ Carried(put) /\ UNCHANGED otherSaves
             /\ \/ stored' = stored
                \/ /\ stored' = [stored EXCEPT ![k] = put.values[k]]
                   /\ k \in Sensitive => k \in put.confirmed
                   /\ Accepted(k, put.values[k])
             /\ put' = Served \/ (put' = [put EXCEPT !.keys = @ \ {k}] /\ put.keys # {k})
    BY NextSetting
  <1>3. StoredInv'
    <2>1. CASE stored' = stored
      BY <1>2, <2>1, SameStored DEF SetInv
    <2>2. ASSUME NEW v, Accepted(k, v), stored' = [stored EXCEPT ![k] = v] PROVE StoredInv'
      <3>1. stored' \in Holding
        BY <2>2, HeldWith DEF SetInv, StoredInv, Accepted
      <3>2. \A x \in Settings : stored'[x] = IF x = k THEN v ELSE stored[x]
        BY <2>2 DEF SetInv, StoredInv, Holding
      <3>3. \A x \in Settings : Accepted(x, stored'[x])
        BY <2>2, <3>2 DEF SetInv, StoredInv
      <3> QED
        BY <1>2, <3>1, <3>3 DEF SetInv, StoredInv, Accepted
    <2> QED
      BY <1>2, <2>1, <2>2
  <1>4. put' = Served \/ Carried(put')
    <2>1. CASE put' = [put EXCEPT !.keys = @ \ {k}] /\ put.keys # {k}
      <3>0. PICK s \in {"sent", "taken"}, g \in DOMAIN Groups :
               \E ks, vs, cf, ch :
                  /\ put = [at |-> s, group |-> g, keys |-> ks, values |-> vs, confirmed |-> cf,
                            chosen |-> ch]
                  /\ ks # {} /\ ks \subseteq ToSet(Groups[g])
                  /\ ks \ Sensitive \subseteq ch /\ cf \subseteq ch
        BY <1>2 DEF Carried
      <3>1. PICK ks, vs, cf, ch :
               /\ put = [at |-> s, group |-> g, keys |-> ks, values |-> vs, confirmed |-> cf,
                         chosen |-> ch]
               /\ ks # {} /\ ks \subseteq ToSet(Groups[g])
               /\ ks \ Sensitive \subseteq ch /\ cf \subseteq ch
        BY <3>0
      <3>2. put' = [at |-> s, group |-> g, keys |-> ks \ {k}, values |-> vs, confirmed |-> cf,
                    chosen |-> ch]
        BY <2>1, <3>1
      <3>3. ks \ {k} # {} /\ ks \ {k} \subseteq ToSet(Groups[g])
            /\ (ks \ {k}) \ Sensitive \subseteq ch
        BY <1>2, <2>1, <3>1
      <3> QED
        BY <3>1, <3>2, <3>3 DEF Carried
    <2> QED
      BY <1>2, <2>1
  <1> QED
    BY <1>1, <1>3, <1>4 DEF SetInv, Carried

LEMMA RequestStepsKeep ==
    ASSUME SetInv, \/ SubmitActiveTab \/ Validate \/ AnswerArrives \/ PutFails
                   \/ \E k \in Settings : \E v \in ValuesOf[k] : OtherAdmin(k, v)
    PROVE  SetInv'
  <1>1. FieldsInv /\ StoredInv /\ (put = Nothing \/ put = Served \/ Carried(put))
    BY DEF SetInv
  <1>2. CASE SubmitActiveTab
    <2>1. PICK g \in DOMAIN Groups : g = group
      BY <1>1 DEF FieldsInv
    <2>2. /\ Dirty(g) # {} /\ Dirty(g) \subseteq ToSet(Groups[g])
          /\ Dirty(g) \ Sensitive \subseteq picked \cap Dirty(g)
          /\ confirmed \cap Dirty(g) \subseteq picked \cap Dirty(g)
      BY <1>1, <1>2, <2>1, InGroup DEF SubmitActiveTab, BarIdle, Dirty, FieldsInv
    <2>3. put' = [at |-> "sent", group |-> g, keys |-> Dirty(g),
                  values |-> [k \in Dirty(g) |-> edits[k]],
                  confirmed |-> confirmed \cap Dirty(g), chosen |-> picked \cap Dirty(g)]
      BY <1>2, <2>1 DEF SubmitActiveTab
    <2>4. Carried(put')
      <3>1. PICK d : d = Dirty(g)
        OBVIOUS
      <3>2. PICK vs, cf, ch :
               vs = [k \in d |-> edits[k]] /\ cf = confirmed \cap d /\ ch = picked \cap d
        OBVIOUS
      <3> QED
        BY <2>2, <2>3, <3>1, <3>2 DEF Carried
    <2> QED
      BY <1>1, <1>2, <2>4, SameFields, SameStored DEF SubmitActiveTab, SetInv, Carried
  <1>3. CASE Validate
    <2>1. Carried(put) /\ (put' = [put EXCEPT !.at = "taken"] \/ put' = Served)
      BY <1>1, <1>3 DEF Validate, Served
    <2>2. put' = Served \/ Carried(put')
      BY <2>1 DEF Carried
    <2> QED
      BY <1>1, <1>3, <2>2, SameFields, SameStored DEF Validate, Serves, SetInv, Carried
  <1>4. CASE AnswerArrives
    <2>1. /\ put' = Nothing /\ shown' = stored /\ edits' = stored /\ confirmed' = {}
          /\ picked' = {} /\ UNCHANGED <<stored, group, asking, locating, otherSaves>>
      BY <1>4 DEF AnswerArrives, PropsArrive, Reset
    <2>2. FieldsInv'
      BY <1>1, <2>1 DEF FieldsInv, StoredInv
    <2> QED
      BY <1>1, <2>1, <2>2, SameStored DEF SetInv
  <1>5. CASE PutFails
    BY <1>1, <1>5, SameFields, SameStored DEF PutFails, Serves, SetInv
  <1>6. ASSUME NEW k \in Settings, NEW v \in ValuesOf[k], OtherAdmin(k, v) PROVE SetInv'
    <2>1. stored' = [stored EXCEPT ![k] = v] /\ Accepted(k, v)
      BY <1>6 DEF OtherAdmin
    <2>2. stored' \in Holding
      BY <1>1, <2>1, HeldWith DEF StoredInv
    <2>3. \A x \in Settings : Accepted(x, stored'[x])
      BY <1>1, <2>1 DEF StoredInv, Holding
    <2>4. otherSaves' \in 0..MaxOtherSaves
      BY <1>1, <1>6, SettingsAssumption DEF OtherAdmin, StoredInv
    <2> QED
      BY <1>1, <1>6, <2>2, <2>3, <2>4, SameFields, SamePut
      DEF OtherAdmin, SetInv, StoredInv, Accepted
  <1> QED
    BY <1>2, <1>3, <1>4, <1>5, <1>6

LEMMA SettingsKept == SetInv /\ [SettingsNext]_setVars => SetInv'
  <1>1. ASSUME SetInv, UNCHANGED setVars PROVE SetInv'
    BY <1>1, SameFields, SameStored, SamePut DEF setVars, SetInv
  <1> QED
    BY <1>1, FieldStepsKeep, SetNextKeeps, RequestStepsKeep DEF SettingsNext

LEMMA SettingsTyped == SetInv => SettingsTypeOK /\ OnlyChosenSaved
  <1> SUFFICES ASSUME SetInv PROVE SettingsTypeOK /\ OnlyChosenSaved
    OBVIOUS
  <1>1. put.at \in {"sent", "taken"} => Carried(put)
    BY DEF SetInv, Nothing, Served
  <1>2. \/ put = Nothing
        \/ put.at = "done"
        \/ /\ put.at \in {"sent", "taken"}
           /\ put.keys # {} /\ put.keys \subseteq ToSet(Groups[put.group])
    BY DEF SetInv, Served, Carried
  <1>3. OnlyChosenSaved
    BY <1>1 DEF OnlyChosenSaved, Carried
  <1>4. asking = Nothing \/ (asking.key \in Sensitive /\ asking.value \in ValuesOf[asking.key])
    BY DEF SetInv, FieldsInv
  <1> QED
    BY <1>2, <1>3, <1>4 DEF SettingsTypeOK, SetInv, FieldsInv, StoredInv

(* A step of this user only stores a sensitive setting that was confirmed. *)
StoredAccepted ==
    \A k \in Sensitive :
       stored'[k] # stored[k] /\ otherSaves' = otherSaves => k \in put.chosen

LEMMA StoresAccepted == ASSUME SetInv, [SettingsNext]_setVars PROVE StoredAccepted
  <1>1. CASE SetNext
    <2>1. PICK k \in Settings :
               /\ k \in put.keys /\ Carried(put)
               /\ \/ stored' = stored
                  \/ /\ stored' = [stored EXCEPT ![k] = put.values[k]]
                     /\ k \in Sensitive => k \in put.confirmed
      BY <1>1, NextSetting
    <2>2. put.confirmed \subseteq put.chosen
      BY <2>1 DEF Carried
    <2>3. \A x \in Sensitive : x # k => stored'[x] = stored[x]
      BY <2>1, SettingsAssumption DEF SetInv, StoredInv, Holding
    <2> QED
      BY <2>1, <2>2, <2>3 DEF StoredAccepted
  <1>2. ASSUME NEW k, NEW v, OtherAdmin(k, v) PROVE StoredAccepted
    <2>1. otherSaves' = otherSaves + 1 /\ otherSaves \in Nat
      BY <1>2, SettingsAssumption DEF OtherAdmin, SetInv, StoredInv
    <2>2. otherSaves' # otherSaves
      BY <2>1
    <2> QED
      BY <2>2 DEF StoredAccepted
  <1>3. CASE stored' = stored
    BY <1>3 DEF StoredAccepted
  <1>4. stored' = stored \/ SetNext \/ \E k, v : OtherAdmin(k, v)
    BY DEF SettingsNext, setVars, SelectTab, HandleChange, AcceptDialog, CancelDialog,
           RefreshLocation, Located, DiscardActiveTab, PageOnly, SubmitActiveTab, Validate,
           AnswerArrives, PutFails
  <1> QED
    BY <1>1, <1>2, <1>3, <1>4

(* However the tabs, the dialogs, the position, the saves and the other
   administrator interleave, a save carries only what this user changed since
   the page last showed what is stored, and a sensitive setting only as it was
   confirmed. *)
THEOREM SavesAreChosen == SettingsSpec => SavesAsChosen
  <1>1. SetInv /\ [SettingsNext]_setVars => StoredAccepted
    BY StoresAccepted
  <1> QED
    BY <1>1, SettingsStart, SettingsKept, SettingsTyped, PTL
    DEF SettingsSpec, SavesAsChosen, SensitiveAccepted, StoredAccepted

-----------------------------------------------------------------------------
(* Registers.                                                              *)

LEMMA PagersKeep ==
    ASSUME NEW p \in DOMAIN Pages \ {"work_orders"}
    PROVE  Pages[p].keep = DOMAIN Pages[p].controls
  BY DEF Pages, PermitsList, WorkersList, TagsList, DevicesList, CamerasList, AssetsList,
         ReportsList, AlertsList, GasAlarmsList, PpeList, RoiList, AuditList, HeadcountsList,
         ReadingsList, EntryExitList, EquipmentList, CheckoutsList, IncidentsList, LsrList,
         VehicleList, Live, Filtered

(* A query has a filter for every control the user acts with at once, and the
   search that waits is what its box shows. *)
Matches(q) ==
    \A f \in followed : Kind(f) \in {"typed", "picked"} => q.filters[f] = chosen[f]

RegInv ==
    /\ RegistersTypeOK /\ shownPage.keep = DOMAIN shownPage.controls
    /\ timer # Off => Kind(timer.filter) = "typed" /\ timer.value = chosen[timer.filter]
    /\ timer = Off /\ visiting # Off => Matches(visiting)
    /\ timer = Off /\ visiting = Off /\ ~ overtaken => Matches(table)
    /\ reload # Off /\ ~ overtaken => reload = table

LEMMA Followed2 ==
    ASSUME NEW p \in DOMAIN Pages, NEW F \in Pairs(p)
    PROVE  F \subseteq DOMAIN Pages[p].controls /\ Cardinality(F) \in {1, 2}
  <1> DEFINE c == Pages[p].controls
  <1>1. PICK f \in DOMAIN c, g \in DOMAIN c : F = CHOOSE pair \in LikePair(p, f, g) : TRUE
    BY DEF Pairs
  <1>2. {f, g} \in LikePair(p, f, g)
    BY DEF LikePair, TwoOf
  <1>3. F \in TwoOf(p)
    BY <1>1, <1>2 DEF LikePair
  <1>4. PICK x \in DOMAIN c, y \in DOMAIN c : F = {x, y}
    BY <1>3 DEF TwoOf
  <1>5. Cardinality({x, y}) \in {1, 2}
    <2>1. CASE x = y
      <3>1. {x, y} = {x}
        BY <2>1
      <3> QED
        BY <3>1, FS_Singleton
    <2>2. CASE x # y
      <3>1. IsFiniteSet({x}) /\ Cardinality({x}) = 1
        BY FS_Singleton
      <3>2. y \notin {x}
        BY <2>2
      <3>4. Cardinality({x} \cup {y}) = 1 + 1
        BY <3>1, <3>2, FS_AddElement
      <3>3. {x, y} = {x} \cup {y}
        OBVIOUS
      <3> QED
        BY <3>3, <3>4
    <2> QED
      BY <2>1, <2>2
  <1> QED
    BY <1>4, <1>5

LEMMA RegistersStart == ASSUME "work_orders" \notin PageNames, RegistersInit PROVE RegInv
  <1>1. list \in DOMAIN Pages \ {"work_orders"}
    BY RegistersAssumption DEF RegistersInit
  <1>2. followed \subseteq DOMAIN shownPage.controls /\ Cardinality(followed) \in {1, 2}
    BY <1>1, Followed2 DEF RegistersInit, shownPage
  <1>3. shownPage.keep = DOMAIN shownPage.controls
    BY <1>1, PagersKeep DEF shownPage
  <1>4. 0 \in 0..MaxPicks /\ 0 \in 0..MaxReloads
    BY RegistersAssumption
  <1>5. chosen \in [followed -> Option] /\ table \in Query
    BY DEF RegistersInit, Option, Query, LastPage
  <1> QED
    BY <1>2, <1>3, <1>4, <1>5 DEF RegistersInit, RegInv, RegistersTypeOK, Matches

LEMMA AppliedMatches ==
    ASSUME RegInv, NEW f \in followed, NEW v \in Option
    PROVE  /\ Applied(f, v) \in Query
           /\ \A g \in followed :
                 Kind(g) # "bound" =>
                    Applied(f, v).filters[g] = IF g = f THEN v ELSE chosen[g]
           /\ Applied(f, v).filters[f] = v
  BY DEF RegInv, RegistersTypeOK, Applied, Query, LastPage

LEMMA QueryIsNotOff == ASSUME NEW q \in Query PROVE q # Off
  BY DEF Query, Off

LEMMA TimerIsNotOff == ASSUME NEW f, NEW v PROVE [filter |-> f, value |-> v] # Off
  BY DEF Off
LEMMA RegistersKept == RegInv /\ [RegistersNext]_registerVars => RegInv'
  <1> SUFFICES ASSUME RegInv, [RegistersNext]_registerVars PROVE RegInv'
    OBVIOUS
  <1> USE DEF Matches, Kind, shownPage
  <1>0. RegistersTypeOK /\ RegistersAssumption
    BY RegistersAssumption DEF RegInv
  <1>1. ASSUME NEW f \in followed, NEW v \in Option, Type(f, v) PROVE RegInv'
    <2>1. chosen' \in [followed -> Option] /\ chosen'[f] = v
      BY <1>0, <1>1 DEF Type, RegistersTypeOK
    <2>2. timer' \in [filter : followed, value : Option] /\ timer'.filter = f /\ timer'.value = v
      BY <1>1 DEF Type
    <2>3. timer' # Off
      BY <1>1, TimerIsNotOff DEF Type
    <2>4. picks' \in 0..MaxPicks
      BY <1>0, <1>1 DEF Type, Act, RegistersTypeOK, RegistersAssumption
    <2>5. /\ Kind(f) = "typed"
          /\ UNCHANGED <<list, followed, visiting, reload, table, overtaken, reloads>>
      BY <1>1 DEF Type
    <2>6. RegistersTypeOK'
      BY <1>0, <2>1, <2>2, <2>4, <2>5 DEF RegistersTypeOK, Query, Option
    <2> QED
      BY <2>1, <2>2, <2>3, <2>5, <2>6 DEF RegInv
  <1>2. ASSUME NEW f \in followed, NEW v \in Option, Pick(f, v) PROVE RegInv'
    <2>1. /\ chosen' \in [followed -> Option]
          /\ \A g \in followed : chosen'[g] = IF g = f THEN v ELSE chosen[g]
      BY <1>0, <1>2 DEF Pick, RegistersTypeOK
    <2>2. visiting' = Applied(f, v) /\ visiting' # Off /\ visiting' \in Query
      BY <1>2, AppliedMatches, QueryIsNotOff DEF Pick
    <2>3. timer' \in {timer, Off}
      BY <1>2 DEF Pick
    <2>4. picks' \in 0..MaxPicks
      BY <1>0, <1>2 DEF Pick, Act, RegistersTypeOK, RegistersAssumption
    <2>5. Kind(f) # "typed" /\ UNCHANGED <<list, followed, reload, table, overtaken, reloads>>
      BY <1>2 DEF Pick
    <2>6. RegistersTypeOK'
      BY <1>0, <2>1, <2>2, <2>3, <2>4, <2>5 DEF RegistersTypeOK, Query, Option
    <2>7. \A g \in followed : Kind(g) \in {"typed", "picked"} => visiting'.filters[g] = chosen'[g]
      BY <2>1, <2>2, AppliedMatches
    <2>8. timer' # Off =>
             Kind(timer.filter) = "typed" /\ timer'.value = chosen'[timer.filter] /\ timer' = timer
      BY <1>0, <2>1, <2>3, <2>5 DEF RegInv, RegistersTypeOK
    <2> QED
      BY <2>2, <2>5, <2>6, <2>7, <2>8 DEF RegInv
  <1>3. ASSUME NEW f \in followed, NEW v \in Option, Stage(f, v) PROVE RegInv'
    <2>1. /\ chosen' \in [followed -> Option]
          /\ \A g \in followed : Kind(g) # "staged" => chosen'[g] = chosen[g]
      BY <1>0, <1>3 DEF Stage, RegistersTypeOK
    <2>2. picks' \in 0..MaxPicks
      BY <1>0, <1>3 DEF Stage, Act, RegistersTypeOK, RegistersAssumption
    <2>3. UNCHANGED <<list, followed, timer, visiting, reload, table, overtaken, reloads>>
      BY <1>3 DEF Stage
    <2>4. RegistersTypeOK'
      BY <1>0, <2>1, <2>2, <2>3 DEF RegistersTypeOK, Query, Option
    <2> QED
      BY <1>0, <2>1, <2>3, <2>4 DEF RegInv, RegistersTypeOK
  <1>4. CASE Fire
    <2>1. timer # Off /\ timer.filter \in followed /\ timer.value \in Option
      BY <1>0, <1>4 DEF Fire, RegistersTypeOK
    <2>2. visiting' = Applied(timer.filter, timer.value) /\ visiting' # Off /\ visiting' \in Query
      BY <1>4, <2>1, AppliedMatches, QueryIsNotOff DEF Fire
    <2>3. \A g \in followed : Kind(g) \in {"typed", "picked"} => visiting'.filters[g] = chosen[g]
      BY <2>1, <2>2, AppliedMatches DEF RegInv
    <2>4. timer' = Off /\ UNCHANGED <<list, followed, chosen, reload, table, overtaken, picks, reloads>>
      BY <1>4 DEF Fire
    <2>5. RegistersTypeOK'
      BY <1>0, <2>2, <2>4 DEF RegistersTypeOK, Query, Option
    <2> QED
      BY <2>2, <2>3, <2>4, <2>5 DEF RegInv
  <1>5. CASE Apply
    <2>1. PICK f \in followed : Kind(f) = "staged" /\ visiting' = Applied(f, chosen[f])
      BY <1>5 DEF Apply
    <2>2. visiting' # Off /\ visiting' \in Query /\ chosen[f] \in Option
      BY <1>0, <2>1, AppliedMatches, QueryIsNotOff DEF RegistersTypeOK
    <2>3. \A g \in followed : Kind(g) \in {"typed", "picked"} => visiting'.filters[g] = chosen[g]
      BY <2>1, <2>2, AppliedMatches
    <2>4. UNCHANGED <<list, followed, chosen, timer, reload, table, overtaken, reloads>>
      BY <1>5 DEF Apply
    <2>5. picks' \in 0..MaxPicks
      BY <1>0, <1>5 DEF Apply, Act, RegistersTypeOK, RegistersAssumption
    <2>6. RegistersTypeOK'
      BY <1>0, <2>2, <2>4, <2>5 DEF RegistersTypeOK, Query, Option
    <2> QED
      BY <2>2, <2>3, <2>4, <2>6 DEF RegInv
  <1>6. CASE TurnPage
    <2>1. /\ visiting' = [filters |-> [g \in followed |->
                                        IF g \notin shownPage.keep THEN All
                                        ELSE IF Kind(g) = "bound" THEN table.filters[g]
                                        ELSE chosen[g]],
                          page |-> table.page + 1]
          /\ table.page < LastPage
          /\ UNCHANGED <<list, followed, chosen, timer, reload, table, overtaken, reloads>>
      BY <1>6 DEF TurnPage
    <2>2. visiting' \in Query
      BY <1>0, <2>1 DEF RegistersTypeOK, Query, Option, LastPage
    <2>3. visiting' # Off
      BY <2>2, QueryIsNotOff
    <2>4. \A g \in followed : Kind(g) \in {"typed", "picked"} => visiting'.filters[g] = chosen[g]
      BY <1>0, <2>1 DEF RegInv, RegistersTypeOK
    <2>5. picks' \in 0..MaxPicks
      BY <1>0, <1>6 DEF TurnPage, Act, RegistersTypeOK, RegistersAssumption
    <2>6. RegistersTypeOK'
      BY <1>0, <2>1, <2>2, <2>5 DEF RegistersTypeOK, Query, Option
    <2> QED
      BY <2>1, <2>3, <2>4, <2>6 DEF RegInv
  <1>7. CASE Arrive
    <2>1. /\ visiting # Off /\ table' = visiting /\ visiting' = Off
          /\ overtaken' = (reload # Off)
          /\ UNCHANGED <<list, followed, chosen, timer, reload, picks, reloads>>
      BY <1>7 DEF Arrive
    <2>2. RegistersTypeOK'
      BY <1>0, <2>1 DEF RegistersTypeOK, Query, Option
    <2> QED
      BY <2>1, <2>2 DEF RegInv
  <1>8. CASE Reload
    <2>1. /\ reload' = table /\ reloads' = reloads + 1 /\ reloads < MaxReloads
          /\ UNCHANGED <<list, followed, chosen, timer, visiting, table, overtaken, picks>>
      BY <1>8 DEF Reload
    <2>2. reloads' \in 0..MaxReloads
      BY <1>0, <2>1 DEF RegistersTypeOK, RegistersAssumption
    <2>3. RegistersTypeOK'
      BY <1>0, <2>1, <2>2 DEF RegistersTypeOK, Query, Option
    <2> QED
      BY <2>1, <2>2, <2>3 DEF RegInv
  <1>9. CASE Reloaded
    <2>1. /\ reload # Off /\ table' = reload /\ reload' = Off
          /\ UNCHANGED <<list, followed, chosen, timer, visiting, overtaken, picks, reloads>>
      BY <1>9 DEF Reloaded
    <2>2. RegistersTypeOK'
      BY <1>0, <2>1 DEF RegistersTypeOK, Query, Option
    <2> QED
      BY <2>1, <2>2 DEF RegInv
  <1>10. CASE UNCHANGED registerVars
    <2>1. RegistersTypeOK'
      BY <1>0, <1>10 DEF registerVars, RegistersTypeOK, Query, Option
    <2> QED
      BY <1>10, <2>1 DEF registerVars, RegInv
  <1> QED
    BY <1>1, <1>2, <1>3, <1>4, <1>5, <1>6, <1>7, <1>8, <1>9, <1>10 DEF RegistersNext

(* A visit that starts asks with every staged filter as the page shows it. *)
StagedAlong ==
    visiting' # Off /\ visiting' # visiting
       => \A f \in followed : Kind(f) = "staged" => visiting'.filters[f] = chosen[f]

LEMMA StagedGoes == ASSUME RegInv, [RegistersNext]_registerVars PROVE StagedAlong
  <1>1. ASSUME NEW f \in followed, NEW v \in Option, Kind(f) # "staged" \/ v = chosen[f],
               visiting' = Applied(f, v)
        PROVE  StagedAlong
    BY <1>1, AppliedMatches DEF StagedAlong
  <1>2. CASE \E f \in followed, v \in Option : Pick(f, v)
    BY <1>1, <1>2 DEF Pick
  <1>3. CASE Fire
    <2>1. timer.filter \in followed /\ timer.value \in Option /\ Kind(timer.filter) = "typed"
      BY <1>3 DEF Fire, RegInv, RegistersTypeOK
    <2> QED
      BY <1>1, <1>3, <2>1 DEF Fire
  <1>4. CASE Apply
    <2>1. PICK f \in followed : Kind(f) = "staged" /\ visiting' = Applied(f, chosen[f])
      BY <1>4 DEF Apply
    <2>2. chosen[f] \in Option
      BY DEF RegInv, RegistersTypeOK
    <2> QED
      BY <1>1, <2>1, <2>2
  <1>5. CASE TurnPage
    BY <1>5 DEF TurnPage, StagedAlong, RegInv, RegistersTypeOK
  <1>6. CASE visiting' = visiting \/ visiting' = Off
    BY <1>6 DEF StagedAlong
  <1> QED
    BY <1>2, <1>3, <1>4, <1>5, <1>6
    DEF RegistersNext, registerVars, Type, Stage, Arrive, Reload, Reloaded

(* Whatever is typed, picked, staged and turned, and whenever visits and live
   reloads arrive, a list at rest was read with the filters it shows, and what
   was staged goes along.  A live reload that was under way when the last visit
   arrived is the exception, until the next visit.  It takes that the pager
   carries every filter: all the lists but the one of the work orders do. *)
THEOREM ListsMatch ==
    ASSUME "work_orders" \notin PageNames PROVE RegistersSpec => FiltersApplied
  <1>1. RegInv => RegistersTypeOK /\ TableMatchesControls
    BY DEF RegInv, TableMatchesControls, AtRest, Matches
  <1>2. RegInv /\ [RegistersNext]_registerVars => StagedAlong
    BY StagedGoes
  <1>3. RegistersInit => RegInv
    BY RegistersStart
  <1> QED
    BY <1>1, <1>2, <1>3, RegistersKept, PTL
    DEF RegistersSpec, FiltersApplied, StagedGoesAlong, StagedAlong

-----------------------------------------------------------------------------
(* AdminForms.                                                             *)

(* The fields whose exceptions the properties name. *)
LeftByAdd(f, g) == f = "zone" /\ g = "requires_permit"
MadeMandatory(f, g) == f \in {"role", "crew_role"} /\ g = "is_mandatory"

(* What the code of a page must connect for a field of a form: its buttons set
   the page state they open a dialog on, the server knows what an unticked box
   means, and no operation turns a flag over blindly. *)
Wired(f, g) ==
    LET r == Forms[f]
        x == r.fields[g]
    IN  /\ x.first \in Value(x)
        /\ x.holder = "page" /\ "add" \in r.offers => g \in r.addSets \/ LeftByAdd(f, g)
        /\ x.holder = "page" /\ "edit" \in r.offers => g \in r.editSets
        /\ x.holder = "dom" /\ x.flag =>
              /\ "add" \in r.offers => x.onAdd \in Value(x)
              /\ "edit" \in r.offers =>
                    \/ x.onEdit = "keep"
                    \/ x.onEdit \in Value(x) /\ MadeMandatory(f, g)
              /\ r.offers \cap {"switch", "set"} = {}
        /\ r.offers \cap {"switch", "set"} # {} => x.flag
        /\ "flip" \notin r.offers

(* The same of a register that needs no exception. *)
WiredIn(r) ==
    \A g \in DOMAIN r.fields :
       LET x == r.fields[g]
       IN  /\ x.first \in Value(x)
           /\ x.holder = "page" /\ "add" \in r.offers => g \in r.addSets
           /\ x.holder = "page" /\ "edit" \in r.offers => g \in r.editSets
           /\ x.holder = "dom" /\ x.flag =>
                 /\ "add" \in r.offers => x.onAdd \in Value(x)
                 /\ "edit" \in r.offers => x.onEdit = "keep"
                 /\ r.offers \cap {"switch", "set"} = {}
           /\ r.offers \cap {"switch", "set"} # {} => x.flag
           /\ "flip" \notin r.offers

WiredForms ==
    {NewTypeForm, TypeActive, TypeForm, ChecklistForm, GasChannelForm, ConflictForm,
     RequirementForm, NewCrewRoleForm, DocumentTypeForm, DocumentTypeActive,
     DeviceForm, CameraForm, AssetForm, AssetShowForm, TagForm, TagAssignForm,
     PortableDeviceForm, NewUserForm, UserForm, UserActive, RoleEditorForm,
     CorrectionForm, ZoneDeactivated, DeviceRetired, CameraRetired, TagUnassigned,
     PortableDeviceRevoked}

LEMMA PlainForms ==
    ASSUME NEW f \in DOMAIN Forms \ {"camera_ai"}
    PROVE  Forms[f] \in WiredForms \/ f \in {"zone", "role", "crew_role"}
  BY DEF Forms, WiredForms

LEMMA Catalogue ==
    ASSUME NEW f \in DOMAIN Forms \ {"camera_ai"}, NEW g \in DOMAIN Forms[f].fields
    PROVE  Wired(f, g)
  <1> USE DEF Text, Choice, Switch, Tick, Register, PageState, Complete, Switching, Setting, Texts,
              Value, Just, ++
  <1>1. WiredIn(NewTypeForm)
    BY DEF WiredIn, NewTypeForm
  <1>2. WiredIn(TypeActive)
    BY DEF WiredIn, TypeActive
  <1>3. WiredIn(TypeForm)
    BY DEF WiredIn, TypeForm, TypeFields
  <1>4. WiredIn(ChecklistForm)
    BY DEF WiredIn, ChecklistForm, ChecklistFields
  <1>5. WiredIn(GasChannelForm)
    BY DEF WiredIn, GasChannelForm, GasChannelFields
  <1>6. WiredIn(ConflictForm)
    BY DEF WiredIn, ConflictForm, ConflictFields
  <1>7. WiredIn(RequirementForm)
    BY DEF WiredIn, RequirementForm, RequirementFields
  <1>8. WiredIn(NewCrewRoleForm)
    BY DEF WiredIn, NewCrewRoleForm, RoleFields
  <1>9. WiredIn(DocumentTypeForm)
    BY DEF WiredIn, DocumentTypeForm, DocumentTypeFields
  <1>10. WiredIn(DocumentTypeActive)
    BY DEF WiredIn, DocumentTypeActive
  <1>11. WiredIn(DeviceForm)
    BY DEF WiredIn, DeviceForm, DeviceFields
  <1>12. WiredIn(CameraForm)
    BY DEF WiredIn, CameraForm, CameraFields
  <1>13. WiredIn(AssetForm)
    BY DEF WiredIn, AssetForm, AssetFields
  <1>14. WiredIn(AssetShowForm)
    BY DEF WiredIn, AssetShowForm, AssetFields
  <1>15. WiredIn(TagForm)
    BY DEF WiredIn, TagForm
  <1>16. WiredIn(TagAssignForm)
    BY DEF WiredIn, TagAssignForm
  <1>17. WiredIn(PortableDeviceForm)
    BY DEF WiredIn, PortableDeviceForm
  <1>18. WiredIn(NewUserForm)
    BY DEF WiredIn, NewUserForm
  <1>19. WiredIn(UserForm)
    BY DEF WiredIn, UserForm
  <1>20. WiredIn(UserActive)
    BY DEF WiredIn, UserActive
  <1>21. WiredIn(RoleEditorForm)
    BY DEF WiredIn, RoleEditorForm, RoleEditorFields
  <1>22. WiredIn(CorrectionForm)
    BY DEF WiredIn, CorrectionForm
  <1>23. WiredIn(ZoneDeactivated)
    BY DEF WiredIn, ZoneDeactivated
  <1>24. WiredIn(DeviceRetired)
    BY DEF WiredIn, DeviceRetired
  <1>25. WiredIn(CameraRetired)
    BY DEF WiredIn, CameraRetired
  <1>26. WiredIn(TagUnassigned)
    BY DEF WiredIn, TagUnassigned
  <1>27. WiredIn(PortableDeviceRevoked)
    BY DEF WiredIn, PortableDeviceRevoked
  <1>28. CASE f = "zone"
    <2>1. Forms[f] = ZoneForm
      BY <1>28 DEF Forms
    <2> QED
      BY <1>28, <2>1 DEF Wired, ZoneForm, ZoneFields, LeftByAdd
  <1>29. CASE f \in {"role", "crew_role"}
    <2>1. Forms[f] = RoleForm \/ Forms[f] = CrewRoleForm
      BY <1>29 DEF Forms
    <2>2. CASE Forms[f] = RoleForm
      BY <1>29, <2>2 DEF Wired, RoleForm, RoleFields, MadeMandatory
    <2>3. CASE Forms[f] = CrewRoleForm
      BY <1>29, <2>3 DEF Wired, CrewRoleForm, RoleFields, MadeMandatory
    <2> QED
      BY <2>1, <2>2, <2>3
  <1>30. CASE Forms[f] \in WiredForms
    <2>1. WiredIn(Forms[f])
      BY <1>30, <1>1, <1>2, <1>3, <1>4, <1>5, <1>6, <1>7, <1>8, <1>9, <1>10, <1>11,
         <1>12, <1>13, <1>14, <1>15, <1>16, <1>17, <1>18, <1>19, <1>20, <1>21, <1>22,
         <1>23, <1>24, <1>25, <1>26, <1>27
      DEF WiredForms
    <2> QED
      BY <2>1 DEF WiredIn, Wired
  <1> QED
    BY <1>28, <1>29, <1>30, PlainForms

-----------------------------------------------------------------------------
(* A request says what its dialog announced; an untouched one says what the
   dialog was opened on. *)
Told(r) ==
    /\ r.kind \in Forms[form].offers
    /\ r.kind = "delete" => r.stated = Gone
    /\ r.posted = "absent" =>
          \/ r.kind = "delete"
          \/ /\ r.kind \in {"add", "edit"} /\ it.holder = "dom" /\ it.flag
             /\ r.stated = "off"
    /\ r.posted # "absent" => r.posted = r.stated
    /\ r.touched => r.kind \in {"add", "edit"}
    /\ r.kind = "edit" /\ ~ r.touched /\ r.posted # "absent" => r.posted = r.seen

OpenInv ==
    dialog # Shut =>
       /\ dialog.serial = Len(made)
       /\ dialog.kind \in Forms[form].offers
       /\ dialog.kind # "add" => dialog.seen # Gone
       /\ touched => dialog.kind \in {"add", "edit"}
       /\ dialog.kind = "edit" /\ ~ touched => shownValue = dialog.seen
       /\ dialog.kind = "add" /\ ~ touched /\ ~ LeftByAdd(form, field) => shownValue = it.first

(* A dialog has one request on its way at most, for which the page waits while
   it is open, and adds no second row: it is shut by the answer. *)
SentInv ==
    /\ \A i \in DOMAIN sent :
          /\ Told(sent[i]) /\ sent[i].serial \in DOMAIN made /\ made[sent[i].serial] = 0
          /\ dialog # Shut /\ sent[i].serial = dialog.serial =>
                visit = [result |-> "waiting", serial |-> dialog.serial]
    /\ \A i, j \in DOMAIN sent : sent[i].serial = sent[j].serial => i = j
    /\ \A n \in DOMAIN made : made[n] <= 1
    /\ dialog # Shut /\ made[dialog.serial] # 0 =>
          visit = [result |-> "done", serial |-> dialog.serial]

FormsInv == FormsTypeOK /\ Slots # {} /\ Wired(form, field) /\ OpenInv /\ SentInv

LEMMA SameForm ==
    ASSUME UNCHANGED <<form, field>>
    PROVE  /\ it' = it /\ Value(it)' = Value(it) /\ Request' = Request /\ Dialog' = Dialog
           /\ Forms[form]' = Forms[form] /\ Wired(form, field)' = Wired(form, field)
           /\ LeftByAdd(form, field)' = LeftByAdd(form, field)
           /\ \A r : Told(r)' = Told(r)
  BY DEF it, Value, Request, Dialog, Wired, LeftByAdd, MadeMandatory, Told

Visits ==
    {Idle} \cup [result : {"waiting", "done", "refused", "missing"}, serial : 1..MaxOpens]

LEMMA TypeKept ==
    ASSUME FormsTypeOK, UNCHANGED <<form, field>>,
           rows' \in [Slots -> Value(it) \cup {Gone}], props' \in [Slots -> Value(it) \cup {Gone}],
           dialog' = Shut \/ dialog' \in Dialog, page' \in Value(it), dom' \in Value(it),
           touched' \in BOOLEAN, sent' \in Seq(Request), Len(sent') <= MaxSent,
           visit' \in Visits, made' \in Seq(Nat), Len(made') <= MaxOpens, others' \in 0..MaxOthers
    PROVE  FormsTypeOK'
  <1>1. form' \in FormNames /\ field' \in DOMAIN Forms[form'].fields
    BY DEF FormsTypeOK
  <1>2. Value(it)' = Value(it) /\ Request' = Request /\ Dialog' = Dialog
    BY SameForm
  <1>3. \/ visit' = Idle
        \/ visit' \in [result : {"waiting", "done", "refused", "missing"}, serial : 1..MaxOpens]
    BY DEF Visits
  <1>4. dialog' = Shut \/ dialog' \in Dialog'
    BY <1>2
  <1>5. sent' \in Seq(Request')
    BY <1>2
  <1> QED
    BY <1>1, <1>2, <1>3, <1>4, <1>5, Zenon DEF FormsTypeOK

LEMMA FormsStart == ASSUME "camera_ai" \notin FormNames, FormsInit PROVE FormsInv
  <1>1. form \in FormNames /\ field \in DOMAIN Forms[form].fields
    <2>1. PICK p \in Followed : form = p[1] /\ field = p[2]
      BY DEF FormsInit
    <2>2. PICK q \in FormFields :
             p = CHOOSE x \in FormFields : Behind(x[1], x[2]) = Behind(q[1], q[2])
      BY <2>1 DEF Followed
    <2>3. p \in FormFields
      BY <2>2
    <2> QED
      BY <2>1, <2>3 DEF FormFields
  <1>2. Wired(form, field)
    BY <1>1, Catalogue, FormsAssumption
  <1>3. it.first \in Value(it)
    BY <1>2 DEF Wired, it
  <1>4. rows \in [Slots -> Value(it) \cup {Gone}] /\ Slots # {}
    BY DEF FormsInit
  <1>5. sent \in Seq(Request) /\ Len(sent) = 0 /\ DOMAIN sent = {}
    BY EmptySeq DEF FormsInit
  <1>6. made \in Seq(Nat) /\ Len(made) = 0 /\ DOMAIN made = {}
    BY EmptySeq DEF FormsInit
  <1>7. 0 <= MaxSent /\ 0 <= MaxOpens /\ 0 \in 0..MaxOthers
    BY FormsAssumption
  <1>8. FormsTypeOK
    BY <1>1, <1>3, <1>4, <1>5, <1>6, <1>7 DEF FormsInit, FormsTypeOK
  <1> QED
    BY <1>2, <1>4, <1>5, <1>6, <1>8 DEF FormsInit, FormsInv, OpenInv, SentInv

LEMMA OpenKeeps ==
    ASSUME FormsInv, NEW kind \in Kinds, NEW s \in Slots, Open(kind, s),
           kind \in Forms[form].offers, kind # "add" => props[s] # Gone,
           page' \in Value(it), dom' \in Value(it),
           kind = "edit" => shownValue' = props[s],
           kind = "add" /\ ~ LeftByAdd(form, field) => shownValue' = it.first
    PROVE  FormsInv'
  <1>1. /\ FormsTypeOK /\ dialog = Shut /\ Len(made) < MaxOpens
        /\ dialog' = [kind |-> kind, at |-> s, seen |-> props[s], serial |-> Len(made) + 1]
        /\ made' = Append(made, 0) /\ touched' = FALSE
        /\ UNCHANGED <<form, field, rows, props, sent, visit, others>>
    BY DEF FormsInv, Open
  <1>2. made \in Seq(Nat) /\ Len(made) \in Nat /\ DOMAIN made = 1..Len(made)
    BY <1>1 DEF FormsTypeOK
  <1>3. /\ made' \in Seq(Nat) /\ Len(made') = Len(made) + 1 /\ DOMAIN made' = 1..Len(made) + 1
        /\ \A n \in 1..Len(made) + 1 : made'[n] = IF n = Len(made) + 1 THEN 0 ELSE made[n]
    BY <1>1, <1>2
  <1>4. Len(made) + 1 \in 1..MaxOpens
    BY <1>1, <1>2, FormsAssumption
  <1>5. dialog' \in Dialog
    BY <1>1, <1>4 DEF FormsTypeOK, Dialog
  <1>6. FormsTypeOK'
    <2>1. visit' \in Visits /\ others' \in 0..MaxOthers /\ Len(made') <= MaxOpens
      BY <1>1, <1>2, <1>3, FormsAssumption DEF FormsTypeOK, Visits
    <2>2. /\ rows' \in [Slots -> Value(it) \cup {Gone}] /\ touched' \in BOOLEAN
          /\ props' \in [Slots -> Value(it) \cup {Gone}]
          /\ sent' \in Seq(Request) /\ Len(sent') <= MaxSent
      BY <1>1 DEF FormsTypeOK
    <2> QED
      BY <1>1, <1>3, <1>5, <2>1, <2>2, TypeKept
  <1>7. /\ dialog'.kind = kind /\ dialog'.serial = Len(made) + 1 /\ dialog'.seen = props[s]
    BY <1>1
  <1>8. OpenInv'
    BY <1>1, <1>3, <1>7, SameForm DEF OpenInv
  <1>9. SentInv'
    <2>1. \A i \in DOMAIN sent : sent[i].serial \in 1..Len(made)
      BY <1>2 DEF FormsInv, SentInv
    <2>2. \A i \in DOMAIN sent : made'[sent[i].serial] = 0 /\ sent[i].serial # Len(made) + 1
      BY <1>2, <1>3, <2>1 DEF FormsInv, SentInv
    <2>3. \A n \in DOMAIN made' : made'[n] <= 1
      BY <1>2, <1>3 DEF FormsInv, SentInv
    <2>4. made'[dialog'.serial] = 0
      BY <1>2, <1>3, <1>7
    <2> QED
      BY <1>1, <1>2, <1>3, <1>7, <2>1, <2>2, <2>3, <2>4, SameForm DEF FormsInv, SentInv
  <1> QED
    BY <1>1, <1>6, <1>8, <1>9, SameForm DEF FormsInv

LEMMA OpensKeep ==
    ASSUME FormsInv,
           \/ OpenAdd
           \/ \E s \in Slots : OpenEdit(s)
           \/ \E s \in Slots, kind \in Confirmations : OpenConfirm(kind, s)
    PROVE  FormsInv'
  <1>1. /\ page \in Value(it) /\ dom \in Value(it) /\ it.first \in Value(it)
        /\ \A s \in Slots : props[s] \in Value(it) \cup {Gone}
    BY DEF FormsInv, FormsTypeOK, Wired, it
  <1>2. CASE OpenAdd
    <2>1. PICK s \in Slots : s = CHOOSE x \in Slots : TRUE
      BY DEF FormsInv
    <2>2. Open("add", s) /\ "add" \in Forms[form].offers /\ UNCHANGED <<form, field>>
      BY <1>2, <2>1 DEF OpenAdd, Open, Offers
    <2>3. /\ page' = IF field \in Forms[form].addSets THEN it.first ELSE page
          /\ dom' = it.first
      BY <1>2 DEF OpenAdd
    <2>4. ~ LeftByAdd(form, field) => shownValue' = it.first
      BY <2>2, <2>3, SameForm DEF shownValue, FormsInv, Wired, it
    <2> QED
      BY <1>1, <2>2, <2>3, <2>4, OpenKeeps DEF Kinds
  <1>3. ASSUME NEW s \in Slots, OpenEdit(s) PROVE FormsInv'
    <2>1. /\ Open("edit", s) /\ "edit" \in Forms[form].offers /\ UNCHANGED <<form, field>>
          /\ props[s] # Gone /\ dom' = props[s]
          /\ page' = IF field \in Forms[form].editSets THEN props[s] ELSE page
      BY <1>3 DEF OpenEdit, Open, Offers
    <2>2. shownValue' = props[s]
      BY <2>1, SameForm DEF shownValue, FormsInv, Wired, it
    <2> QED
      BY <1>1, <2>1, <2>2, OpenKeeps DEF Kinds
  <1>4. ASSUME NEW s \in Slots, NEW kind \in Confirmations, OpenConfirm(kind, s) PROVE FormsInv'
    BY <1>1, <1>4, OpenKeeps DEF OpenConfirm, Offers, Confirmations, Kinds
  <1> QED
    BY <1>2, <1>3, <1>4

LEMMA SeqFacts ==
    ASSUME FormsInv
    PROVE  /\ sent \in Seq(Request) /\ Len(sent) \in Nat /\ DOMAIN sent = 1..Len(sent)
           /\ made \in Seq(Nat) /\ Len(made) \in Nat /\ DOMAIN made = 1..Len(made)
           /\ \A i \in DOMAIN sent : sent[i] \in Request
  BY DEF FormsInv, FormsTypeOK

(* The steps of the page that send and receive nothing. *)
LEMMA FormPageStepsKeep ==
    ASSUME FormsInv,
           \/ \E v \in Value(it) : Change(v)
           \/ Cancel
           \/ \E s \in Slots, v \in Value(it) \cup {Gone} : OtherManager(s, v)
    PROVE  FormsInv'
  <1>1. FormsTypeOK /\ OpenInv /\ SentInv /\ Wired(form, field) /\ Slots # {}
    BY DEF FormsInv
  <1>2. ASSUME NEW v \in Value(it), Change(v) PROVE FormsInv'
    <2>1. /\ dialog # Shut /\ dialog.kind \in {"add", "edit"} /\ touched' = TRUE
          /\ UNCHANGED <<form, field, rows, props, dialog, sent, visit, made, others>>
      BY <1>2 DEF Change
    <2>2. page' \in Value(it) /\ dom' \in Value(it)
      BY <1>1, <1>2 DEF Change, FormsTypeOK
    <2>3. visit' \in Visits /\ touched' \in BOOLEAN
      BY <1>1, <2>1 DEF FormsTypeOK, Visits
    <2>4. FormsTypeOK'
      BY <1>1, <2>1, <2>2, <2>3, TypeKept DEF FormsTypeOK
    <2>5. OpenInv'
      BY <1>1, <2>1, SameForm DEF OpenInv
    <2>6. SentInv'
      BY <1>1, <2>1, SameForm DEF SentInv
    <2> QED
      BY <1>1, <2>1, <2>4, <2>5, <2>6, SameForm DEF FormsInv
  <1>3. ASSUME Cancel PROVE FormsInv'
    <2>1. /\ dialog' = Shut
          /\ UNCHANGED <<form, field, rows, props, page, dom, touched, sent, visit, made, others>>
      BY <1>3 DEF Cancel
    <2>2. visit' \in Visits
      BY <1>1, <2>1 DEF FormsTypeOK, Visits
    <2>3. FormsTypeOK'
      BY <1>1, <2>1, <2>2, TypeKept DEF FormsTypeOK
    <2>4. OpenInv' /\ SentInv'
      BY <1>1, <2>1, SameForm DEF OpenInv, SentInv
    <2> QED
      BY <1>1, <2>1, <2>3, <2>4, SameForm DEF FormsInv
  <1>4. ASSUME NEW s \in Slots, NEW v \in Value(it) \cup {Gone}, OtherManager(s, v) PROVE FormsInv'
    <2>1. /\ others < MaxOthers /\ others' = others + 1 /\ rows' = [rows EXCEPT ![s] = v]
          /\ UNCHANGED <<form, field, props, dialog, page, dom, touched, sent, visit, made>>
      BY <1>4 DEF OtherManager
    <2>2. others' \in 0..MaxOthers
      BY <1>1, <2>1, FormsAssumption DEF FormsTypeOK
    <2>3. visit' \in Visits /\ rows' \in [Slots -> Value(it) \cup {Gone}]
      BY <1>1, <2>1 DEF FormsTypeOK, Visits
    <2>4. FormsTypeOK'
      BY <1>1, <2>1, <2>2, <2>3, TypeKept DEF FormsTypeOK
    <2>5. shownValue' = shownValue
      BY <2>1, SameForm DEF shownValue
    <2>6. OpenInv' /\ SentInv'
      BY <1>1, <2>1, <2>5, SameForm DEF OpenInv, SentInv
    <2> QED
      BY <1>1, <2>1, <2>4, <2>6, SameForm DEF FormsInv
  <1> QED
    BY <1>2, <1>3, <1>4

LEMMA SentAsTold ==
    ASSUME FormsInv, dialog # Shut,
           NEW r, r = [kind |-> dialog.kind, at |-> dialog.at, seen |-> dialog.seen,
                       serial |-> dialog.serial, posted |-> Posted, stated |-> Stated,
                       touched |-> touched]
    PROVE  r \in Request /\ Told(r)
  <1>1. /\ dialog \in Dialog /\ dialog.kind \in Forms[form].offers
        /\ shownValue \in Value(it) /\ it = Forms[form].fields[field]
        /\ dialog.kind # "add" => dialog.seen # Gone
        /\ touched \in BOOLEAN
    BY DEF FormsInv, FormsTypeOK, OpenInv, shownValue, it
  <1>2. dialog.kind \in {"add", "edit", "switch", "set", "delete"}
    BY <1>1 DEF FormsInv, Wired, Dialog, Kinds, Confirmations
  <1>3. dialog.kind \in {"switch", "set"} =>
          it.flag /\ ~ (it.holder = "dom") /\ Stated \in {"on", "off"} /\ Posted = Stated
    BY <1>1, <1>2 DEF FormsInv, Wired, Stated, Posted, Opposite
  <1>4. Value(it) \subseteq {"on", "off", "blank", "a"} /\ (it.flag => Value(it) = {"on", "off"})
    BY DEF Value
  <1>5. dialog.kind = "delete" => Stated = Gone /\ Posted = "absent"
    BY DEF Stated, Posted
  <1>6. dialog.kind \in {"add", "edit"} =>
          /\ Stated = shownValue
          /\ Posted = IF unticked THEN "absent" ELSE shownValue
    BY DEF Stated, Posted
  <1>7. Posted \in Value(it) \cup {"absent"} /\ Stated \in Value(it) \cup {Gone}
    BY <1>1, <1>2, <1>3, <1>4, <1>5, <1>6
  <1>8. r \in Request
    BY <1>1, <1>7 DEF Request, Dialog
  <1>9. /\ r.kind = dialog.kind /\ r.stated = Stated /\ r.posted = Posted /\ r.seen = dialog.seen
        /\ r.touched = touched
    OBVIOUS
  <1>10. Told(r)
    <2>1. /\ touched => dialog.kind \in {"add", "edit"}
          /\ dialog.kind = "edit" /\ ~ touched => shownValue = dialog.seen
      BY DEF FormsInv, OpenInv
    <2>2. unticked => it.holder = "dom" /\ it.flag /\ shownValue = "off"
      BY DEF unticked, shownValue
    <2>3. Posted = "absent" =>
             dialog.kind = "delete" \/ (dialog.kind \in {"add", "edit"} /\ unticked)
      BY <1>1, <1>2, <1>3, <1>4, <1>6
    <2>4. Posted # "absent" => Posted = Stated
      BY <1>2, <1>3, <1>5, <1>6
    <2>5. dialog.kind = "edit" /\ ~ touched /\ Posted # "absent" => Posted = dialog.seen
      BY <1>6, <2>1
    <2> QED
      BY <1>1, <1>5, <1>6, <1>9, <2>1, <2>2, <2>3, <2>4, <2>5 DEF Told
  <1> QED
    BY <1>8, <1>10

LEMMA SubmitKeeps == ASSUME FormsInv, Submit PROVE FormsInv'
  <1>1. FormsTypeOK /\ OpenInv /\ SentInv
    BY DEF FormsInv
  <1> DEFINE r == [kind |-> dialog.kind, at |-> dialog.at, seen |-> dialog.seen,
                   serial |-> dialog.serial, posted |-> Posted, stated |-> Stated,
                   touched |-> touched]
  <1>2. /\ dialog # Shut /\ Len(sent) < MaxSent /\ sent' = Append(sent, r)
        /\ visit' = [result |-> "waiting", serial |-> dialog.serial]
        /\ ~ (visit # Idle /\ visit.serial = dialog.serial)
        /\ UNCHANGED <<form, field, rows, props, dialog, page, dom, touched, made, others>>
    BY DEF Submit, Send
  <1>3. r \in Request /\ Told(r) /\ r.serial = dialog.serial
    BY <1>2, SentAsTold
  <1>4. dialog.serial = Len(made) /\ dialog.serial \in 1..MaxOpens
    BY <1>1, <1>2 DEF OpenInv, FormsTypeOK, Dialog
  <1> HIDE DEF r
  <1>5. /\ sent' \in Seq(Request) /\ Len(sent') = Len(sent) + 1 /\ DOMAIN sent' = 1..Len(sent) + 1
        /\ \A i \in 1..Len(sent) + 1 : sent'[i] = IF i = Len(sent) + 1 THEN r ELSE sent[i]
    BY <1>2, <1>3, SeqFacts
  <1>6. visit' \in Visits /\ Len(sent') <= MaxSent
    BY <1>2, <1>4, <1>5, SeqFacts, FormsAssumption DEF Visits
  <1>7. FormsTypeOK'
    BY <1>1, <1>2, <1>5, <1>6, TypeKept DEF FormsTypeOK
  <1>8. shownValue' = shownValue
    BY <1>2, SameForm DEF shownValue
  <1>9. OpenInv'
    BY <1>1, <1>2, <1>8, SameForm DEF OpenInv
  <1>10. visit # [result |-> "waiting", serial |-> dialog.serial]
         /\ visit # [result |-> "done", serial |-> dialog.serial]
    BY <1>2 DEF Idle
  <1>11. made[dialog.serial] = 0 /\ \A i \in DOMAIN sent : sent[i].serial # dialog.serial
    BY <1>1, <1>2, <1>10 DEF SentInv
  <1>12. SentInv'
    <2>1. dialog.serial \in DOMAIN made
      BY <1>4, SeqFacts
    <2>2. \A i \in DOMAIN sent' :
            /\ Told(sent'[i]) /\ sent'[i].serial \in DOMAIN made /\ made[sent'[i].serial] = 0
      BY <1>1, <1>3, <1>5, <1>11, <2>1, SeqFacts DEF SentInv
    <2>3. \A i, j \in DOMAIN sent' : sent'[i].serial = sent'[j].serial => i = j
      BY <1>1, <1>3, <1>5, <1>11, SeqFacts DEF SentInv
    <2> QED
      BY <1>1, <1>2, <1>11, <2>2, <2>3, SameForm DEF SentInv
  <1> QED
    BY <1>2, <1>7, <1>9, <1>12, SameForm DEF FormsInv

LEMMA WithoutFacts ==
    ASSUME FormsInv, NEW i \in DOMAIN sent
    PROVE  /\ Without(i) \in Seq(Request) /\ Len(Without(i)) = Len(sent) - 1
           /\ DOMAIN Without(i) = 1..Len(sent) - 1
           /\ \A k \in 1..Len(sent) - 1 : Without(i)[k] = IF k < i THEN sent[k] ELSE sent[k + 1]
  <1>1. sent \in Seq(Request)
    BY SeqFacts
  <1>2. /\ Without(i) \in Seq(Request) /\ Len(Without(i)) = Len(sent) - 1
        /\ \A k \in 1..Len(sent) - 1 : Without(i)[k] = IF k < i THEN sent[k] ELSE sent[k + 1]
    BY <1>1, RemovedSeq, Zenon DEF Without
  <1>3. DOMAIN Without(i) = 1..Len(Without(i))
    BY <1>2, LenProperties, Zenon
  <1> QED
    BY <1>2, <1>3

LEMMA OnlyOneWithout ==
    ASSUME FormsInv, NEW i \in DOMAIN sent, NEW j \in DOMAIN sent, Without(i) = Without(j)
    PROVE  i = j
  <1>1. ASSUME NEW k \in DOMAIN sent, NEW l \in DOMAIN sent, Without(k) = Without(l), k < l
        PROVE  FALSE
    <2>1. k \in 1..Len(sent) - 1 /\ k + 1 \in DOMAIN sent /\ k \in Int /\ l \in Int
      BY <1>1, SeqFacts
    <2>2. Without(k)[k] = sent[k + 1]
      <3>1. Without(k)[k] = IF k < k THEN sent[k] ELSE sent[k + 1]
        BY <2>1, WithoutFacts, Zenon
      <3> QED
        BY <2>1, <3>1
    <2>5. Without(l)[k] = sent[k]
      BY <1>1, <2>1, WithoutFacts
    <2>3. sent[k + 1].serial = sent[k].serial
      BY <1>1, <2>2, <2>5
    <2>4. k + 1 = k
      BY <1>1, <2>1, <2>3 DEF FormsInv, SentInv
    <2> QED
      BY <2>1, <2>4
  <1>2. i \in Int /\ j \in Int
    BY SeqFacts
  <1> QED
    BY <1>1, <1>2

LEMMA TakenTyped ==
    ASSUME FormsInv, NEW r \in Request, Told(r), r.kind \in {"add", "edit", "switch", "set"},
           r.kind # "add" => rows[r.at] # Gone
    PROVE  Taken(r) \in Value(it)
  <1>1. Value(it) \subseteq {"on", "off", "blank", "a"}
    BY DEF Value
  <1>2. r.posted \in Value(it) \cup {"absent"} /\ r.at \in Slots
    BY DEF Request
  <1>3. r.kind # "add" => rows[r.at] \in Value(it)
    BY <1>2 DEF FormsInv, FormsTypeOK
  <1>4. CASE r.posted # "absent"
    BY <1>2, <1>4 DEF Taken
  <1>5. CASE r.posted = "absent" /\ r.kind = "add"
    <2>1. it.onAdd \in Value(it)
      BY <1>5 DEF FormsInv, Wired, Told, it
    <2> QED
      BY <1>1, <1>5, <2>1 DEF Taken
  <1>6. CASE r.posted = "absent" /\ r.kind = "edit"
    <2>1. it.onEdit = "keep" \/ it.onEdit \in Value(it)
      BY <1>6 DEF FormsInv, Wired, Told, it
    <2> QED
      BY <1>1, <1>3, <1>6, <2>1 DEF Taken
  <1> QED
    BY <1>4, <1>5, <1>6 DEF Told

(* What the server writes. *)
LEMMA HandledRows ==
    ASSUME FormsInv, NEW i \in DOMAIN sent, Handle(i), NEW r, r = sent[i]
    PROVE  /\ r \in Request /\ Told(r) /\ r.at \in Slots
           /\ \/ rows' = rows
              \/ /\ r.kind = "add" /\ Taken(r) \in Value(it)
                 /\ \E s \in Slots : rows[s] = Gone /\ rows' = [rows EXCEPT ![s] = Taken(r)]
              \/ /\ r.kind \in {"edit", "switch", "set"} /\ Taken(r) \in Value(it)
                 /\ rows' = [rows EXCEPT ![r.at] = Taken(r)]
              \/ r.kind = "delete" /\ rows' = [rows EXCEPT ![r.at] = Gone]
  <1>1. r \in Request /\ Told(r) /\ r.at \in Slots
    BY SeqFacts DEF FormsInv, SentInv, Request
  <1>2. r.kind \in {"add", "edit", "switch", "set", "delete"}
    BY <1>1 DEF FormsInv, Wired, Told, Request, Kinds, Confirmations
  <1>3. CASE r.kind = "add" /\ Insert(Taken(r))
    <2>1. PICK s \in Slots : rows[s] = Gone /\ rows' = [rows EXCEPT ![s] = Taken(r)]
      BY <1>3 DEF Insert
    <2> QED
      BY <1>1, <1>3, <2>1, TakenTyped
  <1>4. CASE /\ r.kind # "add" /\ rows[r.at] # Gone
             /\ rows' = [rows EXCEPT ![r.at] =
                            CASE r.kind = "delete" -> Gone
                              [] r.kind = "flip" -> Opposite(@)
                              [] OTHER -> Taken(r)]
    <2>1. CASE r.kind = "delete"
      BY <1>1, <1>4, <2>1
    <2>2. CASE r.kind \in {"edit", "switch", "set"}
      BY <1>1, <1>4, <2>2, TakenTyped
    <2> QED
      BY <1>2, <1>4, <2>1, <2>2
  <1>5. \/ rows' = rows
        \/ r.kind = "add" /\ Insert(Taken(r))
        \/ /\ r.kind # "add" /\ rows[r.at] # Gone
           /\ rows' = [rows EXCEPT ![r.at] =
                          CASE r.kind = "delete" -> Gone
                            [] r.kind = "flip" -> Opposite(@)
                            [] OTHER -> Taken(r)]
    BY DEF Handle
  <1> QED
    BY <1>1, <1>3, <1>4, <1>5

LEMMA HandleKeeps == ASSUME FormsInv, NEW i \in DOMAIN sent, Handle(i) PROVE FormsInv'
  <1>1. FormsTypeOK /\ OpenInv /\ SentInv
    BY DEF FormsInv
  <1>2. PICK r : r = sent[i]
    OBVIOUS
  <1>3. r \in Request /\ Told(r) /\ r.serial \in DOMAIN made /\ made[r.serial] = 0
    BY <1>1, <1>2, SeqFacts DEF SentInv
  <1>4. /\ sent' = Without(i)
        /\ UNCHANGED <<form, field, props, dialog, page, dom, touched, others>>
    BY DEF Handle
  <1>5. PICK result \in {"done", "refused", "missing"} :
           /\ Finish(r, result)
           /\ \/ made' = made
              \/ result = "done" /\ made' = [made EXCEPT ![r.serial] = @ + 1]
    BY <1>2 DEF Handle
  <1>6. rows' \in [Slots -> Value(it) \cup {Gone}]
    BY <1>1, <1>2, HandledRows DEF FormsTypeOK
  <1>7. visit' \in Visits
    BY <1>1, <1>5 DEF Finish, FormsTypeOK, Visits
  <1>8. /\ made' \in Seq(Nat) /\ Len(made') = Len(made) /\ DOMAIN made' = DOMAIN made
        /\ \A n \in DOMAIN made :
              made'[n] = made[n] \/ (n = r.serial /\ made'[n] = 1 /\ result = "done")
    <2>1. CASE made' = made
      BY <2>1, SeqFacts
    <2>2. CASE result = "done" /\ made' = [made EXCEPT ![r.serial] = @ + 1]
      <3>1. made' = [made EXCEPT ![r.serial] = 1]
        BY <1>3, <2>2
      <3> QED
        BY <1>3, <2>2, <3>1, SeqFacts
    <2> QED
      BY <1>5, <2>1, <2>2
  <1>9. FormsTypeOK'
    <2>1. sent' \in Seq(Request) /\ Len(sent') = Len(sent) - 1
      BY <1>4, WithoutFacts, Zenon
    <2>2. Len(sent') <= MaxSent /\ Len(made') <= MaxOpens
      BY <1>1, <1>8, <2>1, SeqFacts, FormsAssumption DEF FormsTypeOK
    <2> QED
      BY <1>1, <1>4, <1>6, <1>7, <1>8, <2>1, <2>2, TypeKept DEF FormsTypeOK
  <1>10. shownValue' = shownValue
    BY <1>4, SameForm DEF shownValue
  <1>11. OpenInv'
    BY <1>1, <1>4, <1>8, <1>10, SameForm DEF OpenInv
  <1>12. SentInv'
    <2>0. /\ DOMAIN sent' = 1..Len(sent) - 1
          /\ \A k \in 1..Len(sent) - 1 : sent'[k] = IF k < i THEN sent[k] ELSE sent[k + 1]
      BY <1>4, WithoutFacts, Zenon
    <2>1. \A k \in DOMAIN sent' : \E j \in DOMAIN sent :
             /\ sent'[k] = sent[j] /\ j # i /\ j = (IF k < i THEN k ELSE k + 1)
      BY <2>0, SeqFacts
    <2>2. \A j \in DOMAIN sent : j # i => sent[j].serial # r.serial
      BY <1>1, <1>2 DEF SentInv
    <2>3. \A k \in DOMAIN sent' :
             /\ Told(sent'[k]) /\ sent'[k].serial \in DOMAIN made' /\ made'[sent'[k].serial] = 0
      BY <1>1, <1>8, <2>1, <2>2 DEF SentInv
    <2>4. ASSUME NEW k \in DOMAIN sent', dialog # Shut, sent'[k].serial = dialog.serial
          PROVE  visit' = [result |-> "waiting", serial |-> dialog.serial]
      <3>1. visit = [result |-> "waiting", serial |-> dialog.serial] /\ dialog.serial # r.serial
        BY <1>1, <2>1, <2>2, <2>4 DEF SentInv
      <3> QED
        BY <1>5, <3>1 DEF Finish
    <2>5. \A k, l \in DOMAIN sent' : sent'[k].serial = sent'[l].serial => k = l
      <3> TAKE k, l \in DOMAIN sent'
      <3>1. k \in Int /\ l \in Int /\ i \in Int
        BY <2>0, SeqFacts
      <3>2. PICK j \in DOMAIN sent : sent'[k] = sent[j] /\ j = (IF k < i THEN k ELSE k + 1)
        BY <2>1
      <3>3. PICK m \in DOMAIN sent : sent'[l] = sent[m] /\ m = (IF l < i THEN l ELSE l + 1)
        BY <2>1
      <3>4. sent'[k].serial = sent'[l].serial => j = m
        BY <1>1, <3>2, <3>3 DEF SentInv
      <3> QED
        BY <3>1, <3>2, <3>3, <3>4
    <2>6. \A n \in DOMAIN made' : made'[n] <= 1
      BY <1>1, <1>8 DEF SentInv
    <2>7. ASSUME dialog # Shut, made'[dialog.serial] # 0
          PROVE  visit' = [result |-> "done", serial |-> dialog.serial]
      <3>1. dialog.serial \in DOMAIN made
        <4>1. dialog.serial = Len(made) /\ dialog.serial \in 1..MaxOpens
          BY <1>1, <2>7 DEF OpenInv, FormsTypeOK, Dialog
        <4> QED
          BY <4>1, SeqFacts, FormsAssumption
      <3>2. CASE made[dialog.serial] # 0
        BY <1>1, <1>5, <2>7, <3>2 DEF SentInv, Finish
      <3>3. CASE dialog.serial = r.serial /\ result = "done"
        <4>1. visit = [result |-> "waiting", serial |-> r.serial]
          BY <1>1, <1>2, <2>7, <3>3 DEF SentInv
        <4>2. visit # Idle
          BY <4>1 DEF Idle
        <4> QED
          BY <1>5, <3>3, <4>1, <4>2 DEF Finish
      <3> QED
        BY <1>8, <2>7, <3>1, <3>2, <3>3
    <2> QED
      BY <1>4, <2>3, <2>4, <2>5, <2>6, <2>7, SameForm DEF SentInv
  <1> QED
    BY <1>4, <1>9, <1>11, <1>12, SameForm DEF FormsInv

LEMMA FormAnswerKeeps == ASSUME FormsInv, Answer PROVE FormsInv'
  <1>1. FormsTypeOK /\ OpenInv /\ SentInv
    BY DEF FormsInv
  <1>2. /\ visit # Idle /\ visit.result # "waiting" /\ visit' = Idle
        /\ props' \in {props, rows} /\ dialog' \in {dialog, Shut}
        /\ visit.result = "done" => dialog' = Shut
        /\ UNCHANGED <<form, field, rows, page, dom, touched, sent, made, others>>
    BY DEF Answer
  <1>3. visit' \in Visits
    BY <1>2 DEF Visits
  <1>4. FormsTypeOK'
    BY <1>1, <1>2, <1>3, TypeKept DEF FormsTypeOK
  <1>5. shownValue' = shownValue
    BY <1>2, SameForm DEF shownValue
  <1>6. OpenInv' /\ SentInv'
    BY <1>1, <1>2, <1>5, SameForm DEF OpenInv, SentInv
  <1> QED
    BY <1>2, <1>4, <1>6, SameForm DEF FormsInv

LEMMA FormsKept == FormsInv /\ [FormsNext]_formVars => FormsInv'
  <1> SUFFICES ASSUME FormsInv, [FormsNext]_formVars PROVE FormsInv'
    OBVIOUS
  <1>1. CASE UNCHANGED formVars
    <2>1. FormsTypeOK'
      BY <1>1, TypeKept DEF formVars, FormsInv, FormsTypeOK, Visits
    <2>2. shownValue' = shownValue
      BY <1>1, SameForm DEF formVars, shownValue
    <2>3. OpenInv' /\ SentInv'
      BY <1>1, <2>2, SameForm DEF formVars, FormsInv, OpenInv, SentInv
    <2> QED
      BY <1>1, <2>1, <2>3, SameForm DEF formVars, FormsInv
  <1> QED
    BY <1>1, OpensKeep, FormPageStepsKeep, SubmitKeeps, HandleKeeps, FormAnswerKeeps DEF FormsNext

LEMMA WhichRequest ==
    ASSUME FormsInv, [FormsNext]_formVars, NEW i \in DOMAIN sent, sent' = Without(i)
    PROVE  Handle(i)
  <1>1. Len(Without(i)) = Len(sent) - 1 /\ Len(sent) \in Nat
    BY WithoutFacts, SeqFacts, Zenon
  <1>2. sent' # sent
    BY <1>1
  <1>3. ~ Send
    <2>1. SUFFICES ASSUME Send PROVE FALSE
      OBVIOUS
    <2>2. PICK r : sent' = Append(sent, r)
      BY <2>1 DEF Send
    <2>3. Len(sent') = Len(sent) + 1
      BY <2>2, SeqFacts, AppendProperties
    <2> QED
      BY <1>1, <2>3
  <1>4. PICK j \in DOMAIN sent : Handle(j)
    BY <1>2, <1>3
    DEF FormsNext, formVars, OpenAdd, OpenEdit, OpenConfirm, Open, Change, Cancel, Submit,
        Answer, OtherManager
  <1>5. Without(i) = Without(j)
    BY <1>4 DEF Handle
  <1>6. i = j
    BY <1>5, OnlyOneWithout
  <1> QED
    BY <1>4, <1>6

(* A save of the form that succeeds puts what it takes in its row. *)
LEMMA SavedRow ==
    ASSUME FormsInv, NEW i \in DOMAIN sent, Handle(i), Succeeds(i), NEW r, r = sent[i],
           r.kind \in {"add", "edit"}
    PROVE  \E s \in Slots :
              /\ IF r.kind = "add" THEN rows[s] = Gone ELSE s = r.at
              /\ rows' = [rows EXCEPT ![s] = Taken(r)]
  <1>1. r.at \in Slots
    BY HandledRows
  <1>2. \A result \in {"refused", "missing"} :
           ~ (UNCHANGED rows /\ Finish(r, result))
    <2>1. SUFFICES ASSUME NEW result \in {"refused", "missing"},
                          UNCHANGED rows, Finish(r, result)
                   PROVE  FALSE
      OBVIOUS
    <2>2. visit' # visit /\ visit'.result = "done"
      BY <2>1 DEF Succeeds, CarriesOut
    <2>3. visit # Idle /\ visit' = [visit EXCEPT !.result = result]
      BY <2>1, <2>2 DEF Finish
    <2>4. visit'.result = result
      BY <2>3 DEF FormsInv, FormsTypeOK
    <2> QED
      BY <2>1, <2>2, <2>4
  <1>3. CASE r.kind = "add"
    BY <1>2, <1>3 DEF Handle, Insert
  <1>4. CASE r.kind = "edit"
    <2>1. rows' = [rows EXCEPT ![r.at] = Taken(r)]
      BY <1>2, <1>4 DEF Handle
    <2> QED
      BY <1>1, <1>4, <2>1
  <1> QED
    BY <1>3, <1>4

(* What the three action properties say of one step. *)
Untouched ==
    \A i \in DOMAIN sent :
       CarriesOut(i) /\ sent[i].kind = "edit" /\ ~ sent[i].touched
         /\ <<form, field>> \notin {"role", "crew_role"} \X {"is_mandatory"}
       => rows'[sent[i].at] = sent[i].seen

AsShown ==
    \A i \in DOMAIN sent :
       Succeeds(i) /\ sent[i].touched /\ ~ UntickLost(sent[i])
       => \E s \in Slots :
             /\ IF sent[i].kind = "add" THEN rows[s] = Gone ELSE s = sent[i].at
             /\ rows'[s] = sent[i].stated

AsAnnounced ==
    \A i \in DOMAIN sent :
       CarriesOut(i) /\ sent[i].kind \in Confirmations
       => rows'[sent[i].at] = sent[i].stated

LEMMA SavesKeep ==
    ASSUME FormsInv, [FormsNext]_formVars
    PROVE  Untouched /\ AsShown /\ AsAnnounced
  <1>1. ASSUME NEW i \in DOMAIN sent, CarriesOut(i)
        PROVE  /\ sent[i].at \in Slots /\ Told(sent[i])
               /\ \/ /\ sent[i].kind = "add"
                     /\ \E s \in Slots :
                           rows[s] = Gone /\ rows' = [rows EXCEPT ![s] = Taken(sent[i])]
                  \/ /\ sent[i].kind \in {"edit", "switch", "set"}
                     /\ rows' = [rows EXCEPT ![sent[i].at] = Taken(sent[i])]
                  \/ sent[i].kind = "delete" /\ rows' = [rows EXCEPT ![sent[i].at] = Gone]
    <2>1. Handle(i) /\ rows' # rows
      BY <1>1, WhichRequest DEF CarriesOut
    <2>2. PICK r : r = sent[i]
      OBVIOUS
    <2> QED
      BY <2>1, <2>2, HandledRows
  <1>2. rows \in [Slots -> Value(it) \cup {Gone}]
    BY DEF FormsInv, FormsTypeOK
  <1>3. Untouched
    <2> SUFFICES ASSUME NEW i \in DOMAIN sent, CarriesOut(i),
                        sent[i].kind = "edit", ~ sent[i].touched,
                        <<form, field>> \notin {"role", "crew_role"} \X {"is_mandatory"}
                 PROVE  rows'[sent[i].at] = sent[i].seen
      BY DEF Untouched
    <2>1. /\ sent[i].at \in Slots /\ Told(sent[i])
          /\ rows' = [rows EXCEPT ![sent[i].at] = Taken(sent[i])]
      BY <1>1
    <2>2. rows'[sent[i].at] = Taken(sent[i])
      BY <1>2, <2>1
    <2>3. ~ MadeMandatory(form, field)
      BY DEF MadeMandatory
    <2>4. CASE sent[i].posted # "absent"
      BY <2>1, <2>2, <2>4 DEF Told, Taken
    <2>5. CASE sent[i].posted = "absent"
      <3>1. it.onEdit = "keep"
        BY <2>1, <2>3, <2>5 DEF Told, FormsInv, Wired, it
      <3>2. rows' = [rows EXCEPT ![sent[i].at] = rows[sent[i].at]]
        BY <2>1, <2>5, <3>1 DEF Taken
      <3>3. rows' = rows
        BY <1>2, <3>2
      <3> QED
        BY <3>3 DEF CarriesOut
    <2> QED
      BY <2>4, <2>5
  <1>4. AsShown
    <2> SUFFICES ASSUME NEW i \in DOMAIN sent, Succeeds(i), sent[i].touched,
                        ~ UntickLost(sent[i])
                 PROVE  \E s \in Slots :
                           /\ IF sent[i].kind = "add" THEN rows[s] = Gone ELSE s = sent[i].at
                           /\ rows'[s] = sent[i].stated
      BY DEF AsShown
    <2>1. PICK r : r = sent[i]
      OBVIOUS
    <2>2. Handle(i)
      BY WhichRequest DEF Succeeds, CarriesOut
    <2>3. Told(r) /\ r.kind \in {"add", "edit"}
      BY <2>1, <2>2, HandledRows DEF Told
    <2>4. Taken(r) = r.stated
      <3>1. CASE r.posted # "absent"
        BY <2>3, <3>1 DEF Told, Taken
      <3>2. CASE r.posted = "absent"
        BY <2>1, <2>3, <3>2 DEF Told, Taken, UntickLost
      <3> QED
        BY <3>1, <3>2
    <2>5. PICK s \in Slots :
             /\ IF r.kind = "add" THEN rows[s] = Gone ELSE s = r.at
             /\ rows' = [rows EXCEPT ![s] = Taken(r)]
      BY <2>1, <2>2, <2>3, SavedRow
    <2>6. rows'[s] = r.stated
      BY <1>2, <2>4, <2>5
    <2> QED
      BY <2>1, <2>5, <2>6
  <1>5. AsAnnounced
    <2> SUFFICES ASSUME NEW i \in DOMAIN sent, CarriesOut(i), sent[i].kind \in Confirmations
                 PROVE  rows'[sent[i].at] = sent[i].stated
      BY DEF AsAnnounced
    <2>1. sent[i].at \in Slots /\ Told(sent[i]) /\ sent[i].kind \notin {"add", "edit"}
      BY <1>1 DEF Confirmations
    <2>2. CASE sent[i].kind = "delete"
      BY <1>1, <1>2, <2>1, <2>2 DEF Told
    <2>3. CASE sent[i].kind \in {"switch", "set"}
      <3>1. rows' = [rows EXCEPT ![sent[i].at] = Taken(sent[i])]
        BY <1>1, <2>3
      <3>2. Taken(sent[i]) = sent[i].stated
        BY <2>1, <2>3 DEF Told, Taken
      <3> QED
        BY <1>2, <2>1, <3>1, <3>2
    <2> QED
      BY <1>1, <2>1, <2>2, <2>3
  <1> QED
    BY <1>3, <1>4, <1>5

(* However the dialogs, their requests, late answers and the other managers
   interleave, a dialog adds one row at most, and a save that succeeds writes what
   its user changed and saw.  Excepted are the fields and boxes that the parts of
   the property name, where the code loses the change, and the AI switch of the
   cameras, which turns a flag over and is no form of the theorem. *)
THEOREM DialogsSaveAsShown ==
    ASSUME "camera_ai" \notin FormNames PROVE FormsSpec => DialogsAsShown
  <1>1. FormsInv => FormsTypeOK /\ AddStartsFresh /\ AddsOnce
    BY DEF FormsInv, OpenInv, SentInv, AddStartsFresh, AddsOnce, LeftByAdd
  <1>2. FormsInv /\ [FormsNext]_formVars => Untouched /\ AsShown /\ AsAnnounced
    BY SavesKeep
  <1>3. FormsInit => FormsInv
    BY FormsStart
  <1> QED
    BY <1>1, <1>2, <1>3, FormsKept, PTL
    DEF FormsSpec, DialogsAsShown, UntouchedFieldsKept, SavedAsShown, ConfirmedAsAnnounced,
        Untouched, AsShown, AsAnnounced

-----------------------------------------------------------------------------
(* The pages of the office together: a behaviour follows one of them, and the
   others stay as they are.  The two names left out are the flag that is turned
   over blindly and the list whose pager forgets its filters, which break the
   property; what its parts except is excepted here too. *)
THEOREM OfficeShows ==
    ASSUME "camera_ai" \notin FormNames, "work_orders" \notin PageNames
    PROVE  OfficeSpec => PagesAsShown
  <1>1. OfficeInit => FormsInit /\ RegistersInit /\ SettingsInit
    BY DEF OfficeInit
  <1>2. [OfficeNext]_officeVars =>
          [FormsNext]_formVars /\ [RegistersNext]_registerVars /\ [SettingsNext]_setVars
    BY DEF OfficeNext, officeVars
  <1>3. OfficeSpec => FormsSpec /\ RegistersSpec /\ SettingsSpec
    BY <1>1, <1>2, PTL DEF OfficeSpec, FormsSpec, RegistersSpec, SettingsSpec
  <1>4. (FormsSpec => DialogsAsShown) /\ (RegistersSpec => FiltersApplied)
    BY DialogsSaveAsShown, ListsMatch
  <1> QED
    BY <1>3, <1>4, SavesAreChosen DEF PagesAsShown
=============================================================================
