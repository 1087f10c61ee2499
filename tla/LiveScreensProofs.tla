-------------------------- MODULE LiveScreensProofs ---------------------------
(***************************************************************************)
(* Theorems about the live screens: the permit board implements the steps  *)
(* of LiveFeed, neither the board nor the camera wall contradicts itself,  *)
(* and the page of a permit offers what fits the permit, for every set of  *)
(* permits, cameras, devices and permissions and every type of permit,     *)
(* however events, snapshots and answers overtake each other.              *)
(***************************************************************************)
EXTENDS MCLiveScreens, PermitConsole, SequenceTheorems, TLAPS

-----------------------------------------------------------------------------
(* The board.                                                              *)

(* The cards a permit had. *)
Cards  == BoardColumns \cup BoardStatus
Had(p) == {log[p][i] : i \in DOMAIN log[p]}

(* The permit stands in the column of the card, or nowhere if that is none. *)
Stands(cols, p, card) == \A c \in BoardColumns : p \in cols[c] <=> c = card

(* Every permit stands where one of its cards puts it. *)
Faithful(cols) == \A p \in Permits : \E card \in Had(p) : Stands(cols, p, card)

(* What may be on its way to the page. *)
FaithfulEvents    == {e \in Event : e.column \in Had(e.permit)}
FaithfulSnapshots == {Unread} \cup {Read(cols) : cols \in {c \in Columns : Faithful(c)}}

(* The inductive invariant: all that can still reach the board is faithful. *)
BoardInv ==
    /\ BoardTypeOK
    /\ \A p \in dirty : Len(log[p]) >= 2
    /\ wire \in Seq(FaithfulEvents)
    /\ snaps \in Seq(FaithfulSnapshots)
    /\ Faithful(board)

LEMMA ColumnIsCard ==
    ASSUME NEW st \in BoardStatus, NEW p, NEW S
    PROVE  /\ BoardColumn(st, p \in S) \in Cards
           /\ BoardColumn(st, TRUE) \in Cards /\ BoardColumn(st, FALSE) \in Cards
  BY DEF BoardColumn, Cards, BoardColumns

LEMMA SuccessorStatus ==
    ASSUME NEW st \in BoardStatus
    PROVE  Successors[st] \subseteq BoardStatus
  BY DEF BoardStatus, Successors

LEMMA RemovedSeq ==
    ASSUME NEW S, NEW s \in Seq(S), NEW i \in DOMAIN s
    PROVE  RemoveAt(s, i) \in Seq(S) /\ Len(RemoveAt(s, i)) = Len(s) - 1
  <1>1. Len(s) \in Nat /\ i \in 1..Len(s) /\ \A j \in 1..Len(s) : s[j] \in S
    BY LenProperties, ElementOfSeq
  <1>2. SubSeq(s, 1, i - 1) \in Seq(S) /\ Len(SubSeq(s, 1, i - 1)) = i - 1
    BY <1>1, SubSeqProperties
  <1>3. SubSeq(s, i + 1, Len(s)) \in Seq(S) /\ Len(SubSeq(s, i + 1, Len(s))) = Len(s) - i
    <2>1. PICK n \in Nat : n = Len(s)
      BY <1>1
    <2>2. i + 1 \in Int /\ Len(s) \in Int /\ \A j \in (i + 1)..Len(s) : s[j] \in S
      BY <1>1
    <2>3. /\ SubSeq(s, i + 1, Len(s)) \in Seq(S)
          /\ Len(SubSeq(s, i + 1, Len(s))) =
               IF i + 1 <= Len(s) THEN Len(s) - (i + 1) + 1 ELSE 0
      BY <2>2, SubSeqProperties
    <2>4. (IF i + 1 <= n THEN n - (i + 1) + 1 ELSE 0) = n - i
      BY <1>1, <2>1
    <2> QED
      BY <2>1, <2>3, <2>4
  <1>4. PICK n \in Nat : n = Len(s)
    BY <1>1
  <1>5. i \in 1..n /\ (i - 1) + (n - i) = n - 1
    BY <1>1, <1>4
  <1> QED
    BY <1>2, <1>3, <1>4, <1>5, ConcatProperties DEF RemoveAt

(* The cards of a permit only get more. *)
LEMMA HadGrows ==
    ASSUME BoardTypeOK, NEW p \in Permits, NEW card \in Cards,
           log' = [log EXCEPT ![p] = Append(@, card)]
    PROVE  /\ log' \in [Permits -> Seq(Cards)]
           /\ log'[p] = Append(log[p], card) /\ Len(log'[p]) = Len(log[p]) + 1
           /\ \A q \in Permits \ {p} : log'[q] = log[q]
           /\ Had(p)' = Had(p) \cup {card}
           /\ \A q \in Permits : Had(q) \subseteq Had(q)'
           /\ Last(log'[p]) = card
  <1>1. log \in [Permits -> Seq(Cards)]
    BY DEF BoardTypeOK, Cards
  <1>2. PICK s \in Seq(Cards) : s = log[p]
    BY <1>1
  <1>3. /\ Append(s, card) \in Seq(Cards) /\ Len(Append(s, card)) = Len(s) + 1
        /\ \A i \in 1..Len(s) : Append(s, card)[i] = s[i]
        /\ Append(s, card)[Len(s) + 1] = card
        /\ Len(s) \in Nat /\ DOMAIN s = 1..Len(s)
    BY AppendProperties, LenProperties
  <1>4. /\ log' \in [Permits -> Seq(Cards)] /\ log'[p] = Append(s, card)
        /\ \A q \in Permits \ {p} : log'[q] = log[q]
    BY <1>1, <1>2, <1>3
  <1>5. DOMAIN Append(s, card) = 1..(Len(s) + 1)
    BY <1>3, LenProperties
  <1>6. Had(p)' = Had(p) \cup {card}
    <2>1. Had(p) = {s[i] : i \in 1..Len(s)}
      BY <1>2, <1>3 DEF Had
    <2>2. Had(p)' = {Append(s, card)[i] : i \in 1..(Len(s) + 1)}
      BY <1>4, <1>5 DEF Had
    <2>3. 1..(Len(s) + 1) = 1..Len(s) \cup {Len(s) + 1}
      BY <1>3
    <2> QED
      BY <1>3, <2>1, <2>2, <2>3
  <1>7. \A q \in Permits : Had(q) \subseteq Had(q)'
    BY <1>4, <1>6 DEF Had
  <1>8. Last(log'[p]) = card
    BY <1>3, <1>4 DEF Last
  <1> QED
    BY <1>2, <1>3, <1>4, <1>6, <1>7, <1>8

(* What is faithful stays so, while the cards only get more. *)
LEMMA FaithfulStays ==
    ASSUME \A q \in Permits : Had(q) \subseteq Had(q)'
    PROVE  /\ \A cols : Faithful(cols) /\ board' = cols => Faithful(board)'
           /\ FaithfulEvents \subseteq FaithfulEvents'
           /\ FaithfulSnapshots \subseteq FaithfulSnapshots'
  <1>1. \A cols : Faithful(cols) /\ board' = cols => Faithful(board)'
    BY DEF Faithful, Stands
  <1>2. ASSUME NEW cols, Faithful(cols) PROVE Faithful(cols)'
    BY <1>2 DEF Faithful, Stands
  <1>3. FaithfulEvents \subseteq FaithfulEvents'
    BY DEF FaithfulEvents, Event
  <1>4. FaithfulSnapshots \subseteq FaithfulSnapshots'
    BY <1>2 DEF FaithfulSnapshots
  <1> QED
    BY <1>1, <1>3, <1>4

LEMMA UpsertFaithful ==
    ASSUME NEW cols \in Columns, Faithful(cols), NEW e \in FaithfulEvents
    PROVE  /\ UpsertPermitBoardCard(cols, e) \in Columns
           /\ Faithful(UpsertPermitBoardCard(cols, e))
  <1> DEFINE new == UpsertPermitBoardCard(cols, e)
  <1>1. e.permit \in Permits /\ e.column \in Had(e.permit)
    BY DEF FaithfulEvents, Event
  <1>2. new \in Columns
    BY <1>1 DEF UpsertPermitBoardCard, Columns
  <1>3. Stands(new, e.permit, e.column)
    BY DEF Stands, UpsertPermitBoardCard
  <1>4. \A p \in Permits \ {e.permit} : \A card : Stands(cols, p, card) => Stands(new, p, card)
    BY DEF Stands, UpsertPermitBoardCard
  <1>5. Faithful(new)
    BY <1>1, <1>3, <1>4 DEF Faithful
  <1> QED
    BY <1>2, <1>5

LEMMA SnapshotFaithful ==
    ASSUME BoardInv
    PROVE  BoardSnapshot \in Columns /\ Faithful(BoardSnapshot)
  <1>1. BoardSnapshot \in Columns
    BY DEF BoardSnapshot, Columns
  <1>2. ASSUME NEW p \in Permits PROVE Committed(p) \in Had(p)
    <2>1. PICK s \in Seq(Cards) : s = log[p]
      BY DEF BoardInv, BoardTypeOK, Cards
    <2>2. DOMAIN s = 1..Len(s) /\ Len(s) \in Nat /\ Len(s) >= 1 /\ (p \in dirty => Len(s) >= 2)
      BY <2>1, LenProperties DEF BoardInv, BoardTypeOK
    <2>3. Len(s) \in DOMAIN s /\ (p \in dirty => Len(s) - 1 \in DOMAIN s)
      BY <2>2
    <2> QED
      BY <2>1, <2>3 DEF Committed, Card, Last, Had
  <1>3. \A p \in Permits : Stands(BoardSnapshot, p, Committed(p))
    BY DEF Stands, BoardSnapshot
  <1> QED
    BY <1>1, <1>2, <1>3 DEF Faithful

LEMMA SameLogSameFaith ==
    ASSUME UNCHANGED log
    PROVE  /\ \A q \in Permits : Had(q)' = Had(q)
           /\ \A cols : Faithful(cols) /\ board' = cols => Faithful(board)'
           /\ FaithfulEvents \subseteq FaithfulEvents'
           /\ FaithfulSnapshots \subseteq FaithfulSnapshots'
  <1>1. \A q \in Permits : Had(q)' = Had(q)
    BY DEF Had
  <1> QED
    BY <1>1, FaithfulStays

LEMMA TypesOfFaith ==
    /\ FaithfulEvents \subseteq Event
    /\ \A x \in FaithfulSnapshots :
          x = Unread \/ (x.columns \in Columns /\ Faithful(x.columns))
  BY DEF FaithfulEvents, FaithfulSnapshots, Read

(* One write more, at most one card more. *)
LEMMA LogKeepsUp ==
    ASSUME BoardTypeOK, writes < MaxWrites, writes' = writes + 1, NEW p \in Permits,
           Len(log'[p]) = Len(log[p]) + 1, \A q \in Permits \ {p} : log'[q] = log[q]
    PROVE  /\ writes' \in 0..MaxWrites
           /\ \A q \in Permits : Len(log'[q]) \in 1..(writes' + 1)
           /\ Len(log'[p]) >= 2
  <1>1. PICK w \in Nat : w = writes
    BY DEF BoardTypeOK
  <1>2. writes' = w + 1 /\ w < MaxWrites /\ MaxWrites \in Nat
    BY <1>1, BoardAssumption DEF BoardAssumption
  <1>3. \A q \in Permits : Len(log[q]) \in 1..(w + 1)
    BY <1>1 DEF BoardTypeOK
  <1>4. ASSUME NEW q \in Permits PROVE Len(log'[q]) \in 1..(w + 2)
    <2>1. PICK n \in 1..(w + 1) : n = Len(log[q])
      BY <1>3
    <2>2. Len(log'[q]) = n \/ Len(log'[q]) = n + 1
      BY <2>1
    <2>3. n \in 1..(w + 2) /\ n + 1 \in 1..(w + 2)
      OBVIOUS
    <2> QED
      BY <2>2, <2>3
  <1>5. Len(log'[p]) >= 2
    <2>1. PICK n \in 1..(w + 1) : n = Len(log[p])
      BY <1>3
    <2> QED
      BY <2>1
  <1>6. writes' + 1 = w + 2 /\ writes' \in 0..MaxWrites
    BY <1>2
  <1> QED
    BY <1>4, <1>5, <1>6

LEMMA BoardStarts == ASSUME BoardAssumption, BoardInit PROVE BoardInv
  <1>1. \A p \in Permits : status[p] \in BoardStatus
    BY DEF BoardInit, BoardStatus
  <1>2. \A p \in Permits : BoardColumn(status[p], FALSE) \in Cards
    BY <1>1, ColumnIsCard
  <1>3. ASSUME NEW card \in Cards
        PROVE  /\ <<card>> \in Seq(Cards) /\ Len(<<card>>) = 1
               /\ DOMAIN <<card>> = {1} /\ <<card>>[1] = card
    OBVIOUS
  <1>4. ASSUME NEW p \in Permits
        PROVE  /\ log[p] \in Seq(Cards) /\ Len(log[p]) = 1
               /\ Committed(p) \in Had(p)
    <2>1. PICK card \in Cards : log[p] = <<card>>
      BY <1>2 DEF BoardInit
    <2>2. Committed(p) = log[p][Len(log[p])]
      BY DEF Committed, Card, Last, BoardInit
    <2>3. Had(p) = {log[p][i] : i \in DOMAIN log[p]}
      BY DEF Had
    <2> QED
      BY <1>3, <2>1, <2>2, <2>3
  <1>5. log \in [Permits -> Seq(Cards)]
    BY <1>4 DEF BoardInit
  <1>6. \A p \in Permits : Len(log[p]) \in 1..(writes + 1)
    BY <1>4 DEF BoardInit
  <1>7. BoardSnapshot \in Columns /\ Faithful(BoardSnapshot)
    BY <1>4 DEF BoardSnapshot, Columns, Faithful, Stands
  <1>8. wire \in Seq(Event) /\ wire \in Seq(FaithfulEvents)
    BY EmptySeq DEF BoardInit
  <1>9. /\ snaps = <<Unread>> /\ snaps \in Seq(FaithfulSnapshots) /\ Len(snaps) = 1
        /\ \A i \in DOMAIN snaps : snaps[i] = Unread
    BY DEF BoardInit, FaithfulSnapshots
  <1>10. status \in [Permits -> BoardStatus]
    BY <1>1 DEF BoardInit
  <1>11. Len(snaps) <= MaxSnaps /\ writes \in 0..MaxWrites /\ drops \in 0..MaxDrops
    BY <1>9, BoardAssumption DEF BoardInit, BoardAssumption
  <1>12. elapsed \subseteq Permits /\ dirty \subseteq Permits /\ board \in Columns
    BY <1>7 DEF BoardInit
  <1>13. BoardTypeOK
    BY <1>5, <1>6, <1>8, <1>9, <1>10, <1>11, <1>12 DEF BoardTypeOK, BoardInit, Cards
  <1> QED
    BY <1>7, <1>8, <1>9, <1>13 DEF BoardInv, BoardInit

(* What is written goes out with the card the permit now has. *)
LEMMA WriteKeeps ==
    ASSUME BoardInv, NEW p \in Permits, WritePermit(p) PROVE BoardInv'
  <1>1. PICK st \in Successors[status[p]] :
            /\ status' = [status EXCEPT ![p] = st]
            /\ log' = [log EXCEPT ![p] = Append(@, BoardColumn(st, p \in elapsed))]
            /\ wire' = IF socket = "live"
                       THEN Append(wire, [permit |-> p, status |-> st,
                                          column |-> BoardColumn(st, p \in elapsed)])
                       ELSE wire
    BY DEF WritePermit
  <1>2. status \in [Permits -> BoardStatus] /\ st \in BoardStatus
    BY <1>1, SuccessorStatus DEF BoardInv, BoardTypeOK
  <1>3. PICK card \in Cards : card = BoardColumn(st, p \in elapsed)
    BY <1>2, ColumnIsCard
  <1>4. /\ log' \in [Permits -> Seq(Cards)]
        /\ log'[p] = Append(log[p], card) /\ Len(log'[p]) = Len(log[p]) + 1
        /\ \A q \in Permits \ {p} : log'[q] = log[q]
        /\ Had(p)' = Had(p) \cup {card}
        /\ \A q \in Permits : Had(q) \subseteq Had(q)'
    BY <1>1, <1>3, HadGrows DEF BoardInv
  <1>5. /\ \A cols : Faithful(cols) /\ board' = cols => Faithful(board)'
        /\ FaithfulEvents \subseteq FaithfulEvents'
        /\ FaithfulSnapshots \subseteq FaithfulSnapshots'
    BY <1>4, FaithfulStays
  <1>6. PICK e : e = [permit |-> p, status |-> st, column |-> card]
    OBVIOUS
  <1>7. e \in Event /\ e \in FaithfulEvents'
    BY <1>2, <1>4, <1>6 DEF Event, FaithfulEvents, Cards
  <1>8. wire \in Seq(FaithfulEvents') /\ wire \in Seq(Event)
    BY <1>5, SeqMonotonic DEF BoardInv, BoardTypeOK
  <1>9. wire' \in Seq(FaithfulEvents') /\ wire' \in Seq(Event)
    BY <1>1, <1>3, <1>6, <1>7, <1>8, AppendProperties
  <1>10. snaps' \in Seq(FaithfulSnapshots')
    BY <1>5, SeqMonotonic DEF BoardInv, WritePermit
  <1>11. Faithful(board)'
    BY <1>5 DEF BoardInv, WritePermit
  <1>12. /\ writes' \in 0..MaxWrites
         /\ \A q \in Permits : Len(log'[q]) \in 1..(writes' + 1)
         /\ Len(log'[p]) >= 2
    BY <1>4, LogKeepsUp DEF BoardInv, WritePermit
  <1>13. \A q \in dirty' : Len(log'[q]) >= 2
    BY <1>4, <1>12 DEF BoardInv, BoardTypeOK, WritePermit
  <1>14. BoardTypeOK'
    <2>1. status' \in [Permits -> BoardStatus]
      BY <1>1, <1>2
    <2> QED
      BY <1>4, <1>9, <1>12, <2>1 DEF BoardInv, BoardTypeOK, WritePermit, Cards
  <1> QED
    BY <1>9, <1>10, <1>11, <1>13, <1>14 DEF BoardInv

LEMMA TimeKeeps ==
    ASSUME BoardInv, NEW p \in Permits, TimePasses(p) PROVE BoardInv'
  <1>1. PICK card \in Cards : card = BoardColumn("active", TRUE)
    BY ColumnIsCard DEF BoardStatus
  <1>2. /\ log' \in [Permits -> Seq(Cards)]
        /\ log'[p] = Append(log[p], card) /\ Len(log'[p]) = Len(log[p]) + 1
        /\ \A q \in Permits \ {p} : log'[q] = log[q]
        /\ \A q \in Permits : Had(q) \subseteq Had(q)'
    BY <1>1, HadGrows DEF BoardInv, TimePasses
  <1>3. /\ \A cols : Faithful(cols) /\ board' = cols => Faithful(board)'
        /\ FaithfulEvents \subseteq FaithfulEvents'
        /\ FaithfulSnapshots \subseteq FaithfulSnapshots'
    BY <1>2, FaithfulStays
  <1>4. wire' \in Seq(FaithfulEvents') /\ snaps' \in Seq(FaithfulSnapshots')
    BY <1>3, SeqMonotonic DEF BoardInv, TimePasses
  <1>5. Faithful(board)'
    BY <1>3 DEF BoardInv, TimePasses
  <1>6. /\ writes' \in 0..MaxWrites
        /\ \A q \in Permits : Len(log'[q]) \in 1..(writes' + 1)
    BY <1>2, LogKeepsUp DEF BoardInv, TimePasses
  <1>7. \A q \in dirty' : Len(log'[q]) >= 2
    BY <1>2 DEF BoardInv, BoardTypeOK, TimePasses
  <1>8. BoardTypeOK'
    BY <1>2, <1>6 DEF BoardInv, BoardTypeOK, TimePasses, Cards
  <1> QED
    BY <1>4, <1>5, <1>7, <1>8 DEF BoardInv

(* The steps that change no card.                                          *)
LEMMA SameCardsKeep ==
    ASSUME BoardInv, UNCHANGED <<status, elapsed, log, writes>>,
           dirty' \subseteq dirty, socket' \in {"live", "offline"},
           wire' \in Seq(FaithfulEvents), fingerprint' \in Event \cup {NoEvent},
           snaps' \in Seq(FaithfulSnapshots), Len(snaps') <= MaxSnaps,
           NEW cols \in Columns, Faithful(cols), board' = cols, drops' \in 0..MaxDrops
    PROVE  BoardInv'
  <1>1. /\ Faithful(board)'
        /\ FaithfulEvents \subseteq FaithfulEvents'
        /\ FaithfulSnapshots \subseteq FaithfulSnapshots'
    BY SameLogSameFaith
  <1>2. wire' \in Seq(FaithfulEvents') /\ wire' \in Seq(Event)
    BY <1>1, TypesOfFaith, SeqMonotonic
  <1>3. snaps' \in Seq(FaithfulSnapshots')
    BY <1>1, SeqMonotonic
  <1>4. \A i \in DOMAIN snaps' : snaps'[i] = Unread \/ snaps'[i].columns \in Columns
    BY TypesOfFaith, LenProperties, ElementOfSeq
  <1>5. BoardTypeOK'
    BY <1>2, <1>4 DEF BoardInv, BoardTypeOK
  <1> QED
    BY <1>1, <1>2, <1>3, <1>5 DEF BoardInv

(* What is fetched or removed leaves faithful snapshots.                   *)
LEMMA MoreSnapshots ==
    ASSUME NEW S, NEW s \in Seq(S), NEW x \in S
    PROVE  /\ Append(s, x) \in Seq(S) /\ Len(Append(s, x)) = Len(s) + 1
           /\ s \o <<x, x>> \in Seq(S) /\ Len(s \o <<x, x>>) = Len(s) + 2
           /\ Len(s) \in Nat /\ DOMAIN s = 1..Len(s)
  <1>1. <<x, x>> \in Seq(S) /\ Len(<<x, x>>) = 2
    OBVIOUS
  <1> QED
    BY <1>1, AppendProperties, ConcatProperties, LenProperties

LEMMA BoardKept ==
    ASSUME BoardInv, [BoardNext]_boardVars PROVE BoardInv'
  <1> USE DEF BoardInv
  <1>1. /\ wire \in Seq(FaithfulEvents) /\ snaps \in Seq(FaithfulSnapshots)
        /\ Unread \in FaithfulSnapshots
        /\ board \in Columns /\ Faithful(board) /\ Len(snaps) <= MaxSnaps
        /\ drops \in 0..MaxDrops /\ socket \in {"live", "offline"}
        /\ fingerprint \in Event \cup {NoEvent} /\ MaxSnaps \in Nat
        /\ MaxDrops \in Nat
    BY BoardAssumption DEF BoardTypeOK, BoardAssumption, FaithfulSnapshots
  <1>2. Len(snaps) \in Nat /\ DOMAIN snaps = 1..Len(snaps)
    BY <1>1, LenProperties
  <1>3. ASSUME NEW p \in Permits, WritePermit(p) PROVE BoardInv'
    BY <1>3, WriteKeeps
  <1>4. ASSUME NEW p \in Permits, TimePasses(p) PROVE BoardInv'
    BY <1>4, TimeKeeps
  <1>5. ASSUME NEW p \in Permits, CommitPermit(p) PROVE BoardInv'
    BY <1>1, <1>5, SameCardsKeep DEF CommitPermit
  <1>6. CASE TakeEvent
    <2>1. PICK e \in FaithfulEvents : e = Head(wire)
      BY <1>1, <1>6, HeadTailProperties DEF TakeEvent
    <2>2. wire' \in Seq(FaithfulEvents)
      BY <1>1, <1>6, HeadTailProperties DEF TakeEvent
    <2>3. PICK cols \in Columns : Faithful(cols) /\ board' = cols
      BY <1>1, <1>6, <2>1, UpsertFaithful DEF TakeEvent
    <2>4. fingerprint' \in Event
      BY <1>6, <2>1, TypesOfFaith DEF TakeEvent
    <2> QED
      BY <1>1, <1>6, <2>2, <2>3, <2>4, SameCardsKeep DEF TakeEvent
  <1>7. CASE Disconnect
    <2>1. snaps' \in Seq(FaithfulSnapshots) /\ Len(snaps') <= MaxSnaps
      BY <1>1, <1>2, <1>7, MoreSnapshots DEF Disconnect
    <2>2. wire' \in Seq(FaithfulEvents) /\ drops' \in 0..MaxDrops
      BY <1>1, <1>7, EmptySeq DEF Disconnect
    <2> QED
      BY <1>1, <1>7, <2>1, <2>2, SameCardsKeep DEF Disconnect
  <1>8. CASE Reconnect
    <2>1. snaps' \in Seq(FaithfulSnapshots) /\ Len(snaps') <= MaxSnaps
      BY <1>1, <1>2, <1>8, MoreSnapshots DEF Reconnect
    <2> QED
      BY <1>1, <1>8, <2>1, SameCardsKeep DEF Reconnect
  <1>9. CASE Poll
    <2>1. snaps' \in Seq(FaithfulSnapshots) /\ Len(snaps') <= MaxSnaps
      BY <1>1, <1>2, <1>9, MoreSnapshots DEF Poll
    <2> QED
      BY <1>1, <1>9, <2>1, SameCardsKeep DEF Poll
  <1>10. ASSUME NEW i \in DOMAIN snaps, ReadSnapshot(i) PROVE BoardInv'
    <2>1. PICK x \in FaithfulSnapshots : x = Read(BoardSnapshot)
      BY SnapshotFaithful DEF FaithfulSnapshots
    <2>2. snaps' \in Seq(FaithfulSnapshots) /\ Len(snaps') = Len(snaps)
      BY <1>1, <1>2, <1>10, <2>1, ExceptSeq DEF ReadSnapshot
    <2> QED
      BY <1>1, <1>10, <2>2, SameCardsKeep DEF ReadSnapshot
  <1>11. ASSUME NEW i \in DOMAIN snaps
         PROVE  /\ RemoveAt(snaps, i) \in Seq(FaithfulSnapshots)
                /\ Len(RemoveAt(snaps, i)) <= MaxSnaps
    <2>1. /\ RemoveAt(snaps, i) \in Seq(FaithfulSnapshots)
          /\ Len(RemoveAt(snaps, i)) = Len(snaps) - 1
      BY <1>1, RemovedSeq
    <2> QED
      BY <1>1, <1>2, <2>1
  <1>12. ASSUME NEW i \in DOMAIN snaps, SnapshotArrives(i) PROVE BoardInv'
    <2>1. PICK x \in FaithfulSnapshots : x = snaps[i]
      BY <1>1, <1>2, ElementOfSeq
    <2>2. PICK cols \in Columns : Faithful(cols) /\ board' = cols
      BY <1>12, <2>1, TypesOfFaith DEF SnapshotArrives, ReplacePermitBoardColumns
    <2> QED
      BY <1>1, <1>11, <1>12, <2>2, SameCardsKeep DEF SnapshotArrives
  <1>13. ASSUME NEW i \in DOMAIN snaps, SnapshotFails(i) PROVE BoardInv'
    BY <1>1, <1>11, <1>13, SameCardsKeep DEF SnapshotFails
  <1>14. CASE UNCHANGED boardVars
    BY <1>1, <1>14, SameCardsKeep DEF boardVars
  <1> QED
    BY <1>3, <1>4, <1>5, <1>6, <1>7, <1>8, <1>9, <1>10, <1>12, <1>13, <1>14
    DEF BoardNext

-----------------------------------------------------------------------------
(* The board as a live feed.                                               *)

CardsNow == [p \in Permits |-> Off(Card(p))]
Past    == [p \in Permits |-> {Off(log[p][i]) : i \in DOMAIN log[p]}]
View    == [p \in Permits |-> ColumnShown(p)]
Shown   == BoardColumns \cup {"off"}

LEMMA OffIsShown == \A card : Off(card) \in Shown
  BY DEF Off, Shown

(* A permit that stands where a card puts it is shown there.               *)
LEMMA ShownAsItStands ==
    ASSUME NEW p, NEW card, Stands(board, p, card)
    PROVE  ColumnShown(p) = Off(card)
  <1>1. CASE card \in BoardColumns
    <2>1. p \in board[card] /\ \A c \in BoardColumns : p \in board[c] => c = card
      BY <1>1 DEF Stands
    <2>2. (CHOOSE c \in BoardColumns : p \in board[c]) = card
      BY <1>1, <2>1
    <2> QED
      BY <1>1, <2>1, <2>2 DEF ColumnShown, Off
  <1>2. CASE card \notin BoardColumns
    BY <1>2 DEF ColumnShown, Off, Stands
  <1> QED
    BY <1>1, <1>2

(* A board out of date still shows a column every permit was in.           *)
LEMMA ViewIsPast ==
    Faithful(board) =>
        \A p \in Permits : ColumnShown(p) \in {Off(log[p][i]) : i \in DOMAIN log[p]}
  BY ShownAsItStands DEF Faithful, Had

LEMMA FeedStarts == ASSUME BoardAssumption, BoardInit PROVE Feed!FeedInit
  <1>1. BoardInv
    BY BoardStarts
  <1>2. ASSUME NEW p \in Permits
        PROVE  /\ DOMAIN log[p] = {1} /\ Last(log[p]) = log[p][1]
               /\ ColumnShown(p) = Off(Card(p))
    <2>1. log[p] = <<BoardColumn(status[p], FALSE)>>
      BY DEF BoardInit
    <2>2. DOMAIN log[p] = {1} /\ Last(log[p]) = log[p][1]
      BY <2>1 DEF Last
    <2>3. Stands(board, p, Card(p))
      BY DEF BoardInit, Stands, BoardSnapshot, Committed
    <2> QED
      BY <2>2, <2>3, ShownAsItStands
  <1>3. View = CardsNow
    BY <1>2 DEF View, CardsNow
  <1>4. Past = [p \in Permits |-> {CardsNow[p]}]
    BY <1>2 DEF Past, CardsNow, Card
  <1>5. CardsNow \in [Permits -> Shown]
    BY OffIsShown DEF CardsNow
  <1> QED
    BY <1>3, <1>4, <1>5 DEF Feed!FeedInit, View, Past, CardsNow, Shown

(* A permit that gets a card changes its value, and what it had stays past. *)
LEMMA CardChanges ==
    ASSUME BoardTypeOK, NEW p \in Permits, NEW card \in Cards,
           log' = [log EXCEPT ![p] = Append(@, card)], UNCHANGED <<board, socket>>
    PROVE  Feed!Change(p)
  <1>1. /\ log'[p] = Append(log[p], card) /\ Last(log'[p]) = card
        /\ \A q \in Permits \ {p} : log'[q] = log[q]
        /\ Had(p)' = Had(p) \cup {card}
    BY HadGrows
  <1>2. PICK v \in Shown : v = Off(card)
    BY OffIsShown
  <1>3. /\ CardsNow' = [q \in Permits |-> Off(Last(log'[q]))]
         /\ CardsNow = [q \in Permits |-> Off(Last(log[q]))]
    BY DEF CardsNow, Card
  <1>4. \A q \in Permits : Off(Last(log'[q])) = IF q = p THEN v ELSE Off(Last(log[q]))
    BY <1>1, <1>2
  <1>5. CardsNow' = [CardsNow EXCEPT ![p] = v]
    BY <1>3, <1>4
  <1>6. \A q \in Permits : Past[q] = {Off(c) : c \in Had(q)}
    BY DEF Past, Had
  <1>7. Past' = [q \in Permits |-> {Off(c) : c \in Had(q)'}]
    BY DEF Past, Had
  <1>8. \A q \in Permits \ {p} : Had(q)' = Had(q)
    BY <1>1 DEF Had
  <1>9. {Off(c) : c \in Had(p)'} = {Off(c) : c \in Had(p)} \cup {v}
    BY <1>1, <1>2
  <1>10. \A q \in Permits :
            {Off(c) : c \in Had(q)'} = IF q = p THEN Past[p] \cup {v} ELSE Past[q]
    BY <1>6, <1>8, <1>9
  <1>11. Past = [q \in Permits |-> Past[q]]
    BY DEF Past
  <1>12. Past' = [Past EXCEPT ![p] = @ \cup {v}]
    BY <1>7, <1>10, <1>11
  <1>13. View' = View
    BY DEF View, ColumnShown
  <1> QED
    BY <1>2, <1>5, <1>12, <1>13 DEF Feed!Change, CardsNow, Past, View, Shown

(* Steps that change no card change no value.                              *)
LEMMA SameCardsSameValues ==
    ASSUME UNCHANGED log PROVE CardsNow' = CardsNow /\ Past' = Past
  BY DEF CardsNow, Past, Card

LEMMA StepsOfFeed ==
    ASSUME BoardInv, BoardInv', [BoardNext]_boardVars
    PROVE  [Feed!FeedNext]_Feed!feedVars
  <1>1. ASSUME NEW p \in Permits, WritePermit(p) PROVE Feed!FeedNext
    <2>1. PICK st \in Successors[status[p]] :
              log' = [log EXCEPT ![p] = Append(@, BoardColumn(st, p \in elapsed))]
      BY <1>1 DEF WritePermit
    <2>2. st \in BoardStatus
      BY <2>1, SuccessorStatus DEF BoardInv, BoardTypeOK
    <2>3. PICK card \in Cards : card = BoardColumn(st, p \in elapsed)
      BY <2>2, ColumnIsCard
    <2> QED
      BY <1>1, <2>1, <2>3, CardChanges DEF Feed!FeedNext, BoardInv, WritePermit
  <1>2. ASSUME NEW p \in Permits, TimePasses(p) PROVE Feed!FeedNext
    <2>1. PICK card \in Cards : card = BoardColumn("active", TRUE)
      BY ColumnIsCard DEF BoardStatus
    <2> QED
      BY <1>2, <2>1, CardChanges DEF Feed!FeedNext, BoardInv, TimePasses
  <1>3. ASSUME UNCHANGED <<log, socket>> PROVE Feed!Show
    <2>1. CardsNow' = CardsNow /\ Past' = Past
      BY <1>3, SameCardsSameValues
    <2>2. (Faithful(board) =>
              \A p \in Permits : ColumnShown(p) \in {Off(log[p][i]) : i \in DOMAIN log[p]})'
      BY ViewIsPast, PTL
    <2>3. \A p \in Permits : ColumnShown(p)' \in {Off(log'[p][i]) : i \in DOMAIN log'[p]}
      BY <2>2 DEF BoardInv
    <2>4. \A p \in Permits : View'[p] \in Past[p] /\ View'[p] \in Shown
      BY <2>1, <2>3, OffIsShown DEF View, Past
    <2>5. View' \in [Permits -> Shown]
      BY <2>4 DEF View
    <2> QED
      BY <1>3, <2>1, <2>4, <2>5 DEF Feed!Show, CardsNow, Past, View, Shown
  <1>4. ASSUME UNCHANGED <<log, board>>, socket' \in {"live", "offline"}
        PROVE  Feed!Connection
    <2>1. CardsNow' = CardsNow /\ Past' = Past
      BY <1>4, SameCardsSameValues
    <2>2. View' = View
      BY <1>4 DEF View, ColumnShown
    <2>3. (socket' = "offline") \in BOOLEAN
      OBVIOUS
    <2> QED
      BY <2>1, <2>2, <2>3 DEF Feed!Connection, CardsNow, Past, View
  <1> QED
    BY <1>1, <1>2, <1>3, <1>4
    DEF BoardNext, boardVars, CommitPermit, TakeEvent, Disconnect, Reconnect, Poll,
        ReadSnapshot, SnapshotArrives, SnapshotFails, Feed!FeedNext, Feed!feedVars

(* Whatever events, snapshots and lost connections do, the board shows every
   permit in a column one of its cards put it in, and changes as LiveFeed
   allows: upsertPermitBoardCard, replacePermitBoardColumns, useReverbChannel. *)
THEOREM BoardFollowsFeed == BoardSpec => Feed!FeedSteps
  <1>1. BoardInit => BoardInv /\ Feed!FeedInit
    BY BoardAssumption, BoardStarts, FeedStarts
  <1>2. BoardInv /\ [BoardNext]_boardVars => BoardInv'
    BY BoardKept
  <1>3. BoardInv /\ BoardInv' /\ [BoardNext]_boardVars => [Feed!FeedNext]_Feed!feedVars
    BY StepsOfFeed
  <1> QED
    BY <1>1, <1>2, <1>3, PTL DEF BoardSpec, Feed!FeedSteps

-----------------------------------------------------------------------------
(* The wall.                                                               *)

(* What is told of a camera is told by its id. *)
TruthfulEvents == {e \in StatusEvent : e.camera => e.id \in Cams}

(* The inductive invariant: a busy panel is on the page, and the command it
   sent is still being served. *)
WallInv ==
    /\ WallTypeOK /\ onWire \in Seq(TruthfulEvents)
    /\ full # 0 => panel \in 1..MaxCommands
    /\ busy => full # 0
    /\ BusyPanelsCommand

LEMMA WallStarts == ASSUME WallAssumption, WallInit PROVE WallInv
  <1>1. onWire \in Seq(TruthfulEvents) /\ onWire = <<>>
    BY EmptySeq DEF WallInit
  <1>2. /\ panel \in 0..MaxCommands /\ events \in 0..MaxEvents /\ outages \in 0..MaxOutages
    BY WallAssumption DEF WallInit, WallAssumption
  <1>3. fetching \subseteq [online : SUBSET Cams]
        /\ command \subseteq [kind : PtzKind, panel : 1..MaxCommands]
    BY DEF WallInit
  <1>4. DOMAIN onWire = {}
    BY <1>1
  <1> QED
    BY <1>1, <1>2, <1>3, <1>4 DEF WallInit, WallInv, WallTypeOK, BusyPanelsCommand, Wall

(* An event is told to the page when it is connected.                      *)
LEMMA ToldKeeps ==
    ASSUME WallInv, NEW e \in TruthfulEvents, Tell(e)
    PROVE  /\ onWire' \in Seq(TruthfulEvents)
           /\ \A i \in DOMAIN onWire' : onWire'[i] \in StatusEvent
           /\ events' \in 0..MaxEvents
  <1>1. onWire' \in Seq(TruthfulEvents)
    BY AppendProperties DEF WallInv, Tell
  <1>2. \A i \in DOMAIN onWire' : onWire'[i] \in TruthfulEvents
    BY <1>1, LenProperties, ElementOfSeq
  <1>3. events' \in 0..MaxEvents
    BY WallAssumption DEF WallInv, WallTypeOK, Tell, WallAssumption
  <1> QED
    BY <1>1, <1>2, <1>3 DEF TruthfulEvents

(* The page changes what it lists: full screen stays, or ends with its panel. *)
LEMMA PageKeeps ==
    ASSUME WallInv, UNCHANGED <<up, flows, native, events, command, panel, outages>>,
           linked' \in BOOLEAN, lastTold' \in StatusEvent \cup {NothingTold},
           fetching' \subseteq [online : SUBSET Cams],
           onWire' \in Seq(TruthfulEvents),
           listed' \subseteq Cams, blank' \subseteq Cams \cup OtherIds,
           FullAfter(listed' \ blank'), busy' = Left
    PROVE  WallInv'
  <1>1. \A i \in DOMAIN onWire' : onWire'[i] \in StatusEvent
    <2>1. \A i \in DOMAIN onWire' : onWire'[i] \in TruthfulEvents
      BY LenProperties, ElementOfSeq
    <2> QED
      BY <2>1 DEF TruthfulEvents
  <1>2. full' \in Wall' \cup {0} /\ (full' = full \/ full' = 0)
    BY DEF FullAfter, Wall
  <1>3. busy' \in BOOLEAN /\ (busy' => busy /\ full' = full)
    BY DEF Left, WallInv, WallTypeOK
  <1>4. WallTypeOK'
    BY <1>1, <1>2, <1>3 DEF WallInv, WallTypeOK
  <1> QED
    BY <1>2, <1>3, <1>4 DEF WallInv, BusyPanelsCommand

LEMMA WallKept ==
    ASSUME WallInv, [WallNext]_wallVars PROVE WallInv'
  <1>1. /\ onWire \in Seq(TruthfulEvents) /\ linked \in BOOLEAN
        /\ lastTold \in StatusEvent \cup {NothingTold}
        /\ fetching \subseteq [online : SUBSET Cams]
        /\ listed \subseteq Cams /\ blank \subseteq Cams \cup OtherIds
        /\ up \subseteq Cams /\ flows \subseteq Cams
        /\ full \in Wall \cup {0} /\ busy \in BOOLEAN
    BY DEF WallInv, WallTypeOK
  <1>2. FullAfter(Wall) \/ full' # full
    BY <1>1 DEF FullAfter
  <1>3. ASSUME NEW c \in Cams, CameraChanges(c) PROVE WallInv'
    <2>1. PICK e : e = [id |-> c, camera |-> TRUE, off |-> c \in up] /\ Tell(e)
      BY <1>3 DEF CameraChanges
    <2>2. e \in TruthfulEvents
      BY <2>1 DEF TruthfulEvents, StatusEvent
    <2>3. /\ onWire' \in Seq(TruthfulEvents)
          /\ \A i \in DOMAIN onWire' : onWire'[i] \in StatusEvent
          /\ events' \in 0..MaxEvents
      BY <2>1, <2>2, ToldKeeps
    <2>4. up' \subseteq Cams
      BY <1>1, <1>3 DEF CameraChanges
    <2> QED
      BY <1>3, <2>3, <2>4
      DEF CameraChanges, pageVars, WallInv, WallTypeOK, Wall, BusyPanelsCommand
  <1>4. ASSUME NEW d \in OtherIds, DeviceChanges(d) PROVE WallInv'
    <2>1. PICK off \in BOOLEAN : Tell([id |-> d, camera |-> FALSE, off |-> off])
      BY <1>4 DEF DeviceChanges
    <2>2. PICK e : e = [id |-> d, camera |-> FALSE, off |-> off] /\ Tell(e)
      BY <2>1
    <2>3. e \in TruthfulEvents
      BY <2>2 DEF TruthfulEvents, StatusEvent
    <2>4. /\ onWire' \in Seq(TruthfulEvents)
          /\ \A i \in DOMAIN onWire' : onWire'[i] \in StatusEvent
          /\ events' \in 0..MaxEvents
      BY <2>2, <2>3, ToldKeeps
    <2> QED
      BY <1>4, <2>4
      DEF DeviceChanges, pageVars, WallInv, WallTypeOK, Wall, BusyPanelsCommand
  <1>5. ASSUME NEW c \in Cams, StreamChanges(c) PROVE WallInv'
    <2>1. flows' \subseteq Cams /\ events' \in 0..MaxEvents
      BY <1>1, <1>5, WallAssumption DEF StreamChanges, WallInv, WallTypeOK, WallAssumption
    <2> QED
      BY <1>5, <2>1
      DEF StreamChanges, pageVars, WallInv, WallTypeOK, Wall, BusyPanelsCommand
  <1>6. CASE TakeStatus
    <2>1. PICK e \in TruthfulEvents : e = Head(onWire)
      BY <1>1, <1>6, HeadTailProperties DEF TakeStatus
    <2>2. onWire' \in Seq(TruthfulEvents)
      BY <1>1, <1>6, HeadTailProperties DEF TakeStatus
    <2>3. e \in StatusEvent /\ e.id \in Cams \cup OtherIds /\ (e.camera => e.id \in Cams)
      BY <2>1 DEF TruthfulEvents, StatusEvent
    <2>4. listed' \subseteq Cams /\ blank' \subseteq Cams \cup OtherIds
      BY <1>1, <1>6, <2>1, <2>3 DEF TakeStatus
    <2>5. lastTold' \in StatusEvent \cup {NothingTold}
      BY <1>6, <2>1, <2>3 DEF TakeStatus
    <2> QED
      BY <1>1, <1>6, <2>2, <2>4, <2>5, PageKeeps DEF TakeStatus, serverVars
  <1>7. ASSUME NEW c \in Cams, FeedGoesDown(c) PROVE WallInv'
    BY <1>1, <1>7, PageKeeps DEF FeedGoesDown, serverVars
  <1>8. CASE CamerasArrive
    <2>1. PICK f \in fetching : listed' = f.online /\ blank' = blank \ f.online
      BY <1>8 DEF CamerasArrive, ClearBlank
    <2>2. listed' \subseteq Cams /\ blank' \subseteq Cams \cup OtherIds
      BY <1>1, <2>1
    <2>3. fetching' \subseteq [online : SUBSET Cams]
      BY <1>8 DEF CamerasArrive
    <2> QED
      BY <1>1, <1>8, <2>2, <2>3, PageKeeps DEF CamerasArrive, serverVars
  <1>9. ASSUME LoseLink \/ RegainLink \/ PollCameras \/ CamerasFail PROVE WallInv'
    <2>1. onWire' \in Seq(TruthfulEvents) /\ \A i \in DOMAIN onWire' : onWire'[i] \in StatusEvent
      <3>1. onWire' = onWire \/ onWire' = <<>>
        BY <1>9 DEF LoseLink, RegainLink, PollCameras, CamerasFail
      <3>2. \A i \in DOMAIN onWire : onWire[i] \in StatusEvent
        BY DEF WallInv, WallTypeOK
      <3>3. CASE onWire' = onWire
        BY <1>1, <3>2, <3>3
      <3>4. CASE onWire' = <<>>
        BY <3>4
      <3> QED
        BY <3>1, <3>3, <3>4
    <2>2. fetching' = fetching \/ fetching' = {} \/ fetching' = {[online |-> up]}
      BY <1>9 DEF LoseLink, RegainLink, PollCameras, CamerasFail, FetchCameras
    <2>3. fetching' \subseteq [online : SUBSET Cams]
      BY <1>1, <2>2
    <2>4. outages' = outages \/ (outages < MaxOutages /\ outages' = outages + 1)
      BY <1>9 DEF LoseLink, RegainLink, PollCameras, CamerasFail
    <2>5. linked' \in BOOLEAN
      <3>1. linked' = linked \/ linked' = TRUE \/ linked' = FALSE
        BY <1>9, Zenon DEF LoseLink, RegainLink, PollCameras, CamerasFail
      <3> QED
        BY <1>1, <3>1, Zenon
    <2>6. outages \in 0..MaxOutages /\ MaxOutages \in Nat
      BY WallAssumption DEF WallInv, WallTypeOK, WallAssumption
    <2>7. outages' \in 0..MaxOutages /\ linked' \in BOOLEAN
      BY <2>4, <2>5, <2>6
    <2>8. UNCHANGED <<serverVars, lastTold, listed, blank, full, busy, command, panel>>
      BY <1>9 DEF LoseLink, RegainLink, PollCameras, CamerasFail
    <2> QED
      BY <2>1, <2>3, <2>7, <2>8 DEF serverVars, WallInv, WallTypeOK, Wall, BusyPanelsCommand
  <1>10. ASSUME NEW c \in Cams, EnterFull(c) PROVE WallInv'
    <2>1. panel' \in 1..MaxCommands /\ panel' \in 0..MaxCommands
      BY <1>10, WallAssumption DEF EnterFull, WallInv, WallTypeOK, WallAssumption
    <2>2. ~busy
      BY <1>10 DEF EnterFull, WallInv
    <2>3. UNCHANGED <<up, flows, native, onWire, linked, lastTold, fetching, listed,
                      blank, busy, command, events, outages>> /\ full' \in Wall
      BY <1>10 DEF EnterFull, serverVars
    <2> QED
      BY <2>1, <2>2, <2>3 DEF WallInv, WallTypeOK, Wall, BusyPanelsCommand
  <1>11. CASE LeaveFull
    BY <1>11 DEF LeaveFull, serverVars, WallInv, WallTypeOK, Wall, BusyPanelsCommand
  <1>12. ASSUME NEW kind \in PtzKind, Command(kind) PROVE WallInv'
    <2>1. PICK s : s = [kind |-> kind, panel |-> panel]
      OBVIOUS
    <2>2. panel \in 1..MaxCommands
      BY <1>12 DEF Command, WallInv
    <2>3. s \in [kind : PtzKind, panel : 1..MaxCommands] /\ s.panel = panel
      BY <2>1, <2>2
    <2>4. UNCHANGED <<up, flows, native, onWire, linked, lastTold, fetching, listed,
                      blank, full, panel, events, outages>>
      BY <1>12 DEF Command, serverVars
    <2>5. busy' = TRUE /\ command' = command \cup {s} /\ full # 0
      BY <1>12, <2>1 DEF Command
    <2> QED
      BY <2>2, <2>3, <2>4, <2>5 DEF WallInv, WallTypeOK, Wall, BusyPanelsCommand
  <1>13. CASE CommandAnswered
    <2>1. PICK s \in command :
              /\ command' = command \ {s}
              /\ busy' = IF full # 0 /\ s.panel = panel THEN FALSE ELSE busy
      BY <1>13 DEF CommandAnswered
    <2>2. UNCHANGED <<up, flows, native, onWire, linked, lastTold, fetching, listed,
                      blank, full, panel, events, outages>>
      BY <1>13 DEF CommandAnswered, serverVars
    <2>3. busy' \in BOOLEAN /\ (busy' => busy /\ s.panel # panel)
      BY <1>1, <2>1 DEF WallInv
    <2> QED
      BY <2>1, <2>2, <2>3 DEF WallInv, WallTypeOK, Wall, BusyPanelsCommand
  <1>14. CASE UNCHANGED wallVars
    BY <1>14 DEF wallVars, WallInv, WallTypeOK, Wall, BusyPanelsCommand
  <1> QED
    BY <1>3, <1>4, <1>5, <1>6, <1>7, <1>8, <1>9, <1>10, <1>11, <1>12, <1>13, <1>14
    DEF WallNext

-----------------------------------------------------------------------------
(* Both screens.                                                           *)

LEMMA FaithfulOneColumn == ASSUME Faithful(board) PROVE OneColumn
  BY DEF Faithful, Stands, OneColumn

(* However long a screen is left open, the board shows no permit in two
   columns (the cards upsertPermitBoardCard and the snapshots put there), and
   no panel of the wall is busy without a command it sent (use-camera-ptz.ts). *)
THEOREM ScreensStayConsistent == LiveSpec => []ScreensConsistent
  <1> DEFINE Inv == BoardInv /\ WallInv
  <1>1. LiveInit => Inv
    BY BoardAssumption, WallAssumption, BoardStarts, WallStarts DEF LiveInit
  <1>2. Inv /\ [LiveNext]_liveVars => Inv'
    <2> SUFFICES ASSUME Inv, [LiveNext]_liveVars PROVE Inv'
      OBVIOUS
    <2>1. [BoardNext]_boardVars /\ [WallNext]_wallVars
      BY DEF LiveNext, liveVars
    <2> QED
      BY <2>1, BoardKept, WallKept
  <1>3. Inv => ScreensConsistent
    BY FaithfulOneColumn DEF ScreensConsistent, BoardInv, WallInv
  <1> QED
    BY <1>1, <1>2, <1>3, PTL DEF LiveSpec

-----------------------------------------------------------------------------
(* The page of a permit.                                                   *)

(* A permit that has left the joint inspection, and one that has left its
   approval, behind. *)
Inspected == {"pending_gas_test", "pending_approval", "pending_issue", "active", "suspended",
              "expired", "closed", "cancelled"}
Cleared   == {"pending_issue", "active", "suspended", "expired", "closed", "cancelled"}

(* What every row of a permit keeps: it waits only at gates it has, and carries
   what it needed to get where it is. *)
Sound(r) ==
    /\ r \in Row
    /\ r.renewal_count <= MaxRenewals /\ r.valid_from \in {Never, 0}
    /\ r.status \in {"active", "suspended"} => r.valid_from = 0
    /\ ~ Editable(r) => r.complete
    /\ r.status = "pending_inspection" => RequiresInspection
    /\ r.status = "pending_gas_test" => RequiresGasTest
    /\ r.status = "pending_approval" => NeedsApprover(r)
    /\ RequiresInspection /\ r.status \in Inspected => r.signed = Signatory
    /\ NeedsApprover(r) /\ r.status \in Cleared => r.approved

LEMMA AcceptsAre ==
    ASSUME NEW r, NEW f, NEW d, NEW p
    PROVE  /\ Accepts(r, f, d, p)["save"] <=> CanUpdateDraft(r, f, d)
           /\ Accepts(r, f, d, p)["submit"] <=> CanSubmit(r, d)
           /\ Accepts(r, f, d, p)["sign_issuer"] <=> CanInspect(r)
           /\ Accepts(r, f, d, p)["sign_receiver"] <=> CanInspect(r)
           /\ Accepts(r, f, d, p)["gas_pass"] <=> TRUE
           /\ Accepts(r, f, d, p)["gas_fail"] <=> TRUE
           /\ Accepts(r, f, d, p)["approve"] <=> CanApprove(r)
           /\ Accepts(r, f, d, p)["issue"] <=> CanIssue(r, d)
           /\ Accepts(r, f, d, p)["renew"] <=> CanRenew(r, d, 0)
           /\ Accepts(r, f, d, p)["close"] <=> CanClose(r)
           /\ Accepts(r, f, d, p)["suspend"] <=> CanSuspend(r)
           /\ Accepts(r, f, d, p)["cancel"] <=> CanCancel(r)
           /\ Accepts(r, f, d, p)["resume"] <=> CanResume(r, p, 0)
           /\ Accepts(r, f, d, p)["reject"] <=> CanReject(r)
           /\ Accepts(r, f, d, p)["expire"] <=> r.status = "active"
  BY DEF Accepts

LEMMA OutcomesAre ==
    ASSUME NEW s, NEW r, NEW f, NEW x
    PROVE  /\ Outcome(s, r, f, x)["save"] = UpdateDraftRow(s, r, x, f)
           /\ Outcome(s, r, f, x)["submit"] = SubmitRow(s, r)
           /\ Outcome(s, r, f, x)["sign_issuer"] = InspectRow(s, r, "issuer")
           /\ Outcome(s, r, f, x)["sign_receiver"] = InspectRow(s, r, "receiver")
           /\ Outcome(s, r, f, x)["gas_pass"] = GasTestRow(s, r, TRUE)
           /\ Outcome(s, r, f, x)["gas_fail"] = GasTestRow(s, r, FALSE)
           /\ Outcome(s, r, f, x)["approve"] = ApproveRow(r)
           /\ Outcome(s, r, f, x)["issue"] = IssueRow(r, 0)
           /\ Outcome(s, r, f, x)["renew"] = RenewRow(s, r, 0)
           /\ Outcome(s, r, f, x)["close"] = CloseRow(r)
           /\ Outcome(s, r, f, x)["suspend"] = SuspendRow(r)
           /\ Outcome(s, r, f, x)["cancel"] = CancelRow(r)
           /\ Outcome(s, r, f, x)["resume"] = ResumeRow(r)
           /\ Outcome(s, r, f, x)["reject"] = RejectRow(r)
           /\ Outcome(s, r, f, x)["expire"] = ExpireRow(r)
  BY DEF Outcome

(* The rules of the next gate: they skip the gates the permit does not have. *)
LEMMA NextGate ==
    ASSUME NEW s
    PROVE  /\ \/ AfterGasTest(s) = "pending_approval" /\ NeedsApprover(s)
              \/ AfterGasTest(s) = "pending_issue" /\ ~ NeedsApprover(s)
           /\ \/ AfterInspection(s) = "pending_gas_test" /\ RequiresGasTest
              \/ AfterInspection(s) = AfterGasTest(s)
           /\ \/ AfterSubmit(s) = "pending_inspection" /\ RequiresInspection
              \/ AfterSubmit(s) = AfterInspection(s) /\ ~ RequiresInspection
  BY DEF AfterGasTest, AfterInspection, AfterSubmit

(* A signature, a gas test and a decision keep a row sound. *)
LEMMA SignedSound ==
    ASSUME NEW r, Sound(r), NEW as \in Signatory, CanInspect(r)
    PROVE  Sound(InspectRow(r, r, as))
  <1> DEFINE st == IF InspectionComplete(r, as) THEN AfterInspection(r) ELSE r.status
  <1>1. InspectRow(r, r, as) = [r EXCEPT !.signed = r.signed \cup {as}, !.status = st]
    BY DEF InspectRow
  <1>2. r \in Row /\ r.status = "pending_inspection"
    BY DEF Sound, CanInspect
  <1>3. /\ r.signed \cup {as} \in SUBSET Signatory
        /\ st \in {"pending_inspection", "pending_gas_test", "pending_approval", "pending_issue"}
        /\ st # "pending_inspection" => r.signed \cup {as} = Signatory
        /\ st = "pending_gas_test" => RequiresGasTest
        /\ st = "pending_approval" => NeedsApprover(r)
        /\ st = "pending_issue" => ~ NeedsApprover(r)
    BY <1>2, NextGate DEF InspectionComplete, Row
  <1>4. r.complete /\ RequiresInspection
    BY <1>2 DEF Sound, Editable
  <1> HIDE DEF st
  <1> QED
    BY <1>1, <1>2, <1>3, <1>4 DEF Sound, Row, Status, Editable, NeedsApprover, Inspected, Cleared

LEMMA TestedSound ==
    ASSUME NEW r, Sound(r), NEW passed \in BOOLEAN
    PROVE  Sound(GasTestRow(r, r, passed))
  <1> DEFINE st == IF GasTestAdvances(r, passed) THEN AfterGasTest(r) ELSE r.status
  <1>1. GasTestRow(r, r, passed) = [r EXCEPT !.status = st]
    BY DEF GasTestRow
  <1>2. /\ st # r.status => /\ r.status = "pending_gas_test"
                            /\ \/ st = "pending_approval" /\ NeedsApprover(r)
                               \/ st = "pending_issue" /\ ~ NeedsApprover(r)
    BY NextGate DEF GasTestAdvances
  <1> HIDE DEF st
  <1> QED
    BY <1>1, <1>2 DEF Sound, Row, Status, Editable, NeedsApprover, Inspected, Cleared

LEMMA DecidedSound ==
    ASSUME NEW r, Sound(r)
    PROVE  /\ CanClose(r) => Sound(CloseRow(r))
           /\ CanSuspend(r) => Sound(SuspendRow(r))
           /\ CanCancel(r) => Sound(CancelRow(r))
           /\ r.status = "suspended" => Sound(ResumeRow(r))
           /\ Sound(RejectRow(r))
           /\ CanApprove(r) => Sound(ApproveRow(r))
  <1>1. ASSUME NEW st \in {"closed", "suspended", "cancelled", "active", "rejected"},
               st = "rejected" \/ r.status \in {"active", "suspended", "expired"},
               st \in {"active", "suspended"} => r.status \in {"active", "suspended"}
        PROVE  Sound([r EXCEPT !.status = st])
    BY <1>1 DEF Sound, Row, Editable, NeedsApprover, Inspected, Cleared, Status
  <1>2. CanApprove(r) => Sound(ApproveRow(r))
    BY DEF CanApprove, ApproveRow, Sound, Row, Editable, NeedsApprover, Inspected, Cleared, Status
  <1>3. CanClose(r) => Sound(CloseRow(r))
    BY <1>1 DEF CanClose, CloseRow
  <1>4. CanSuspend(r) => Sound(SuspendRow(r))
    BY <1>1 DEF CanSuspend, SuspendRow
  <1>5. CanCancel(r) => Sound(CancelRow(r))
    BY <1>1 DEF CanCancel, CancelRow
  <1>6. r.status = "suspended" => Sound(ResumeRow(r))
    BY <1>1 DEF ResumeRow
  <1>7. Sound(RejectRow(r))
    BY <1>1 DEF RejectRow
  <1> QED
    BY <1>2, <1>3, <1>4, <1>5, <1>6, <1>7

LEMMA WindowSound ==
    ASSUME NEW r, Sound(r), NEW d
    PROVE  /\ CanIssue(r, d) => Sound(IssueRow(r, 0))
           /\ CanRenew(r, d, 0) => Sound(RenewRow(r, r, 0))
  <1>1. r \in Row /\ r.renewal_count \in Nat
    BY DEF Sound, Row
  <1>2. PICK end \in Nat : end = 0 + Validity
    BY PermitTypeAssumption
  <1>3. ASSUME CanIssue(r, d) PROVE Sound(IssueRow(r, 0))
    <2>1. /\ r.status = "pending_issue"
          /\ IssueRow(r, 0) = [r EXCEPT !.status = "active", !.valid_from = 0, !.valid_to = end]
      BY <1>2, <1>3 DEF CanIssue, IssueRow
    <2>2. IssueRow(r, 0) \in Row
      <3> DEFINE q == [r EXCEPT !.status = "active", !.valid_from = 0]
      <3>1. q \in Row
        BY <1>1 DEF Row, Status
      <3>2. IssueRow(r, 0) = [q EXCEPT !.valid_to = end]
        BY <2>1, <1>1 DEF Row
      <3> HIDE DEF q
      <3> QED
        BY <3>1, <3>2 DEF Row
    <2> QED
      BY <2>1, <2>2 DEF Sound, Row, Editable, NeedsApprover, Inspected, Cleared
  <1>4. ASSUME CanRenew(r, d, 0) PROVE Sound(RenewRow(r, r, 0))
    <2>1. PICK n \in Nat : n = r.renewal_count + 1 /\ n <= MaxRenewals
      BY <1>1, <1>4, PermitTypeAssumption DEF CanRenew
    <2>2. /\ r.status = "active"
          /\ RenewRow(r, r, 0) = [r EXCEPT !.renewal_count = n, !.valid_to = end]
      BY <1>2, <1>4, <2>1 DEF CanRenew, RenewRow
    <2>3. RenewRow(r, r, 0) \in Row
      BY <2>2, <1>1 DEF Row
    <2> QED
      BY <2>1, <2>2, <2>3 DEF Sound, Row, Editable, NeedsApprover, Inspected, Cleared
  <1> QED
    BY <1>3, <1>4

LEMMA DraftedSound ==
    ASSUME NEW r, Sound(r), NEW f \in BOOLEAN, NEW x \in BOOLEAN, NEW d
    PROVE  /\ CanUpdateDraft(r, f, d) => Sound(UpdateDraftRow(r, r, x, f))
           /\ CanSubmit(r, d) => Sound(SubmitRow(r, r))
  <1>1. UpdateDraftRow(r, r, x, f) = [r EXCEPT !.is_extended = x, !.complete = f]
    BY DEF UpdateDraftRow, Sound, Row
  <1>2. CanUpdateDraft(r, f, d) => Sound(UpdateDraftRow(r, r, x, f))
    BY <1>1 DEF CanUpdateDraft, Sound, Row, Editable, NeedsApprover, Inspected, Cleared
  <1>3. CanSubmit(r, d) => Sound(SubmitRow(r, r))
    BY NextGate
    DEF CanSubmit, SubmitRow, Sound, Row, Editable, NeedsApprover, Inspected, Cleared, Status
  <1> QED
    BY <1>2, <1>3

LEMMA ExpiredSound ==
    ASSUME NEW r, Sound(r), r.status = "active"
    PROVE  Sound(ExpireRow(r))
  BY DEF ExpireRow, Sound, Row, Editable, NeedsApprover, Inspected, Cleared, Status

LEMMA OutcomeSound ==
    ASSUME NEW r, Sound(r), NEW f \in BOOLEAN, NEW x \in BOOLEAN, NEW d \in BOOLEAN,
           NEW p \in {Never, 0}, NEW op \in Op, Accepts(r, f, d, p)[op]
    PROVE  Sound(Outcome(r, r, f, x)[op])
  <1>1. CASE op = "save"
    <2>1. CanUpdateDraft(r, f, d) /\ Outcome(r, r, f, x)[op] = UpdateDraftRow(r, r, x, f)
      BY <1>1 DEF Accepts, Outcome
    <2> QED
      BY <2>1, DraftedSound
  <1>2. CASE op = "submit"
    <2>1. CanSubmit(r, d) /\ Outcome(r, r, f, x)[op] = SubmitRow(r, r)
      BY <1>2 DEF Accepts, Outcome
    <2> QED
      BY <2>1, DraftedSound
  <1>3. CASE op = "sign_issuer"
    <2>1. CanInspect(r) /\ Outcome(r, r, f, x)[op] = InspectRow(r, r, "issuer")
      BY <1>3 DEF Accepts, Outcome
    <2> QED
      BY <2>1, SignedSound DEF Signatory
  <1>4. CASE op = "sign_receiver"
    <2>1. CanInspect(r) /\ Outcome(r, r, f, x)[op] = InspectRow(r, r, "receiver")
      BY <1>4 DEF Accepts, Outcome
    <2> QED
      BY <2>1, SignedSound DEF Signatory
  <1>5. CASE op = "gas_pass"
    <2>1. Outcome(r, r, f, x)[op] = GasTestRow(r, r, TRUE)
      BY <1>5 DEF Outcome
    <2> QED
      BY <2>1, TestedSound
  <1>6. CASE op = "gas_fail"
    <2>1. Outcome(r, r, f, x)[op] = GasTestRow(r, r, FALSE)
      BY <1>6 DEF Outcome
    <2> QED
      BY <2>1, TestedSound
  <1>7. CASE op = "approve"
    <2>1. CanApprove(r) /\ Outcome(r, r, f, x)[op] = ApproveRow(r)
      BY <1>7 DEF Accepts, Outcome
    <2> QED
      BY <2>1, DecidedSound
  <1>8. CASE op = "issue"
    <2>1. CanIssue(r, d) /\ Outcome(r, r, f, x)[op] = IssueRow(r, 0)
      BY <1>8 DEF Accepts, Outcome
    <2> QED
      BY <2>1, WindowSound
  <1>9. CASE op = "renew"
    <2>1. CanRenew(r, d, 0) /\ Outcome(r, r, f, x)[op] = RenewRow(r, r, 0)
      BY <1>9 DEF Accepts, Outcome
    <2> QED
      BY <2>1, WindowSound
  <1>10. CASE op = "close"
    <2>1. CanClose(r) /\ Outcome(r, r, f, x)[op] = CloseRow(r)
      BY <1>10 DEF Accepts, Outcome
    <2> QED
      BY <2>1, DecidedSound
  <1>11. CASE op = "suspend"
    <2>1. CanSuspend(r) /\ Outcome(r, r, f, x)[op] = SuspendRow(r)
      BY <1>11 DEF Accepts, Outcome
    <2> QED
      BY <2>1, DecidedSound
  <1>12. CASE op = "cancel"
    <2>1. CanCancel(r) /\ Outcome(r, r, f, x)[op] = CancelRow(r)
      BY <1>12 DEF Accepts, Outcome
    <2> QED
      BY <2>1, DecidedSound
  <1>13. CASE op = "resume"
    <2>1. CanResume(r, p, 0) /\ Outcome(r, r, f, x)[op] = ResumeRow(r)
      BY <1>13 DEF Accepts, Outcome
    <2> QED
      BY <2>1, DecidedSound DEF CanResume
  <1>14. CASE op = "reject"
    <2>1. Outcome(r, r, f, x)[op] = RejectRow(r)
      BY <1>14 DEF Outcome
    <2> QED
      BY <2>1, DecidedSound
  <1>15. CASE op = "expire"
    <2>1. r.status = "active" /\ Outcome(r, r, f, x)[op] = ExpireRow(r)
      BY <1>15 DEF Accepts, Outcome
    <2> QED
      BY <2>1, ExpiredSound
  <1> QED
    BY <1>1, <1>2, <1>3, <1>4, <1>5, <1>6, <1>7, <1>8, <1>9, <1>10, <1>11, <1>12, <1>13, <1>14,
       <1>15
    DEF Op

LEMMA OpenedSound == \A r \in Opened : Sound(r)
  <1> SUFFICES ASSUME NEW r \in Opened PROVE Sound(r)
    OBVIOUS
  <1>1. CASE \E e, c \in BOOLEAN : r = Draft(e, c)
    BY <1>1, PermitTypeAssumption
    DEF Draft, Sound, Row, Editable, NeedsApprover, Inspected, Cleared, Status, Never
  <1>2. CASE \E e \in BOOLEAN, st \in Status :
                /\ r = OpenedAt(e, st)
                /\ st \in {"pending_inspection", "pending_gas_test", "pending_approval",
                           "pending_issue", "active", "suspended", "expired"}
                /\ st = "pending_inspection" => RequiresInspection
                /\ st = "pending_gas_test" => RequiresGasTest
                /\ st = "pending_approval" => e \/ RequiresApprover
    <2>1. PICK e \in BOOLEAN, st \in Status :
                /\ r = OpenedAt(e, st)
                /\ st \in {"pending_inspection", "pending_gas_test", "pending_approval",
                           "pending_issue", "active", "suspended", "expired"}
                /\ st = "pending_inspection" => RequiresInspection
                /\ st = "pending_gas_test" => RequiresGasTest
                /\ st = "pending_approval" => e \/ RequiresApprover
      BY <1>2
    <2> DEFINE worked == st \in {"active", "suspended", "expired"}
               from   == IF worked THEN 0 ELSE Never
               to     == IF worked THEN 0 + Validity ELSE Never
               signs  == IF RequiresInspection /\ st # "pending_inspection" THEN Signatory ELSE {}
               ok     == NeedsApprover(Draft(e, TRUE))
                           /\ st \in {"pending_issue", "active", "suspended", "expired"}
    <2>2. NeedsApprover(Draft(e, TRUE)) <=> e \/ RequiresApprover
      BY DEF NeedsApprover, Draft
    <2>3. r = [status |-> st, is_extended |-> e, complete |-> TRUE, signed |-> signs,
               approved |-> ok, valid_from |-> from, valid_to |-> to, renewal_count |-> 0]
      BY <2>1 DEF OpenedAt, Draft, IssueRow
    <2>4. from \in {Never, 0} /\ (worked => from = 0)
      OBVIOUS
    <2>5. to \in Nat \cup {Never}
      BY PermitTypeAssumption DEF Never
    <2>6. ok \in BOOLEAN
      BY Zenon
    <2>7. /\ signs \in SUBSET Signatory
          /\ RequiresInspection /\ st # "pending_inspection" => signs = Signatory
          /\ (e \/ RequiresApprover)
                /\ st \in {"pending_issue", "active", "suspended", "expired"} => ok
      BY <2>2
    <2> HIDE DEF from, to, signs, ok
    <2>8. r \in Row
      BY <2>3, <2>4, <2>5, <2>6, <2>7 DEF Row
    <2> QED
      BY <2>1, <2>3, <2>4, <2>7, <2>8, PermitTypeAssumption
      DEF Sound, Editable, NeedsApprover, Inspected, Cleared
  <1> QED
    BY <1>1, <1>2 DEF Opened, Status

(* What holds of a row however transactions overlap: it is at work only with a
   window, past the joint inspection only with both signatures, and renewed no
   more often than its type allows. *)
Gated(r) ==
    /\ r \in Row
    /\ r.renewal_count <= MaxRenewals /\ r.valid_from \in {Never, 0}
    /\ r.status \in {"active", "suspended"} => r.valid_from = 0
    /\ RequiresInspection /\ r.status \in Inspected => r.signed = Signatory

(* A row is sound unless a write has met a row it had not loaded (z). *)
Fit(r, z) == Gated(r) /\ (z \/ Sound(r))

(* Signatures and the start of the window are never taken off a row. *)
Under(s, r) == s.signed \subseteq r.signed /\ (s.valid_from = 0 => r.valid_from = 0)

LEMMA SoundGated == \A r : Sound(r) => Gated(r)
  BY DEF Sound, Gated

LEMMA UnderIsOrder == \A q, r, s : Under(r, r) /\ (Under(q, r) /\ Under(r, s) => Under(q, s))
  BY DEF Under

(* The write of a transaction that loaded s, when the row is r. *)
LEMMA SignedGated ==
    ASSUME NEW s, Gated(s), NEW r, Gated(r), Under(s, r), CanInspect(s), NEW as \in Signatory
    PROVE  Gated(InspectRow(s, r, as)) /\ Under(r, InspectRow(s, r, as))
  <1> DEFINE st == IF InspectionComplete(s, as) THEN AfterInspection(s) ELSE r.status
             sg == r.signed \cup {as}
  <1>1. InspectRow(s, r, as) = [r EXCEPT !.signed = sg, !.status = st]
    BY DEF InspectRow
  <1>2. sg \in SUBSET Signatory /\ r.signed \subseteq sg /\ r.signed \subseteq Signatory
    BY DEF Gated, Row
  <1>3. \/ st = r.status
        \/ /\ st \in {"pending_gas_test", "pending_approval", "pending_issue"}
           /\ sg = Signatory
    <2>1. InspectionComplete(s, as) => sg = Signatory
      BY <1>2 DEF InspectionComplete, Under
    <2>2. AfterInspection(s) \in {"pending_gas_test", "pending_approval", "pending_issue"}
      BY NextGate
    <2> QED
      BY <2>1, <2>2
  <1>4. r.signed = Signatory => sg = Signatory
    BY <1>2
  <1> HIDE DEF st, sg
  <1> QED
    BY <1>1, <1>2, <1>3, <1>4 DEF Gated, Row, Status, Under, Inspected

(* A write that only changes the status, to one the loaded row may go to. *)
LEMMA MovedGated ==
    ASSUME NEW s, Gated(s), NEW r, Gated(r), Under(s, r), NEW st \in Status,
           st \in {"active", "suspended"} => s.status \in {"active", "suspended"},
           RequiresInspection /\ st \in Inspected => s.status \in Inspected
    PROVE  Gated([r EXCEPT !.status = st]) /\ Under(r, [r EXCEPT !.status = st])
  <1>1. RequiresInspection /\ st \in Inspected => r.signed = Signatory
    BY DEF Gated, Under, Row
  <1>2. st \in {"active", "suspended"} => r.valid_from = 0
    BY DEF Gated, Under
  <1> QED
    BY <1>1, <1>2 DEF Gated, Row, Under

LEMMA StayedGated ==
    ASSUME NEW s, Gated(s), NEW r, Gated(r), Under(s, r), NEW f \in BOOLEAN, NEW x \in BOOLEAN,
           NEW d
    PROVE  /\ Gated(UpdateDraftRow(s, r, x, f)) /\ Under(r, UpdateDraftRow(s, r, x, f))
           /\ CanRenew(s, d, 0) => Gated(RenewRow(s, r, 0)) /\ Under(r, RenewRow(s, r, 0))
           /\ CanIssue(s, d) => Gated(IssueRow(r, 0)) /\ Under(r, IssueRow(r, 0))
           /\ CanApprove(s) => Gated(ApproveRow(r)) /\ Under(r, ApproveRow(r))
  <1>1. r \in Row /\ s.renewal_count \in Nat
    BY DEF Gated, Row
  <1>2. PICK end \in Nat : end = 0 + Validity
    BY PermitTypeAssumption
  <1>3. Gated(UpdateDraftRow(s, r, x, f)) /\ Under(r, UpdateDraftRow(s, r, x, f))
    <2>1. PICK y \in BOOLEAN :
             UpdateDraftRow(s, r, x, f) = [r EXCEPT !.is_extended = y, !.complete = f]
      BY <1>1 DEF UpdateDraftRow, Row
    <2> QED
      BY <2>1 DEF Gated, Row, Under
  <1>4. ASSUME CanRenew(s, d, 0) PROVE Gated(RenewRow(s, r, 0)) /\ Under(r, RenewRow(s, r, 0))
    <2>1. PICK n \in Nat : n = s.renewal_count + 1 /\ n <= MaxRenewals
      BY <1>1, <1>4, PermitTypeAssumption DEF CanRenew
    <2>2. RenewRow(s, r, 0) = [r EXCEPT !.renewal_count = n, !.valid_to = end]
      BY <1>2, <2>1 DEF RenewRow
    <2> QED
      BY <2>1, <2>2 DEF Gated, Row, Under
  <1>5. ASSUME CanIssue(s, d) PROVE Gated(IssueRow(r, 0)) /\ Under(r, IssueRow(r, 0))
    <2>1. IssueRow(r, 0) = [r EXCEPT !.status = "active", !.valid_from = 0, !.valid_to = end]
      BY <1>2 DEF IssueRow
    <2>2. IssueRow(r, 0) \in Row
      <3> DEFINE q == [r EXCEPT !.status = "active", !.valid_from = 0]
      <3>1. q \in Row
        BY <1>1 DEF Row, Status
      <3>2. IssueRow(r, 0) = [q EXCEPT !.valid_to = end]
        BY <2>1, <1>1 DEF Row
      <3> HIDE DEF q
      <3> QED
        BY <3>1, <3>2 DEF Row
    <2>3. RequiresInspection => r.signed = Signatory
      BY <1>5, <1>1 DEF CanIssue, Gated, Under, Inspected, Row
    <2> QED
      BY <1>1, <2>1, <2>2, <2>3 DEF Gated, Row, Under
  <1>6. ASSUME CanApprove(s) PROVE Gated(ApproveRow(r)) /\ Under(r, ApproveRow(r))
    <2>1. RequiresInspection => r.signed = Signatory
      BY <1>6, <1>1 DEF CanApprove, Gated, Under, Inspected, Row
    <2> QED
      BY <1>1, <2>1 DEF ApproveRow, Gated, Row, Under, Status
  <1> QED
    BY <1>3, <1>4, <1>5, <1>6

LEMMA OutcomeGated ==
    ASSUME NEW s, Gated(s), NEW r, Gated(r), Under(s, r),
           NEW f \in BOOLEAN, NEW x \in BOOLEAN, NEW d \in BOOLEAN, NEW p \in {Never, 0},
           NEW op \in Op, Accepts(s, f, d, p)[op]
    PROVE  Gated(Outcome(s, r, f, x)[op]) /\ Under(r, Outcome(s, r, f, x)[op])
  <1>1. CASE op \in {"sign_issuer", "sign_receiver"}
    <2>1. PICK as \in Signatory : CanInspect(s) /\ Outcome(s, r, f, x)[op] = InspectRow(s, r, as)
      BY <1>1 DEF Accepts, Outcome, Signatory
    <2> QED
      BY <2>1, SignedGated
  <1>2. CASE op = "save"
    BY <1>2, StayedGated DEF Outcome
  <1>3. CASE op = "renew"
    <2>1. CanRenew(s, d, 0) /\ Outcome(s, r, f, x)[op] = RenewRow(s, r, 0)
      BY <1>3 DEF Accepts, Outcome
    <2> QED
      BY <2>1, StayedGated
  <1>4. CASE op = "issue"
    <2>1. CanIssue(s, d) /\ Outcome(s, r, f, x)[op] = IssueRow(r, 0)
      BY <1>4 DEF Accepts, Outcome
    <2> QED
      BY <2>1, StayedGated
  <1>5. CASE op = "approve"
    <2>1. CanApprove(s) /\ Outcome(s, r, f, x)[op] = ApproveRow(r)
      BY <1>5 DEF Accepts, Outcome
    <2> QED
      BY <2>1, StayedGated
  <1>6. CASE op \in {"gas_pass", "gas_fail"}
    <2>1. PICK passed \in BOOLEAN : Outcome(s, r, f, x)[op] = GasTestRow(s, r, passed)
      <3>1. op = "gas_pass" => Outcome(s, r, f, x)[op] = GasTestRow(s, r, TRUE)
        BY DEF Outcome
      <3>2. op = "gas_fail" => Outcome(s, r, f, x)[op] = GasTestRow(s, r, FALSE)
        BY DEF Outcome
      <3> QED
        BY <1>6, <3>1, <3>2
    <2>2. CASE GasTestAdvances(s, passed)
      <3>1. PICK st \in {"pending_approval", "pending_issue"} :
               GasTestRow(s, r, passed) = [r EXCEPT !.status = st]
        BY <2>2, NextGate DEF GasTestRow
      <3>2. s.status = "pending_gas_test"
        BY <2>2 DEF GasTestAdvances
      <3>3. /\ st \in Status /\ st \notin {"active", "suspended"}
            /\ s.status \in Inspected
        BY <3>2 DEF Status, Inspected
      <3> QED
        BY <2>1, <3>1, <3>3, MovedGated
    <2>3. CASE ~ GasTestAdvances(s, passed)
      <3>1. GasTestRow(s, r, passed) = r
        BY <2>3 DEF GasTestRow, Gated, Row
      <3> QED
        BY <2>1, <3>1, UnderIsOrder
    <2> QED
      BY <2>2, <2>3
  <1>7. CASE op = "submit"
    <2>1. PICK st \in {"pending_inspection", "pending_gas_test", "pending_approval",
                       "pending_issue"} :
             /\ Outcome(s, r, f, x)[op] = [r EXCEPT !.status = st]
             /\ RequiresInspection => st = "pending_inspection"
      BY <1>7, NextGate DEF Outcome, SubmitRow
    <2>2. /\ st \in Status /\ st \notin {"active", "suspended"}
          /\ ~ (RequiresInspection /\ st \in Inspected)
      BY <2>1 DEF Status, Inspected
    <2> QED
      BY <2>1, <2>2, MovedGated
  <1>8. CASE op \in {"close", "suspend", "cancel", "resume", "reject", "expire"}
    <2>1. PICK st \in {"closed", "suspended", "cancelled", "active", "rejected", "expired"} :
             /\ Outcome(s, r, f, x)[op] = [r EXCEPT !.status = st]
             /\ st = "closed" => s.status \in {"active", "expired", "suspended"}
             /\ st \in {"suspended", "expired"} => s.status = "active"
             /\ st = "cancelled" => s.status \in {"active", "suspended"}
             /\ st = "active" => s.status = "suspended"
      <3>1. CASE op = "close"
        BY <3>1 DEF Accepts, Outcome, CanClose, CloseRow
      <3>2. CASE op = "suspend"
        BY <3>2 DEF Accepts, Outcome, CanSuspend, SuspendRow
      <3>3. CASE op = "cancel"
        BY <3>3 DEF Accepts, Outcome, CanCancel, CancelRow
      <3>4. CASE op = "resume"
        BY <3>4 DEF Accepts, Outcome, CanResume, ResumeRow
      <3>5. CASE op = "reject"
        BY <3>5 DEF Outcome, RejectRow
      <3>6. CASE op = "expire"
        BY <3>6 DEF Accepts, Outcome, ExpireRow
      <3> QED
        BY <1>8, <3>1, <3>2, <3>3, <3>4, <3>5, <3>6
    <2>2. /\ st \in Status
          /\ st \in {"active", "suspended"} => s.status \in {"active", "suspended"}
          /\ st \in Inspected => s.status \in Inspected
      BY <2>1 DEF Status, Inspected
    <2> QED
      BY <2>1, <2>2, MovedGated
  <1> QED
    BY <1>1, <1>2, <1>3, <1>4, <1>5, <1>6, <1>7, <1>8 DEF Op

(* What a page may show. *)
FitProps(z) == {q \in Props : Fit(q.row, z)}

(* A press that advances the permit was offered at the status it needs. *)
Seen(op) == CASE op \in {"sign_issuer", "sign_receiver"} -> "pending_inspection"
              [] op = "approve" -> "pending_approval"
              [] op = "issue"   -> "pending_issue"
              [] op = "renew"   -> "active"
              [] op = "resume"  -> "suspended"
FitPress == {p \in Press : p.op \in Advancing => p.seen = Seen(p.op)}

(* A transaction was accepted of the row it loaded, and the row has only gained
   on that one since. *)
Granted(x) ==
    /\ Fit(x.row, raced) /\ Under(x.row, row)
    /\ \E d \in BOOLEAN, p \in {Never, 0} : Accepts(x.row, x.filled, d, p)[x.op]

ConsoleScalars ==
    /\ docs \in BOOLEAN /\ pass \in {Never, 0} /\ crewed \in BOOLEAN /\ ticked \in BOOLEAN
    /\ recent \in BOOLEAN /\ raced \in BOOLEAN /\ heard \in Nat /\ ops \in 0..MaxOps

RowsFit ==
    /\ Fit(row, raced)
    /\ writing = Idle \/ /\ writing \in [by : Writers, op : Op, row : Row]
                         /\ Fit(writing.row, raced) /\ Under(row, writing.row)

LoadsFit ==
    /\ loaded \in [Writers -> {Idle} \cup Transaction]
    /\ \A t \in Writers : loaded[t] # Idle => Granted(loaded[t])

ScreenFits ==
    /\ shown \in FitProps(raced)
    /\ reads \in Seq(FitProps(raced) \cup {Unfetched}) /\ Len(reads) <= MaxReads

(* The press that the server works on is the oldest. *)
PressesFit ==
    /\ sent \in Seq(FitPress) /\ Len(sent) <= MaxSent
    /\ writing.by = "page" => sent # <<>>
    /\ loaded["page"] # Idle =>
          sent # <<>> /\ loaded["page"].op = Head(sent).op /\ writing.by # "page"

(* The inductive invariant. *)
ConsoleInv == ConsoleScalars /\ RowsFit /\ LoadsFit /\ ScreenFits /\ PressesFit

LEMMA FitGrows ==
    ASSUME NEW y \in BOOLEAN, NEW z \in BOOLEAN, y => z
    PROVE  (\A r : Fit(r, y) => Fit(r, z)) /\ FitProps(y) \subseteq FitProps(z)
  BY DEF Fit, FitProps

LEMMA ConsoleStarts == ConsoleInit => ConsoleInv
  <1> SUFFICES ASSUME ConsoleInit PROVE ConsoleInv
    OBVIOUS
  <1>1. Sound(row) /\ row \in Row /\ Fit(row, FALSE) /\ raced = FALSE
    BY OpenedSound, SoundGated DEF ConsoleInit, Sound, Fit
  <1>2. shown \in FitProps(raced)
    BY <1>1 DEF ConsoleInit, FitProps, Props
  <1>3. /\ sent \in Seq(FitPress) /\ reads \in Seq(FitProps(raced) \cup {Unfetched})
        /\ Len(sent) = 0 /\ Len(reads) = 0
    BY DEF ConsoleInit
  <1>4. writing.by # "page" /\ "page" \in Writers /\ \A t \in Writers : loaded[t] = Idle
    BY DEF ConsoleInit, Idle, Writers
  <1>5. ConsoleScalars
    <2>1. /\ docs \in BOOLEAN /\ pass \in {Never, 0} /\ crewed \in BOOLEAN /\ ticked \in BOOLEAN
          /\ recent \in BOOLEAN /\ heard = 0 /\ ops = 0
      BY DEF ConsoleInit
    <2>2. 0 \in Nat /\ 0 \in 0..MaxOps
      BY ConsoleAssumption
    <2> QED
      BY <1>1, <2>1, <2>2, Zenon DEF ConsoleScalars
  <1>6. RowsFit /\ LoadsFit
    BY <1>1, <1>4 DEF ConsoleInit, RowsFit, LoadsFit
  <1>7. ScreenFits /\ PressesFit
    BY <1>2, <1>3, <1>4, ConsoleAssumption DEF ScreenFits, PressesFit
  <1> QED
    BY <1>5, <1>6, <1>7 DEF ConsoleInv

(* Steps that leave the permit, its transactions and the page alone. *)
LEMMA QuietKeeps ==
    ASSUME ConsoleInv, ConsoleScalars', ScreenFits',
           UNCHANGED <<row, loaded, writing, raced, sent>>
    PROVE  ConsoleInv'
  BY DEF ConsoleInv, RowsFit, LoadsFit, Granted, PressesFit

LEMMA OfferedFits ==
    ASSUME NEW s \in Row, NEW op \in Offered(s)
    PROVE  op \in Op /\ (op \in Advancing => s.status = Seen(op))
  <1>1. op \in Op
    BY DEF Offered, Preparing, Signing, Testing, Authorising, Rejecting, Op
  <1>2. ASSUME op \in Advancing PROVE s.status = Seen(op)
    <2>1. op \in Signing(s) \cup Authorising(s)
      BY <1>2 DEF Offered, Preparing, Testing, Rejecting, Advancing
    <2>2. op \in Signing(s) =>
             op \in {"sign_issuer", "sign_receiver"} /\ s.status = "pending_inspection"
      BY DEF Signing
    <2>3. op \in Authorising(s) =>
             \/ op = "approve" /\ s.status = "pending_approval"
             \/ op = "issue" /\ s.status = "pending_issue"
             \/ op \in {"renew", "close", "suspend", "cancel"} /\ s.status = "active"
             \/ op = "resume" /\ s.status = "suspended"
      BY DEF Authorising
    <2> QED
      BY <1>2, <2>1, <2>2, <2>3 DEF Advancing, Seen
  <1> QED
    BY <1>1, <1>2

(* A button that is pressed joins the presses at the end. *)
LEMMA PressKeeps ==
    ASSUME ConsoleInv, NEW op \in Op, PressButton(op)
    PROVE  ConsoleInv'
  <1> DEFINE p == [op |-> op, seen |-> shown.row.status, filled |-> filled]
  <1>1. /\ sent \in Seq(FitPress) /\ Len(sent) \in Nat /\ Len(sent) < MaxSent
        /\ shown.row \in Row /\ filled \in BOOLEAN
        /\ ops \in Nat /\ ops < MaxOps
    BY DEF ConsoleInv, PressesFit, ScreenFits, FitProps, Fit, Gated, ConsoleScalars, filled,
           PressButton
  <1>2. p \in FitPress
    <2>1. shown.row.status \in Status
      BY <1>1 DEF Row
    <2>2. p \in Press /\ p.op = op /\ p.seen = shown.row.status
      BY <1>1, <2>1 DEF Press
    <2>3. op \in Advancing => shown.row.status = Seen(op)
      BY <1>1, OfferedFits DEF PressButton
    <2> QED
      BY <2>2, <2>3 DEF FitPress
  <1>3. sent' = Append(sent, p)
    BY DEF PressButton
  <1> HIDE DEF p
  <1>4. /\ sent' \in Seq(FitPress) /\ Len(sent') = Len(sent) + 1
        /\ sent # <<>> => sent'[1] = sent[1]
    BY <1>1, <1>2, <1>3, AppendProperties, EmptySeq
  <1>5. sent' # <<>> /\ Len(sent') <= MaxSent
    BY <1>1, <1>4, ConsoleAssumption
  <1>6. sent # <<>> => Head(sent') = Head(sent)
    BY <1>1, <1>4, <1>5, HeadTailProperties
  <1>7. ops' \in 0..MaxOps
    BY <1>1, ConsoleAssumption DEF PressButton
  <1>8. UNCHANGED <<row, docs, pass, loaded, writing, raced, shown, crewed, ticked, heard, reads,
                    recent>>
    BY DEF PressButton, tableVars, reloadVars
  <1>9. ConsoleScalars' /\ RowsFit' /\ LoadsFit' /\ ScreenFits'
    BY <1>7, <1>8 DEF ConsoleInv, ConsoleScalars, RowsFit, LoadsFit, Granted, ScreenFits
  <1>10. PressesFit'
    BY <1>4, <1>5, <1>6, <1>8 DEF ConsoleInv, PressesFit
  <1> QED
    BY <1>9, <1>10 DEF ConsoleInv

(* A transaction that begins was accepted of the row as it is. *)
LEMMA LoadKeeps ==
    ASSUME ConsoleInv, NEW t \in Writers, NEW op \in Op, NEW f \in BOOLEAN, Load(t, op, f),
           ops' \in 0..MaxOps,
           t = "page" => Served /\ op = Head(sent).op
    PROVE  ConsoleInv'
  <1> DEFINE x == [op |-> op, filled |-> f, row |-> row]
  <1>1. /\ row \in Row /\ Fit(row, raced) /\ docs \in BOOLEAN /\ pass \in {Never, 0}
        /\ Accepts(row, f, docs, pass)[op]
        /\ loaded' = [loaded EXCEPT ![t] = x] /\ "page" \in Writers
    BY DEF ConsoleInv, RowsFit, Fit, Gated, ConsoleScalars, Load, Writers
  <1>2. x \in Transaction /\ x.op = op /\ x.filled = f /\ x.row = row
    BY <1>1 DEF Transaction
  <1>3. Granted(x)
    BY <1>1, <1>2, UnderIsOrder DEF Granted
  <1>4. UNCHANGED <<row, docs, pass, writing, raced, shown, crewed, ticked, sent, heard, reads,
                    recent>>
    BY DEF Load, screenVars, reloadVars
  <1> HIDE DEF x
  <1>5. ConsoleScalars' /\ RowsFit' /\ ScreenFits'
    BY <1>4 DEF ConsoleInv, ConsoleScalars, RowsFit, ScreenFits
  <1>6. loaded' \in [Writers -> {Idle} \cup Transaction]
    BY <1>1, <1>2 DEF ConsoleInv, LoadsFit
  <1>7. LoadsFit'
    <2>1. ASSUME NEW u \in Writers, loaded'[u] # Idle PROVE Granted(loaded'[u])
      BY <1>1, <1>3, <2>1 DEF ConsoleInv, LoadsFit
    <2>2. \A y : Granted(y)' <=> /\ Fit(y.row, raced) /\ Under(y.row, row)
                                 /\ \E d \in BOOLEAN, q \in {Never, 0} :
                                       Accepts(y.row, y.filled, d, q)[y.op]
      BY <1>4 DEF Granted
    <2> QED
      BY <1>4, <1>6, <2>1 DEF LoadsFit, Granted
  <1>8. PressesFit'
    BY <1>1, <1>2, <1>4 DEF ConsoleInv, LoadsFit, PressesFit, Served
  <1> QED
    BY <1>5, <1>7, <1>8 DEF ConsoleInv

(* A write overtaken by another one leaves its mark in raced. *)
LEMMA RowWriteKeeps ==
    ASSUME ConsoleInv, NEW t \in Writers, Write(t)
    PROVE  ConsoleInv'
  <1> DEFINE c == loaded[t]
  <1>1. PICK x \in BOOLEAN :
           /\ writing' = [by |-> t, op |-> c.op, row |-> Outcome(c.row, row, c.filled, x)[c.op]]
           /\ raced' = (raced \/ c.row # row)
           /\ heard' = heard \/ heard' = heard + 1
    <2>1. c \in Transaction
      BY DEF Write, ConsoleInv, LoadsFit
    <2>2. (IF c.op = "save" THEN BOOLEAN ELSE {c.row.is_extended}) \subseteq BOOLEAN
      BY <2>1 DEF Transaction, Row
    <2> QED
      BY <2>2 DEF Write
  <1>2. /\ c \in Transaction /\ Fit(c.row, raced) /\ Under(c.row, row) /\ Fit(row, raced)
        /\ writing = Idle /\ raced \in BOOLEAN /\ c # Idle
    BY DEF Write, ConsoleInv, LoadsFit, Granted, RowsFit, ConsoleScalars
  <1>3. c.op \in Op /\ c.filled \in BOOLEAN /\ c.row \in Row
    BY <1>2 DEF Transaction
  <1>4. PICK d \in BOOLEAN, p \in {Never, 0} : Accepts(c.row, c.filled, d, p)[c.op]
    BY <1>2 DEF ConsoleInv, LoadsFit, Granted
  <1> DEFINE r2 == Outcome(c.row, row, c.filled, x)[c.op]
  <1>5. Gated(r2) /\ Under(row, r2)
    BY <1>2, <1>3, <1>4, OutcomeGated DEF Fit
  <1>6. raced' \/ Sound(r2)
    <2>1. CASE raced'
      BY <2>1
    <2>2. CASE ~ raced'
      <3>1. c.row = row /\ Sound(row)
        BY <1>1, <1>2, <2>2 DEF Fit
      <3> QED
        BY <1>3, <1>4, <3>1, OutcomeSound
    <2> QED
      BY <2>1, <2>2
  <1>7. Fit(r2, raced') /\ r2 \in Row
    BY <1>5, <1>6 DEF Fit, Gated
  <1> HIDE DEF r2
  <1>8. raced' \in BOOLEAN /\ (raced => raced')
    BY <1>1, <1>2
  <1>9. UNCHANGED <<row, docs, pass, shown, crewed, ticked, sent, reads, recent, ops>>
        /\ loaded' = [loaded EXCEPT ![t] = Idle]
    BY DEF Write, screenVars
  <1>10. ConsoleScalars'
    BY <1>1, <1>8, <1>9 DEF ConsoleInv, ConsoleScalars
  <1>11. RowsFit'
    <2>1. writing' \in [by : Writers, op : Op, row : Row] /\ writing'.row = r2
      BY <1>1, <1>3, <1>7 DEF r2
    <2>2. Fit(row, raced')
      BY <1>2, <1>8, FitGrows
    <2> QED
      BY <1>5, <1>7, <1>9, <2>1, <2>2 DEF RowsFit
  <1>12. LoadsFit'
    <2>1. loaded' \in [Writers -> {Idle} \cup Transaction]
      BY <1>9 DEF ConsoleInv, LoadsFit
    <2>2. ASSUME NEW u \in Writers, loaded'[u] # Idle
          PROVE  loaded'[u] = loaded[u] /\ Granted(loaded[u])
      BY <1>9, <2>2 DEF ConsoleInv, LoadsFit
    <2>3. ASSUME NEW u \in Writers, loaded'[u] # Idle PROVE Granted(loaded[u])'
      <3>1. Fit(loaded[u].row, raced')
        BY <1>2, <1>8, <2>2, <2>3, FitGrows DEF Granted
      <3> QED
        BY <1>9, <2>2, <2>3, <3>1 DEF Granted
    <2> QED
      BY <2>1, <2>3 DEF LoadsFit
  <1>13. ScreenFits'
    <2>1. FitProps(raced) \subseteq FitProps(raced')
      BY <1>2, <1>8, FitGrows
    <2>2. /\ shown' \in FitProps(raced') /\ Len(reads') <= MaxReads
          /\ reads \in Seq(FitProps(raced) \cup {Unfetched})
      BY <1>9, <2>1 DEF ConsoleInv, ScreenFits
    <2>3. reads' \in Seq(FitProps(raced') \cup {Unfetched})
      BY <1>9, <2>1, <2>2
    <2> QED
      BY <2>2, <2>3 DEF ScreenFits
  <1>14. PressesFit'
    <2>1. writing'.by = t /\ "page" \in Writers /\ loaded \in [Writers -> {Idle} \cup Transaction]
      BY <1>1 DEF Writers, ConsoleInv, LoadsFit
    <2>2. t = "page" => sent # <<>> /\ loaded'["page"] = Idle
      BY <1>2, <1>9, <2>1 DEF ConsoleInv, PressesFit
    <2>3. t # "page" => loaded'["page"] = loaded["page"]
      BY <1>9, <2>1
    <2> QED
      BY <1>9, <2>1, <2>2, <2>3 DEF ConsoleInv, PressesFit
  <1> QED
    BY <1>10, <1>11, <1>12, <1>13, <1>14 DEF ConsoleInv

(* An answer takes the oldest press away and shows a fit row or nothing new. *)
LEMMA AnswerKeeps ==
    ASSUME ConsoleInv, sent # <<>>, loaded["page"] = Idle, NEW r, Fit(r, raced), Answer(r),
           UNCHANGED <<docs, loaded, raced, reads>>, writing'.by # "page"
    PROVE  ScreenFits' /\ PressesFit'
  <1>1. sent \in Seq(FitPress) /\ Len(sent) <= MaxSent
    BY DEF ConsoleInv, PressesFit
  <1>2. sent' \in Seq(FitPress) /\ Len(sent') = Len(sent) - 1 /\ Len(sent) \in Nat \ {0}
    BY <1>1, HeadTailProperties, EmptySeq DEF Answer
  <1>3. [row |-> r, docs |-> docs] \in FitProps(raced)
    BY DEF FitProps, Props, Fit, Gated, ConsoleInv, ConsoleScalars
  <1>4. shown' \in FitProps(raced)
    BY <1>3 DEF Answer, ConsoleInv, ScreenFits
  <1>5. Len(sent') <= MaxSent
    BY <1>1, <1>2, ConsoleAssumption
  <1> QED
    BY <1>2, <1>4, <1>5 DEF ConsoleInv, ScreenFits, PressesFit

LEMMA RefuseKeeps == ASSUME ConsoleInv, Refuse PROVE ConsoleInv'
  <1>1. /\ sent # <<>> /\ loaded["page"] = Idle /\ writing.by # "page" /\ Answer(row)
        /\ UNCHANGED <<row, docs, pass, loaded, writing, raced, crewed, ticked, heard, reads,
                       recent, ops>>
    BY DEF Refuse, Served, tableVars, reloadVars
  <1>2. ScreenFits' /\ PressesFit'
    BY <1>1, AnswerKeeps DEF ConsoleInv, RowsFit
  <1>3. ConsoleScalars' /\ RowsFit' /\ LoadsFit'
    BY <1>1 DEF ConsoleInv, ConsoleScalars, RowsFit, LoadsFit, Granted
  <1> QED
    BY <1>2, <1>3 DEF ConsoleInv

LEMMA CommitKeeps == ASSUME ConsoleInv, Commit PROVE ConsoleInv'
  <1>1. /\ writing' = Idle /\ row' = writing.row /\ writing # Idle
        /\ Fit(writing.row, raced) /\ Under(row, writing.row)
        /\ pass' = IF writing.op = "gas_pass" THEN 0 ELSE pass
        /\ UNCHANGED <<docs, loaded, raced, crewed, ticked, heard, reads, recent, ops>>
    BY DEF Commit, ConsoleInv, RowsFit, reloadVars
  <1>2. writing'.by # "page"
    BY <1>1 DEF Idle
  <1>3. ConsoleScalars' /\ RowsFit'
    BY <1>1 DEF ConsoleInv, ConsoleScalars, RowsFit
  <1>4. LoadsFit'
    <2>1. ASSUME NEW t \in Writers, loaded[t] # Idle PROVE Granted(loaded[t])'
      <3>1. Granted(loaded[t])
        BY <2>1 DEF ConsoleInv, LoadsFit
      <3>2. Under(loaded[t].row, writing.row)
        BY <1>1, <3>1, UnderIsOrder DEF Granted
      <3> QED
        BY <1>1, <3>1, <3>2 DEF Granted
    <2> QED
      BY <1>1, <2>1 DEF ConsoleInv, LoadsFit
  <1>5. ScreenFits' /\ PressesFit'
    <2>1. CASE writing.by = "page"
      <3>1. sent # <<>> /\ loaded["page"] = Idle /\ Answer(writing.row)
        BY <2>1 DEF ConsoleInv, PressesFit, Commit
      <3> QED
        BY <1>1, <1>2, <3>1, AnswerKeeps
    <2>2. CASE writing.by # "page"
      <3>1. UNCHANGED <<sent, shown>>
        BY <2>2 DEF Commit
      <3> QED
        BY <1>1, <1>2, <3>1 DEF ConsoleInv, ScreenFits, PressesFit
    <2> QED
      BY <2>1, <2>2
  <1> QED
    BY <1>3, <1>4, <1>5 DEF ConsoleInv

(* The live update. *)
LEMMA ReloadKeeps ==
    ASSUME ConsoleInv,
           \/ Hear \/ Lose \/ ThrottleEnds
           \/ \E i \in DOMAIN reads : ReadProps(i) \/ ReloadArrives(i)
    PROVE  ConsoleInv'
  <1>1. /\ reads \in Seq(FitProps(raced) \cup {Unfetched}) /\ shown \in FitProps(raced)
        /\ Len(reads) \in Nat /\ Len(reads) <= MaxReads /\ MaxReads \in Nat
        /\ heard \in Nat /\ recent \in BOOLEAN
        /\ row \in Row /\ Fit(row, raced) /\ docs \in BOOLEAN
    BY ConsoleAssumption DEF ConsoleInv, ScreenFits, ConsoleScalars, RowsFit, Fit, Gated
  <1>2. UNCHANGED <<row, docs, pass, loaded, writing, raced, crewed, ticked, sent, ops>>
    BY DEF Hear, Lose, ThrottleEnds, ReadProps, ReloadArrives, tableVars, screenVars
  <1>3. ConsoleScalars'
    <2>1. heard' = heard \/ (heard > 0 /\ heard' = heard - 1)
      BY DEF Hear, Lose, ThrottleEnds, ReadProps, ReloadArrives
    <2>2. heard' \in Nat
      BY <1>1, <2>1
    <2>3. recent' \in {recent, TRUE, FALSE}
      BY DEF Hear, Lose, ThrottleEnds, ReadProps, ReloadArrives
    <2> QED
      BY <1>1, <1>2, <2>2, <2>3 DEF ConsoleInv, ConsoleScalars
  <1>4. ScreenFits'
    <2>1. CASE Hear
      <3>1. CASE recent
        BY <1>1, <1>2, <2>1, <3>1 DEF Hear, screenVars, ScreenFits
      <3>2. CASE ~ recent
        <4>1. reads' = Append(reads, Unfetched) /\ Len(reads) < MaxReads /\ shown' = shown
          BY <2>1, <3>2 DEF Hear, screenVars
        <4>2. Unfetched \in FitProps(raced) \cup {Unfetched}
          OBVIOUS
        <4>3. reads' \in Seq(FitProps(raced) \cup {Unfetched}) /\ Len(reads') = Len(reads) + 1
          BY <4>1, <4>2, <1>1, AppendProperties
        <4>4. Len(reads') <= MaxReads
          BY <4>1, <4>3, <1>1
        <4> QED
          BY <1>1, <1>2, <4>1, <4>3, <4>4 DEF ScreenFits
      <3> QED
        BY <3>1, <3>2
    <2>2. CASE Lose \/ ThrottleEnds
      BY <1>1, <1>2, <2>2 DEF Lose, ThrottleEnds, screenVars, ScreenFits
    <2>3. CASE \E i \in DOMAIN reads : ReadProps(i)
      <3>1. PICK i \in DOMAIN reads : ReadProps(i)
        BY <2>3
      <3> DEFINE q == [row |-> row, docs |-> docs]
      <3>2. q \in FitProps(raced)
        BY <1>1 DEF FitProps, Props
      <3>3. reads' = [reads EXCEPT ![i] = q] /\ shown' = shown
        BY <3>1 DEF ReadProps, screenVars
      <3> HIDE DEF q
      <3>4. reads' \in Seq(FitProps(raced) \cup {Unfetched}) /\ Len(reads') = Len(reads)
        BY <3>2, <3>3, <1>1, ExceptSeq
      <3> QED
        BY <1>1, <1>2, <3>3, <3>4 DEF ScreenFits
    <2>4. CASE \E i \in DOMAIN reads : ReloadArrives(i)
      <3>1. PICK i \in DOMAIN reads : ReloadArrives(i)
        BY <2>4
      <3>2. /\ reads[i] # Unfetched /\ shown' = reads[i]
            /\ reads' = SubSeq(reads, 1, i - 1) \o SubSeq(reads, i + 1, Len(reads))
        BY <3>1 DEF ReloadArrives
      <3>3. shown' \in FitProps(raced)
        BY <3>2, <1>1, ElementOfSeq
      <3>4. reads' \in Seq(FitProps(raced) \cup {Unfetched}) /\ Len(reads') = Len(reads) - 1
        BY <3>2, <1>1, RemovedSeq DEF RemoveAt
      <3>5. Len(reads') <= MaxReads
        BY <3>4, <1>1
      <3> QED
        BY <1>2, <3>3, <3>4, <3>5 DEF ScreenFits
    <2> QED
      BY <2>1, <2>2, <2>3, <2>4
  <1> QED
    BY <1>2, <1>3, <1>4, QuietKeeps

LEMMA ConsoleKept == ConsoleInv /\ [ConsoleNext]_consoleVars => ConsoleInv'
  <1> SUFFICES ASSUME ConsoleInv, [ConsoleNext]_consoleVars PROVE ConsoleInv'
    OBVIOUS
  <1>1. "page" \in Writers /\ Others \subseteq Writers /\ ops \in 0..MaxOps /\ MaxOps \in Nat
    BY ConsoleAssumption DEF Writers, ConsoleInv, ConsoleScalars
  <1>2. CASE UNCHANGED consoleVars
    BY <1>2 DEF consoleVars, tableVars, screenVars, reloadVars, ConsoleInv, ConsoleScalars,
                RowsFit, LoadsFit, Granted, ScreenFits, PressesFit
  <1>3. CASE EditCrew \/ ToggleChecklistItem \/ DocumentsChange
    <2>1. /\ UNCHANGED <<row, pass, loaded, writing, raced, shown, sent, heard, reads, recent>>
          /\ docs' \in BOOLEAN /\ crewed' \in BOOLEAN /\ ticked' \in BOOLEAN
      BY <1>3 DEF EditCrew, ToggleChecklistItem, DocumentsChange, tableVars, screenVars, reloadVars,
                  ConsoleInv, ConsoleScalars
    <2>2. ops' \in 0..MaxOps
      BY <1>1, <1>3 DEF EditCrew, ToggleChecklistItem, DocumentsChange
    <2>3. ConsoleScalars' /\ ScreenFits'
      BY <2>1, <2>2 DEF ConsoleInv, ConsoleScalars, ScreenFits
    <2> QED
      BY <2>1, <2>3, QuietKeeps
  <1>4. CASE \E op \in Op : PressButton(op)
    BY <1>4, PressKeeps
  <1>5. CASE Handle
    <2>1. Served /\ Load("page", Head(sent).op, Head(sent).filled) /\ ops' = ops
      BY <1>5 DEF Handle
    <2>2. Head(sent) \in FitPress
      BY <2>1, HeadTailProperties DEF Served, ConsoleInv, PressesFit
    <2>3. Head(sent).op \in Op /\ Head(sent).filled \in BOOLEAN
      BY <2>2 DEF FitPress, Press
    <2> QED
      BY <1>1, <2>1, <2>3, LoadKeeps
  <1>6. CASE \E op \in Op : \E t \in Others : Other(t, op)
    <2>1. PICK op \in Op, t \in Others : Other(t, op)
      BY <1>6
    <2>2. Load(t, op, TRUE) /\ ops < MaxOps /\ ops' = ops + 1
      BY <2>1 DEF Other
    <2>3. t # "page"
      BY ConsoleAssumption
    <2>4. ops' \in 0..MaxOps
      BY <1>1, <2>2
    <2> QED
      BY <1>1, <2>2, <2>3, <2>4, LoadKeeps
  <1>7. CASE \E t \in Writers : Write(t)
    BY <1>7, RowWriteKeeps
  <1>8. CASE Refuse \/ Commit
    BY <1>8, RefuseKeeps, CommitKeeps
  <1>9. CASE Hear \/ Lose \/ ThrottleEnds
             \/ \E i \in DOMAIN reads : ReadProps(i) \/ ReloadArrives(i)
    BY <1>9, ReloadKeeps
  <1> QED
    BY <1>2, <1>3, <1>4, <1>5, <1>6, <1>7, <1>8, <1>9 DEF ConsoleNext, Machine

(* A gate drawn as done carries its signatures. *)
LEMMA DoneIsSigned ==
    ASSUME NEW s, NEW z, Fit(s, z)
    PROVE  /\ "inspection" \in DoneSteps(s) => s.signed = Signatory
           /\ "approval" \in DoneSteps(s) => s.approved \/ z
  <1>1. Gated(s) /\ s.status \in Status
    BY DEF Fit, Gated, Row
  <1>2. ASSUME "inspection" \in DoneSteps(s) PROVE s.signed = Signatory
    <2>1. RequiresInspection /\ FlowStep(s) \notin {"draft", "inspection"}
      BY <1>2 DEF DoneSteps, FlowSteps, FlowRank
    <2>2. s.status \in Inspected
      BY <2>1, <1>1 DEF FlowStep, Inspected, Status
    <2> QED
      BY <1>1, <2>1, <2>2 DEF Gated
  <1>3. ASSUME "approval" \in DoneSteps(s) PROVE s.approved \/ z
    <2>1. NeedsApprover(s) /\ FlowStep(s) \notin {"draft", "inspection", "gas", "approval"}
      BY <1>3 DEF DoneSteps, FlowSteps, FlowRank
    <2>2. s.status \in Cleared
      BY <2>1, <1>1 DEF FlowStep, Cleared, Status
    <2> QED
      BY <2>1, <2>2 DEF Fit, Sound
  <1> QED
    BY <1>2, <1>3

(* What a page that shows the permit as it is offers is accepted. *)
LEMMA OffersAccepted ==
    ASSUME ConsoleInv
    PROVE  OfferedIsAccepted
  <1> SUFFICES ASSUME Current, NEW op \in Offered(shown.row),
                      op = "renew" => /\ row.renewal_count # MaxRenewals
                                      /\ Validity > MaxTotal => row.is_extended,
                      op = "issue" => row.complete \/ ~ raced
               PROVE  Accepts(row, filled, TRUE, 0)[op]
    BY DEF OfferedIsAccepted
  <1>1. /\ shown.row = row /\ shown.docs = docs /\ filled = row.complete
        /\ Gated(row) /\ row \in Row /\ (raced \/ Sound(row))
    BY DEF Current, ConsoleInv, RowsFit, Fit, Gated
  <1>2. CASE op \in Preparing(row)
    <2>1. Editable(row) /\ (op = "save" \/ (op = "submit" /\ filled))
      BY <1>2 DEF Preparing, Unblocked
    <2>2. op = "save" => CanUpdateDraft(row, filled, TRUE)
      BY <2>1 DEF CanUpdateDraft
    <2>3. op = "submit" => CanSubmit(row, TRUE)
      BY <1>1, <2>1 DEF CanSubmit
    <2> QED
      BY <2>1, <2>2, <2>3, AcceptsAre
  <1>3. CASE op \in Signing(row)
    <2>1. op \in {"sign_issuer", "sign_receiver"} /\ CanInspect(row)
      BY <1>3 DEF Signing, CanInspect
    <2> QED
      BY <2>1, AcceptsAre
  <1>4. CASE op \in Testing(row)
    <2>1. op \in {"gas_pass", "gas_fail"}
      BY <1>4 DEF Testing
    <2> QED
      BY <2>1, AcceptsAre
  <1>5. CASE op \in Authorising(row)
    <2>1. \/ op = "approve" /\ CanApprove(row)
          \/ op = "issue" /\ row.status = "pending_issue"
          \/ op = "renew" /\ row.status = "active"
          \/ op = "close" /\ CanClose(row)
          \/ op = "suspend" /\ CanSuspend(row)
          \/ op = "cancel" /\ CanCancel(row)
          \/ op = "resume" /\ row.status = "suspended"
      BY <1>5 DEF Authorising, CanApprove, CanClose, CanSuspend, CanCancel
    <2>2. op = "issue" => CanIssue(row, TRUE)
      BY <1>1, <2>1 DEF CanIssue, Sound, Editable
    <2>3. op = "renew" => CanRenew(row, TRUE, 0)
      <3> SUFFICES ASSUME op = "renew" PROVE CanRenew(row, TRUE, 0)
        OBVIOUS
      <3>1. row.status = "active" /\ row.valid_from = 0
        BY <1>1, <2>1 DEF Gated
      <3>2. row.renewal_count < MaxRenewals
        BY <1>1, PermitTypeAssumption DEF Gated, Row
      <3>3. (0 + Validity) - row.valid_from <= MaxTotal \/ row.is_extended
        BY <3>1, PermitTypeAssumption
      <3> QED
        BY <3>1, <3>2, <3>3 DEF CanRenew
    <2>4. op = "resume" => CanResume(row, 0, 0)
      <3>1. GasFresh(0, 0)
        BY PermitTypeAssumption DEF GasFresh, Never, NoInterval
      <3> QED
        BY <2>1, <3>1 DEF CanResume
    <2>5. CASE op \in {"approve", "close", "suspend", "cancel"}
      BY <2>1, <2>5, AcceptsAre
    <2>6. CASE op \in {"issue", "renew", "resume"}
      BY <2>2, <2>3, <2>4, <2>6, AcceptsAre
    <2> QED
      BY <2>1, <2>5, <2>6
  <1>6. CASE op \in Rejecting(row)
    <2>1. op = "reject" /\ CanReject(row)
      BY <1>6 DEF Rejecting, CanReject
    <2> QED
      BY <2>1, AcceptsAre
  <1> QED
    BY <1>1, <1>2, <1>3, <1>4, <1>5, <1>6 DEF Offered

(* An active permit can be suspended, and every other one on its way rejected. *)
LEMMA NeverIsStuck == ConsoleInv => NeverStuck
  <1> SUFFICES ASSUME ConsoleInv, Current, Grants = Permission,
                      row.status \in {"pending_inspection", "pending_gas_test", "pending_approval",
                                     "pending_issue", "active", "suspended"}
               PROVE  \E op \in Offered(shown.row) :
                         /\ Accepts(row, filled, docs, pass)[op]
                         /\ Outcome(row, row, filled, row.is_extended)[op].status # row.status
    BY DEF NeverStuck
  <1>1. shown.row = row /\ row \in Row /\ May("update-permits")
    BY DEF Current, ConsoleInv, RowsFit, Fit, Gated, May, Permission
  <1>2. CASE row.status = "active"
    <2>1. "suspend" \in Offered(shown.row)
      BY <1>1, <1>2 DEF Offered, Authorising
    <2>2. CanSuspend(row) /\ SuspendRow(row).status = "suspended"
      BY <1>1, <1>2 DEF CanSuspend, SuspendRow, Row
    <2>3. /\ Accepts(row, filled, docs, pass)["suspend"]
          /\ Outcome(row, row, filled, row.is_extended)["suspend"].status # row.status
      BY <1>2, <2>2 DEF Accepts, Outcome
    <2> QED
      BY <2>1, <2>3
  <1>3. CASE row.status # "active"
    <2>1. "reject" \in Offered(shown.row)
      BY <1>1, <1>3 DEF Offered, Rejecting
    <2>2. CanReject(row) /\ RejectRow(row).status = "rejected"
      BY <1>1, <1>3 DEF CanReject, RejectRow, Row
    <2>3. /\ Accepts(row, filled, docs, pass)["reject"]
          /\ Outcome(row, row, filled, row.is_extended)["reject"].status # row.status
      BY <2>2 DEF Accepts, Outcome
    <2> QED
      BY <2>1, <2>3
  <1> QED
    BY <1>2, <1>3

LEMMA ConsoleTyped == ConsoleInv => ConsoleTypeOK
  <1> SUFFICES ASSUME ConsoleInv PROVE ConsoleTypeOK
    OBVIOUS
  <1>1. row \in Row /\ shown \in Props
    BY DEF ConsoleInv, RowsFit, ScreenFits, Fit, Gated, FitProps
  <1>2. sent \in Seq(Press) /\ reads \in Seq(Props \cup {Unfetched})
    <2>1. FitPress \subseteq Press
          /\ FitProps(raced) \cup {Unfetched} \subseteq Props \cup {Unfetched}
      BY DEF FitPress, FitProps
    <2>2. sent \in Seq(FitPress) /\ reads \in Seq(FitProps(raced) \cup {Unfetched})
      BY DEF ConsoleInv, PressesFit, ScreenFits
    <2> QED
      BY <2>1, <2>2
  <1> QED
    BY <1>1, <1>2
    DEF ConsoleInv, ConsoleScalars, RowsFit, LoadsFit, ScreenFits, PressesFit, ConsoleTypeOK

(* A press that is written was offered at the status it finds, or at the one
   that its transaction found when it loaded the row. *)
PressFitsRow ==
    writing = Idle /\ writing' # Idle /\ writing'.by = "page" /\ Head(sent).op \in Advancing
      => \/ row.status = Head(sent).seen
         \/ loaded["page"].row.status = Head(sent).seen /\ loaded["page"].row # row

LEMMA PressesMeet == ConsoleInv /\ [ConsoleNext]_consoleVars => PressFitsRow
  <1> SUFFICES ASSUME ConsoleInv, [ConsoleNext]_consoleVars, writing = Idle, writing' # Idle,
                      writing'.by = "page", Head(sent).op \in Advancing
               PROVE  loaded["page"].row.status = Head(sent).seen
    BY DEF PressFitsRow
  <1>1. CASE \E t \in Writers : Write(t)
    <2>1. Write("page") /\ "page" \in Writers
      BY <1>1 DEF Write, Writers
    <2>2. /\ loaded["page"] # Idle /\ sent # <<>> /\ loaded["page"].op = Head(sent).op
          /\ Granted(loaded["page"])
      BY <2>1 DEF Write, ConsoleInv, LoadsFit, PressesFit
    <2>3. PICK c : c = loaded["page"]
      OBVIOUS
    <2>4. Head(sent) \in FitPress
      BY <2>2, HeadTailProperties DEF ConsoleInv, PressesFit
    <2>5. Head(sent).seen = Seen(c.op) /\ c.op \in Advancing
      BY <2>2, <2>3, <2>4 DEF FitPress
    <2>6. PICK d \in BOOLEAN, p \in {Never, 0} : Accepts(c.row, c.filled, d, p)[c.op]
      BY <2>2, <2>3 DEF Granted
    <2>7. /\ c.op \in {"sign_issuer", "sign_receiver"} => CanInspect(c.row)
          /\ c.op = "approve" => CanApprove(c.row)
          /\ c.op = "issue" => CanIssue(c.row, d)
          /\ c.op = "renew" => CanRenew(c.row, d, 0)
          /\ c.op = "resume" => CanResume(c.row, p, 0)
      BY <2>6 DEF Accepts
    <2>8. c.row.status = Seen(c.op)
      BY <2>5, <2>7 DEF Advancing, Seen, CanInspect, CanApprove, CanIssue, CanRenew, CanResume
    <2> QED
      BY <2>3, <2>5, <2>8
  <1>2. CASE writing' = writing \/ writing' = Idle
    BY <1>2
  <1> QED
    BY <1>1, <1>2
    DEF ConsoleNext, consoleVars, tableVars, Machine, EditCrew, ToggleChecklistItem, PressButton,
        Handle, Load, Other, Refuse, Commit, DocumentsChange, Hear, Lose, ThrottleEnds, ReadProps,
        ReloadArrives

(* On any page of any permit type, however the transactions of other people and
   of the scheduler overlap with those of the page: what is offered on a page
   that shows the permit as it is is accepted, but for a renewal that the type
   rules out and the issue of a crew that an overlapping save took apart; nobody
   with all the permissions is stuck; a gate drawn as done carries its
   signatures; and a press that was overtaken brings the permit nearer to work
   only from the status its user saw (the buttons of show.tsx, buildFlowSteps and
   the guards of PermitService). *)
THEOREM PageFitsPermit == ConsoleSpec => ButtonsFitPermit
  <1>1. ConsoleInit => ConsoleInv
    BY ConsoleStarts
  <1>2. ConsoleInv /\ [ConsoleNext]_consoleVars => ConsoleInv'
    BY ConsoleKept
  <1>3. ConsoleInv => ConsoleTypeOK /\ OfferedIsAccepted /\ NeverStuck /\ DoneStepsSigned
    <2> SUFFICES ASSUME ConsoleInv
                 PROVE  ConsoleTypeOK /\ OfferedIsAccepted /\ NeverStuck /\ DoneStepsSigned
      OBVIOUS
    <2>1. DoneStepsSigned
      BY DoneIsSigned DEF DoneStepsSigned, ConsoleInv, ScreenFits, FitProps
    <2> QED
      BY <2>1, ConsoleTyped, OffersAccepted, NeverIsStuck
  <1>4. ConsoleInv /\ [ConsoleNext]_consoleVars => [PressFitsRow]_consoleVars
    BY PressesMeet
  <1> QED
    BY <1>1, <1>2, <1>3, <1>4, PTL
    DEF ConsoleSpec, ButtonsFitPermit, StalePressNeverAdvances, PressFitsRow
=============================================================================
