----------------------------- MODULE PermitBoard -----------------------------
(***************************************************************************)
(* The permit board (permits/board.tsx, lib/permit-board.ts) and the       *)
(* channel that keeps it live (useReverbChannel): PermitUpdated events     *)
(* applied one by one, the snapshot fetched at mount, when the connection  *)
(* changes and, while it is down, every poll interval.                     *)
(*                                                                         *)
(* A card is its column and its status; the rest of the card is data.  A   *)
(* permit that is not renewed keeps valid_to, so two events of it with the *)
(* same status and column are equal payloads.                              *)
(***************************************************************************)
EXTENDS Naturals, Sequences, SequencesExt

CONSTANTS
    Permits,     \* the permits of the board
    MaxWrites,   \* bound of the changes of permits, and of time passing
    MaxDrops,    \* bound of the disconnections
    MaxSnaps     \* bound of the snapshots being fetched

ASSUME BoardAssumption ==
    MaxWrites \in Nat /\ MaxDrops \in Nat /\ MaxSnaps \in Nat \ {0, 1}

BoardColumns == {"pending_inspection", "pending_gas_test", "pending_issue",
                 "active", "suspended", "expiring"}

VARIABLES
    status,      \* status of every permit, as last written
    elapsed,     \* the permits with less than BOARD_EXPIRING_HOURS left
    dirty,       \* permits written and broadcast but not committed
    log,         \* the cards every permit had, the last is the current one
    socket,      \* the status useReverbChannel reports
    wire,        \* events on their way to the page
    fingerprint, \* the last event the page took
    snaps,       \* snapshots being fetched: the columns read, or Unread
    board,       \* the columns of the page
    writes,      \* changes so far
    drops        \* disconnections so far

boardVars == <<status, elapsed, dirty, log, socket, wire, fingerprint, snaps,
               board, writes, drops>>

Unread == [read |-> FALSE]
Read(cols) == [read |-> TRUE, columns |-> cols]

BoardStatus == {"pending_inspection", "pending_gas_test", "pending_approval",
                "pending_issue", "active", "suspended", "closed", "rejected"}

(* The payload of PermitUpdated, as far as it tells two events apart. *)
Event == [permit : Permits, status : BoardStatus,
          column : BoardColumns \cup BoardStatus]

NoEvent == [permit |-> "none", status |-> "none", column |-> "none"]

Columns == [BoardColumns -> SUBSET Permits]

BoardTypeOK ==
    /\ status \in [Permits -> BoardStatus]
    /\ elapsed \subseteq Permits /\ dirty \subseteq Permits
    /\ log \in [Permits -> Seq(BoardColumns \cup BoardStatus)]
    /\ \A p \in Permits : Len(log[p]) \in 1..(writes + 1)
    /\ socket \in {"live", "offline"}
    /\ wire \in Seq(Event)
    /\ fingerprint \in Event \cup {NoEvent}
    /\ Len(snaps) <= MaxSnaps
    /\ \A i \in DOMAIN snaps : snaps[i] = Unread \/ snaps[i].columns \in Columns
    /\ board \in Columns
    /\ writes \in 0..MaxWrites /\ drops \in 0..MaxDrops

-----------------------------------------------------------------------------
(* The server: the columns of PermitService.                               *)

BoardColumn(st, late) ==
    CASE st = "active" /\ late -> "expiring"
      [] st = "pending_approval" -> "pending_issue"
      [] OTHER -> st

(* What a permit may become next; every change is written by PermitService
   in a transaction of its own. *)
Successors ==
    [pending_inspection |-> {"pending_gas_test", "rejected"},
     pending_gas_test   |-> {"pending_approval", "pending_issue", "rejected"},
     pending_approval   |-> {"pending_issue", "rejected"},
     pending_issue      |-> {"active", "rejected"},
     active             |-> {"suspended", "closed"},
     suspended          |-> {"active", "closed"},
     closed             |-> {},
     rejected           |-> {}]

Card(p) == Last(log[p])

(* Before the commit a snapshot reads the row as it was. *)
Committed(p) == IF p \in dirty THEN log[p][Len(log[p]) - 1] ELSE Card(p)

BoardSnapshot == [c \in BoardColumns |-> {p \in Permits : Committed(p) = c}]

-----------------------------------------------------------------------------
(* lib/permit-board.ts.                                                    *)

(* Mutant of UpsertPermitBoardCard: the old card is only removed from the
   column the new one goes to. *)
UpsertInPlace(cols, e) ==
    [c \in BoardColumns |-> IF c = e.column THEN cols[c] \cup {e.permit} ELSE cols[c]]

UpsertPermitBoardCard(cols, e) ==
    [c \in BoardColumns |-> IF c = e.column THEN cols[c] \cup {e.permit}
                            ELSE cols[c] \ {e.permit}]

(* Mutant of ReplacePermitBoardColumns: the snapshot is merged into the board,
   and the cards it does not have stay. *)
MergeColumns(cols, snapshot) ==
    [c \in BoardColumns |->
        snapshot[c] \cup {p \in cols[c] : \A d \in BoardColumns : p \notin snapshot[d]}]

ReplacePermitBoardColumns(cols, snapshot) == snapshot

-----------------------------------------------------------------------------
BoardInit ==
    /\ status \in [Permits -> {"pending_inspection", "pending_approval", "active"}]
    /\ elapsed = {} /\ dirty = {}
    /\ log = [p \in Permits |-> <<BoardColumn(status[p], FALSE)>>]
    /\ socket \in {"live", "offline"}
    /\ wire = <<>>
    /\ fingerprint = NoEvent
    /\ snaps = <<Unread>>
    /\ board = BoardSnapshot
    /\ writes = 0 /\ drops = 0

(* The saved hook broadcasts the card inside the transaction; nobody hears
   what is sent while the socket is down. *)
WritePermit(p) ==
    /\ p \notin dirty /\ writes < MaxWrites /\ writes' = writes + 1
    /\ \E st \in Successors[status[p]] :
          LET card == BoardColumn(st, p \in elapsed) IN
          /\ status' = [status EXCEPT ![p] = st]
          /\ log' = [log EXCEPT ![p] = Append(@, card)]
          /\ wire' = IF socket = "live"
                     THEN Append(wire, [permit |-> p, status |-> st, column |-> card])
                     ELSE wire
    /\ dirty' = dirty \cup {p}
    /\ UNCHANGED <<elapsed, socket, fingerprint, snaps, board, drops>>

CommitPermit(p) ==
    /\ p \in dirty
    /\ dirty' = dirty \ {p}
    /\ UNCHANGED <<status, elapsed, log, socket, wire, fingerprint, snaps, board,
                   writes, drops>>

(* Time passes without an event: an active permit has less than
   BOARD_EXPIRING_HOURS left. *)
TimePasses(p) ==
    /\ status[p] = "active" /\ p \notin elapsed \cup dirty
    /\ writes < MaxWrites /\ writes' = writes + 1
    /\ elapsed' = elapsed \cup {p}
    /\ log' = [log EXCEPT ![p] = Append(@, BoardColumn("active", TRUE))]
    /\ UNCHANGED <<status, dirty, socket, wire, fingerprint, snaps, board, drops>>

(* The page takes an event unless its payload equals the one before. *)
TakeEvent ==
    /\ wire # <<>>
    /\ wire' = Tail(wire)
    /\ fingerprint' = Head(wire)
    /\ board' = IF Head(wire) = fingerprint THEN board
                ELSE UpsertPermitBoardCard(board, Head(wire))
    /\ UNCHANGED <<status, elapsed, dirty, log, socket, snaps, writes, drops>>

(* The poll effect runs again when the status changes: it fetches a snapshot
   at once, and the reconnect effect fetches one more when it is live again. *)
Disconnect ==
    /\ socket = "live" /\ drops < MaxDrops
    /\ socket' = "offline"
    /\ drops' = drops + 1
    /\ wire' = <<>>
    /\ snaps' = IF Len(snaps) < MaxSnaps THEN Append(snaps, Unread) ELSE snaps
    /\ UNCHANGED <<status, elapsed, dirty, log, fingerprint, board, writes>>

Reconnect ==
    /\ socket = "offline" /\ Len(snaps) + 2 <= MaxSnaps
    /\ socket' = "live"
    /\ snaps' = snaps \o <<Unread, Unread>>
    /\ UNCHANGED <<status, elapsed, dirty, log, wire, fingerprint, board, writes,
                   drops>>

Poll ==
    /\ socket = "offline" /\ Len(snaps) < MaxSnaps
    /\ snaps' = Append(snaps, Unread)
    /\ UNCHANGED <<status, elapsed, dirty, log, socket, wire, fingerprint, board,
                   writes, drops>>

ReadSnapshot(i) ==
    /\ snaps[i] = Unread
    /\ snaps' = [snaps EXCEPT ![i] = Read(BoardSnapshot)]
    /\ UNCHANGED <<status, elapsed, dirty, log, socket, wire, fingerprint, board,
                   writes, drops>>

(* Responses arrive in any order, whatever events came in between. *)
SnapshotArrives(i) ==
    /\ snaps[i] # Unread
    /\ board' = ReplacePermitBoardColumns(board, snaps[i].columns)
    /\ snaps' = RemoveAt(snaps, i)
    /\ UNCHANGED <<status, elapsed, dirty, log, socket, wire, fingerprint, writes,
                   drops>>

(* A failed fetch is swallowed, whether the server read it or not; the next
   poll is the retry. *)
SnapshotFails(i) ==
    /\ snaps[i] # Unread
    /\ snaps' = RemoveAt(snaps, i)
    /\ UNCHANGED <<status, elapsed, dirty, log, socket, wire, fingerprint, board,
                   writes, drops>>

BoardNext ==
    \/ \E p \in Permits : WritePermit(p) \/ CommitPermit(p) \/ TimePasses(p)
    \/ TakeEvent \/ Disconnect \/ Reconnect \/ Poll
    \/ \E i \in DOMAIN snaps :
          ReadSnapshot(i) \/ SnapshotArrives(i) \/ SnapshotFails(i)

(* Transactions end, the browser's timers and requests go on, and a fetch that
   is tried again and again succeeds again and again.  Nothing says that the
   socket comes back. *)
BoardFairness ==
    /\ \A p \in Permits : WF_boardVars(CommitPermit(p))
    /\ WF_boardVars(TakeEvent)
    /\ WF_boardVars(Poll)
    /\ WF_boardVars(\E i \in DOMAIN snaps : ReadSnapshot(i))
    /\ \A i \in 1..MaxSnaps : SF_boardVars(i \in DOMAIN snaps /\ SnapshotArrives(i))

BoardSpec == BoardInit /\ [][BoardNext]_boardVars /\ BoardFairness

-----------------------------------------------------------------------------
(* Properties.                                                             *)

(* Events, snapshots and both out of order never put a permit in two columns
   of the board. *)
OneColumn ==
    \A p \in Permits, c, d \in BoardColumns : p \in board[c] \cap board[d] => c = d

(* The board implements LiveFeed: the column it shows a permit in is one the
   permit is or was in, and while the socket is down polling converges. *)
Off(card) == IF card \in BoardColumns THEN card ELSE "off"

ColumnShown(p) ==
    IF \E c \in BoardColumns : p \in board[c]
    THEN CHOOSE c \in BoardColumns : p \in board[c] ELSE "off"

Feed == INSTANCE LiveFeed WITH
    Item    <- Permits,
    Value   <- BoardColumns \cup {"off"},
    current <- [p \in Permits |-> Off(Card(p))],
    past    <- [p \in Permits |-> {Off(log[p][i]) : i \in DOMAIN log[p]}],
    view    <- [p \in Permits |-> ColumnShown(p)],
    polled  <- socket = "offline"

BoardImplementsFeed == Feed!FeedSpec
=============================================================================
