----------------------------- MODULE LocalBook -----------------------------
(***************************************************************************)
(* One book of LocalBookMaterializer (capture/local_book.py): the offline  *)
(* replay that rebuilds an order book from the raw records of a capture.   *)
(* Depth events carry a range U..u of the venue's update ids and the       *)
(* absolute quantities of the levels they touched; a REST snapshot carries *)
(* the whole book as of one id.  Events are buffered until a snapshot      *)
(* bridges them, applied live afterwards, and any break throws the book    *)
(* away and waits for a snapshot requested after the break.                *)
(*                                                                         *)
(* The venue is its history: Touches[i] is the level that update i changed *)
(* (0: none of ours), and the quantity of level l as of id k is named by   *)
(* the set of updates that produced it, Content(l, k).  Levels are the     *)
(* prices of a side, 1 nearest the best; `kept' of them lie inside the     *)
(* retained boundary.  Whether an event overflows the band, and how far    *)
(* the boundary tightens, is data and is chosen freely.  Records of every  *)
(* connection, range and receipt stamp may arrive in any order.  process() *)
(* admits one record at a time; the replay of the buffer inside it is a    *)
(* step per event, and `phase' is "idle" between two calls.                *)
(***************************************************************************)
EXTENDS Integers, Sequences

CONSTANTS Connections,  \* connection ids of the capture
          NoConnection, \* connection_id is None
          NoSnapshot,   \* pending_snapshot is None
          NumLevels,    \* price levels of the side
          MaxId,        \* bound on the venue's update ids
          MaxTime,      \* bound on monotonic receipt stamps
          MaxBuffered,  \* max_buffered_events_per_book
          Touches       \* the level each update changed, 0 for none

ASSUME BookAssumption ==
    /\ NoConnection \notin Connections
    /\ NumLevels \in Nat \ {0}
    /\ MaxId \in Nat
    /\ MaxTime \in Nat
    /\ MaxBuffered \in Nat \ {0}
    /\ Touches \in [1..MaxId -> 0..NumLevels]

VARIABLES market,          \* which venue's rules the book follows
          connected, connection,
          status,          \* LocalBookStatus
          updateId,        \* update_id, NoId for None
          book, kept,      \* retained quantities and their boundary
          avail,           \* availability_receipt_monotonic_ns, 0 for None
          buffer, pending, \* buffered events, pending_snapshot
          minStarted,      \* snapshot_min_started_monotonic_ns
          resnapshot,      \* resnapshot_required
          gap,             \* gap_reason is not None
          unresolvedGap, unresolvedReconstruction,
          phase, replaying,\* position inside _attempt_bridge
          sources,         \* history: receipts of the records in the book
          usedStart,       \* history: when the installed snapshot was asked for
          broke            \* history: receipt of the last break

bookVars == <<updateId, book, kept, avail, sources, usedStart>>
linkVars == <<market, connected, connection>>
debtVars == <<gap, unresolvedGap, unresolvedReconstruction, resnapshot>>
boundVars == <<minStarted, broke>>
bridgeVars == <<phase, replaying>>
vars == <<linkVars, status, bookVars, buffer, pending, boundVars, debtVars,
          bridgeVars>>

-----------------------------------------------------------------------------
Ids == 0..MaxId
Times == 1..MaxTime
Levels == 1..NumLevels
NoId == -1
Larger(a, b) == IF a >= b THEN a ELSE b

\* The quantity of level l after update k of the venue.
Content(l, k) == {i \in 1..k : Touches[i] = l}
Empty == [l \in Levels |-> {}]

\* A depth event: pu is the final id of the event before it; ids between pu
\* and U changed nothing (the futures feed skips ids, the spot feed does not).
Events(m) ==
    {e \in [U : 1..MaxId, u : 1..MaxId, pu : Ids, at : Times] :
        /\ e.pu < e.U
        /\ e.U <= e.u
        /\ m = "spot" => e.pu = e.U - 1
        /\ \A i \in 1..MaxId : (e.pu < i /\ i < e.U) => Touches[i] = 0}

Snapshots ==
    {s \in [id : Ids, started : Times, completed : Times, kept : Levels] :
        s.started <= s.completed}

ASSUME SnapshotAssumption == NoSnapshot \notin Snapshots

Current(c) == connected /\ connection = c
Idle == phase = "idle" /\ status # "replay_failed"

Init ==
    /\ market \in {"spot", "futures"}
    /\ connected = FALSE /\ connection = NoConnection
    /\ status = "disconnected"
    /\ updateId = NoId /\ book = Empty /\ kept = 0 /\ avail = 0
    /\ buffer = <<>> /\ pending = NoSnapshot
    /\ minStarted = 0 /\ broke = 0
    /\ resnapshot = FALSE /\ gap = FALSE
    /\ unresolvedGap = FALSE /\ unresolvedReconstruction = FALSE
    /\ phase = "idle" /\ replaying = <<>>
    /\ sources = {} /\ usedStart = 0

-----------------------------------------------------------------------------
\* _clear_reconstruction, leaving `rest' in the buffer (empty, or what the
\* caller appends or restores right after it).
ClearReconstruction(rest) ==
    /\ updateId' = NoId /\ book' = Empty /\ kept' = 0 /\ avail' = 0
    /\ sources' = {} /\ usedStart' = 0
    /\ buffer' = rest /\ pending' = NoSnapshot

\* Slip: the broken book does not ask for a snapshot.
InvalidateSilently(at, rest) ==
    /\ ClearReconstruction(rest)
    /\ unresolvedReconstruction' = TRUE
    /\ minStarted' = Larger(Larger(minStarted, at), avail)
    /\ status' = "awaiting"
    /\ broke' = at
    /\ UNCHANGED resnapshot

\* _invalidate: the next snapshot must have been asked for after the break.
Invalidate(at, rest) ==
    /\ ClearReconstruction(rest)
    /\ unresolvedReconstruction' = TRUE
    /\ resnapshot' = connected
    /\ minStarted' = Larger(Larger(minStarted, at), avail)
    /\ status' = "awaiting"
    /\ broke' = at

-----------------------------------------------------------------------------
(* Connection transitions *)

Connect(c, at) ==
    /\ Idle
    /\ ~Current(c)
    /\ ClearReconstruction(<<>>)
    /\ connection' = c /\ connected' = TRUE
    /\ unresolvedReconstruction' = TRUE
    /\ resnapshot' = TRUE
    /\ minStarted' = at
    /\ status' = "awaiting"
    /\ broke' = at
    /\ UNCHANGED <<market, gap, unresolvedGap, bridgeVars>>

DuplicateConnect(c, at) ==
    /\ Idle
    /\ Current(c)
    /\ Invalidate(at, <<>>)
    /\ UNCHANGED <<linkVars, gap, unresolvedGap, bridgeVars>>

\* Slip: an orderly stop forgets an unresolved reconstruction.
LeaveForgets(c, at, ownerStop) ==
    /\ Idle
    /\ connection \in {NoConnection, c}
    /\ ClearReconstruction(<<>>)
    /\ connection' = c /\ connected' = FALSE
    /\ resnapshot' = FALSE
    /\ minStarted' = Larger(minStarted, at)
    /\ status' = "disconnected"
    /\ unresolvedReconstruction' = ~ownerStop
    /\ UNCHANGED <<market, gap, unresolvedGap, broke, bridgeVars>>

\* RECYCLED, CONNECTING and DISCONNECTED, the last with or without the
\* owner_stop reason.  A transition of another connection is stale.
Leave(c, at, ownerStop) ==
    /\ Idle
    /\ connection \in {NoConnection, c}
    /\ ClearReconstruction(<<>>)
    /\ connection' = c /\ connected' = FALSE
    /\ resnapshot' = FALSE
    /\ minStarted' = Larger(minStarted, at)
    /\ status' = "disconnected"
    /\ unresolvedReconstruction' = (unresolvedReconstruction \/ ~ownerStop)
    /\ UNCHANGED <<market, gap, unresolvedGap, broke, bridgeVars>>

\* A record whose ingest_seq is not the successor of the last one.
IngestGap ==
    /\ Idle
    /\ ClearReconstruction(<<>>)
    /\ connected' = FALSE
    /\ status' = "replay_failed"
    /\ UNCHANGED <<market, connection, boundVars, debtVars, bridgeVars>>

-----------------------------------------------------------------------------
(* Depth events *)

\* _parse_depth_event refused the frame: _reject_capture.
MalformedEvent(c, at) ==
    /\ Idle
    /\ Current(c)
    /\ gap' = TRUE
    /\ Invalidate(at, <<>>)
    /\ UNCHANGED <<linkVars, unresolvedGap, bridgeVars>>

\* The event's quantities, on the levels still inside the new boundary.
ApplyLevels(b, e, inside) ==
    [l \in Levels |->
        IF l > inside THEN {}
        ELSE IF \E i \in e.U..e.u : Touches[i] = l THEN Content(l, e.u)
        ELSE b[l]]

\* Slip: the boundary follows the best price outwards again.
LoosenedBoundary(now) == Levels

\* The boundary is never loosened by an event: what lay outside is unknown.
NextBoundary(now) == 1..now

\* Slip: the receipt of the last event, however old.
LastReceipt(now, at) == at

\* _advance_availability: the latest receipt that the book depends on.
AdvanceAvailability(now, at) == Larger(now, at)

\* Levels, id and availability of an admitted event (the successful tail of
\* _apply_live_event and of _apply_bootstrap_event).
ApplyEvent(e) ==
    /\ \E inside \in NextBoundary(kept) :
        /\ book' = ApplyLevels(book, e, inside)
        /\ kept' = inside
    /\ updateId' = e.u
    /\ avail' = AdvanceAvailability(avail, e.at)
    /\ sources' = sources \cup {e.at}
    /\ status' = "valid"
    /\ UNCHANGED usedStart

\* A spot range the book has passed is ignored; equality is applied again.
Ignored(m, current, e) == m = "spot" /\ e.u < current

SequenceGap(m, current, e) ==
    IF m = "spot"
    THEN e.U > current + 1
    ELSE e.pu # current \/ e.u <= current

\* A sequence gap, or an event that overflows the band, ends the book; rest
\* holds the event itself, or what is left of the replay.
BreakBook(e, rest, isGap) ==
    /\ gap' = TRUE
    /\ unresolvedGap' = (unresolvedGap \/ isGap)
    /\ Invalidate(e.at, rest)

Decidable(e) == ~Ignored(market, updateId, e)

LiveEvent(c, e) ==
    /\ Idle
    /\ Current(c)
    /\ status = "valid"
    /\ Decidable(e)
    /\ IF SequenceGap(market, updateId, e)
       THEN BreakBook(e, <<e>>, TRUE)
       ELSE \/ /\ ApplyEvent(e)
               /\ UNCHANGED <<buffer, pending, boundVars, debtVars>>
            \/ BreakBook(e, <<e>>, FALSE)
    /\ UNCHANGED <<linkVars, bridgeVars>>

-----------------------------------------------------------------------------
(* Bridging a snapshot *)

\* classify_depth_snapshot_bridge
Discards(m, last, e) == IF m = "spot" THEN e.u <= last ELSE e.u < last
Target(m, last) == IF m = "spot" THEN last + 1 ELSE last
Accepts(m, last, e) == e.U <= Target(m, last) /\ Target(m, last) <= e.u

\* _install_snapshot
InstallSnapshot(s) ==
    /\ book' = [l \in Levels |-> IF l > s.kept THEN {} ELSE Content(l, s.id)]
    /\ kept' = s.kept
    /\ updateId' = s.id
    /\ avail' = s.completed
    /\ sources' = {s.completed}
    /\ usedStart' = s.started
    /\ status' = "valid"

\* _attempt_bridge of snapshot s against the ranges buf.
Waiting(s, buf) ==
    /\ \A i \in 1..Len(buf) : Discards(market, s.id, buf[i])
    /\ buffer' = <<>>
    /\ pending' = s
    /\ UNCHANGED <<status, bookVars, bridgeVars>>

Retained(s, buf, j) ==
    /\ ~Discards(market, s.id, buf[j])
    /\ \A i \in 1..(j - 1) : Discards(market, s.id, buf[i])

Decided(s, buf) ==
    \E j \in 1..Len(buf) :
        /\ Retained(s, buf, j)
        /\ pending' = NoSnapshot
        /\ IF Accepts(market, s.id, buf[j])
           THEN /\ InstallSnapshot(s)
                /\ buffer' = <<>>
                /\ phase' = "bootstrap"
                /\ replaying' = SubSeq(buf, j, Len(buf))
           ELSE /\ buffer' = buf
                /\ UNCHANGED <<status, bookVars, bridgeVars>>

AttemptBridge(s, buf) == Waiting(s, buf) \/ Decided(s, buf)

\* _append_buffer, and the bridge if a snapshot is pending.  The bounds on the
\* bytes and on the level changes of the buffer are abstracted: an event may
\* exceed one of them at any length, and a full buffer always overflows.
BufferEvent(c, e) ==
    /\ Idle
    /\ Current(c)
    /\ status = "awaiting"
    /\ \/ /\ gap' = TRUE
          /\ Invalidate(e.at, <<>>)
          /\ UNCHANGED <<unresolvedGap, bridgeVars>>
       \/ /\ Len(buffer) < MaxBuffered
          /\ IF pending = NoSnapshot
             THEN /\ buffer' = Append(buffer, e)
                  /\ UNCHANGED <<status, bookVars, pending, bridgeVars>>
             ELSE AttemptBridge(pending, Append(buffer, e))
          /\ UNCHANGED <<boundVars, debtVars>>
    /\ UNCHANGED linkVars

\* Slip: a response that was in flight across a break is considered.
UsableInFlight(started) == connected /\ status = "awaiting"

\* A snapshot is considered only on a live connection, when it was asked for
\* after the last break and the book still needs one.
Usable(started) ==
    /\ connected
    /\ started >= minStarted
    /\ status = "awaiting"

Snapshot(s) ==
    /\ Idle
    /\ Usable(s.started)
    /\ AttemptBridge(s, buffer)
    /\ UNCHANGED <<linkVars, boundVars, debtVars>>

\* The snapshot's own levels exceed the band.
OverflowingSnapshot(s) ==
    /\ Idle
    /\ Usable(s.started)
    /\ pending' = NoSnapshot
    /\ resnapshot' = TRUE
    /\ gap' = TRUE
    /\ minStarted' = Larger(minStarted, s.completed)
    /\ broke' = s.completed
    /\ UNCHANGED <<linkVars, status, bookVars, buffer, unresolvedGap,
                   unresolvedReconstruction, bridgeVars>>

\* The response does not parse.  (A failed request changes only the reason.)
MalformedSnapshot(started) ==
    /\ Idle
    /\ Usable(started)
    /\ pending' = NoSnapshot
    /\ resnapshot' = TRUE
    /\ UNCHANGED <<linkVars, status, bookVars, buffer, boundVars, gap,
                   unresolvedGap, unresolvedReconstruction, bridgeVars>>

-----------------------------------------------------------------------------
(* The rest of _attempt_bridge: bootstrap event, buffered events, success *)

Stop == phase' = "idle" /\ replaying' = <<>>
Advance == phase' = "replay" /\ replaying' = Tail(replaying)

Bootstrap ==
    /\ phase = "bootstrap"
    /\ \/ /\ ApplyEvent(Head(replaying))
          /\ Advance
          /\ UNCHANGED <<buffer, pending, boundVars, debtVars>>
       \/ BreakBook(Head(replaying), replaying, FALSE) /\ Stop
    /\ UNCHANGED linkVars

Replay ==
    /\ phase = "replay"
    /\ replaying # <<>>
    /\ LET e == Head(replaying)
       IN  IF ~Decidable(e)
           THEN /\ Advance
                /\ UNCHANGED <<status, bookVars, buffer, pending, boundVars,
                               debtVars>>
           ELSE IF SequenceGap(market, updateId, e)
           THEN BreakBook(e, replaying, TRUE) /\ Stop
           ELSE \/ /\ ApplyEvent(e)
                   /\ Advance
                   /\ UNCHANGED <<buffer, pending, boundVars, debtVars>>
                \/ BreakBook(e, replaying, FALSE) /\ Stop
    /\ UNCHANGED linkVars

BridgeDone ==
    /\ phase = "replay"
    /\ replaying = <<>>
    /\ gap' = FALSE /\ unresolvedGap' = FALSE
    /\ unresolvedReconstruction' = FALSE
    /\ resnapshot' = FALSE
    /\ Stop
    /\ UNCHANGED <<linkVars, status, bookVars, buffer, pending, boundVars>>

Next ==
    \/ \E c \in Connections, at \in Times :
          \/ Connect(c, at)
          \/ DuplicateConnect(c, at)
          \/ \E ownerStop \in BOOLEAN : Leave(c, at, ownerStop)
          \/ MalformedEvent(c, at)
    \/ \E c \in Connections : \E e \in Events(market) :
          LiveEvent(c, e) \/ BufferEvent(c, e)
    \/ \E s \in Snapshots : Snapshot(s) \/ OverflowingSnapshot(s)
    \/ \E started \in Times : MalformedSnapshot(started)
    \/ Bootstrap \/ Replay \/ BridgeDone
    \/ IngestGap

Spec == Init /\ [][Next]_vars

-----------------------------------------------------------------------------
\* Every variable has its type.
TypeOK ==
    /\ market \in {"spot", "futures"}
    /\ connected \in BOOLEAN
    /\ connection \in Connections \cup {NoConnection}
    /\ status \in {"disconnected", "awaiting", "valid", "replay_failed"}
    /\ updateId \in Ids \cup {NoId}
    /\ book \in [Levels -> SUBSET (1..MaxId)]
    /\ kept \in 0..NumLevels
    /\ avail \in 0..MaxTime
    /\ buffer \in Seq(Events(market)) /\ Len(buffer) <= MaxBuffered
    /\ pending \in Snapshots \cup {NoSnapshot}
    /\ minStarted \in 0..MaxTime
    /\ broke \in 0..MaxTime
    /\ usedStart \in 0..MaxTime
    /\ sources \subseteq Times
    /\ resnapshot \in BOOLEAN
    /\ gap \in BOOLEAN
    /\ unresolvedGap \in BOOLEAN
    /\ unresolvedReconstruction \in BOOLEAN
    /\ phase \in {"idle", "bootstrap", "replay"}
    /\ replaying \in Seq(Events(market)) /\ Len(replaying) <= MaxBuffered

\* A valid book is the venue's book: whatever was lost, repeated, reordered
\* or retried, every retained level holds the quantity it had after the
\* update the book says it has reached (_attempt_bridge, _apply_live_event).
ValidIsTrue ==
    status = "valid" =>
        /\ updateId \in Ids
        /\ \A l \in 1..kept : book[l] = Content(l, updateId)

\* A valid book is dated by the latest of the records it was built from: it is
\* never offered as of a time at which part of it had not been received, and
\* the date is one that was observed (_advance_availability).
NoLookAhead ==
    status = "valid" => /\ avail \in sources
                        /\ \A t \in sources : t <= avail

\* The snapshot under a valid book was asked for no earlier than the last
\* connect or break, so a response in flight across a break is never used
\* (_process_snapshot's started check, _invalidate's boundary).
SnapshotAfterBreak == status = "valid" => usedStart >= broke

\* Between two records a connected book is either valid and owes nothing, or
\* it asks for a snapshot and its reconstruction is reported as unresolved,
\* whatever mixture of failed bridges, overflows and refusals came before.
AskedUntilValid ==
    (connected /\ phase = "idle") =>
        IF status = "valid"
        THEN ~resnapshot /\ ~gap /\ ~unresolvedGap /\ ~unresolvedReconstruction
        ELSE resnapshot /\ unresolvedReconstruction

\* An unresolved reconstruction or sequence gap is cleared by a completed
\* bridge and by nothing else: not by a disconnect, an orderly stop, a new
\* connection or another snapshot.
DebtClearedByBridge ==
    [][(unresolvedGap /\ ~unresolvedGap')
         \/ (unresolvedReconstruction /\ ~unresolvedReconstruction')
       => status' = "valid" /\ phase' = "idle"]_vars

-----------------------------------------------------------------------------
(* The inductive invariant of the proofs *)

\* Where the book stands on its connection and inside _attempt_bridge.
Linked ==
    /\ connected <=> status \in {"awaiting", "valid"}
    /\ status = "valid" => pending = NoSnapshot /\ kept \in Levels
    /\ phase = "idle" => replaying = <<>>
    /\ phase # "idle" => status = "valid"
    /\ phase = "bootstrap" =>
          /\ replaying # <<>>
          /\ Accepts(market, updateId, Head(replaying))

\* Whatever a bridge can start from is as fresh as the last break demands.
Fresh ==
    /\ minStarted >= broke
    /\ pending # NoSnapshot => pending.started >= minStarted

\* What is owed while the book is not valid, the bridge in progress included.
Owing ==
    (connected /\ ~(status = "valid" /\ phase = "idle"))
        => resnapshot /\ unresolvedReconstruction

BookInv ==
    /\ TypeOK
    /\ Linked
    /\ ValidIsTrue
    /\ NoLookAhead
    /\ Fresh
    /\ SnapshotAfterBreak
    /\ Owing
    /\ AskedUntilValid
=============================================================================
