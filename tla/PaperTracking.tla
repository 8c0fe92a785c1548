--------------------------- MODULE PaperTracking ---------------------------
(***************************************************************************)
(* The PAPER lifecycle of one market (signals/positions.py) as              *)
(* MarketRuntime._handle_candle drives it, and the restart notices of       *)
(* signals/paper_recovery.py.                                               *)
(*                                                                          *)
(* A confirmed entry is filled at the open of the next primary bar, stopped *)
(* out or scheduled for an exit, and its exit becomes a durable             *)
(* TECHNICAL_EXIT row before the position is forgotten.  The lifecycle      *)
(* itself is in memory only: a restart loses it, and start-up writes one    *)
(* notice per entry of the holding window that has no exit row.             *)
(*                                                                          *)
(* Time is counted in closes of the primary interval; bar b closes at b.    *)
(* Every confirmed entry has its invalidation on the right side of its      *)
(* price; the ones that do not are neither tracked nor noticed.             *)
(***************************************************************************)
EXTENDS Integers, FiniteSets

CONSTANTS
    Symbols,
    TopN,          \* binance.top_n, the bound of the lifecycle too
    MaxHold,       \* technical_exit.max_holding_bars
    Capacity,      \* alerts.outbox_max_active_items
    None,          \* no entry, no position, no state
    LastEntry,     \* bound: last close that confirms an entry
    MaxTime,       \* bound: last close
    MaxStarts      \* bound: successful starts

ASSUME PaperNumbers ==
    /\ TopN \in Nat \ {0} /\ MaxHold \in Nat \ {0} /\ Capacity \in Nat \ {0}
    /\ LastEntry \in Nat /\ MaxTime \in Nat /\ MaxStarts \in Nat
    /\ LastEntry + MaxHold < MaxTime
ASSUME SymbolsFinite == IsFiniteSet(Symbols)

VARIABLES
    mode,        \* "down" or "up"
    now,         \* the latest close
    tradable,
    latest,      \* latest stored primary bar by symbol (CandleStore)
    track,       \* PaperPositionLifecycle._states
    closing,     \* a close between its rule commits and its PAPER transition
    recovering,  \* the bar whose gap awaits REST, by symbol; 0 if none
    entries,     \* durable CONFIRMED rows
    exits,       \* durable TECHNICAL_EXIT rows, notices included
    active,      \* active rows of the outbox
    starts,
    lost         \* auxiliary: entries whose position a stop forgot

vars == <<mode, now, tradable, latest, track, closing, recovering, entries,
          exits, active, starts, lost>>

-----------------------------------------------------------------------------
Directions == {"LONG", "SHORT"}
Entry == [sym : Symbols, t : Nat, dir : Directions]
Position == [entry : Entry, opened : Nat]
Scheduled == {"OPPOSITE_SIGNAL", "TREND_FAILURE", "TIME_EXIT"}
Reasons == Scheduled \cup {"STOP", "DATA_GAP", "tracking_reset"}
ExitRow == [entry : Entry, why : Reasons, t : Nat]

(* _SymbolLifecycle; bar_index is the distance of bars since last_open_time *)
(* only moves by one interval.                                              *)
Track == [last : Nat, pend : Entry \cup {None}, pos : Position \cup {None},
          exit : Scheduled \cup {None}]
ASSUME NoneIsNothing ==
    None \notin Entry \cup Position \cup Scheduled \cup {"STOP"} \cup Track
        \cup [sym : Symbols, bar : Nat, new : SUBSET Entry]

Fresh(b) == [last |-> b, pend |-> None, pos |-> None, exit |-> None]

Exited(e) == \E x \in exits : x.entry = e
Tracked == {s \in Symbols : track[s] # None}

(* continuation_symbols: the symbols rotation has to keep. *)
ContinuationSymbols ==
    {s \in Tracked : track[s].pos # None \/ track[s].pend # None \/ track[s].exit # None}

LifecycleTypes ==
    /\ mode \in {"down", "up"}
    /\ now \in Nat \ {0}
    /\ latest \in [Symbols -> Nat]
    /\ track \in [Symbols -> Track \cup {None}]
    /\ closing \in [sym : Symbols, bar : Nat, new : SUBSET Entry] \cup {None}
    /\ recovering \in [Symbols -> Nat]
    /\ entries \subseteq Entry
    /\ exits \subseteq ExitRow

TypeOK ==
    /\ LifecycleTypes
    /\ tradable \subseteq Symbols
    /\ active \in 0 .. Capacity
    /\ starts \in Nat
    /\ lost \subseteq Entry

Init ==
    /\ mode = "down"
    /\ now = 1
    /\ tradable = {}
    /\ latest = [s \in Symbols |-> 0]
    /\ track = [s \in Symbols |-> None]
    /\ closing = None
    /\ recovering = [s \in Symbols |-> 0]
    /\ entries = {} /\ exits = {}
    /\ active = 0
    /\ starts = 0
    /\ lost = {}

-----------------------------------------------------------------------------
(* The price of one closed candle against the active stop: beyond it at the *)
(* open, touching it in the bar, or neither.                                *)
Prices == {"stop_open", "stop_bar", "calm"}

(* _advance_existing_position: why the position ends in this bar, if so. *)
AdvanceExit(tr, price) ==
    IF tr.pos = None THEN None
    ELSE IF price = "stop_open" THEN "STOP"
    ELSE IF tr.exit # None THEN tr.exit
    ELSE IF price = "stop_bar" THEN "STOP" ELSE None

(* reset_for_gap: the exit rows of a symbol whose state is thrown away. *)
GapRows(tr, b) ==
    IF tr = None \/ tr.pos = None THEN {}
    ELSE {[entry |-> tr.pos.entry, why |-> "DATA_GAP", t |-> b]}

(* Slip: the time limit is tested with > instead of >=. *)
AfterCloseLate(pos, b, new, fails) ==
    IF \E e \in new : e.dir # pos.entry.dir THEN "OPPOSITE_SIGNAL"
    ELSE IF fails THEN "TREND_FAILURE"
    ELSE IF b - pos.opened + 1 > MaxHold THEN "TIME_EXIT" ELSE None

(* after_close: the exit scheduled for the next open. *)
AfterClose(pos, b, new, fails) ==
    IF \E e \in new : e.dir # pos.entry.dir THEN "OPPOSITE_SIGNAL"
    ELSE IF fails THEN "TREND_FAILURE"
    ELSE IF b - pos.opened + 1 >= MaxHold THEN "TIME_EXIT" ELSE None

(* Slip: a missed bar ends the position and keeps the pending entry. *)
ContiguousKeepsPending(tr, b) ==
    IF tr = None THEN Fresh(b)
    ELSE IF tr.last + 1 = b THEN tr
    ELSE [Fresh(b) EXCEPT !.pend = tr.pend]

(* on_closed_candle starts over when the lifecycle missed a bar. *)
Contiguous(tr, b) == IF tr # None /\ tr.last + 1 = b THEN tr ELSE Fresh(b)

(* The position after the open of bar b: the surviving one, or the pending  *)
(* entry unless the bar opens beyond its stop.                              *)
PositionAtOpen(tr, b, price) ==
    IF tr.pos # None THEN IF AdvanceExit(tr, price) = None THEN tr.pos ELSE None
    ELSE IF tr.pend = None \/ price = "stop_open" THEN None
    ELSE [entry |-> tr.pend, opened |-> b]

(* on_closed_candle: the exit rows of bar b ... *)
CloseRows(tr, b, price) ==
    LET c == Contiguous(tr, b)
        opened == PositionAtOpen(c, b, price)
    IN  (IF tr = None \/ tr.last + 1 = b THEN {} ELSE GapRows(tr, b)) \cup
        (IF AdvanceExit(c, price) # None
         THEN {[entry |-> c.pos.entry, why |-> AdvanceExit(c, price), t |-> b]} ELSE {}) \cup
        (IF c.pos = None /\ opened # None /\ price = "stop_bar"
         THEN {[entry |-> opened.entry, why |-> "STOP", t |-> b]} ELSE {})

(* ... and the state it leaves, pend being the best of the new entries.     *)
CloseTrack(tr, b, price, new, fails, pend) ==
    LET c == Contiguous(tr, b)
        opened == PositionAtOpen(c, b, price)
        pos == IF c.pos = None /\ price = "stop_bar" THEN None ELSE opened
    IN  [last |-> b,
         pend |-> IF pos = None THEN pend ELSE None,
         pos |-> pos,
         exit |-> IF pos = None THEN None ELSE AfterClose(pos, b, new, fails)]

-----------------------------------------------------------------------------
(* _handle_candle, up to the commits of the rule decisions: the candle is   *)
(* stored and the newly confirmed entries are durable.                      *)
RulesCommit(s, b, new) ==
    /\ new \subseteq ([sym : {s}, t : {b}, dir : Directions] \ entries)
    /\ new # {} => b <= LastEntry
    /\ active + Cardinality(new) <= Capacity
    /\ latest' = [latest EXCEPT ![s] = b]
    /\ entries' = entries \cup new
    /\ active' = active + Cardinality(new)
    /\ closing' = [sym |-> s, bar |-> b, new |-> new]

Handles(s) == mode = "up" /\ closing = None /\ s \in tradable /\ recovering[s] = 0

(* The next bar in sequence, with a feature ... *)
HandleCandle(s, new) ==
    /\ Handles(s) /\ latest[s] + 1 <= now
    /\ RulesCommit(s, latest[s] + 1, new)
    /\ UNCHANGED <<mode, now, tradable, track, recovering, exits, starts, lost>>

(* ... or without one: the lifecycle does not see this bar. *)
HandleWithoutFeature(s) ==
    /\ Handles(s) /\ latest[s] + 1 <= now
    /\ latest' = [latest EXCEPT ![s] = @ + 1]
    /\ UNCHANGED <<mode, now, tradable, track, closing, recovering, entries,
                   exits, active, starts, lost>>

(* _handle_candle after a gap: reset_for_gap, its exit made durable, and    *)
(* then the REST recovery is awaited.                                       *)
HandleGap(s, b) ==
    LET rows == GapRows(track[s], b) IN
    /\ Handles(s) /\ latest[s] + 1 < b /\ b <= now
    /\ active + Cardinality(rows) <= Capacity
    /\ exits' = exits \cup rows
    /\ active' = active + Cardinality(rows)
    /\ track' = [track EXCEPT ![s] = None]
    /\ recovering' = [recovering EXCEPT ![s] = b]
    /\ UNCHANGED <<mode, now, tradable, latest, closing, entries, starts, lost>>

(* _recover_gap returned the missing bars: they are stored, and the candle  *)
(* that found the gap is handled.                                           *)
GapRecovered(s, new) ==
    /\ mode = "up" /\ closing = None /\ recovering[s] # 0
    /\ RulesCommit(s, recovering[s], new)
    /\ recovering' = [recovering EXCEPT ![s] = 0]
    /\ UNCHANGED <<mode, now, tradable, track, exits, starts, lost>>

(* ... or has no feature, and ends there. *)
GapRecoveredWithoutFeature(s) ==
    /\ mode = "up" /\ closing = None /\ recovering[s] # 0
    /\ latest' = [latest EXCEPT ![s] = recovering[s]]
    /\ recovering' = [recovering EXCEPT ![s] = 0]
    /\ UNCHANGED <<mode, now, tradable, track, closing, entries, exits, active,
                   starts, lost>>

(* _recover_gap failed, at once or after storing the missing bars up to b:  *)
(* the candle that found the gap is not stored.                             *)
GapUnrecovered(s, b) ==
    /\ mode = "up" /\ closing = None /\ recovering[s] # 0
    /\ latest' = [latest EXCEPT ![s] = b]
    /\ recovering' = [recovering EXCEPT ![s] = 0]
    /\ UNCHANGED <<mode, now, tradable, track, closing, entries, exits, active,
                   starts, lost>>

(* The PAPER half of the close: on_closed_candle and                        *)
(* _publish_paper_transition.                                               *)
PaperTransition(price, fails, pend) ==
    LET s == closing.sym
        b == closing.bar
        rows == CloseRows(track[s], b, price)
    IN
    /\ closing # None
    /\ pend \in IF closing.new = {} THEN {None} ELSE closing.new
    /\ active + Cardinality(rows) <= Capacity
    /\ track' = [track EXCEPT ![s] =
                    CloseTrack(@, b, price, closing.new, fails, pend)]
    /\ exits' = exits \cup rows
    /\ active' = active + Cardinality(rows)
    /\ closing' = None
    /\ UNCHANGED <<mode, now, tradable, latest, recovering, entries, starts, lost>>

(* Slip: rotation does not look at the PAPER state. *)
RotatableAlways(tr) == TRUE
(* _poll_universe_candidate defers a rotation that would drop PAPER state. *)
Rotatable(tr) == ContinuationSymbols \cap (tradable \ tr) = {}

(* Slip: rotation does not prune the lifecycle. *)
RotateNoPrune(tr, boot) ==
    /\ mode = "up" /\ closing = None
    /\ tr # {} /\ tr # tradable /\ Cardinality(tr) <= TopN
    /\ Rotatable(tr)
    /\ tradable' = tr
    /\ latest' = [s \in Symbols |->
          IF s \in tradable \cap tr THEN latest[s] ELSE IF s \in tr THEN boot ELSE 0]
    /\ recovering' = [s \in Symbols |-> 0]
    /\ UNCHANGED <<mode, now, track, closing, entries, exits, active, starts, lost>>

(* A confirmed rotation: the stream tasks are cancelled (an awaited gap     *)
(* recovery with them), stale state is pruned and new symbols bootstrapped, *)
(* up to the latest close or one before it.                                 *)
Rotate(tr, boot) ==
    /\ mode = "up" /\ closing = None
    /\ tr # {} /\ tr # tradable /\ Cardinality(tr) <= TopN
    /\ Rotatable(tr)
    /\ tradable' = tr
    /\ track' = [s \in Symbols |-> IF s \in tr THEN track[s] ELSE None]
    /\ latest' = [s \in Symbols |->
          IF s \in tradable \cap tr THEN latest[s] ELSE IF s \in tr THEN boot ELSE 0]
    /\ recovering' = [s \in Symbols |-> 0]
    /\ UNCHANGED <<mode, now, closing, entries, exits, active, starts, lost>>

-----------------------------------------------------------------------------
(* Slips: entries that have an exit are not left out; the holding window is *)
(* not applied.                                                             *)
PendingTrackingResetsAll(since) == {e \in entries : e.t >= since}
PendingTrackingResetsEver(since) == {e \in entries : ~Exited(e)}

(* pending_tracking_resets *)
PendingTrackingResets(since) == {e \in entries : e.t >= since /\ ~Exited(e)}

(* A start happens between two closes, so the window holds MaxHold closes,  *)
(* or one more if it happens at a close.                                    *)
Windows == {now - MaxHold, now - MaxHold + 1}

Notices(es) == {[entry |-> e, why |-> "tracking_reset", t |-> now] : e \in es}

(* Start-up: emit_tracking_reset_notices, then prepare. *)
Start(since, tr, boot) ==
    LET es == PendingTrackingResets(since) IN
    /\ mode = "down" /\ starts < MaxStarts
    /\ active + Cardinality(es) <= Capacity
    /\ tr # {} /\ Cardinality(tr) <= TopN
    /\ exits' = exits \cup Notices(es)
    /\ active' = active + Cardinality(es)
    /\ mode' = "up"
    /\ tradable' = tr
    /\ latest' = [s \in Symbols |-> IF s \in tr THEN boot ELSE 0]
    /\ starts' = starts + 1
    /\ UNCHANGED <<now, track, closing, recovering, entries, lost>>

(* Start-up raises OutboxCapacityError: the newest notices that still fit   *)
(* are durable, and the process ends before anything drains the outbox.     *)
StartAborts(since, es) ==
    LET all == PendingTrackingResets(since) IN
    /\ mode = "down" /\ starts < MaxStarts
    /\ active + Cardinality(all) > Capacity
    /\ es \subseteq all /\ active + Cardinality(es) = Capacity
    /\ \A e \in es, f \in all \ es : e.t >= f.t
    /\ exits' = exits \cup Notices(es)
    /\ active' = Capacity
    /\ UNCHANGED <<mode, now, tradable, latest, track, closing, recovering,
                   entries, starts, lost>>

(* The process ends: killed, stopped, or failed closed because a row could  *)
(* not be made durable.  Everything in memory is gone.                      *)
Stop ==
    /\ mode = "up"
    /\ mode' = "down"
    /\ tradable' = {}
    /\ latest' = [s \in Symbols |-> 0]
    /\ track' = [s \in Symbols |-> None]
    /\ closing' = None
    /\ recovering' = [s \in Symbols |-> 0]
    /\ lost' = lost \cup {track[s].pos.entry : s \in {u \in Tracked : track[u].pos # None}}
    /\ UNCHANGED <<now, entries, exits, active, starts>>

(* The drain settles an active row; another alert takes one. *)
Drain ==
    /\ mode = "up" /\ closing = None /\ active > 0
    /\ active' = active - 1
    /\ UNCHANGED <<mode, now, tradable, latest, track, closing, recovering,
                   entries, exits, starts, lost>>
OtherAlert ==
    /\ mode = "up" /\ closing = None /\ active < Capacity
    /\ active' = active + 1
    /\ UNCHANGED <<mode, now, tradable, latest, track, closing, recovering,
                   entries, exits, starts, lost>>

Tick ==
    /\ closing = None /\ now < MaxTime
    /\ now' = now + 1
    /\ UNCHANGED <<mode, tradable, latest, track, closing, recovering, entries,
                   exits, active, starts, lost>>

StartUp ==
    \/ \E since \in Windows, tr \in SUBSET Symbols, boot \in {now, now - 1} :
          Start(since, tr, boot)
    \/ \E since \in Windows, es \in SUBSET entries : StartAborts(since, es)

Candle(s) ==
    \/ \E new \in SUBSET [sym : {s}, t : {latest[s] + 1}, dir : Directions] :
          HandleCandle(s, new)
    \/ HandleWithoutFeature(s)
    \/ \E b \in 1 .. now : HandleGap(s, b)
    \/ \E new \in SUBSET [sym : {s}, t : {recovering[s]}, dir : Directions] :
          GapRecovered(s, new)
    \/ GapRecoveredWithoutFeature(s)
    \/ \E b \in latest[s] .. recovering[s] - 1 : GapUnrecovered(s, b)

Next ==
    \/ StartUp \/ Stop \/ Drain \/ OtherAlert \/ Tick
    \/ \E s \in Symbols : Candle(s)
    \/ \E price \in Prices, fails \in BOOLEAN, pend \in entries \cup {None} :
          PaperTransition(price, fails, pend)
    \/ \E tr \in SUBSET Symbols, boot \in {now, now - 1} : Rotate(tr, boot)

Spec == Init /\ [][Next]_vars

(* The container restarts a process that ended, and time passes. *)
FairSpec == Spec /\ WF_vars(StartUp) /\ WF_vars(Tick)

-----------------------------------------------------------------------------
(* Properties. *)

(* One outcome per entry: whatever crashes, gaps and restarts happen, an    *)
(* entry gets at most one exit row, and no exit follows the notice that     *)
(* says no further exit alerts will be sent.                                *)
OneOutcome == \A x, y \in exits : x.entry = y.entry => x = y

(* No look-ahead and no stale fill: an entry waits only for the bar that    *)
(* follows its signal and is filled at that bar's open, or never.           *)
NextBarOnly ==
    \A s \in Tracked :
        /\ track[s].pend # None => track[s].pend.t = track[s].last
        /\ track[s].pos # None => track[s].pos.opened = track[s].pos.entry.t + 1

(* A position is held for at most max_holding_bars closed bars, and at the  *)
(* limit its exit is scheduled for the next open.                           *)
HoldingBounded ==
    \A s \in Tracked : track[s].pos # None =>
        LET held == track[s].last - track[s].pos.opened + 1 IN
        held <= MaxHold /\ (held = MaxHold => track[s].exit # None)

(* The inductive invariant behind the three: what is tracked has no outcome *)
(* yet, belongs to its symbol, and is where its bars say it must be.        *)
OpenFor(s, e) == e \in entries /\ e.sym = s /\ ~Exited(e)
TrackSound(s) ==
    /\ track[s].pend # None => OpenFor(s, track[s].pend) /\ track[s].pend.t = track[s].last
    /\ track[s].pos # None =>
          /\ OpenFor(s, track[s].pos.entry)
          /\ track[s].pos.opened = track[s].pos.entry.t + 1
          /\ track[s].last - track[s].pos.opened + 1 <= MaxHold
          /\ track[s].last - track[s].pos.opened + 1 = MaxHold => track[s].exit # None
ClosingSound ==
    closing # None =>
        /\ mode = "up"
        /\ \A e \in closing.new : OpenFor(closing.sym, e) /\ e.t = closing.bar
        /\ track[closing.sym] # None =>
              /\ track[closing.sym].pend \notin closing.new
              /\ track[closing.sym].pos # None =>
                    track[closing.sym].pos.entry \notin closing.new
PaperInv ==
    /\ LifecycleTypes
    /\ OneOutcome /\ \A x \in exits : x.entry \in entries
    /\ \A s \in Tracked : TrackSound(s)
    /\ mode = "down" => Tracked = {}
    /\ ClosingSound

(* The lifecycle's symbol bound is never what fails: it only tracks         *)
(* tradable symbols, of which there are at most top_n.                      *)
BoundNeverRaises == Tracked \subseteq tradable /\ Cardinality(Tracked) <= TopN

(* The inductive invariant behind it: whatever a symbol still has to do,    *)
(* it is tradable, and a stopped process has nothing left to do.            *)
WithinUniverse ==
    /\ tradable \subseteq Symbols /\ Cardinality(tradable) <= TopN
    /\ Tracked \subseteq tradable
    /\ closing # None => closing.sym \in tradable
    /\ \A s \in Symbols : recovering[s] # 0 => s \in tradable
    /\ mode = "down" => \A s \in Symbols : recovering[s] = 0

(* A running process gives up a position only together with its durable     *)
(* exit row; rotation and gaps included.                                    *)
NoSilentExit ==
    [][\A s \in Symbols :
          /\ mode' = "up" /\ track[s] # None /\ track[s].pos # None
          /\ track'[s] = None \/ track'[s].pos # track[s].pos
          => \E x \in exits' : x.entry = track[s].pos.entry]_vars

(* A start that the full outbox aborts is retried until it succeeds: the    *)
(* entries that need a notice leave the holding window.                     *)
StartupRecovers == (mode = "down" /\ starts < MaxStarts) ~> (mode = "up")

(* The operator is told once per entry whose open position a restart lost.  *)
OrphansNoticed == mode = "up" => \A e \in lost : Exited(e)

=============================================================================
