------------------------ MODULE PaperTrackingProofs ------------------------
(* Proofs about PaperTracking, for any symbols, limits and bounds. *)
EXTENDS PaperTracking, FiniteSetTheorems, TLAPS

(* Before the first start nothing is tracked and nothing is durable. *)
LEMMA PaperInitially == Init => PaperInv
BY NoneIsNothing
DEF Init, PaperInv, LifecycleTypes, OneOutcome, Tracked, ClosingSound

(* Exit rows for entries without an outcome, one row each, leave every      *)
(* entry with one outcome (save_signal_and_enqueue).                        *)
LEMMA RowsOfOpenEntries ==
    ASSUME OneOutcome, NEW rows,
           exits' = exits \cup rows,
           \A x \in rows : ~Exited(x.entry),
           \A x, y \in rows : x.entry = y.entry => x = y
    PROVE  OneOutcome'
BY DEF OneOutcome, Exited

(* Steps that touch neither the lifecycle nor the durable rows. *)
LEMMA QuietStep ==
    ASSUME PaperInv, LifecycleTypes', UNCHANGED <<mode, track, closing, entries, exits>>
    PROVE  PaperInv'
BY DEF PaperInv, OneOutcome, Tracked, TrackSound, OpenFor, Exited, ClosingSound

(* The commits of the rule decisions (_process): the new entries are open,  *)
(* and none of them is tracked yet.                                         *)
LEMMA RulesCommitted ==
    ASSUME PaperInv, NEW s \in Symbols, NEW b \in Nat, NEW new,
           RulesCommit(s, b, new), mode = "up", closing = None,
           UNCHANGED <<mode, now, track, exits>>, recovering' \in [Symbols -> Nat]
    PROVE  PaperInv'
<1> USE DEF PaperInv
<1>1. new \subseteq Entry /\ \A e \in new : e.sym = s /\ e.t = b /\ e \notin entries
  BY DEF RulesCommit, Entry
<1>2. LifecycleTypes'
  BY <1>1 DEF RulesCommit, LifecycleTypes
<1>3. \A e \in new : ~Exited(e)
  BY <1>1 DEF Exited
<1>4. Exited(None)' = Exited(None) /\ \A e : Exited(e)' <=> Exited(e)
  BY DEF Exited
<1>5. OneOutcome' /\ \A x \in exits' : x.entry \in entries'
  BY DEF OneOutcome, RulesCommit
<1>6. Tracked' = Tracked BY DEF Tracked
<1>7. \A u \in Tracked : TrackSound(u)'
  BY <1>4 DEF TrackSound, OpenFor, RulesCommit
<1>8. closing' = [sym |-> s, bar |-> b, new |-> new] BY DEF RulesCommit
<1>9. \A e \in new : OpenFor(s, e)'
  BY <1>1, <1>3, <1>4 DEF OpenFor, RulesCommit
<1>10. track[s] # None => /\ track[s].pend \notin new
                          /\ track[s].pos # None => track[s].pos.entry \notin new
  <2> SUFFICES ASSUME track[s] # None
               PROVE  /\ track[s].pend \notin new
                      /\ track[s].pos # None => track[s].pos.entry \notin new
    OBVIOUS
  <2>1. TrackSound(s) BY DEF Tracked
  <2>2. None \notin new BY <1>1, NoneIsNothing
  <2> QED BY <1>1, <2>1, <2>2 DEF TrackSound, OpenFor
<1>11. ClosingSound'
  BY <1>1, <1>8, <1>9, <1>10 DEF ClosingSound
<1> QED BY <1>2, <1>5, <1>6, <1>7, <1>11

(* An open entry stays open when rows are added for other entries. *)
LEMMA StillOpen ==
    ASSUME NEW s, NEW e, OpenFor(s, e), NEW rows,
           entries' = entries, exits' = exits \cup rows,
           \A x \in rows : x.entry # e
    PROVE  OpenFor(s, e)'
BY DEF OpenFor, Exited

(* The state of a symbol stays sound when rows are added for other entries. *)
LEMMA TrackStaysSound ==
    ASSUME NEW s, TrackSound(s), NEW rows,
           entries' = entries, exits' = exits \cup rows, track'[s] = track[s],
           \A x \in rows : x.entry.sym # s
    PROVE  TrackSound(s)'
<1>1. \A e : OpenFor(s, e) => OpenFor(s, e)'
  BY DEF OpenFor, Exited
<1> QED BY <1>1 DEF TrackSound

(* reset_for_gap and its durable exit (HandleGap). *)
LEMMA GapHandled ==
    ASSUME PaperInv, NEW s \in Symbols, NEW b \in Nat, HandleGap(s, b)
    PROVE  PaperInv'
<1> DEFINE rows == GapRows(track[s], b)
<1> USE DEF PaperInv
<1>1. /\ exits' = exits \cup rows /\ entries' = entries
      /\ track' = [track EXCEPT ![s] = None]
      /\ mode' = mode /\ closing = None /\ closing' = None /\ mode = "up"
  BY DEF HandleGap, Handles
<1>2. \A x \in rows : /\ track[s] # None /\ track[s].pos # None
                      /\ x = [entry |-> track[s].pos.entry, why |-> "DATA_GAP", t |-> b]
  BY DEF GapRows
<1>3. \A x \in rows : OpenFor(s, x.entry)
  BY <1>2 DEF TrackSound, Tracked
<1>4. \A x \in rows : x \in ExitRow
  BY <1>2, <1>3 DEF OpenFor, LifecycleTypes, ExitRow, Reasons
<1>5. LifecycleTypes'
  BY <1>1, <1>4 DEF HandleGap, LifecycleTypes
<1>6. OneOutcome'
  <2>1. \A x \in rows : ~Exited(x.entry) BY <1>3 DEF OpenFor
  <2>2. \A x, y \in rows : x.entry = y.entry => x = y BY <1>2
  <2> QED BY <1>1, <2>1, <2>2, RowsOfOpenEntries
<1>7. \A x \in exits' : x.entry \in entries'
  BY <1>1, <1>3 DEF OpenFor
<1>8. \A u \in Tracked' : TrackSound(u)'
  <2> SUFFICES ASSUME NEW u \in Tracked' PROVE TrackSound(u)'
    OBVIOUS
  <2>1. u \in Symbols /\ u # s /\ track'[u] = track[u] /\ u \in Tracked
    BY <1>1 DEF Tracked, LifecycleTypes
  <2>2. \A x \in rows : x.entry.sym # u BY <1>3, <2>1 DEF OpenFor
  <2>3. TrackSound(u) BY <2>1
  <2> QED BY <1>1, <2>1, <2>2, <2>3, TrackStaysSound
<1>9. ClosingSound' BY <1>1 DEF ClosingSound
<1> QED BY <1>1, <1>5, <1>6, <1>7, <1>8, <1>9

(* A rotation only forgets symbols (prune_symbols). *)
LEMMA Rotated ==
    ASSUME PaperInv, NEW tr \in SUBSET Symbols, NEW boot \in {now, now - 1},
           Rotate(tr, boot)
    PROVE  PaperInv'
<1> USE DEF PaperInv
<1>1. /\ exits' = exits /\ entries' = entries
      /\ track' = [s \in Symbols |-> IF s \in tr THEN track[s] ELSE None]
      /\ mode' = mode /\ closing = None /\ closing' = None /\ mode = "up"
  BY DEF Rotate
<1>2. LifecycleTypes'
  <2>1. boot \in Nat BY DEF LifecycleTypes
  <2> QED BY <1>1, <2>1 DEF Rotate, LifecycleTypes
<1>3. OneOutcome' /\ \A x \in exits' : x.entry \in entries'
  BY <1>1 DEF OneOutcome
<1>4. \A u \in Tracked' : TrackSound(u)'
  <2> SUFFICES ASSUME NEW u \in Tracked' PROVE TrackSound(u)'
    OBVIOUS
  <2>1. u \in Symbols /\ track'[u] = track[u] /\ u \in Tracked
    BY <1>1 DEF Tracked
  <2>2. exits' = exits \cup {} BY <1>1
  <2> QED BY <1>1, <2>1, <2>2, TrackStaysSound
<1>5. ClosingSound' BY <1>1 DEF ClosingSound
<1> QED BY <1>1, <1>2, <1>3, <1>4, <1>5

(* A start adds notices for open entries while nothing is tracked           *)
(* (emit_tracking_reset_notices, complete or aborted).                      *)
LEMMA NoticesAdded ==
    ASSUME PaperInv, NEW since, NEW es, es \subseteq PendingTrackingResets(since),
           mode = "down", exits' = exits \cup Notices(es),
           UNCHANGED <<now, track, closing, entries, recovering>>,
           mode' \in {"down", "up"}, latest' \in [Symbols -> Nat]
    PROVE  PaperInv'
<1> USE DEF PaperInv
<1>1. Tracked = {} /\ Tracked' = {} BY DEF Tracked
<1>2. closing = None /\ closing' = None BY DEF ClosingSound
<1>3. \A x \in Notices(es) : /\ x = [entry |-> x.entry, why |-> "tracking_reset", t |-> now]
                             /\ x.entry \in entries /\ ~Exited(x.entry)
  BY DEF Notices, PendingTrackingResets
<1>4. \A x \in Notices(es) : x \in ExitRow
  BY <1>3 DEF ExitRow, Reasons, LifecycleTypes
<1>5. LifecycleTypes' BY <1>4 DEF LifecycleTypes
<1>6. \A x, y \in Notices(es) : x.entry = y.entry => x = y
  BY DEF Notices
<1>7. OneOutcome' BY <1>3, <1>6, RowsOfOpenEntries
<1> QED BY <1>1, <1>2, <1>3, <1>5, <1>7 DEF ClosingSound

(* A stop forgets everything in memory and leaves the rows alone. *)
LEMMA Stopped ==
    ASSUME PaperInv, Stop PROVE PaperInv'
BY DEF Stop, PaperInv, LifecycleTypes, OneOutcome, Tracked, ClosingSound

(* The bar of a close, against the state it finds: either the next bar of a *)
(* tracked symbol or a fresh start.                                         *)
LEMMA ContiguousCases ==
    ASSUME NEW tr, NEW b
    PROVE  \/ tr # None /\ tr.last + 1 = b /\ Contiguous(tr, b) = tr
           \/ (tr = None \/ tr.last + 1 # b) /\ Contiguous(tr, b) = Fresh(b)
BY DEF Contiguous

(* _publish_paper_transition adds at most one exit row, for the position or *)
(* for the pending entry that opened in this bar.                           *)
LEMMA CloseRowsCases ==
    ASSUME NEW tr \in Track \cup {None}, NEW b \in Nat, NEW price \in Prices
    PROVE  \/ CloseRows(tr, b, price) = {}
           \/ \E why \in Reasons :
                /\ tr # None /\ tr.pos # None
                /\ CloseRows(tr, b, price) = {[entry |-> tr.pos.entry, why |-> why, t |-> b]}
                /\ tr.last + 1 = b => AdvanceExit(tr, price) # None
           \/ /\ tr # None /\ tr.pos = None /\ tr.pend # None /\ price = "stop_bar"
              /\ tr.last + 1 = b
              /\ CloseRows(tr, b, price) = {[entry |-> tr.pend, why |-> "STOP", t |-> b]}
<1>1. CASE tr = None
  <2>1. Contiguous(tr, b) = Fresh(b) BY <1>1 DEF Contiguous
  <2>2. AdvanceExit(Fresh(b), price) = None BY DEF AdvanceExit, Fresh
  <2>3. PositionAtOpen(Fresh(b), b, price) = None BY DEF PositionAtOpen, Fresh
  <2> QED BY <1>1, <2>1, <2>2, <2>3 DEF CloseRows
<1>2. CASE tr # None /\ tr.last + 1 # b
  <2>1. Contiguous(tr, b) = Fresh(b) BY <1>2 DEF Contiguous
  <2>2. AdvanceExit(Fresh(b), price) = None BY DEF AdvanceExit, Fresh
  <2>3. PositionAtOpen(Fresh(b), b, price) = None BY DEF PositionAtOpen, Fresh
  <2>4. CloseRows(tr, b, price) = GapRows(tr, b)
    BY <1>2, <2>1, <2>2, <2>3 DEF CloseRows
  <2> QED BY <1>2, <2>4 DEF GapRows, Reasons
<1>3. CASE tr # None /\ tr.last + 1 = b
  <2>1. Contiguous(tr, b) = tr BY <1>3 DEF Contiguous
  <2>2. CASE tr.pos # None /\ AdvanceExit(tr, price) # None
    <3>1. AdvanceExit(tr, price) \in Reasons
      BY <1>3, <2>2 DEF AdvanceExit, Track, Reasons
    <3>2. CloseRows(tr, b, price) =
             {[entry |-> tr.pos.entry, why |-> AdvanceExit(tr, price), t |-> b]}
      BY <1>3, <2>1, <2>2 DEF CloseRows
    <3> QED BY <1>3, <2>2, <3>1, <3>2
  <2>3. CASE tr.pos # None /\ AdvanceExit(tr, price) = None
    BY <1>3, <2>1, <2>3 DEF CloseRows
  <2>4. CASE tr.pos = None
    <3>1. AdvanceExit(tr, price) = None BY <2>4 DEF AdvanceExit
    <3>2. CASE tr.pend # None /\ price = "stop_bar"
      <4>1. PositionAtOpen(tr, b, price) = [entry |-> tr.pend, opened |-> b]
        BY <2>4, <3>2 DEF PositionAtOpen
      <4>2. tr.pend \in Entry BY <1>3, <3>2 DEF Track
      <4>3. [entry |-> tr.pend, opened |-> b] # None
        BY <4>2, NoneIsNothing DEF Position
      <4> QED BY <1>3, <2>1, <2>4, <3>1, <3>2, <4>1, <4>3 DEF CloseRows
    <3>3. CASE ~(tr.pend # None /\ price = "stop_bar")
      <4>1. PositionAtOpen(tr, b, price) = None \/ price # "stop_bar"
        BY <2>4, <3>3 DEF PositionAtOpen
      <4> QED BY <1>3, <2>1, <2>4, <3>1, <4>1 DEF CloseRows
    <3> QED BY <3>2, <3>3
  <2> QED BY <2>2, <2>3, <2>4
<1> QED BY <1>1, <1>2, <1>3

(* The position a close leaves behind: the one it found, a bar older and    *)
(* without a reason to end, or the pending entry opened at this bar.        *)
LEMMA PositionCases ==
    ASSUME NEW tr \in Track \cup {None}, NEW b \in Nat, NEW price \in Prices,
           NEW new, NEW fails, NEW pend,
           CloseTrack(tr, b, price, new, fails, pend).pos # None
    PROVE  /\ tr # None /\ tr.last + 1 = b
           /\ \/ /\ tr.pos # None /\ AdvanceExit(tr, price) = None
                 /\ CloseTrack(tr, b, price, new, fails, pend).pos = tr.pos
              \/ /\ tr.pos = None /\ tr.pend # None /\ price # "stop_bar"
                 /\ CloseTrack(tr, b, price, new, fails, pend).pos =
                       [entry |-> tr.pend, opened |-> b]
<1>1. PositionAtOpen(Contiguous(tr, b), b, price) # None
      /\ CloseTrack(tr, b, price, new, fails, pend).pos = PositionAtOpen(Contiguous(tr, b), b, price)
      /\ ~(Contiguous(tr, b).pos = None /\ price = "stop_bar")
  BY DEF CloseTrack
<1>2. Contiguous(tr, b) # Fresh(b)
  BY <1>1 DEF PositionAtOpen, Fresh
<1>3. tr # None /\ tr.last + 1 = b /\ Contiguous(tr, b) = tr
  BY <1>2, ContiguousCases
<1>4. PositionAtOpen(tr, b, price) # None
      /\ CloseTrack(tr, b, price, new, fails, pend).pos = PositionAtOpen(tr, b, price)
      /\ ~(tr.pos = None /\ price = "stop_bar")
  BY <1>1, <1>3
<1>5. CASE tr.pos # None BY <1>3, <1>4, <1>5 DEF PositionAtOpen
<1>6. CASE tr.pos = None BY <1>3, <1>4, <1>6 DEF PositionAtOpen
<1> QED BY <1>5, <1>6

(* A close leaves a well-formed state. *)
LEMMA CloseTrackType ==
    ASSUME NEW tr \in Track \cup {None}, NEW b \in Nat, NEW price \in Prices,
           NEW new \in SUBSET Entry, NEW fails \in BOOLEAN, NEW pend \in Entry \cup {None}
    PROVE  CloseTrack(tr, b, price, new, fails, pend) \in Track
<1> DEFINE t == CloseTrack(tr, b, price, new, fails, pend)
<1>1. t.pos \in Position \cup {None}
  <2>1. CASE t.pos # None
    <3>1. /\ tr # None
          /\ \/ tr.pos # None /\ t.pos = tr.pos
             \/ tr.pend # None /\ t.pos = [entry |-> tr.pend, opened |-> b]
      BY <2>1, PositionCases
    <3>2. tr.pos \in Position \cup {None} /\ tr.pend \in Entry \cup {None}
      BY <3>1 DEF Track
    <3> QED BY <3>1, <3>2 DEF Position
  <2> QED BY <2>1
<1>2. /\ t.pend \in Entry \cup {None}
      /\ t.exit \in Scheduled \cup {None}
      /\ t = [last |-> b, pend |-> t.pend, pos |-> t.pos, exit |-> t.exit]
  BY DEF CloseTrack, AfterClose, Scheduled
<1> HIDE DEF t
<1>3. t \in Track BY <1>1, <1>2 DEF Track
<1> QED BY <1>3 DEF t

(* after_close schedules an exit for a position at the holding limit. *)
LEMMA LimitSchedulesExit ==
    ASSUME NEW pos, NEW b \in Nat, NEW new, NEW fails, pos.opened \in Nat,
           b - pos.opened + 1 = MaxHold
    PROVE  AfterClose(pos, b, new, fails) # None
<1>1. "OPPOSITE_SIGNAL" # None /\ "TREND_FAILURE" # None /\ "TIME_EXIT" # None
  BY NoneIsNothing DEF Scheduled
<1>2. MaxHold \in Nat /\ b - pos.opened + 1 >= MaxHold BY PaperNumbers
<1> QED BY <1>1, <1>2 DEF AfterClose

(* The rows of a close belong to what its symbol tracked, which had no      *)
(* outcome and is none of the entries confirmed in this bar.                *)
LEMMA CloseRowsOpen ==
    ASSUME PaperInv, closing # None, NEW price \in Prices,
           NEW sy, sy = closing.sym, NEW b, b = closing.bar,
           NEW tr, tr = track[sy],
           NEW rows, rows = CloseRows(tr, b, price), NEW x \in rows
    PROVE  /\ OpenFor(sy, x.entry) /\ x.entry \notin closing.new
           /\ x \in ExitRow
           /\ \A y \in rows : x = y
<1>1. sy \in Symbols /\ b \in Nat /\ tr \in Track \cup {None}
  BY DEF PaperInv, LifecycleTypes
<1>2. tr # None => TrackSound(sy)
  BY <1>1 DEF PaperInv, Tracked
<1>3. tr # None => /\ tr.pend \notin closing.new
                   /\ tr.pos # None => tr.pos.entry \notin closing.new
  BY DEF PaperInv, ClosingSound
<1>4. \/ \E why \in Reasons :
           /\ tr # None /\ tr.pos # None
           /\ rows = {[entry |-> tr.pos.entry, why |-> why, t |-> b]}
      \/ /\ tr # None /\ tr.pend # None
         /\ rows = {[entry |-> tr.pend, why |-> "STOP", t |-> b]}
  BY <1>1, CloseRowsCases
<1>5. entries \subseteq Entry BY DEF PaperInv, LifecycleTypes
<1>6. tr # None /\ tr.pos # None => OpenFor(sy, tr.pos.entry) BY <1>2 DEF TrackSound
<1>7. tr # None /\ tr.pend # None => OpenFor(sy, tr.pend) BY <1>2 DEF TrackSound
<1>8. PICK why \in Reasons :
         /\ tr # None
         /\ \/ /\ tr.pos # None
               /\ rows = {[entry |-> tr.pos.entry, why |-> why, t |-> b]}
            \/ /\ tr.pend # None
               /\ rows = {[entry |-> tr.pend, why |-> why, t |-> b]}
  BY <1>4 DEF Reasons
<1>9. x = [entry |-> x.entry, why |-> why, t |-> b] /\ \A y \in rows : x = y
  BY <1>8
<1>10. OpenFor(sy, x.entry) /\ x.entry \notin closing.new
  BY <1>3, <1>6, <1>7, <1>8
<1>11. x.entry \in Entry BY <1>5, <1>10 DEF OpenFor
<1>12. x \in ExitRow BY <1>1, <1>9, <1>11 DEF ExitRow
<1> QED BY <1>9, <1>10, <1>12

(* A position that survives a close, or opens in it, has no row in that     *)
(* close; it is a bar older than the limit allows at most, and at the limit *)
(* its exit is scheduled.                                                   *)
LEMMA SurvivorSound ==
    ASSUME PaperInv, closing # None, NEW price \in Prices, NEW fails, NEW pend,
           NEW sy, sy = closing.sym, NEW b, b = closing.bar,
           NEW tr, tr = track[sy],
           NEW after, after = CloseTrack(tr, b, price, closing.new, fails, pend),
           after.pos # None
    PROVE  /\ CloseRows(tr, b, price) = {}
           /\ OpenFor(sy, after.pos.entry)
           /\ after.pos.opened = after.pos.entry.t + 1
           /\ b - after.pos.opened + 1 <= MaxHold
           /\ b - after.pos.opened + 1 = MaxHold => after.exit # None
<1>1. sy \in Symbols /\ b \in Nat /\ tr \in Track \cup {None}
  BY DEF PaperInv, LifecycleTypes
<1>2. /\ tr # None /\ tr.last + 1 = b
      /\ \/ /\ tr.pos # None /\ AdvanceExit(tr, price) = None
            /\ after.pos = tr.pos
         \/ /\ tr.pos = None /\ tr.pend # None /\ price # "stop_bar"
            /\ after.pos = [entry |-> tr.pend, opened |-> b]
  BY <1>1, PositionCases
<1>3. TrackSound(sy) BY <1>1, <1>2 DEF PaperInv, Tracked
<1>4. CloseRows(tr, b, price) = {}
  BY <1>1, <1>2, CloseRowsCases
<1>5. tr.last \in Nat /\ tr.pos \in Position \cup {None} /\ tr.pend \in Entry \cup {None}
  BY <1>1, <1>2 DEF Track
<1>6. after.exit = AfterClose(after.pos, b, closing.new, fails)
  BY DEF CloseTrack
<1>7. MaxHold \in Nat \ {0} BY PaperNumbers
<1>8. CASE tr.pos # None
  <2>1. after.pos = tr.pos /\ AdvanceExit(tr, price) = None BY <1>2, <1>8
  <2>2. tr.exit = None
    BY <2>1, <1>8, NoneIsNothing DEF AdvanceExit
  <2>3. tr.pos.opened \in Nat BY <1>5, <1>8 DEF Position
  <2>4. /\ OpenFor(sy, tr.pos.entry) /\ tr.pos.opened = tr.pos.entry.t + 1
        /\ tr.last - tr.pos.opened + 1 <= MaxHold
        /\ tr.last - tr.pos.opened + 1 # MaxHold
    BY <1>3, <1>8, <2>2 DEF TrackSound
  <2>5. b - tr.pos.opened + 1 <= MaxHold
    BY <1>2, <1>5, <1>7, <2>3, <2>4
  <2>6. b - tr.pos.opened + 1 = MaxHold => after.exit # None
    BY <1>1, <1>6, <2>1, <2>3, LimitSchedulesExit
  <2> QED BY <1>4, <2>1, <2>4, <2>5, <2>6
<1>9. CASE tr.pos = None
  <2>1. after.pos = [entry |-> tr.pend, opened |-> b] /\ tr.pend # None BY <1>2, <1>9
  <2>2. after.pos.entry = tr.pend /\ after.pos.opened = b BY <2>1
  <2>3. OpenFor(sy, tr.pend) /\ tr.pend.t = tr.last
    BY <1>3, <2>1 DEF TrackSound
  <2>4. b - b + 1 <= MaxHold BY <1>1, <1>7
  <2>5. b - after.pos.opened + 1 = MaxHold => after.exit # None
    BY <1>1, <1>6, <2>2, LimitSchedulesExit
  <2> QED BY <1>2, <1>4, <2>2, <2>3, <2>4, <2>5
<1> QED BY <1>8, <1>9

(* The PAPER half of a close (PaperTransition). *)
LEMMA Transitioned ==
    ASSUME PaperInv, NEW price \in Prices, NEW fails \in BOOLEAN,
           NEW pend \in entries \cup {None}, PaperTransition(price, fails, pend)
    PROVE  PaperInv'
<1>1. PICK sy, b, new, tr, rows, after :
         /\ sy = closing.sym /\ b = closing.bar /\ new = closing.new
         /\ tr = track[sy] /\ rows = CloseRows(tr, b, price)
         /\ after = CloseTrack(tr, b, price, new, fails, pend)
  OBVIOUS
<1>2. /\ closing # None /\ pend \in IF new = {} THEN {None} ELSE new
      /\ track' = [track EXCEPT ![sy] = after]
      /\ exits' = exits \cup rows /\ closing' = None
      /\ UNCHANGED <<mode, now, latest, recovering, entries>>
  BY <1>1 DEF PaperTransition
<1>3. sy \in Symbols /\ b \in Nat /\ tr \in Track \cup {None} /\ new \subseteq Entry
  BY <1>1, <1>2 DEF PaperInv, LifecycleTypes
<1>4. mode = "up" /\ \A e \in new : OpenFor(sy, e) /\ e.t = b
  BY <1>1, <1>2 DEF PaperInv, ClosingSound
<1>5. \A x \in rows : /\ OpenFor(sy, x.entry) /\ x.entry \notin new /\ x \in ExitRow
                      /\ \A y \in rows : x = y
  BY <1>1, <1>2, CloseRowsOpen
<1>6. after \in Track
  <2>1. pend \in Entry \cup {None} BY <1>2, <1>3
  <2> QED BY <1>1, <1>3, <2>1, CloseTrackType
<1>7. LifecycleTypes'
  BY <1>2, <1>5, <1>6 DEF PaperInv, LifecycleTypes
<1>8. OneOutcome'
  <2>1. \A x \in rows : ~Exited(x.entry) BY <1>5 DEF OpenFor
  <2>2. \A x, y \in rows : x.entry = y.entry => x = y BY <1>5
  <2> QED BY <1>2, <2>1, <2>2, RowsOfOpenEntries DEF PaperInv
<1>9. \A x \in exits' : x.entry \in entries'
  BY <1>2, <1>5 DEF PaperInv, OpenFor
<1>10. track'[sy] = after
  BY <1>2, <1>3 DEF PaperInv, LifecycleTypes
<1>11. after.last = b /\ (after.pend = None \/ after.pend = pend)
  BY <1>1 DEF CloseTrack
<1>12. after.pend # None => OpenFor(sy, after.pend)' /\ after.pend.t = b
  <2> SUFFICES ASSUME after.pend # None
               PROVE  OpenFor(sy, after.pend)' /\ after.pend.t = b
    OBVIOUS
  <2>1. pend = after.pend /\ pend \in new BY <1>2, <1>11
  <2>2. \A x \in rows : x.entry # pend BY <1>5, <2>1
  <2>3. OpenFor(sy, pend) /\ pend.t = b BY <1>4, <2>1
  <2>4. OpenFor(sy, pend)' BY <1>2, <2>2, <2>3, StillOpen
  <2> QED BY <2>1, <2>3, <2>4 DEF OpenFor, Exited
<1>13. after.pos # None =>
         /\ rows = {} /\ OpenFor(sy, after.pos.entry)
         /\ after.pos.opened = after.pos.entry.t + 1
         /\ b - after.pos.opened + 1 <= MaxHold
         /\ b - after.pos.opened + 1 = MaxHold => after.exit # None
  BY <1>1, <1>2, SurvivorSound
<1>14. after.pos # None => OpenFor(sy, after.pos.entry)'
  BY <1>2, <1>13 DEF OpenFor, Exited
<1>15. TrackSound(sy)'
  BY <1>10, <1>11, <1>12, <1>13, <1>14 DEF TrackSound
<1>16. \A u \in Tracked' : TrackSound(u)'
  <2> SUFFICES ASSUME NEW u \in Tracked', u # sy PROVE TrackSound(u)'
    BY <1>15
  <2>1. track'[u] = track[u] /\ u \in Tracked
    BY <1>2 DEF Tracked, PaperInv, LifecycleTypes
  <2>2. \A x \in rows : x.entry.sym # u BY <1>5 DEF OpenFor
  <2>3. TrackSound(u) BY <2>1 DEF PaperInv
  <2> QED BY <1>2, <2>1, <2>2, <2>3, TrackStaysSound
<1>17. ClosingSound' /\ mode' # "down" BY <1>2, <1>4 DEF ClosingSound
<1> QED BY <1>7, <1>8, <1>9, <1>16, <1>17 DEF PaperInv

(* Every step preserves the invariant: one case per action. *)
LEMMA PaperPreserved ==
    ASSUME PaperInv, [Next]_vars PROVE PaperInv'
<1>0. /\ now \in Nat \ {0} /\ latest \in [Symbols -> Nat]
      /\ recovering \in [Symbols -> Nat]
  BY DEF PaperInv, LifecycleTypes
<1>1. CASE UNCHANGED vars
  <2>1. LifecycleTypes' BY <1>1 DEF vars, PaperInv, LifecycleTypes
  <2> QED BY <1>1, <2>1, QuietStep DEF vars
<1>2. CASE Stop BY <1>2, Stopped
<1>3. CASE Drain \/ OtherAlert
  <2>1. LifecycleTypes'
    BY <1>3 DEF Drain, OtherAlert, PaperInv, LifecycleTypes
  <2> QED BY <1>3, <2>1, QuietStep DEF Drain, OtherAlert
<1>4. CASE Tick
  <2>1. LifecycleTypes' BY <1>0, <1>4 DEF Tick, PaperInv, LifecycleTypes
  <2> QED BY <1>4, <2>1, QuietStep DEF Tick
<1>5. ASSUME NEW since \in Windows, NEW tr \in SUBSET Symbols,
             NEW boot \in {now, now - 1}, Start(since, tr, boot)
      PROVE  PaperInv'
  <2>1. boot \in Nat BY <1>0
  <2>2. latest' \in [Symbols -> Nat] BY <1>5, <2>1 DEF Start
  <2>3. exits' = exits \cup Notices(PendingTrackingResets(since)) BY <1>5 DEF Start
  <2> QED BY <1>5, <2>2, <2>3, NoticesAdded DEF Start
<1>6. ASSUME NEW since \in Windows, NEW es \in SUBSET entries, StartAborts(since, es)
      PROVE  PaperInv'
  <2>1. es \subseteq PendingTrackingResets(since) BY <1>6 DEF StartAborts
  <2>2. exits' = exits \cup Notices(es) /\ mode = "down"
        /\ UNCHANGED <<mode, now, track, closing, entries, recovering, latest>>
    BY <1>6 DEF StartAborts
  <2> QED BY <1>0, <2>1, <2>2, NoticesAdded
<1>7. ASSUME NEW s \in Symbols, NEW new, HandleCandle(s, new) PROVE PaperInv'
  <2>1. latest[s] + 1 \in Nat BY <1>0
  <2>2. /\ RulesCommit(s, latest[s] + 1, new) /\ mode = "up" /\ closing = None
        /\ UNCHANGED <<mode, now, track, exits, recovering>>
    BY <1>7 DEF HandleCandle, Handles
  <2> QED BY <1>0, <2>1, <2>2, RulesCommitted
<1>8. ASSUME NEW s \in Symbols, HandleWithoutFeature(s) PROVE PaperInv'
  <2>1. LifecycleTypes'
    BY <1>0, <1>8 DEF HandleWithoutFeature, PaperInv, LifecycleTypes
  <2> QED BY <1>8, <2>1, QuietStep DEF HandleWithoutFeature
<1>9. ASSUME NEW s \in Symbols, NEW b \in 1 .. now, HandleGap(s, b) PROVE PaperInv'
  <2>1. b \in Nat BY <1>0
  <2> QED BY <1>9, <2>1, GapHandled
<1>10. ASSUME NEW s \in Symbols, NEW new, GapRecovered(s, new) PROVE PaperInv'
  <2>1. recovering[s] \in Nat BY <1>0
  <2>2. /\ RulesCommit(s, recovering[s], new) /\ mode = "up" /\ closing = None
        /\ UNCHANGED <<mode, now, track, exits>>
        /\ recovering' = [recovering EXCEPT ![s] = 0]
    BY <1>10 DEF GapRecovered
  <2>3. recovering' \in [Symbols -> Nat] BY <1>0, <2>2
  <2> QED BY <2>1, <2>2, <2>3, RulesCommitted
<1>11. ASSUME NEW s \in Symbols, NEW b \in latest[s] .. recovering[s] - 1,
              GapUnrecovered(s, b)
       PROVE  PaperInv'
  <2>1. b \in Nat BY <1>0
  <2>2. LifecycleTypes'
    BY <1>0, <1>11, <2>1 DEF GapUnrecovered, PaperInv, LifecycleTypes
  <2> QED BY <1>11, <2>2, QuietStep DEF GapUnrecovered
<1>16. ASSUME NEW s \in Symbols, GapRecoveredWithoutFeature(s) PROVE PaperInv'
  <2>1. LifecycleTypes'
    BY <1>0, <1>16 DEF GapRecoveredWithoutFeature, PaperInv, LifecycleTypes
  <2> QED BY <1>16, <2>1, QuietStep DEF GapRecoveredWithoutFeature
<1>12. ASSUME NEW price \in Prices, NEW fails \in BOOLEAN,
              NEW pend \in entries \cup {None}, PaperTransition(price, fails, pend)
       PROVE  PaperInv'
  BY <1>12, Transitioned
<1>13. ASSUME NEW tr \in SUBSET Symbols, NEW boot \in {now, now - 1}, Rotate(tr, boot)
       PROVE  PaperInv'
  BY <1>13, Rotated
<1>14. CASE StartUp BY <1>5, <1>6, <1>14 DEF StartUp
<1>15. ASSUME NEW s \in Symbols, Candle(s) PROVE PaperInv'
  BY <1>7, <1>8, <1>9, <1>10, <1>11, <1>15, <1>16 DEF Candle
<1> QED BY <1>1, <1>2, <1>3, <1>4, <1>12, <1>13, <1>14, <1>15 DEF Next

(* The inductive invariant holds in every reachable state, for any set of   *)
(* symbols and any limits of signals/positions.py and the outbox.           *)
THEOREM PaperInvariant == Spec => []PaperInv
BY PaperInitially, PaperPreserved, PTL DEF Spec

(* Each entry gets at most one exit row, across closes, gaps, crashes       *)
(* between the two commits of a close, and restart notices.                 *)
THEOREM OneOutcomePerEntry == Spec => []OneOutcome
<1>1. PaperInv => OneOutcome BY DEF PaperInv
<1> QED BY <1>1, PaperInvariant, PTL

(* An entry is filled at the open of the bar that follows its signal, or    *)
(* never (on_closed_candle).                                                *)
THEOREM FilledNextBarOnly == Spec => []NextBarOnly
<1>1. PaperInv => NextBarOnly BY DEF PaperInv, NextBarOnly, TrackSound
<1> QED BY <1>1, PaperInvariant, PTL

(* No position outlives max_holding_bars, and at the limit its exit is      *)
(* scheduled (after_close).                                                 *)
THEOREM HoldingIsBounded == Spec => []HoldingBounded
<1>1. PaperInv => HoldingBounded BY DEF PaperInv, HoldingBounded, TrackSound
<1> QED BY <1>1, PaperInvariant, PTL

-----------------------------------------------------------------------------
(* The universe bounds the lifecycle *)

(* Every step keeps the lifecycle, the close under way and the awaited      *)
(* recoveries within the tradable symbols: one case per action.             *)
LEMMA WithinUniversePreserved ==
    ASSUME PaperInv, WithinUniverse, [Next]_vars PROVE WithinUniverse'
<1> USE DEF WithinUniverse, Tracked
<1>0. /\ track \in [Symbols -> Track \cup {None}] /\ recovering \in [Symbols -> Nat]
      /\ closing # None => closing.sym \in Symbols
      /\ mode = "down" => closing = None /\ Tracked = {}
  BY DEF PaperInv, LifecycleTypes, ClosingSound
<1>1. CASE UNCHANGED <<mode, tradable, track, closing, recovering>> BY <1>1
<1>2. CASE Stop
  <2>1. Cardinality({}) = 0 BY FS_EmptySet
  <2> QED BY <1>2, <2>1, PaperNumbers DEF Stop
<1>3. ASSUME NEW since \in Windows, NEW tr \in SUBSET Symbols, NEW boot,
             Start(since, tr, boot)
      PROVE  WithinUniverse'
  BY <1>0, <1>3 DEF Start
<1>4. ASSUME NEW s \in Symbols, NEW new, HandleCandle(s, new) PROVE WithinUniverse'
  BY <1>0, <1>4 DEF HandleCandle, Handles, RulesCommit
<1>5. ASSUME NEW s \in Symbols, NEW b, HandleGap(s, b) PROVE WithinUniverse'
  BY <1>0, <1>5 DEF HandleGap, Handles
<1>6. ASSUME NEW s \in Symbols, NEW new, GapRecovered(s, new) PROVE WithinUniverse'
  BY <1>0, <1>6 DEF GapRecovered, RulesCommit
<1>7. ASSUME NEW s \in Symbols,
             GapRecoveredWithoutFeature(s) \/ \E b : GapUnrecovered(s, b)
      PROVE  WithinUniverse'
  BY <1>0, <1>7 DEF GapRecoveredWithoutFeature, GapUnrecovered
<1>8. ASSUME NEW price, NEW fails, NEW pend, PaperTransition(price, fails, pend)
      PROVE  WithinUniverse'
  <2>1. PICK t : track' = [track EXCEPT ![closing.sym] = t] BY <1>8 DEF PaperTransition
  <2>2. /\ closing # None /\ closing' = None
        /\ UNCHANGED <<mode, tradable, recovering>>
    BY <1>8 DEF PaperTransition
  <2>3. \A s \in Symbols : s # closing.sym => track'[s] = track[s] BY <1>0, <2>1
  <2>4. Tracked' \subseteq tradable BY <2>2, <2>3
  <2> QED BY <1>0, <2>2, <2>4
<1>9. ASSUME NEW tr \in SUBSET Symbols, NEW boot, Rotate(tr, boot) PROVE WithinUniverse'
  BY <1>0, <1>9 DEF Rotate
<1>10. CASE StartUp
  <2>1. ASSUME NEW since, NEW es, StartAborts(since, es) PROVE WithinUniverse'
    BY <1>1, <2>1 DEF StartAborts
  <2> QED BY <1>3, <1>10, <2>1 DEF StartUp
<1>11. ASSUME NEW s \in Symbols, Candle(s) PROVE WithinUniverse'
  <2>1. CASE HandleWithoutFeature(s) BY <1>1, <2>1 DEF HandleWithoutFeature
  <2> QED BY <1>4, <1>5, <1>6, <1>7, <1>11, <2>1 DEF Candle
<1>12. CASE Drain \/ OtherAlert \/ Tick \/ UNCHANGED vars
  BY <1>1, <1>12 DEF Drain, OtherAlert, Tick, vars
<1> HIDE DEF WithinUniverse, Tracked
<1> QED BY <1>2, <1>8, <1>9, <1>10, <1>11, <1>12 DEF Next

(* The bound that raises in on_closed_candle is out of reach: only tradable *)
(* symbols are tracked, and a universe has at most top_n of them.           *)
THEOREM LifecycleWithinBound == Spec => []BoundNeverRaises
<1>1. Init => WithinUniverse
  <2>1. Cardinality({}) = 0 BY FS_EmptySet
  <2> QED BY <2>1, PaperNumbers DEF Init, WithinUniverse, Tracked
<1>2. WithinUniverse => BoundNeverRaises
  <2> SUFFICES ASSUME WithinUniverse PROVE BoundNeverRaises
    OBVIOUS
  <2>1. IsFiniteSet(tradable) BY SymbolsFinite, FS_Subset DEF WithinUniverse
  <2>2. IsFiniteSet(Tracked) /\ Cardinality(Tracked) <= Cardinality(tradable)
    BY <2>1, FS_Subset DEF WithinUniverse
  <2>3. Cardinality(tradable) \in Nat /\ Cardinality(Tracked) \in Nat
    BY <2>1, <2>2, FS_CardinalityType
  <2> QED BY <2>2, <2>3, PaperNumbers DEF WithinUniverse, BoundNeverRaises
<1> QED BY <1>1, <1>2, PaperInvariant, WithinUniversePreserved, PTL DEF Spec

(* A close that gives up the position it found writes that position's row. *)
LEMMA CloseReportsExit ==
    ASSUME NEW tr \in Track, NEW b \in Nat, NEW price \in Prices,
           NEW new, NEW fails, NEW pend, tr.pos # None,
           CloseTrack(tr, b, price, new, fails, pend).pos # tr.pos
    PROVE  \E x \in CloseRows(tr, b, price) : x.entry = tr.pos.entry
<1>0. tr # None BY NoneIsNothing
<1>1. CASE tr.last + 1 = b
  <2>1. Contiguous(tr, b) = tr BY <1>0, <1>1 DEF Contiguous
  <2>2. AdvanceExit(tr, price) # None
    BY <2>1 DEF CloseTrack, PositionAtOpen
  <2>3. [entry |-> tr.pos.entry, why |-> AdvanceExit(tr, price), t |-> b]
           \in CloseRows(tr, b, price)
    BY <2>1, <2>2 DEF CloseRows
  <2> QED BY <2>3
<1>2. CASE tr.last + 1 # b
  <2>1. GapRows(tr, b) \subseteq CloseRows(tr, b, price) BY <1>0, <1>2 DEF CloseRows
  <2>2. [entry |-> tr.pos.entry, why |-> "DATA_GAP", t |-> b] \in GapRows(tr, b)
    BY <1>0 DEF GapRows
  <2> QED BY <2>1, <2>2
<1> QED BY <1>1, <1>2

(* While the process runs, closes, gaps and rotations that end a position   *)
(* leave its durable exit row (_publish_paper_transition,                   *)
(* _poll_universe_candidate).                                               *)
THEOREM NoPositionDroppedSilently == Spec => NoSilentExit
<1> DEFINE Reported(s) ==
              (/\ mode' = "up" /\ track[s] # None /\ track[s].pos # None
               /\ track'[s] = None \/ track'[s].pos # track[s].pos)
              => \E x \in exits' : x.entry = track[s].pos.entry
<1>1. ASSUME PaperInv, WithinUniverse, Next, NEW s \in Symbols PROVE Reported(s)
  <2>0. /\ track \in [Symbols -> Track \cup {None}]
        /\ closing # None => closing.sym \in Symbols /\ closing.bar \in Nat
        /\ track[s] # None => track[s] \in Track
    BY <1>1 DEF PaperInv, LifecycleTypes
  <2>1. CASE track' = track BY <2>1
  <2>2. CASE Stop BY <2>2 DEF Stop
  <2>3. ASSUME NEW u \in Symbols, NEW b, HandleGap(u, b) PROVE Reported(s)
    <3>1. /\ track' = [track EXCEPT ![u] = None]
          /\ exits' = exits \cup GapRows(track[u], b)
      BY <2>3 DEF HandleGap
    <3>2. CASE u = s
      <4> SUFFICES ASSUME track[s] # None, track[s].pos # None
                   PROVE  \E x \in exits' : x.entry = track[s].pos.entry
        OBVIOUS
      <4>1. [entry |-> track[s].pos.entry, why |-> "DATA_GAP", t |-> b] \in exits'
        BY <3>1, <3>2 DEF GapRows
      <4> QED BY <4>1
    <3>3. CASE u # s BY <2>0, <3>1, <3>3
    <3> QED BY <3>2, <3>3
  <2>4. ASSUME NEW price \in Prices, NEW fails, NEW pend,
               PaperTransition(price, fails, pend)
        PROVE  Reported(s)
    <3>1. PICK sy, b, new, tr, rows, after :
             /\ sy = closing.sym /\ b = closing.bar /\ new = closing.new
             /\ tr = track[sy] /\ rows = CloseRows(tr, b, price)
             /\ after = CloseTrack(tr, b, price, new, fails, pend)
      OBVIOUS
    <3>2. /\ closing # None /\ track' = [track EXCEPT ![sy] = after]
          /\ exits' = exits \cup rows
      BY <2>4, <3>1 DEF PaperTransition
    <3>3. CASE sy = s
      <4> SUFFICES ASSUME track[s] # None, track[s].pos # None,
                          track'[s] = None \/ track'[s].pos # track[s].pos
                   PROVE  \E x \in exits' : x.entry = track[s].pos.entry
        OBVIOUS
      <4>1. tr \in Track /\ tr = track[s] /\ b \in Nat BY <2>0, <3>1, <3>2, <3>3
      <4>2. track'[s] = after BY <2>0, <3>2, <3>3
      <4>3. after.pos # tr.pos
        <5>1. CASE track'[s] = None
          <6>1. CASE after.pos = tr.pos
            <7>1. /\ tr.pos \in Position /\ tr.pend \in Entry \cup {None}
              BY <4>1 DEF Track
            <7>2. after = [last |-> b, pend |-> after.pend, pos |-> after.pos, exit |-> after.exit]
              BY <3>1 DEF CloseTrack
            <7>3. after.pend = None /\ after.exit \in Scheduled \cup {None}
              BY <3>1, <4>1, <6>1 DEF CloseTrack, AfterClose, Scheduled
            <7>4. after \in Track BY <4>1, <6>1, <7>1, <7>2, <7>3 DEF Track
            <7> QED BY <4>2, <5>1, <7>4, NoneIsNothing
          <6> QED BY <6>1
        <5>2. CASE track'[s].pos # track[s].pos BY <4>1, <4>2, <5>2
        <5> QED BY <5>1, <5>2
      <4>4. \E x \in rows : x.entry = tr.pos.entry
        BY <3>1, <4>1, <4>3, CloseReportsExit
      <4> QED BY <3>2, <4>1, <4>4
    <3>4. CASE sy # s BY <2>0, <3>2, <3>4
    <3> QED BY <3>3, <3>4
  <2>5. ASSUME NEW tr \in SUBSET Symbols, NEW boot, Rotate(tr, boot) PROVE Reported(s)
    <3>1. /\ track' = [u \in Symbols |-> IF u \in tr THEN track[u] ELSE None]
          /\ ContinuationSymbols \cap (tradable \ tr) = {}
      BY <2>5 DEF Rotate, Rotatable
    <3>2. track[s] # None /\ track[s].pos # None => s \in tradable /\ s \in ContinuationSymbols
      BY <1>1 DEF ContinuationSymbols, WithinUniverse, Tracked
    <3> QED BY <3>1, <3>2
  <2>6. CASE StartUp BY <2>1, <2>6 DEF StartUp, Start, StartAborts
  <2>7. ASSUME NEW u \in Symbols, Candle(u) PROVE Reported(s)
    BY <2>1, <2>3, <2>7
    DEF Candle, HandleCandle, HandleWithoutFeature, GapRecovered,
        GapRecoveredWithoutFeature, GapUnrecovered
  <2>8. CASE Drain \/ OtherAlert \/ Tick
    BY <2>1, <2>8 DEF Drain, OtherAlert, Tick
  <2> HIDE DEF Reported
  <2> QED BY <1>1, <2>2, <2>4, <2>5, <2>6, <2>7, <2>8 DEF Next
<1>2. Init => WithinUniverse
  <2>1. Cardinality({}) = 0 BY FS_EmptySet
  <2> QED BY <2>1, PaperNumbers DEF Init, WithinUniverse, Tracked
<1>3. PaperInv /\ WithinUniverse /\ [Next]_vars
      => [\A s \in Symbols : Reported(s)]_vars
  BY <1>1
<1> QED
  BY <1>2, <1>3, PaperInvariant, WithinUniversePreserved, PTL
  DEF Spec, NoSilentExit

=============================================================================
