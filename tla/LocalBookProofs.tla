-------------------------- MODULE LocalBookProofs --------------------------
(* Proofs of the safety properties of LocalBook. *)
EXTENDS LocalBook, SequenceTheorems, TLAPS

USE BookAssumption, SnapshotAssumption

-----------------------------------------------------------------------------
(* What records carry *)

(* A parsed depth event names a range of ids, and skips only ids that        *)
(* changed nothing (_parse_depth_event).                                     *)
LEMMA EventShape ==
    ASSUME NEW m, NEW e \in Events(m)
    PROVE  /\ e.U \in 1..MaxId /\ e.u \in 1..MaxId /\ e.pu \in Ids
           /\ e.at \in Times
           /\ e.pu < e.U /\ e.U <= e.u
           /\ \A i \in 1..MaxId : (e.pu < i /\ i < e.U) => Touches[i] = 0
  BY DEF Events

(* A parsed snapshot was asked for before it was complete (_parse_snapshot). *)
LEMMA SnapshotShape ==
    ASSUME NEW s \in Snapshots
    PROVE  /\ s.id \in Ids /\ s.started \in Times /\ s.completed \in Times
           /\ s.kept \in Levels
           /\ s.started <= s.completed
           /\ s # NoSnapshot
  BY DEF Snapshots

(* A range that classify_depth_snapshot_bridge does not discard is either    *)
(* accepted or lies wholly after the target: its last branch, which reports  *)
(* an impossible ordering, is never taken.                                   *)
LEMMA RetainedIsDecided ==
    ASSUME NEW m, NEW last \in Ids, NEW e \in Events(m), ~Discards(m, last, e)
    PROVE  Accepts(m, last, e) \/ e.U > Target(m, last)
  BY EventShape DEF Discards, Accepts, Target, Ids

-----------------------------------------------------------------------------
(* Applying a range to a true book gives a true book *)

\* The range reaches at least as far as the book, and every id between the
\* two was either in it or changed nothing.
Continues(k, e) ==
    /\ k <= e.u
    /\ \A i \in 1..MaxId : (k < i /\ i <= e.u) => (e.U <= i \/ Touches[i] = 0)

(* A level that no update of a stretch touched keeps its quantity.           *)
LEMMA Untouched ==
    ASSUME NEW l \in Levels, NEW j \in Ids, NEW k \in Ids, j <= k,
           \A i \in 1..MaxId : (j < i /\ i <= k) => Touches[i] # l
    PROVE  Content(l, j) = Content(l, k)
  BY DEF Content, Ids, Levels

(* The quantities of an event that continues a true book make it true as of  *)
(* the event's last update (_apply_level_changes_within_band).               *)
LEMMA Reaches ==
    ASSUME NEW m, NEW e \in Events(m), NEW k \in Ids, Continues(k, e),
           NEW b \in [Levels -> SUBSET (1..MaxId)], NEW n \in Levels,
           NEW inside \in 1..n,
           \A l \in 1..n : b[l] = Content(l, k)
    PROVE  /\ ApplyLevels(b, e, inside) \in [Levels -> SUBSET (1..MaxId)]
           /\ \A l \in 1..inside : ApplyLevels(b, e, inside)[l] = Content(l, e.u)
<1> USE EventShape DEF Ids
<1>1. ApplyLevels(b, e, inside) \in [Levels -> SUBSET (1..MaxId)]
  BY DEF ApplyLevels, Content, Levels
<1>2. ASSUME NEW l \in 1..inside
      PROVE  ApplyLevels(b, e, inside)[l] = Content(l, e.u)
  <2>1. l \in Levels /\ ~(l > inside) /\ b[l] = Content(l, k)
    BY <1>2 DEF Levels
  <2>2. CASE \E i \in e.U..e.u : Touches[i] = l
    BY <2>1, <2>2 DEF ApplyLevels
  <2>3. CASE ~\E i \in e.U..e.u : Touches[i] = l
    <3>1. ApplyLevels(b, e, inside)[l] = b[l]
      BY <2>1, <2>3 DEF ApplyLevels
    <3>2. \A i \in 1..MaxId : (k < i /\ i <= e.u) => Touches[i] # l
      BY <2>1, <2>3 DEF Continues, Levels
    <3>3. Content(l, k) = Content(l, e.u)
      BY <2>1, <3>2, Untouched DEF Continues
    <3> QED BY <2>1, <3>1, <3>3
  <2> QED BY <2>2, <2>3
<1> QED BY <1>1, <1>2

(* An event that _apply_live_event neither ignores nor calls a gap continues *)
(* the book.                                                                 *)
LEMMA NoGapContinues ==
    ASSUME NEW m \in {"spot", "futures"}, NEW k \in Ids, NEW e \in Events(m),
           ~Ignored(m, k, e), ~SequenceGap(m, k, e)
    PROVE  Continues(k, e)
  BY EventShape DEF Ignored, SequenceGap, Continues, Ids

(* So does the first range that the bridge accepts.                          *)
LEMMA BridgeContinues ==
    ASSUME NEW m \in {"spot", "futures"}, NEW k \in Ids, NEW e \in Events(m),
           Accepts(m, k, e)
    PROVE  Continues(k, e)
  BY EventShape DEF Accepts, Target, Continues, Ids

-----------------------------------------------------------------------------
(* The fragments that actions share *)

(* What is left of a bounded buffer is a bounded buffer.                     *)
LEMMA TailBounded ==
    ASSUME NEW E, NEW q \in Seq(E), q # <<>>, Len(q) <= MaxBuffered
    PROVE  Tail(q) \in Seq(E) /\ Len(Tail(q)) <= MaxBuffered
<1>1. Tail(q) \in Seq(E) /\ Len(Tail(q)) = Len(q) - 1
  BY HeadTailProperties
<1>2. Len(q) \in Nat
  BY LenProperties
<1> QED BY <1>1, <1>2

(* An empty buffer is a bounded buffer.                                      *)
LEMMA NothingBuffered ==
    ASSUME NEW E
    PROVE  <<>> \in Seq(E) /\ Len(<<>>) <= MaxBuffered
  OBVIOUS

(* A break leaves a book that owes a snapshot asked for after it.            *)
LEMMA Broken ==
    ASSUME BookInv, connected, NEW at \in Times,
           NEW rest \in Seq(Events(market)), Len(rest) <= MaxBuffered,
           Invalidate(at, rest),
           gap' \in BOOLEAN, unresolvedGap' \in BOOLEAN,
           phase' = "idle", replaying' = <<>>, UNCHANGED linkVars
    PROVE  BookInv'
<1> USE DEF BookInv, Invalidate, ClearReconstruction, linkVars
<1>1. TypeOK'
  BY DEF TypeOK, Empty, Larger, Times, Levels
<1>2. Linked'
  BY DEF Linked
<1>3. Fresh' /\ SnapshotAfterBreak' /\ ValidIsTrue' /\ NoLookAhead'
  BY DEF TypeOK, Fresh, SnapshotAfterBreak, ValidIsTrue, NoLookAhead, Larger, Times
<1>4. Owing' /\ AskedUntilValid'
  BY DEF Owing, AskedUntilValid
<1> QED BY <1>1, <1>2, <1>3, <1>4

(* An event that continues a valid book leaves a valid book.                 *)
LEMMA Applied ==
    ASSUME BookInv, status = "valid", NEW e \in Events(market),
           Continues(updateId, e), ApplyEvent(e),
           UNCHANGED <<buffer, pending, boundVars, debtVars, linkVars>>,
           \/ phase = "idle" /\ UNCHANGED bridgeVars
           \/ phase # "idle" /\ replaying # <<>> /\ Advance
    PROVE  BookInv'
<1> USE DEF BookInv, ApplyEvent, linkVars, boundVars, debtVars, bridgeVars
<1>1. PICK inside \in 1..kept :
          book' = ApplyLevels(book, e, inside) /\ kept' = inside
  BY DEF NextBoundary
<1>2. updateId \in Ids /\ kept \in Levels /\ inside \in Levels
  BY <1>1 DEF ValidIsTrue, Linked, Levels
<1>3. /\ book' \in [Levels -> SUBSET (1..MaxId)]
      /\ \A l \in 1..inside : book'[l] = Content(l, e.u)
  <2>1. /\ book \in [Levels -> SUBSET (1..MaxId)]
        /\ \A l \in 1..kept : book[l] = Content(l, updateId)
    BY DEF ValidIsTrue, TypeOK
  <2> HIDE DEF ApplyEvent, BookInv
  <2> QED BY <1>1, <1>2, <2>1, Reaches
<1>4. e.u \in Ids /\ e.at \in Times
  BY EventShape DEF Ids
<1>5. replaying' \in Seq(Events(market)) /\ Len(replaying') <= MaxBuffered
  <2>1. replaying \in Seq(Events(market)) /\ Len(replaying) <= MaxBuffered
    BY DEF TypeOK
  <2>2. CASE UNCHANGED bridgeVars
    BY <2>1, <2>2
  <2>3. CASE replaying # <<>> /\ Advance
    <3>1. replaying' = Tail(replaying)
      BY <2>3 DEF Advance
    <3> QED BY <2>1, <2>3, <3>1, TailBounded
  <2> QED BY <2>2, <2>3
<1>6. TypeOK'
  <2>a. avail' \in 0..MaxTime
    BY <1>4 DEF TypeOK, AdvanceAvailability, Larger, Times
  <2>b. sources' \subseteq Times /\ updateId' \in Ids
    BY <1>4 DEF TypeOK
  <2>c. kept' \in 0..NumLevels
    <3> HIDE DEF ApplyEvent, BookInv
    <3> QED BY <1>1, <1>2 DEF Levels
  <2>d. phase' \in {"idle", "bootstrap", "replay"}
    BY DEF TypeOK, Advance
  <2>1. /\ avail' \in 0..MaxTime
        /\ sources' \subseteq Times
        /\ updateId' \in Ids
        /\ kept' \in 0..NumLevels
        /\ phase' \in {"idle", "bootstrap", "replay"}
    BY <2>a, <2>b, <2>c, <2>d
  <2>2. /\ buffer' \in Seq(Events(market')) /\ Len(buffer') <= MaxBuffered
        /\ replaying' \in Seq(Events(market')) /\ Len(replaying') <= MaxBuffered
    BY <1>5 DEF TypeOK
  <2>3. /\ market' \in {"spot", "futures"}
        /\ connected' \in BOOLEAN
        /\ connection' \in Connections \cup {NoConnection}
        /\ pending' \in Snapshots \cup {NoSnapshot}
        /\ minStarted' \in 0..MaxTime
        /\ broke' \in 0..MaxTime
        /\ usedStart' \in 0..MaxTime
        /\ resnapshot' \in BOOLEAN
        /\ gap' \in BOOLEAN
        /\ unresolvedGap' \in BOOLEAN
        /\ unresolvedReconstruction' \in BOOLEAN
        /\ status' = "valid"
    BY DEF TypeOK
  <2> HIDE DEF BookInv, ApplyEvent
  <2> QED BY <1>3, <2>1, <2>2, <2>3 DEF TypeOK
<1>7. ValidIsTrue'
  BY <1>1, <1>3, <1>4 DEF ValidIsTrue
<1>8. NoLookAhead'
  BY <1>4 DEF NoLookAhead, AdvanceAvailability, Larger, TypeOK, Times
<1>9. Linked'
  BY <1>1, <1>2 DEF Linked, Advance
<1>10. Fresh' /\ SnapshotAfterBreak'
  BY DEF Fresh, SnapshotAfterBreak
<1>11. Owing' /\ AskedUntilValid'
  BY DEF Owing, AskedUntilValid, Linked, Advance
<1> QED BY <1>6, <1>7, <1>8, <1>9, <1>10, <1>11

(* A bridge attempt holds the snapshot, drops it, or installs it.            *)
LEMMA Bridged ==
    ASSUME BookInv, status = "awaiting", phase = "idle",
           NEW s \in Snapshots, s.started >= minStarted,
           NEW buf \in Seq(Events(market)), Len(buf) <= MaxBuffered,
           AttemptBridge(s, buf),
           UNCHANGED <<linkVars, boundVars, debtVars>>
    PROVE  BookInv'
<1> USE DEF BookInv, linkVars, boundVars, debtVars, bridgeVars, bookVars
<1>1. CASE Waiting(s, buf)
  <2>1. TypeOK'
    BY <1>1, SnapshotShape DEF Waiting, TypeOK
  <2>2. Linked' /\ Fresh'
    BY <1>1 DEF Waiting, Linked, Fresh
  <2>3. ValidIsTrue' /\ NoLookAhead' /\ SnapshotAfterBreak'
    BY <1>1 DEF Waiting, ValidIsTrue, NoLookAhead, SnapshotAfterBreak
  <2>4. Owing' /\ AskedUntilValid'
    BY <1>1 DEF Waiting, Owing, AskedUntilValid
  <2> QED BY <2>1, <2>2, <2>3, <2>4
<1>2. CASE Decided(s, buf)
  <2>1. PICK j \in 1..Len(buf) :
           /\ Retained(s, buf, j)
           /\ pending' = NoSnapshot
           /\ IF Accepts(market, s.id, buf[j])
              THEN /\ InstallSnapshot(s)
                   /\ buffer' = <<>>
                   /\ phase' = "bootstrap"
                   /\ replaying' = SubSeq(buf, j, Len(buf))
              ELSE /\ buffer' = buf
                   /\ UNCHANGED <<status, bookVars, bridgeVars>>
    BY <1>2 DEF Decided
  <2>2. CASE ~Accepts(market, s.id, buf[j])
    <3>1. TypeOK' /\ Linked' /\ Fresh'
      BY <2>1, <2>2 DEF TypeOK, Linked, Fresh
    <3>2. ValidIsTrue' /\ NoLookAhead' /\ SnapshotAfterBreak'
      BY <2>1, <2>2 DEF ValidIsTrue, NoLookAhead, SnapshotAfterBreak
    <3>3. Owing' /\ AskedUntilValid'
      BY <2>1, <2>2 DEF Owing, AskedUntilValid
    <3> QED BY <3>1, <3>2, <3>3
  <2>3. CASE Accepts(market, s.id, buf[j])
    <3>1. /\ InstallSnapshot(s) /\ buffer' = <<>> /\ pending' = NoSnapshot
          /\ phase' = "bootstrap" /\ replaying' = SubSeq(buf, j, Len(buf))
      BY <2>1, <2>3
    <3>2. Len(buf) \in Nat /\ \A i \in j..Len(buf) : buf[i] \in Events(market)
      BY LenProperties, ElementOfSeq
    <3>3. /\ replaying' \in Seq(Events(market))
          /\ Len(replaying') = Len(buf) - j + 1
          /\ replaying'[1] = buf[j]
      BY <3>1, <3>2, SubSeqProperties
    <3>4. replaying' # <<>> /\ Head(replaying') = buf[j]
      BY <3>2, <3>3
    <3>5. /\ s.id \in Ids /\ s.kept \in Levels /\ s.completed \in Times
          /\ s.started \in Times
      BY SnapshotShape
    <3>6. book' \in [Levels -> SUBSET (1..MaxId)]
      BY <3>1, <3>5 DEF InstallSnapshot, Content, Ids
    <3>7. TypeOK'
      <4>1. /\ avail' \in 0..MaxTime
            /\ sources' \subseteq Times
            /\ updateId' \in Ids
            /\ kept' \in 0..NumLevels
            /\ usedStart' \in 0..MaxTime
            /\ status' = "valid"
        BY <3>1, <3>5 DEF InstallSnapshot, Levels, Times
      <4>2. /\ buffer' \in Seq(Events(market')) /\ Len(buffer') <= MaxBuffered
            /\ replaying' \in Seq(Events(market'))
            /\ Len(replaying') <= MaxBuffered
        BY <3>1, <3>2, <3>3
      <4>3. /\ market' \in {"spot", "futures"}
            /\ connected' \in BOOLEAN
            /\ connection' \in Connections \cup {NoConnection}
            /\ minStarted' \in 0..MaxTime
            /\ broke' \in 0..MaxTime
            /\ resnapshot' \in BOOLEAN
            /\ gap' \in BOOLEAN
            /\ unresolvedGap' \in BOOLEAN
            /\ unresolvedReconstruction' \in BOOLEAN
        BY DEF TypeOK
      <4> QED BY <3>1, <3>6, <4>1, <4>2, <4>3 DEF TypeOK
    <3>8. ValidIsTrue'
      BY <3>1, <3>5 DEF InstallSnapshot, ValidIsTrue, Levels
    <3>9. NoLookAhead'
      BY <3>1, <3>5 DEF InstallSnapshot, NoLookAhead, Times
    <3>10. Linked'
      BY <3>1, <3>4, <3>5, <2>3 DEF InstallSnapshot, Linked
    <3>11. Fresh' /\ SnapshotAfterBreak'
      BY <3>1, <3>5 DEF InstallSnapshot, Fresh, SnapshotAfterBreak, TypeOK, Times
    <3>12. Owing' /\ AskedUntilValid'
      BY <3>1 DEF InstallSnapshot, Owing, AskedUntilValid, Linked
    <3> QED BY <3>7, <3>8, <3>9, <3>10, <3>11, <3>12
  <2> QED BY <2>2, <2>3
<1> QED BY <1>1, <1>2 DEF AttemptBridge

-----------------------------------------------------------------------------
(* The inductive invariant *)

(* A book that has seen no record satisfies the invariant (_BookState).      *)
LEMMA BookInitially == Init => BookInv
<1> SUFFICES ASSUME Init PROVE BookInv
  OBVIOUS
<1> USE DEF Init
<1>1. TypeOK
  <2>1. book \in [Levels -> SUBSET (1..MaxId)]
    BY DEF Empty
  <2>2. /\ buffer \in Seq(Events(market)) /\ Len(buffer) <= MaxBuffered
        /\ replaying \in Seq(Events(market)) /\ Len(replaying) <= MaxBuffered
    BY NothingBuffered
  <2>3. kept \in 0..NumLevels /\ avail \in 0..MaxTime /\ minStarted \in 0..MaxTime
        /\ broke \in 0..MaxTime /\ usedStart \in 0..MaxTime
    OBVIOUS
  <2> QED BY <2>1, <2>2, <2>3 DEF TypeOK
<1>2. Linked /\ Fresh /\ Owing /\ AskedUntilValid
  BY DEF Linked, Fresh, Owing, AskedUntilValid
<1>3. ValidIsTrue /\ NoLookAhead /\ SnapshotAfterBreak
  BY DEF ValidIsTrue, NoLookAhead, SnapshotAfterBreak
<1> QED BY <1>1, <1>2, <1>3 DEF BookInv

(* No record, and no step of a bridge, breaks the invariant (process).       *)
LEMMA BookPreserved == BookInv /\ [Next]_vars => BookInv'
<1> SUFFICES ASSUME BookInv, [Next]_vars PROVE BookInv'
  OBVIOUS
<1> USE EmptySeq
<1>1. ASSUME NEW c \in Connections, NEW at \in Times, Connect(c, at)
      PROVE  BookInv'
  <2>1. TypeOK'
    BY <1>1 DEF Connect, Idle, ClearReconstruction, bridgeVars, BookInv, TypeOK, Empty,
                Times, Levels
  <2>2. Linked' /\ Fresh' /\ Owing' /\ AskedUntilValid'
    BY <1>1 DEF Connect, Idle, ClearReconstruction, bridgeVars, BookInv, Linked,
                Fresh, Owing, AskedUntilValid, Times
  <2>3. ValidIsTrue' /\ NoLookAhead' /\ SnapshotAfterBreak'
    BY <1>1 DEF Connect, ClearReconstruction, ValidIsTrue, NoLookAhead,
                SnapshotAfterBreak
  <2> QED BY <2>1, <2>2, <2>3 DEF BookInv
<1>2. ASSUME NEW c \in Connections, NEW at \in Times, DuplicateConnect(c, at)
      PROVE  BookInv'
  <2>1. /\ connected /\ phase' = "idle" /\ replaying' = <<>>
        /\ gap' \in BOOLEAN /\ unresolvedGap' \in BOOLEAN
    BY <1>2 DEF DuplicateConnect, Idle, Current, bridgeVars, BookInv, TypeOK, Linked
  <2>2. <<>> \in Seq(Events(market)) /\ Len(<<>>) <= MaxBuffered
    OBVIOUS
  <2> QED BY <1>2, <2>1, <2>2, Broken DEF DuplicateConnect
<1>3. ASSUME NEW c \in Connections, NEW at \in Times, NEW o \in BOOLEAN,
             Leave(c, at, o)
      PROVE  BookInv'
  <2>1. TypeOK'
    <3> USE <1>3 DEF Leave, ClearReconstruction, bridgeVars, BookInv
    <3>1. book' \in [Levels -> SUBSET (1..MaxId)]
      BY DEF Empty
    <3>2. minStarted' \in 0..MaxTime
      BY DEF TypeOK, Larger, Times
    <3>3. buffer' \in Seq(Events(market')) /\ Len(buffer') <= MaxBuffered
      BY NothingBuffered
    <3>4. /\ kept' \in 0..NumLevels /\ avail' \in 0..MaxTime
          /\ usedStart' \in 0..MaxTime /\ broke' \in 0..MaxTime
          /\ sources' \subseteq Times /\ updateId' \in Ids \cup {NoId}
      BY DEF TypeOK
    <3>5. /\ market' \in {"spot", "futures"} /\ connected' \in BOOLEAN
          /\ connection' \in Connections \cup {NoConnection}
          /\ status' \in {"disconnected", "awaiting", "valid", "replay_failed"}
          /\ resnapshot' \in BOOLEAN /\ gap' \in BOOLEAN /\ unresolvedGap' \in BOOLEAN
          /\ unresolvedReconstruction' \in BOOLEAN
          /\ pending' \in Snapshots \cup {NoSnapshot}
      BY DEF TypeOK
    <3>6. /\ phase' \in {"idle", "bootstrap", "replay"}
          /\ replaying' \in Seq(Events(market')) /\ Len(replaying') <= MaxBuffered
      BY DEF TypeOK
    <3> HIDE DEF Leave, ClearReconstruction, BookInv
    <3> QED BY <3>1, <3>2, <3>3, <3>4, <3>5, <3>6 DEF TypeOK
  <2>2. Linked' /\ Fresh' /\ Owing' /\ AskedUntilValid'
    BY <1>3 DEF Leave, Idle, ClearReconstruction, bridgeVars, BookInv, Linked,
                Fresh, Owing, AskedUntilValid, Times, TypeOK, Larger
  <2>3. ValidIsTrue' /\ NoLookAhead' /\ SnapshotAfterBreak'
    BY <1>3 DEF Leave, ClearReconstruction, ValidIsTrue, NoLookAhead,
                SnapshotAfterBreak
  <2> QED BY <2>1, <2>2, <2>3 DEF BookInv
<1>4. ASSUME NEW c \in Connections, NEW at \in Times, MalformedEvent(c, at)
      PROVE  BookInv'
  <2>1. /\ connected /\ phase' = "idle" /\ replaying' = <<>>
        /\ gap' \in BOOLEAN /\ unresolvedGap' \in BOOLEAN
    BY <1>4 DEF MalformedEvent, Idle, Current, bridgeVars, BookInv, TypeOK, Linked
  <2>2. <<>> \in Seq(Events(market)) /\ Len(<<>>) <= MaxBuffered
    OBVIOUS
  <2> QED BY <1>4, <2>1, <2>2, Broken DEF MalformedEvent
<1>5. ASSUME NEW c \in Connections, NEW e \in Events(market), LiveEvent(c, e)
      PROVE  BookInv'
  <2>1. /\ connected /\ phase = "idle" /\ status = "valid"
        /\ UNCHANGED <<phase, replaying, linkVars>> /\ replaying = <<>>
        /\ updateId \in Ids /\ market \in {"spot", "futures"}
    BY <1>5 DEF LiveEvent, Idle, Current, bridgeVars, BookInv, Linked, ValidIsTrue,
                TypeOK
  <2>2. CASE \E isGap \in BOOLEAN : BreakBook(e, <<e>>, isGap)
    <3>1. /\ Invalidate(e.at, <<e>>)
          /\ gap' \in BOOLEAN /\ unresolvedGap' \in BOOLEAN
      BY <2>2 DEF BreakBook, BookInv, TypeOK
    <3>2. <<e>> \in Seq(Events(market)) /\ Len(<<e>>) <= MaxBuffered
      OBVIOUS
    <3> QED BY <2>1, <3>1, <3>2, Broken, EventShape
  <2>3. CASE /\ ~SequenceGap(market, updateId, e) /\ ApplyEvent(e)
             /\ UNCHANGED <<buffer, pending, boundVars, debtVars>>
    <3>1. Continues(updateId, e)
      BY <1>5, <2>1, <2>3, NoGapContinues DEF LiveEvent, Decidable
    <3>2. UNCHANGED bridgeVars /\ UNCHANGED <<buffer, pending, boundVars, debtVars, linkVars>>
      BY <2>1, <2>3 DEF bridgeVars
    <3> QED BY <2>1, <2>3, <3>1, <3>2, Applied
  <2> QED BY <1>5, <2>2, <2>3 DEF LiveEvent
<1>6. ASSUME NEW c \in Connections, NEW e \in Events(market), BufferEvent(c, e)
      PROVE  BookInv'
  <2>1. /\ connected /\ phase = "idle" /\ status = "awaiting"
        /\ UNCHANGED linkVars /\ replaying = <<>>
        /\ buffer \in Seq(Events(market)) /\ Len(buffer) \in Nat
    BY <1>6, LenProperties DEF BufferEvent, Idle, Current, BookInv, Linked, TypeOK
  <2>2. CASE Invalidate(e.at, <<>>) /\ gap' = TRUE /\ UNCHANGED <<unresolvedGap, bridgeVars>>
    <3>1. /\ Invalidate(e.at, <<>>) /\ phase' = "idle" /\ replaying' = <<>>
          /\ gap' \in BOOLEAN /\ unresolvedGap' \in BOOLEAN
      BY <2>1, <2>2 DEF BookInv, TypeOK, bridgeVars
    <3>2. <<>> \in Seq(Events(market)) /\ Len(<<>>) <= MaxBuffered
      OBVIOUS
    <3> QED BY <2>1, <3>1, <3>2, Broken, EventShape
  <2>3. CASE /\ Len(buffer) < MaxBuffered
             /\ IF pending = NoSnapshot
                THEN /\ buffer' = Append(buffer, e)
                     /\ UNCHANGED <<status, bookVars, pending, bridgeVars>>
                ELSE AttemptBridge(pending, Append(buffer, e))
             /\ UNCHANGED <<boundVars, debtVars>>
    <3> DEFINE grown == Append(buffer, e)
    <3>1. /\ grown \in Seq(Events(market))
          /\ Len(grown) = Len(buffer) + 1
      BY <2>1, AppendProperties
    <3>2. Len(grown) <= MaxBuffered
      BY <2>1, <2>3, <3>1
    <3> HIDE DEF grown
    <3>3. CASE pending = NoSnapshot
      <4>1. /\ buffer' = grown
            /\ UNCHANGED <<status, bookVars, pending, bridgeVars, boundVars,
                           debtVars, linkVars>>
        BY <2>1, <2>3, <3>3 DEF grown
      <4>2. TypeOK'
        BY <3>1, <3>2, <4>1 DEF BookInv, TypeOK, bookVars, bridgeVars, boundVars,
                              debtVars, linkVars
      <4>3. Linked' /\ Fresh' /\ Owing' /\ AskedUntilValid'
        BY <4>1 DEF BookInv, Linked, Fresh, Owing, AskedUntilValid, bookVars,
                    bridgeVars, boundVars, debtVars, linkVars
      <4>4. ValidIsTrue' /\ NoLookAhead' /\ SnapshotAfterBreak'
        BY <4>1, <2>1 DEF ValidIsTrue, NoLookAhead, SnapshotAfterBreak
      <4> QED BY <4>2, <4>3, <4>4 DEF BookInv
    <3>4. CASE pending # NoSnapshot
      <4>1. pending \in Snapshots /\ pending.started >= minStarted
        BY <3>4 DEF BookInv, TypeOK, Fresh
      <4>2. AttemptBridge(pending, grown) /\ UNCHANGED <<linkVars, boundVars, debtVars>>
        BY <2>1, <2>3, <3>4 DEF grown
      <4> QED BY <2>1, <3>1, <3>2, <4>1, <4>2, Bridged
    <3> QED BY <3>3, <3>4
  <2> QED BY <1>6, <2>2, <2>3 DEF BufferEvent
<1>7. ASSUME NEW s \in Snapshots, Snapshot(s)
      PROVE  BookInv'
  <2>1. /\ status = "awaiting" /\ phase = "idle" /\ s.started >= minStarted
        /\ buffer \in Seq(Events(market)) /\ Len(buffer) <= MaxBuffered
        /\ AttemptBridge(s, buffer)
        /\ UNCHANGED <<linkVars, boundVars, debtVars>>
    BY <1>7 DEF Snapshot, Usable, Idle, BookInv, TypeOK
  <2> QED BY <2>1, Bridged
<1>8. ASSUME NEW s \in Snapshots, OverflowingSnapshot(s)
      PROVE  BookInv'
  <2> USE <1>8 DEF OverflowingSnapshot, Idle, Usable, linkVars, bookVars, bridgeVars
  <2>1. s.completed \in Times
    BY SnapshotShape
  <2>2. TypeOK'
    BY <2>1 DEF BookInv, TypeOK, Larger, Times
  <2>3. Linked' /\ Owing' /\ AskedUntilValid'
    BY DEF BookInv, Linked, Owing, AskedUntilValid
  <2>4. Fresh'
    BY <2>1 DEF BookInv, TypeOK, Fresh, Larger, Times
  <2>5. ValidIsTrue' /\ NoLookAhead' /\ SnapshotAfterBreak'
    BY DEF ValidIsTrue, NoLookAhead, SnapshotAfterBreak
  <2> QED BY <2>2, <2>3, <2>4, <2>5 DEF BookInv
<1>9. ASSUME NEW started \in Times, MalformedSnapshot(started)
      PROVE  BookInv'
  <2> USE <1>9 DEF MalformedSnapshot, Idle, Usable, linkVars, bookVars, bridgeVars,
                   boundVars
  <2>1. TypeOK'
    BY DEF BookInv, TypeOK
  <2>2. Linked' /\ Fresh' /\ Owing' /\ AskedUntilValid'
    BY DEF BookInv, Linked, Fresh, Owing, AskedUntilValid
  <2>3. ValidIsTrue' /\ NoLookAhead' /\ SnapshotAfterBreak'
    BY DEF ValidIsTrue, NoLookAhead, SnapshotAfterBreak
  <2> QED BY <2>1, <2>2, <2>3 DEF BookInv
<1>10. ASSUME phase # "idle", replaying # <<>>, UNCHANGED linkVars, Stop,
              \E isGap \in BOOLEAN : BreakBook(Head(replaying), replaying, isGap)
       PROVE  BookInv'
  <2>1. /\ connected /\ replaying \in Seq(Events(market))
        /\ Len(replaying) <= MaxBuffered
    BY <1>10 DEF BookInv, Linked, TypeOK
  <2>2. Head(replaying) \in Events(market)
    BY <1>10, <2>1, HeadTailProperties
  <2>3. /\ Invalidate(Head(replaying).at, replaying)
        /\ gap' \in BOOLEAN /\ unresolvedGap' \in BOOLEAN
        /\ phase' = "idle" /\ replaying' = <<>>
    BY <1>10 DEF BreakBook, Stop, BookInv, TypeOK
  <2>4. Head(replaying).at \in Times
    BY <2>2, EventShape
  <2> QED BY <1>10, <2>1, <2>3, <2>4, Broken
<1>11. ASSUME phase # "idle", replaying # <<>>, UNCHANGED linkVars, Advance,
              Continues(updateId, Head(replaying)), ApplyEvent(Head(replaying)),
              UNCHANGED <<buffer, pending, boundVars, debtVars>>
       PROVE  BookInv'
  <2>1. status = "valid" /\ replaying \in Seq(Events(market))
    BY <1>11 DEF BookInv, Linked, TypeOK
  <2>2. Head(replaying) \in Events(market)
    BY <1>11, <2>1, HeadTailProperties
  <2>3. UNCHANGED <<buffer, pending, boundVars, debtVars, linkVars>>
    BY <1>11
  <2> QED BY <1>11, <2>1, <2>2, <2>3, Applied
<1>12. ASSUME phase # "idle", replaying # <<>>
       PROVE  /\ Head(replaying) \in Events(market)
              /\ updateId \in Ids /\ market \in {"spot", "futures"}
  <2>1. replaying \in Seq(Events(market)) /\ updateId \in Ids
        /\ market \in {"spot", "futures"}
    BY <1>12 DEF BookInv, Linked, TypeOK, ValidIsTrue
  <2> QED BY <1>12, <2>1, HeadTailProperties
<1>13. CASE Bootstrap
  <2>1. /\ phase # "idle" /\ replaying # <<>> /\ UNCHANGED linkVars
        /\ Accepts(market, updateId, Head(replaying))
    BY <1>13 DEF Bootstrap, BookInv, Linked
  <2>2. Continues(updateId, Head(replaying))
    BY <2>1, <1>12, BridgeContinues
  <2> QED BY <1>13, <2>1, <2>2, <1>10, <1>11 DEF Bootstrap
<1>14. CASE Replay
  <2>1. phase # "idle" /\ replaying # <<>> /\ UNCHANGED linkVars
    BY <1>14 DEF Replay
  <2>2. CASE ~Decidable(Head(replaying))
    <3>1. /\ Advance
          /\ UNCHANGED <<status, bookVars, buffer, pending, boundVars, debtVars,
                         linkVars>>
      BY <1>14, <2>2 DEF Replay
    <3>2. replaying \in Seq(Events(market)) /\ Len(replaying) <= MaxBuffered
      BY DEF BookInv, TypeOK
    <3>3. /\ Tail(replaying) \in Seq(Events(market))
          /\ Len(Tail(replaying)) <= MaxBuffered
      BY <2>1, <3>2, TailBounded
    <3> USE DEF Advance, bookVars, boundVars, debtVars, linkVars
    <3>4. TypeOK'
      BY <3>1, <3>3 DEF BookInv, TypeOK
    <3>5. Linked' /\ Fresh' /\ Owing' /\ AskedUntilValid'
      BY <2>1, <3>1 DEF BookInv, Linked, Fresh, Owing, AskedUntilValid
    <3>6. ValidIsTrue' /\ NoLookAhead' /\ SnapshotAfterBreak'
      BY <3>1 DEF BookInv, ValidIsTrue, NoLookAhead, SnapshotAfterBreak
    <3> QED BY <3>4, <3>5, <3>6 DEF BookInv
  <2>3. CASE Decidable(Head(replaying)) /\ SequenceGap(market, updateId, Head(replaying))
    BY <1>14, <2>1, <2>3, <1>10 DEF Replay
  <2>4. CASE Decidable(Head(replaying)) /\ ~SequenceGap(market, updateId, Head(replaying))
    <3>1. Continues(updateId, Head(replaying))
      BY <2>1, <2>4, <1>12, NoGapContinues DEF Decidable
    <3> QED BY <1>14, <2>1, <2>4, <3>1, <1>10, <1>11 DEF Replay
  <2> QED BY <2>2, <2>3, <2>4
<1>15. CASE BridgeDone
  <2> USE <1>15 DEF BridgeDone, Stop, linkVars, bookVars, boundVars
  <2>1. TypeOK'
    BY DEF BookInv, TypeOK
  <2>2. Linked' /\ Fresh' /\ Owing' /\ AskedUntilValid'
    BY DEF BookInv, Linked, Fresh, Owing, AskedUntilValid
  <2>3. ValidIsTrue' /\ NoLookAhead' /\ SnapshotAfterBreak'
    BY DEF BookInv, ValidIsTrue, NoLookAhead, SnapshotAfterBreak
  <2> QED BY <2>1, <2>2, <2>3 DEF BookInv
<1>16. CASE IngestGap
  <2> USE <1>16 DEF IngestGap, Idle, ClearReconstruction, boundVars, debtVars, bridgeVars
  <2>1. TypeOK'
    <3>1. book' \in [Levels -> SUBSET (1..MaxId)]
      BY DEF Empty
    <3>2. buffer' \in Seq(Events(market')) /\ Len(buffer') <= MaxBuffered
      BY NothingBuffered
    <3>3. minStarted' \in 0..MaxTime
      BY DEF BookInv, TypeOK
    <3>4. /\ kept' \in 0..NumLevels /\ avail' \in 0..MaxTime
          /\ usedStart' \in 0..MaxTime /\ broke' \in 0..MaxTime
          /\ sources' \subseteq Times /\ updateId' \in Ids \cup {NoId}
      BY DEF BookInv, TypeOK
    <3>5. /\ market' \in {"spot", "futures"} /\ connected' \in BOOLEAN
          /\ connection' \in Connections \cup {NoConnection}
          /\ status' \in {"disconnected", "awaiting", "valid", "replay_failed"}
          /\ resnapshot' \in BOOLEAN /\ gap' \in BOOLEAN /\ unresolvedGap' \in BOOLEAN
          /\ unresolvedReconstruction' \in BOOLEAN
          /\ pending' \in Snapshots \cup {NoSnapshot}
      BY DEF BookInv, TypeOK
    <3>6. /\ phase' \in {"idle", "bootstrap", "replay"}
          /\ replaying' \in Seq(Events(market')) /\ Len(replaying') <= MaxBuffered
      BY DEF BookInv, TypeOK
    <3> HIDE DEF IngestGap, ClearReconstruction
    <3> QED BY <3>1, <3>2, <3>3, <3>4, <3>5, <3>6 DEF TypeOK
  <2>2. Linked' /\ Fresh' /\ Owing' /\ AskedUntilValid'
    BY DEF BookInv, Linked, Fresh, Owing, AskedUntilValid
  <2>3. ValidIsTrue' /\ NoLookAhead' /\ SnapshotAfterBreak'
    BY DEF ValidIsTrue, NoLookAhead, SnapshotAfterBreak
  <2> QED BY <2>1, <2>2, <2>3 DEF BookInv
<1>17. CASE UNCHANGED vars
  <2> USE <1>17 DEF vars, linkVars, bookVars, boundVars, debtVars, bridgeVars
  <2>1. TypeOK'
    BY DEF BookInv, TypeOK
  <2>2. Linked' /\ Fresh' /\ Owing' /\ AskedUntilValid'
    BY DEF BookInv, Linked, Fresh, Owing, AskedUntilValid
  <2>3. ValidIsTrue' /\ NoLookAhead' /\ SnapshotAfterBreak'
    BY DEF BookInv, ValidIsTrue, NoLookAhead, SnapshotAfterBreak
  <2> QED BY <2>1, <2>2, <2>3 DEF BookInv
<1> QED
  BY <1>1, <1>2, <1>3, <1>4, <1>5, <1>6, <1>7, <1>8, <1>9, <1>13, <1>14, <1>15,
     <1>16, <1>17 DEF Next

-----------------------------------------------------------------------------
(* The theorems *)

(* The invariant holds in every reachable state, for every history of the    *)
(* venue, number of levels, connections and buffer bound.                    *)
THEOREM BookInvariant == Spec => []BookInv
<1>1. Init => BookInv
  BY BookInitially
<1>2. BookInv /\ [Next]_vars => BookInv'
  BY BookPreserved
<1> QED BY <1>1, <1>2, PTL DEF Spec

(* The state of a book keeps its type, the bound on its buffer included.     *)
THEOREM BookTypes == Spec => []TypeOK
<1>1. BookInv => TypeOK
  BY DEF BookInv
<1> QED BY <1>1, BookInvariant, PTL

(* A valid book is the venue's book as of its update id.                     *)
THEOREM BookIsTrue == Spec => []ValidIsTrue
<1>1. BookInv => ValidIsTrue
  BY DEF BookInv
<1> QED BY <1>1, BookInvariant, PTL

(* A valid book is never dated before a record it was built from.            *)
THEOREM BookNeverLooksAhead == Spec => []NoLookAhead
<1>1. BookInv => NoLookAhead
  BY DEF BookInv
<1> QED BY <1>1, BookInvariant, PTL

(* A valid book rests on a snapshot asked for after the last break.          *)
THEOREM BookRestsOnFreshSnapshot == Spec => []SnapshotAfterBreak
<1>1. BookInv => SnapshotAfterBreak
  BY DEF BookInv
<1> QED BY <1>1, BookInvariant, PTL

(* A connected book that is not valid asks for a snapshot and reports it.    *)
THEOREM BookAsksUntilValid == Spec => []AskedUntilValid
<1>1. BookInv => AskedUntilValid
  BY DEF BookInv
<1> QED BY <1>1, BookInvariant, PTL

(* What a book owes is cleared by a completed bridge and nothing else.       *)
THEOREM BookDebtClearedByBridge == Spec => DebtClearedByBridge
<1> DEFINE Cleared ==
      (unresolvedGap /\ ~unresolvedGap')
        \/ (unresolvedReconstruction /\ ~unresolvedReconstruction')
<1>1. BookInv /\ [Next]_vars => [Cleared => status' = "valid" /\ phase' = "idle"]_vars
  <2> SUFFICES ASSUME BookInv, Next, Cleared PROVE status' = "valid" /\ phase' = "idle"
    OBVIOUS
  <2> USE DEF debtVars
  <2>1. ASSUME NEW c \in Connections, NEW at \in Times
        PROVE  /\ ~Connect(c, at)
               /\ ~DuplicateConnect(c, at)
               /\ \A o \in BOOLEAN : ~Leave(c, at, o)
               /\ ~MalformedEvent(c, at)
    BY DEF Connect, DuplicateConnect, Leave, MalformedEvent, Invalidate
  <2>2. ASSUME NEW c \in Connections, NEW e \in Events(market)
        PROVE  ~LiveEvent(c, e) /\ ~BufferEvent(c, e)
    BY DEF LiveEvent, BufferEvent, BreakBook, Invalidate, BookInv, TypeOK
  <2>3. ASSUME NEW s \in Snapshots
        PROVE  ~Snapshot(s) /\ ~OverflowingSnapshot(s)
    BY DEF Snapshot, OverflowingSnapshot
  <2>4. \A started \in Times : ~MalformedSnapshot(started)
    BY DEF MalformedSnapshot
  <2>5. ~Bootstrap /\ ~Replay /\ ~IngestGap
    BY DEF Bootstrap, Replay, IngestGap, BreakBook, Invalidate, BookInv, TypeOK
  <2>6. BridgeDone
    BY <2>1, <2>2, <2>3, <2>4, <2>5 DEF Next
  <2>7. status = "valid"
    BY <2>6 DEF BridgeDone, BookInv, Linked
  <2> QED BY <2>6, <2>7 DEF BridgeDone, Stop
<1> QED BY <1>1, BookInvariant, PTL DEF Spec, DebtClearedByBridge
=============================================================================
