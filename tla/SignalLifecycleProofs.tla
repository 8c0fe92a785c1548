----------------------- MODULE SignalLifecycleProofs -----------------------
(***************************************************************************)
(* Safety of the alert state machine, for any symbols, rule families,       *)
(* cooldown, restore limit and number of restarts.  The invariant relates   *)
(* the durable rows to each other and to what a running process remembers;  *)
(* it is needed because a restart rebuilds memory from the rows alone.      *)
(***************************************************************************)
EXTENDS SignalLifecycle, FiniteSetTheorems, WellFoundedInduction, TLAPS

-----------------------------------------------------------------------------
(* Prunes on record *)

(* A key that was kept over an interval was kept over every part of it. *)
LEMMA KeptWithin ==
    ASSUME dropped \subseteq Keys \X Nat, NEW k, NEW from \in Nat, NEW to \in Nat,
           NEW f \in Nat, NEW t \in Nat, from <= f, t <= to,
           KeptBetween(k, from, to)
    PROVE  KeptBetween(k, f, t)
<1> SUFFICES ASSUME NEW d \in dropped, d[1] = k, f <= d[2], d[2] <= t
             PROVE  FALSE
  BY DEF KeptBetween
<1>1. d[2] \in Nat OBVIOUS
<1>2. from <= d[2] /\ d[2] <= to BY <1>1
<1> QED BY <1>2 DEF KeptBetween

(* Prunes are only added to. *)
LEMMA KeptBefore ==
    ASSUME dropped \subseteq dropped', NEW k, NEW from, NEW to,
           KeptBetween(k, from, to)'
    PROVE  KeptBetween(k, from, to)
BY DEF KeptBetween

-----------------------------------------------------------------------------
(* What an evaluation decides *)

LEMMA DesiredStage == ASSUME NEW ev PROVE Desired(ev) \in Stages
BY DEF Desired, Stages

(* A decision is made outside the cooldown and announces a change. *)
LEMMA OutcomeCases ==
    ASSUME TypeOK, NEW k \in Keys, NEW d \in Stages, Outcome(k, d) # "none"
    PROVE  /\ cooldown[k] <= now
           /\ Outcome(k, d) \in SignalStages \ {"IDLE"}
           /\ d = IF Outcome(k, d) = "INVALIDATED" THEN "IDLE" ELSE Outcome(k, d)
           /\ Outcome(k, d) = "INVALIDATED" => stage[k] \in {"WATCH", "SETUP"}
           /\ Outcome(k, d) # "INVALIDATED" => Outcome(k, d) # stage[k]
<1>1. cooldown[k] \in Nat /\ now \in Nat /\ ~InCooldown(k)
  BY DEF TypeOK, Outcome
<1>2. cooldown[k] <= now BY <1>1 DEF InCooldown
<1> QED BY <1>1, <1>2 DEF Outcome, Stages, SignalStages

(* Outside the cooldown a silent evaluation leaves an announced stage as it *)
(* is.                                                                      *)
LEMMA SilentCases ==
    ASSUME NEW k \in Keys, NEW d \in Stages, Outcome(k, d) = "none",
           ~InCooldown(k), stage[k] \in {"IDLE", "WATCH", "SETUP"}
    PROVE  d = stage[k]
BY DEF Outcome, Stages

-----------------------------------------------------------------------------
(* What a restart rebuilds *)

(* Rows up to now have a latest one. *)
LEMMA LatestExists ==
    ASSUME NEW rows, rows \subseteq Signal, rows # {}, NEW n \in Nat,
           \A a \in rows : a.t <= n
    PROVE  \E a \in rows : \A b \in rows : b.t <= a.t
<1> DEFINE T == {n - a.t : a \in rows}
<1>1. \A a \in rows : a.t \in Nat BY DEF Signal
<1>2. T \subseteq Nat /\ T # {}
  <2>1. \A a \in rows : n - a.t \in Nat BY <1>1
  <2> QED BY <2>1
<1>3. \E x \in T : \A y \in T : ~(<<y, x>> \in OpToRel(<, Nat))
  <2> HIDE DEF T
  <2> QED BY <1>2, NatLessThanWellFounded, WFMin
<1>4. PICK a \in rows : \A y \in T : ~(<<y, n - a.t>> \in OpToRel(<, Nat))
  BY <1>3
<1>5. \A b \in rows : b.t <= a.t
  <2> SUFFICES ASSUME NEW b \in rows PROVE b.t <= a.t
    OBVIOUS
  <2>1. ~(<<n - b.t, n - a.t>> \in OpToRel(<, Nat)) BY <1>4
  <2>2. n - b.t \in Nat /\ n - a.t \in Nat BY <1>2
  <2>3. ~(n - b.t < n - a.t) BY <2>1, <2>2 DEF OpToRel
  <2> QED BY <1>1, <2>3
<1> QED BY <1>5

(* restore_from_decisions: the cooldown covers every confirmation among the *)
(* rows and is that of one of them.                                         *)
LEMMA RestoredCooldownIs ==
    ASSUME NEW rows, rows \subseteq Signal, NEW n \in Nat, \A a \in rows : a.t <= n
    PROVE  /\ RestoredCooldown(rows) \in Nat
           /\ \A a \in rows : a.st = "CONFIRMED" => RestoredCooldown(rows) >= a.t + Cooldown
           /\ \/ RestoredCooldown(rows) = 0
              \/ \E c \in rows : c.st = "CONFIRMED" /\ RestoredCooldown(rows) = c.t + Cooldown
<1> DEFINE confirmed == {a \in rows : a.st = "CONFIRMED"}
<1>1. CASE confirmed = {}
  BY <1>1 DEF RestoredCooldown
<1>2. CASE confirmed # {}
  <2> DEFINE c == CHOOSE a \in confirmed : \A b \in confirmed : b.t <= a.t
  <2>1. \E a \in confirmed : \A b \in confirmed : b.t <= a.t
    <3>1. confirmed \subseteq Signal /\ \A a \in confirmed : a.t <= n OBVIOUS
    <3> QED BY <1>2, <3>1, LatestExists
  <2>2. c \in confirmed /\ \A b \in confirmed : b.t <= c.t
    BY <2>1
  <2>3. RestoredCooldown(rows) = c.t + Cooldown
    BY <1>2 DEF RestoredCooldown
  <2> HIDE DEF c
  <2>4. \A b \in confirmed : b.t \in Nat BY DEF Signal
  <2>5. Cooldown \in Nat BY NumbersAssumption
  <2> QED BY <2>2, <2>3, <2>4, <2>5
<1> QED BY <1>1, <1>2

(* The stage is that of a row of the latest time. *)
LEMMA RestoredStagesType ==
    ASSUME NEW rows, rows \subseteq Signal
    PROVE  RestoredStages(rows) \subseteq Stages
BY DEF RestoredStages, Last, Signal, SignalStages, Stages

LEMMA RestoredStageIs ==
    ASSUME NEW rows, rows \subseteq Signal, NEW a \in rows,
           \A b \in rows \ {a} : b.t < a.t
    PROVE  RestoredStages(rows) = {IF a.st = "INVALIDATED" THEN "IDLE" ELSE a.st}
<1>1. \A b \in rows : b.t \in Nat BY DEF Signal
<1>2. Last(rows) = {a}
  BY <1>1 DEF Last
<1>3. rows # {} OBVIOUS
<1> QED BY <1>2, <1>3 DEF RestoredStages

-----------------------------------------------------------------------------
(* Steps that add no row *)

(* The relations among the rows only get weaker. *)
LEMMA RowsKept ==
    ASSUME SignalInv, signals' = signals, dropped \subseteq dropped',
           now' \in Nat, now <= now'
    PROVE  /\ IsFiniteSet(signals') /\ \A a \in signals' : a.t <= now'
           /\ RowsSpaced' /\ NoRepeatedAlert'
<1>1. now \in Nat /\ signals \subseteq Signal BY DEF SignalInv, TypeOK
<1>2. \A a \in signals : a.t \in Nat /\ a.t <= now BY <1>1 DEF SignalInv, Signal
<1>3. \A a \in signals : a.t <= now' BY <1>1, <1>2
<1>4. RowsSpaced'
  BY KeptBefore DEF SignalInv, RowsSpaced, Restorable
<1>5. NoRepeatedAlert'
  BY KeptBefore DEF SignalInv, NoRepeatedAlert
<1> QED BY <1>3, <1>4, <1>5 DEF SignalInv

(* Memory goes on covering the rows when it stays the same, or when the     *)
(* prune of a key that has rows is on record.                               *)
LEMMA MemoryKept ==
    ASSUME SignalInv, signals' = signals, dropped \subseteq dropped',
           dropped' \subseteq Keys \X Nat, now' \in Nat, now <= now', mode # "down",
           \A a \in signals :
               \/ stage'[a.key] = stage[a.key] /\ cooldown'[a.key] = cooldown[a.key]
               \/ now' = now /\ <<a.key, now>> \in dropped'
    PROVE  MemoryCoversRows' /\ StageFollowsRows'
<1>1. now \in Nat /\ signals \subseteq Signal /\ dropped \subseteq Keys \X Nat
  BY DEF SignalInv, TypeOK
<1>2. \A a \in signals : a.t \in Nat /\ a.t <= now BY <1>1 DEF SignalInv, Signal
<1>3. ASSUME NEW a \in signals, NEW f \in Nat, f <= now, KeptBetween(a.key, f, now)'
      PROVE  /\ KeptBetween(a.key, f, now)
             /\ stage'[a.key] = stage[a.key] /\ cooldown'[a.key] = cooldown[a.key]
  <2>1. ~(now' = now /\ <<a.key, now>> \in dropped')
    BY <1>1, <1>3 DEF KeptBetween
  <2>2. KeptBetween(a.key, f, now')
    BY <1>3 DEF KeptBetween
  <2>3. KeptBetween(a.key, f, now)
    BY <1>1, <2>2, KeptWithin
  <2> QED BY <2>1, <2>3
<1>4. MemoryCoversRows'
  BY <1>2, <1>3 DEF SignalInv, MemoryCoversRows, Restorable
<1>5. StageFollowsRows'
  <2>1. 0 \in Nat /\ 0 <= now BY <1>1
  <2> QED BY <1>3, <2>1 DEF SignalInv, StageFollowsRows, Restorable
<1> QED BY <1>4, <1>5

(* Activating a universe (Prepare and Rotate). *)
LEMMA UniverseSet ==
    ASSUME SignalInv, NEW sv \in SUBSET Symbols, NEW tr \in SUBSET sv,
           SetActiveSymbols(tr, sv), mode # "down", mode' = "up",
           UNCHANGED <<signals, seen, now, starts>>
    PROVE  SignalInv'
<1>1. now \in Nat /\ signals \subseteq Signal /\ dropped \subseteq Keys \X Nat
  BY DEF SignalInv, TypeOK
<1>2. \A a \in signals : a.key \in Keys BY <1>1 DEF Signal
<1>3. dropped \subseteq dropped' /\ dropped' \subseteq Keys \X Nat
  BY <1>1, <1>2 DEF SetActiveSymbols
<1>4. TypeOK'
  BY <1>3 DEF SignalInv, TypeOK, SetActiveSymbols, Stages
<1>5. \A a \in signals :
        \/ stage'[a.key] = stage[a.key] /\ cooldown'[a.key] = cooldown[a.key]
        \/ <<a.key, now>> \in dropped'
  <2> SUFFICES ASSUME NEW a \in signals, Pruned(a.key, tr, sv)
               PROVE  <<a.key, now>> \in dropped'
    BY <1>2 DEF SetActiveSymbols
  <2> QED BY DEF SetActiveSymbols
<1>6. MemoryCoversRows' /\ StageFollowsRows'
  BY <1>1, <1>3, <1>5, MemoryKept
<1>7. /\ IsFiniteSet(signals') /\ \A a \in signals' : a.t <= now'
      /\ RowsSpaced' /\ NoRepeatedAlert'
  BY <1>1, <1>3, RowsKept
<1> QED BY <1>4, <1>6, <1>7 DEF SignalInv

(* restore_persisted_state: with every row within the limit, memory is what *)
(* the rows demand.                                                         *)
LEMMA Started == ASSUME SignalInv, Start PROVE SignalInv'
<1>1. /\ now \in Nat /\ signals \subseteq Signal /\ dropped \subseteq Keys \X Nat
      /\ starts \in Nat /\ IsFiniteSet(signals)
  BY DEF SignalInv, TypeOK
<1>2. \A a \in signals : a.t \in Nat /\ a.t <= now /\ a.key \in Keys
  BY <1>1 DEF SignalInv, Signal
<1>3. PICK rows \in SUBSET signals :
        /\ IsRecent(rows)
        /\ stage' \in [Keys -> SignalStages]
        /\ \A k \in Keys : stage'[k] \in RestoredStages({a \in rows : a.key = k})
        /\ cooldown' = [k \in Keys |-> RestoredCooldown({a \in rows : a.key = k})]
  BY DEF Start, Restore
<1>4. /\ UNCHANGED <<signals, tradable, surveillance, now, dropped>>
      /\ mode' = "starting" /\ starts' = starts + 1 /\ seen' \subseteq Keys
  BY DEF Start
<1> DEFINE of(k) == {a \in rows : a.key = k}
<1>5. \A k \in Keys : /\ of(k) \subseteq Signal /\ \A a \in of(k) : a.t <= now
  BY <1>1, <1>2
<1>6. TypeOK'
  <2>1. \A k \in Keys : RestoredStages(of(k)) \subseteq Stages
    BY <1>5, RestoredStagesType
  <2>2. stage' \in [Keys -> Stages] BY <1>3, <2>1
  <2>3. \A k \in Keys : RestoredCooldown(of(k)) \in Nat
    BY <1>1, <1>5, RestoredCooldownIs
  <2>4. cooldown' \in [Keys -> Nat] BY <1>3, <2>3
  <2> QED BY <1>1, <1>4, <2>2, <2>4 DEF SignalInv, TypeOK
<1>7. Restorable' => rows = signals
  <2> SUFFICES ASSUME Cardinality(signals) <= RestoreLimit PROVE rows = signals
    BY <1>4 DEF Restorable
  <2>1. Cardinality(signals) \in Nat /\ RestoreLimit \in Nat
    BY <1>1, FS_CardinalityType, NumbersAssumption
  <2>2. Cardinality(rows) = Cardinality(signals)
    BY <1>3, <2>1 DEF IsRecent
  <2> QED BY <1>1, <2>2, FS_Subset
<1>8. \A a \in signals : Restorable' => a \in of(a.key)
  BY <1>7
<1>9. MemoryCoversRows'
  <2> SUFFICES ASSUME Restorable', NEW a \in signals, a.st = "CONFIRMED"
               PROVE  cooldown'[a.key] >= a.t + Cooldown
    BY <1>4 DEF MemoryCoversRows
  <2>1. a \in of(a.key) /\ cooldown'[a.key] = RestoredCooldown(of(a.key))
    BY <1>2, <1>3, <1>8
  <2> QED BY <1>1, <1>2, <1>5, <2>1, RestoredCooldownIs
<1>10. StageFollowsRows'
  <2> SUFFICES ASSUME Restorable', NEW a \in signals, a.st # "CONFIRMED",
                      KeptBetween(a.key, 0, now),
                      \A b \in signals \ {a} : b.key = a.key => b.t < a.t
               PROVE  /\ stage'[a.key] = IF a.st = "INVALIDATED" THEN "IDLE" ELSE a.st
                      /\ cooldown'[a.key] <= a.t
    BY <1>4 DEF StageFollowsRows, KeptBetween
  <2>1. a \in of(a.key) /\ rows = signals BY <1>7, <1>8
  <2>2. \A b \in of(a.key) \ {a} : b.t < a.t BY <2>1
  <2>3. RestoredStages(of(a.key)) = {IF a.st = "INVALIDATED" THEN "IDLE" ELSE a.st}
    BY <1>2, <1>5, <2>1, <2>2, RestoredStageIs
  <2>4. stage'[a.key] = IF a.st = "INVALIDATED" THEN "IDLE" ELSE a.st
    BY <1>2, <1>3, <2>3
  <2>5. cooldown'[a.key] = RestoredCooldown(of(a.key)) BY <1>2, <1>3
  <2>6. CASE RestoredCooldown(of(a.key)) = 0 BY <1>2, <2>4, <2>5, <2>6
  <2>7. ASSUME NEW c \in of(a.key), c.st = "CONFIRMED",
               RestoredCooldown(of(a.key)) = c.t + Cooldown
        PROVE  cooldown'[a.key] <= a.t
    <3>1. c \in signals /\ c.key = a.key /\ c.t < a.t BY <2>1, <2>2, <2>7
    <3>2. c.t \in Nat /\ a.t \in Nat /\ a.t <= now BY <1>2, <3>1
    <3>3. KeptBetween(a.key, c.t, a.t) BY <1>1, <3>2, KeptWithin
    <3>4. Restorable BY <1>4 DEF Restorable
    <3>5. a.t >= c.t + Cooldown
      BY <2>7, <3>1, <3>3, <3>4 DEF SignalInv, RowsSpaced
    <3>6. Cooldown \in Nat BY NumbersAssumption
    <3> QED BY <2>5, <2>7, <3>2, <3>5, <3>6
  <2>8. \/ RestoredCooldown(of(a.key)) = 0
        \/ \E c \in of(a.key) : c.st = "CONFIRMED" /\ RestoredCooldown(of(a.key)) = c.t + Cooldown
    BY <1>1, <1>2, <1>5, RestoredCooldownIs
  <2> QED BY <2>4, <2>6, <2>7, <2>8
<1>11. /\ IsFiniteSet(signals') /\ \A a \in signals' : a.t <= now'
       /\ RowsSpaced' /\ NoRepeatedAlert'
  BY <1>1, <1>4, RowsKept
<1> QED BY <1>6, <1>9, <1>10, <1>11 DEF SignalInv

(* _process without a decision: within the cooldown the stage may drift,    *)
(* but then the newest row is a confirmation.                               *)
LEMMA SilentlyEvaluated ==
    ASSUME SignalInv, NEW k \in Keys, NEW ev, EvaluateSilently(k, ev)
    PROVE  SignalInv'
<1> DEFINE d == Desired(ev)
<1>1. /\ now \in Nat /\ signals \subseteq Signal /\ stage \in [Keys -> Stages]
      /\ cooldown \in [Keys -> Nat]
  BY DEF SignalInv, TypeOK
<1>2. \A a \in signals : a.t \in Nat /\ a.t <= now /\ a.key \in Keys
                          /\ a.st \in SignalStages \ {"IDLE"}
  BY <1>1 DEF SignalInv, Signal
<1>3. /\ UNCHANGED <<signals, tradable, surveillance, mode, now, starts, dropped>>
      /\ seen' = seen \cup {k} /\ Outcome(k, d) = "none" /\ mode = "up"
      /\ stage' = [stage EXCEPT ![k] = d]
      /\ cooldown' = [cooldown EXCEPT ![k] = cooldown[k]]
  BY DEF EvaluateSilently, Advance
<1>4. d \in Stages BY DesiredStage
<1>5. cooldown' = cooldown BY <1>1, <1>3
<1>6. TypeOK' BY <1>1, <1>3, <1>4, <1>5 DEF SignalInv, TypeOK
<1>7. MemoryCoversRows'
  BY <1>3, <1>5 DEF SignalInv, MemoryCoversRows, Restorable, KeptBetween
<1>8. StageFollowsRows'
  <2> SUFFICES ASSUME Restorable, NEW a \in signals, a.st # "CONFIRMED",
                      KeptBetween(a.key, 0, now),
                      \A b \in signals \ {a} : b.key = a.key => b.t < a.t
               PROVE  /\ stage'[a.key] = IF a.st = "INVALIDATED" THEN "IDLE" ELSE a.st
                      /\ cooldown'[a.key] <= a.t
    BY <1>3 DEF StageFollowsRows, KeptBetween, Restorable
  <2>1. /\ stage[a.key] = IF a.st = "INVALIDATED" THEN "IDLE" ELSE a.st
        /\ cooldown[a.key] <= a.t
    BY <1>3 DEF SignalInv, StageFollowsRows
  <2>2. CASE a.key # k BY <1>1, <1>2, <1>3, <1>5, <2>1, <2>2
  <2>3. CASE a.key = k
    <3>1. stage[k] \in {"IDLE", "WATCH", "SETUP"}
      BY <1>2, <2>1, <2>3 DEF SignalStages, Stages
    <3>2. cooldown[k] <= now BY <1>1, <1>2, <2>1, <2>3
    <3>3. ~InCooldown(k) BY <1>1, <3>2 DEF InCooldown
    <3>4. d = stage[k] BY <1>3, <1>4, <3>1, <3>3, SilentCases
    <3> QED BY <1>1, <1>3, <1>5, <2>1, <2>3, <3>4
  <2> QED BY <2>2, <2>3
<1>9. /\ IsFiniteSet(signals') /\ \A a \in signals' : a.t <= now'
      /\ RowsSpaced' /\ NoRepeatedAlert'
  BY <1>1, <1>3, RowsKept
<1> QED BY <1>6, <1>7, <1>8, <1>9 DEF SignalInv

-----------------------------------------------------------------------------
(* The step that adds a row *)

(* _process with a decision that becomes durable. *)
LEMMA Persisted ==
    ASSUME SignalInv, NEW k \in Keys, NEW ev, EvaluateAndPersist(k, ev)
    PROVE  SignalInv'
<1>1. PICK d, st, r : d = Desired(ev) /\ st = Outcome(k, d) /\ r = Row(k, st)
  OBVIOUS
<1>2. /\ now \in Nat /\ signals \subseteq Signal /\ stage \in [Keys -> Stages]
      /\ cooldown \in [Keys -> Nat] /\ IsFiniteSet(signals)
      /\ Cooldown \in Nat /\ RestoreLimit \in Nat
  BY NumbersAssumption DEF SignalInv, TypeOK
<1>3. \A a \in signals : a.t \in Nat /\ a.t <= now /\ a.key \in Keys
  BY <1>2 DEF SignalInv, Signal
<1>4. /\ UNCHANGED <<tradable, surveillance, mode, now, starts, dropped>>
      /\ seen' = seen \cup {k} /\ mode = "up" /\ st # "none" /\ r \notin signals
      /\ signals' = signals \cup {r}
      /\ stage' = [stage EXCEPT ![k] = d]
      /\ cooldown' = [cooldown EXCEPT ![k] =
            IF st = "CONFIRMED" THEN now + Cooldown ELSE cooldown[k]]
  BY <1>1 DEF EvaluateAndPersist, Advance
<1>5. d \in Stages BY <1>1, DesiredStage
<1>6. /\ cooldown[k] <= now
      /\ st \in SignalStages \ {"IDLE"}
      /\ d = IF st = "INVALIDATED" THEN "IDLE" ELSE st
      /\ st = "INVALIDATED" => stage[k] \in {"WATCH", "SETUP"}
      /\ st # "INVALIDATED" => st # stage[k]
  <2>1. TypeOK /\ Outcome(k, d) # "none" BY <1>1, <1>4 DEF SignalInv
  <2> QED BY <1>1, <1>5, <2>1, OutcomeCases
<1>7. r.key = k /\ r.st = st /\ r.t = now /\ r \in Signal
  BY <1>1, <1>2, <1>6 DEF Row, Signal
<1>8. /\ stage'[k] = d /\ \A l \in Keys \ {k} : stage'[l] = stage[l] /\ cooldown'[l] = cooldown[l]
      /\ st = "CONFIRMED" => cooldown'[k] = now + Cooldown
      /\ st # "CONFIRMED" => cooldown'[k] = cooldown[k]
  BY <1>2, <1>4
<1>9. TypeOK'
  <2>1. stage' \in [Keys -> Stages] BY <1>2, <1>4, <1>5
  <2>2. cooldown' \in [Keys -> Nat] BY <1>2, <1>4
  <2> QED BY <1>2, <1>4, <1>7, <2>1, <2>2 DEF SignalInv, TypeOK
<1>10. IsFiniteSet(signals') /\ (Restorable' => Restorable)
  <2>1. /\ IsFiniteSet(signals \cup {r})
        /\ Cardinality(signals \cup {r}) = Cardinality(signals) + 1
    BY <1>2, <1>4, FS_AddElement
  <2>2. Cardinality(signals) \in Nat BY <1>2, FS_CardinalityType
  <2> QED BY <1>2, <1>4, <2>1, <2>2 DEF Restorable
<1>11. \A l, f, t : KeptBetween(l, f, t)' <=> KeptBetween(l, f, t)
  BY <1>4 DEF KeptBetween
<1>12. \A a \in signals' : a.t <= now' BY <1>2, <1>3, <1>4, <1>7
<1>13. ASSUME Restorable', NEW a \in signals, a.key = k, a.st = "CONFIRMED",
              KeptBetween(k, a.t, now)
       PROVE  now >= a.t + Cooldown
  <2>1. cooldown[k] >= a.t + Cooldown
    BY <1>4, <1>10, <1>13 DEF SignalInv, MemoryCoversRows
  <2> QED BY <1>2, <1>3, <1>6, <2>1
<1>14. RowsSpaced'
  <2> SUFFICES ASSUME Restorable', NEW c \in signals', NEW a \in signals',
                      c.key = a.key, c.st = "CONFIRMED", c.t < a.t,
                      KeptBetween(c.key, c.t, a.t)
               PROVE  a.t >= c.t + Cooldown
    BY <1>11 DEF RowsSpaced
  <2>1. c \in signals
    BY <1>2, <1>3, <1>4, <1>7
  <2>2. CASE a \in signals
    BY <1>10, <2>1, <2>2 DEF SignalInv, RowsSpaced
  <2>3. CASE a = r
    BY <1>7, <1>13, <2>1, <2>3
  <2> QED BY <1>4, <2>2, <2>3
<1>15. MemoryCoversRows'
  <2> SUFFICES ASSUME Restorable', NEW a \in signals', a.st = "CONFIRMED",
                      KeptBetween(a.key, a.t, now)
               PROVE  cooldown'[a.key] >= a.t + Cooldown
    BY <1>4, <1>11 DEF MemoryCoversRows
  <2>1. CASE a = r BY <1>2, <1>7, <1>8, <2>1
  <2>2. CASE a \in signals
    <3>1. cooldown[a.key] >= a.t + Cooldown
      BY <1>4, <1>10, <2>2 DEF SignalInv, MemoryCoversRows
    <3>2. CASE a.key = k /\ st = "CONFIRMED" BY <1>2, <1>3, <1>8, <2>2, <3>2
    <3>3. CASE ~(a.key = k /\ st = "CONFIRMED") BY <1>3, <1>8, <2>2, <3>1, <3>3
    <3> QED BY <3>2, <3>3
  <2> QED BY <1>4, <2>1, <2>2
<1>16. StageFollowsRows'
  <2> SUFFICES ASSUME Restorable', NEW a \in signals', a.st # "CONFIRMED",
                      KeptBetween(a.key, 0, now),
                      \A b \in signals' \ {a} : b.key = a.key => b.t < a.t
               PROVE  /\ stage'[a.key] = IF a.st = "INVALIDATED" THEN "IDLE" ELSE a.st
                      /\ cooldown'[a.key] <= a.t
    BY <1>4, <1>11 DEF StageFollowsRows
  <2>1. CASE a = r BY <1>6, <1>7, <1>8, <2>1
  <2>2. CASE a \in signals
    <3>1. a.key # k
      <4>1. SUFFICES ASSUME a.key = k PROVE FALSE OBVIOUS
      <4>2. r \in signals' \ {a} /\ r.key = a.key BY <1>4, <1>7, <2>2, <4>1
      <4>3. now < a.t BY <1>7, <4>2
      <4> QED BY <1>2, <1>3, <2>2, <4>3
    <3>2. \A b \in signals \ {a} : b.key = a.key => b.t < a.t BY <1>4
    <3>3. /\ stage[a.key] = IF a.st = "INVALIDATED" THEN "IDLE" ELSE a.st
          /\ cooldown[a.key] <= a.t
      BY <1>4, <1>10, <2>2, <3>2 DEF SignalInv, StageFollowsRows
    <3> QED BY <1>3, <1>8, <2>2, <3>1, <3>3
  <2> QED BY <1>4, <2>1, <2>2
<1>17. NoRepeatedAlert'
  <2> SUFFICES ASSUME Restorable', NEW a \in signals', NEW b \in signals',
                      a.key = b.key, a.st = b.st, a.t < b.t,
                      KeptBetween(a.key, 0, b.t),
                      ~\E c \in signals' \ {a, b} : c.key = a.key /\ a.t <= c.t /\ c.t <= b.t,
                      a.st # "CONFIRMED"
               PROVE  FALSE
    BY <1>11 DEF NoRepeatedAlert, Restorable
  <2>1. a \in signals
    BY <1>2, <1>3, <1>4, <1>7
  <2>2. CASE b \in signals
    BY <1>4, <1>10, <2>1, <2>2 DEF SignalInv, NoRepeatedAlert, Restorable
  <2>3. CASE b = r
    <3>1. \A c \in signals \ {a} : c.key = a.key => c.t < a.t
      <4> SUFFICES ASSUME NEW c \in signals \ {a}, c.key = a.key, ~(c.t < a.t)
                   PROVE  FALSE
        OBVIOUS
      <4>1. c \in signals' \ {a, b} BY <1>4, <2>3
      <4>2. a.t <= c.t /\ c.t <= b.t BY <1>2, <1>3, <1>7, <2>1, <2>3
      <4> QED BY <4>1, <4>2
    <3>2. stage[k] = IF a.st = "INVALIDATED" THEN "IDLE" ELSE a.st
      BY <1>4, <1>7, <1>10, <2>1, <2>3, <3>1 DEF SignalInv, StageFollowsRows
    <3>3. a.st = st BY <1>7, <2>3
    <3> QED BY <1>6, <3>2, <3>3
  <2> QED BY <1>4, <2>2, <2>3
<1> QED BY <1>9, <1>10, <1>12, <1>14, <1>15, <1>16, <1>17 DEF SignalInv

-----------------------------------------------------------------------------
(* The theorems *)

LEMMA SignalInitially == Init => SignalInv
<1> SUFFICES ASSUME Init PROVE SignalInv OBVIOUS
<1>1. TypeOK BY DEF Init, TypeOK, Stages
<1>2. signals = {} /\ IsFiniteSet(signals) BY FS_EmptySet DEF Init
<1> QED BY <1>1, <1>2
        DEF SignalInv, RowsSpaced, MemoryCoversRows, StageFollowsRows, NoRepeatedAlert

(* Every step preserves the invariant: one case per action. *)
LEMMA SignalPreserved == ASSUME SignalInv, [Next]_vars PROVE SignalInv'
<1>1. /\ now \in Nat /\ starts \in Nat /\ dropped \subseteq Keys \X Nat
  BY DEF SignalInv, TypeOK
<1>2. ASSUME UNCHANGED <<signals, dropped, mode, stage, cooldown>>, TypeOK',
             now' \in Nat, now <= now'
      PROVE  SignalInv'
  <2>1. /\ IsFiniteSet(signals') /\ \A a \in signals' : a.t <= now'
        /\ RowsSpaced' /\ NoRepeatedAlert'
    BY <1>2, RowsKept
  <2>2. CASE mode # "down"
    <3>1. MemoryCoversRows' /\ StageFollowsRows' BY <1>1, <1>2, <2>2, MemoryKept
    <3> QED BY <1>2, <2>1, <3>1 DEF SignalInv
  <2>3. CASE mode = "down"
    BY <1>2, <2>1, <2>3 DEF SignalInv, MemoryCoversRows, StageFollowsRows
  <2> QED BY <2>2, <2>3
<1>3. CASE UNCHANGED vars
  <2>1. TypeOK' BY <1>3 DEF vars, SignalInv, TypeOK
  <2> QED BY <1>1, <1>2, <1>3, <2>1 DEF vars
<1>4. CASE Start BY <1>4, Started
<1>5. CASE Stop
  <2>1. TypeOK' BY <1>5 DEF Stop, SignalInv, TypeOK, Stages
  <2>2. /\ IsFiniteSet(signals') /\ \A a \in signals' : a.t <= now'
        /\ RowsSpaced' /\ NoRepeatedAlert'
    BY <1>1, <1>5, RowsKept DEF Stop
  <2>3. mode' = "down" BY <1>5 DEF Stop
  <2> QED BY <2>1, <2>2, <2>3 DEF SignalInv, MemoryCoversRows, StageFollowsRows
<1>6. CASE Tick
  <2>1. TypeOK' BY <1>1, <1>6 DEF Tick, SignalInv, TypeOK
  <2>2. now' = now + 1 BY <1>6 DEF Tick
  <2>3. now' \in Nat /\ now <= now' BY <1>1, <2>2
  <2> QED BY <1>2, <1>6, <2>1, <2>3 DEF Tick
<1>7. ASSUME NEW sv \in SUBSET Symbols, NEW tr \in SUBSET sv,
             Prepare(tr, sv) \/ Rotate(tr, sv)
      PROVE  SignalInv'
  BY <1>7, UniverseSet DEF Prepare, Rotate
<1>8. ASSUME NEW k \in Keys, NEW ev \in Evaluations, Evaluate(k, ev)
      PROVE  SignalInv'
  <2>1. CASE EvaluateSilently(k, ev) BY <2>1, SilentlyEvaluated
  <2>2. CASE EvaluateAndPersist(k, ev) BY <2>2, Persisted
  <2>3. CASE EvaluateAgain(k, ev)
    <3>1. TypeOK' BY <2>3 DEF EvaluateAgain, SignalInv, TypeOK
    <3> QED BY <1>1, <1>2, <2>3, <3>1 DEF EvaluateAgain
  <2> QED BY <1>8, <2>1, <2>2, <2>3 DEF Evaluate
<1> QED BY <1>3, <1>4, <1>5, <1>6, <1>7, <1>8 DEF Next

(* The inductive invariant holds in every reachable state. *)
THEOREM SignalInvariant == Spec => []SignalInv
BY SignalInitially, SignalPreserved, PTL DEF Spec

(* The state of the machine and its rows keep their types, also when the    *)
(* restore meets INVALIDATED rows (restore_from_decisions).                 *)
THEOREM SignalTypes == Spec => []TypeOK
<1>1. SignalInv => TypeOK BY DEF SignalInv
<1> QED BY <1>1, SignalInvariant, PTL

(* A key is confirmed at most once per cooldown, across crashes, restarts   *)
(* and replayed closes (process, restore_from_decisions).                   *)
THEOREM ConfirmationsSpaced == Spec => []CooldownSpacing
<1>1. SignalInv => CooldownSpacing
  BY DEF SignalInv, RowsSpaced, CooldownSpacing, Restorable
<1> QED BY <1>1, SignalInvariant, PTL

(* Alerts announce changes of stage: none repeats the one before it.        *)
THEOREM AlertsAreChanges == Spec => []NoRepeatedAlert
<1>1. SignalInv => NoRepeatedAlert BY DEF SignalInv
<1> QED BY <1>1, SignalInvariant, PTL

(* A running process remembers at least the cooldown that its rows demand.  *)
THEOREM RowsRemembered == Spec => []CooldownRemembered
<1>1. SignalInv => CooldownRemembered
  BY DEF SignalInv, MemoryCoversRows, CooldownRemembered, Restorable
<1> QED BY <1>1, SignalInvariant, PTL
=============================================================================
