-------------------------- MODULE SignalLifecycle --------------------------
(***************************************************************************)
(* The alert state machine of one market (signals/state_machine.py), driven *)
(* by MarketRuntime._process with its checkpoint, persist, restore protocol *)
(* (runtime.py), rebuilt from the signals table at start and pruned by      *)
(* universe rotation (set_active_symbols).                                  *)
(*                                                                          *)
(* A key is one symbol and rule family.  Event times are closes of the      *)
(* primary interval: a running process evaluates a key at most once per     *)
(* close, but a restarted one may see the last close again.                 *)
(***************************************************************************)
EXTENDS Naturals, FiniteSets

CONSTANTS
    Symbols,
    Families,           \* rule families
    RiskFamilies,       \* pump_risk and crash_risk
    ConfirmationMode,   \* signals.confirmation_mode
    Cooldown,           \* signals.cooldown_seconds, in closes
    RestoreLimit,       \* limit of recent_signals in restore_persisted_state
    MaxTime,            \* bound: last close
    MaxStarts           \* bound: process starts

ASSUME FamiliesAssumption == RiskFamilies \subseteq Families
ASSUME ModeAssumption == ConfirmationMode \in {"explicit_trigger", "score"}
ASSUME NumbersAssumption ==
    /\ Cooldown \in Nat /\ RestoreLimit \in Nat \ {0}
    /\ MaxTime \in Nat /\ MaxStarts \in Nat

VARIABLES
    stage,      \* _State.stage by key; a key without state is IDLE
    cooldown,   \* _State.cooldown_until_ms
    signals,    \* durable signal rows: key, stage, event time (the event id)
    tradable, surveillance,   \* the active universe of the runtime
    mode,       \* "down", "starting" (state restored, no universe yet), "up"
    seen,       \* keys already evaluated at this close by this process
    now,        \* the latest close
    starts,
    dropped     \* auxiliary: keys with alerts whose state was pruned, and when

vars == <<stage, cooldown, signals, tradable, surveillance, mode, seen, now,
          starts, dropped>>

-----------------------------------------------------------------------------
Keys == [sym : Symbols, fam : Families]
Stages == {"IDLE", "WATCH", "SETUP", "CONFIRMED"}
SignalStages == Stages \cup {"INVALIDATED"}
Signal == [key : Keys, st : SignalStages \ {"IDLE"}, t : Nat]

(* A rule evaluation: which thresholds the score reaches, whether the rule  *)
(* triggered, and whether _can_confirm allows a confirmation.               *)
Bands == {"none", "watch", "setup", "confirmed"}
Evaluations == [band : Bands, triggered : BOOLEAN, confirmable : BOOLEAN]

Confirms(ev) ==
    /\ ev.confirmable
    /\ IF ConfirmationMode = "explicit_trigger" THEN ev.triggered
                                                ELSE ev.band = "confirmed"

(* _desired *)
Desired(ev) ==
    IF Confirms(ev) THEN "CONFIRMED"
    ELSE IF ev.band \in {"setup", "confirmed"} THEN "SETUP"
    ELSE IF ev.band = "watch" THEN "WATCH"
    ELSE "IDLE"

InCooldown(k) == now < cooldown[k]

(* Slip: the test for an unchanged stage is lost. *)
OutcomeRepeats(k, desired) ==
    IF InCooldown(k) THEN "none"
    ELSE IF desired = "IDLE"
         THEN IF stage[k] \in {"WATCH", "SETUP"} THEN "INVALIDATED" ELSE "none"
    ELSE desired

(* Slip: the cooldown only silences invalidations. *)
OutcomeInCooldown(k, desired) ==
    IF desired = "IDLE"
    THEN IF stage[k] \in {"WATCH", "SETUP"} /\ ~InCooldown(k) THEN "INVALIDATED" ELSE "none"
    ELSE IF desired = stage[k] THEN "none"
    ELSE desired

(* process: the decision an evaluation leads to, "none" if it is silent. *)
Outcome(k, desired) ==
    IF InCooldown(k) THEN "none"
    ELSE IF desired = "IDLE"
         THEN IF stage[k] \in {"WATCH", "SETUP"} THEN "INVALIDATED" ELSE "none"
    ELSE IF desired = stage[k] THEN "none"
    ELSE desired

(* process: the state it leaves behind. *)
Advance(k, desired) ==
    /\ stage' = [stage EXCEPT ![k] = desired]
    /\ cooldown' = [cooldown EXCEPT ![k] =
          IF Outcome(k, desired) = "CONFIRMED" THEN now + Cooldown ELSE @]

Row(k, st) == [key |-> k, st |-> st, t |-> now]

(* Directional families run on tradable symbols, risk families on the       *)
(* surveillance universe.                                                   *)
Evaluated(k) == k.sym \in (IF k.fam \in RiskFamilies THEN surveillance ELSE tradable)

(* prune_symbols and prune_directional_states. *)
Pruned(k, tr, sv) == k.sym \notin sv \/ (k.sym \notin tr /\ k.fam \notin RiskFamilies)

-----------------------------------------------------------------------------
TypeOK ==
    /\ stage \in [Keys -> Stages]
    /\ cooldown \in [Keys -> Nat]
    /\ signals \subseteq Signal
    /\ tradable \subseteq surveillance /\ surveillance \subseteq Symbols
    /\ mode \in {"down", "starting", "up"}
    /\ seen \subseteq Keys
    /\ now \in Nat
    /\ starts \in Nat
    /\ dropped \subseteq Keys \X Nat

Init ==
    /\ stage = [k \in Keys |-> "IDLE"]
    /\ cooldown = [k \in Keys |-> 0]
    /\ signals = {}
    /\ tradable = {} /\ surveillance = {}
    /\ mode = "down"
    /\ seen = {}
    /\ now = 0
    /\ starts = 0
    /\ dropped = {}

-----------------------------------------------------------------------------
(* recent_signals: the newest rows, at most RestoreLimit; which of several  *)
(* rows of the same time are cut off is up to the database.                 *)
IsRecent(rows) ==
    /\ rows \subseteq signals
    /\ Cardinality(rows) = IF Cardinality(signals) < RestoreLimit
                           THEN Cardinality(signals) ELSE RestoreLimit
    /\ \A a \in rows, b \in signals \ rows : a.t >= b.t

(* restore_from_decisions replays rows by time, rows of one time by their   *)
(* hash: the last row decides the stage, the last confirmation the cooldown.*)
Last(rows) == {a \in rows : \A b \in rows : b.t <= a.t}
(* Slip: the cooldown is only restored when the newest row is the           *)
(* confirmation.                                                            *)
RestoredCooldownNewest(rows) ==
    IF \E a \in Last(rows) : a.st = "CONFIRMED"
    THEN (CHOOSE a \in Last(rows) : TRUE).t + Cooldown ELSE 0

RestoredStages(rows) ==
    IF rows = {} THEN {"IDLE"}
    ELSE {IF a.st = "INVALIDATED" THEN "IDLE" ELSE a.st : a \in Last(rows)}
RestoredCooldown(rows) ==
    LET confirmed == {a \in rows : a.st = "CONFIRMED"} IN
    IF confirmed = {} THEN 0
    ELSE (CHOOSE a \in confirmed : \A b \in confirmed : b.t <= a.t).t + Cooldown

(* restore_persisted_state *)
Restore ==
    \E rows \in SUBSET signals :
        LET of(k) == {a \in rows : a.key = k} IN
        /\ IsRecent(rows)
        /\ stage' \in [Keys -> SignalStages]
        /\ \A k \in Keys : stage'[k] \in RestoredStages(of(k))
        /\ cooldown' = [k \in Keys |-> RestoredCooldown(of(k))]

(* The application starts; bootstrap may or may not already hold the latest *)
(* close, so a key may be evaluated at it once more.                        *)
Start ==
    /\ mode = "down" /\ starts < MaxStarts
    /\ mode' = "starting"
    /\ starts' = starts + 1
    /\ Restore
    /\ seen' \in SUBSET Keys
    /\ UNCHANGED <<signals, tradable, surveillance, now, dropped>>

(* set_active_symbols: one universe replaces another and the state of the   *)
(* keys outside it is deleted.                                              *)
SetActiveSymbols(tr, sv) ==
    /\ tradable' = tr /\ surveillance' = sv
    /\ stage' = [k \in Keys |-> IF Pruned(k, tr, sv) THEN "IDLE" ELSE stage[k]]
    /\ cooldown' = [k \in Keys |-> IF Pruned(k, tr, sv) THEN 0 ELSE cooldown[k]]
    /\ dropped' = dropped \cup {<<k, now>> : k \in
                     {l \in {a.key : a \in signals} : Pruned(l, tr, sv)}}

(* The scanner's prepare activates the first universe ... *)
Prepare(tr, sv) ==
    /\ mode = "starting"
    /\ mode' = "up"
    /\ SetActiveSymbols(tr, sv)
    /\ UNCHANGED <<signals, seen, now, starts>>

(* ... and a confirmed refresh a later one. *)
Rotate(tr, sv) ==
    /\ mode = "up" /\ <<tr, sv>> # <<tradable, surveillance>>
    /\ SetActiveSymbols(tr, sv)
    /\ UNCHANGED <<signals, mode, seen, now, starts>>

(* _process, the silent case. *)
EvaluateSilently(k, ev) ==
    /\ mode = "up" /\ Evaluated(k) /\ k \notin seen
    /\ Outcome(k, Desired(ev)) = "none"
    /\ Advance(k, Desired(ev))
    /\ seen' = seen \cup {k}
    /\ UNCHANGED <<signals, tradable, surveillance, mode, now, starts, dropped>>

(* _process, a decision that becomes durable. *)
EvaluateAndPersist(k, ev) ==
    LET st == Outcome(k, Desired(ev)) IN
    /\ mode = "up" /\ Evaluated(k) /\ k \notin seen
    /\ st # "none" /\ Row(k, st) \notin signals
    /\ signals' = signals \cup {Row(k, st)}
    /\ Advance(k, Desired(ev))
    /\ seen' = seen \cup {k}
    /\ UNCHANGED <<tradable, surveillance, mode, now, starts, dropped>>

(* _process, the event id exists: identical content is a no-op and the      *)
(* checkpoint is restored.                                                  *)
EvaluateAgain(k, ev) ==
    LET st == Outcome(k, Desired(ev)) IN
    /\ mode = "up" /\ Evaluated(k) /\ k \notin seen
    /\ st # "none" /\ Row(k, st) \in signals
    /\ seen' = seen \cup {k}
    /\ UNCHANGED <<stage, cooldown, signals, tradable, surveillance, mode, now,
                   starts, dropped>>

(* The process ends: killed, stopped, or failed closed because persisting a *)
(* decision raised (capacity, database, conflicting content).               *)
Stop ==
    /\ mode # "down"
    /\ mode' = "down"
    /\ stage' = [k \in Keys |-> "IDLE"]
    /\ cooldown' = [k \in Keys |-> 0]
    /\ tradable' = {} /\ surveillance' = {}
    /\ seen' = {}
    /\ UNCHANGED <<signals, now, starts, dropped>>

Tick ==
    /\ now < MaxTime
    /\ now' = now + 1
    /\ seen' = {}
    /\ UNCHANGED <<stage, cooldown, signals, tradable, surveillance, mode,
                   starts, dropped>>

Evaluate(k, ev) ==
    EvaluateSilently(k, ev) \/ EvaluateAndPersist(k, ev) \/ EvaluateAgain(k, ev)

Next ==
    \/ Start \/ Stop \/ Tick
    \/ \E sv \in SUBSET Symbols : \E tr \in SUBSET sv : Prepare(tr, sv) \/ Rotate(tr, sv)
    \/ \E k \in Keys, ev \in Evaluations : Evaluate(k, ev)

Spec == Init /\ [][Next]_vars

-----------------------------------------------------------------------------
(* Properties. *)

KeptBetween(k, from, to) == ~\E d \in dropped : d[1] = k /\ from <= d[2] /\ d[2] <= to

(* A key is confirmed at most once per cooldown, across crashes, restarts,  *)
(* replayed closes and failed writes, as long as rotation kept its state    *)
(* and the restore limit holds every row.                                   *)
CooldownSpacing ==
    Cardinality(signals) <= RestoreLimit =>
        \A a, b \in signals :
            /\ a.key = b.key /\ a.st = "CONFIRMED" /\ b.st = "CONFIRMED" /\ a.t < b.t
            /\ KeptBetween(a.key, a.t, b.t)
            => b.t >= a.t + Cooldown

(* Alerts are state changes: two successive alerts of a key never announce  *)
(* the same pre-confirmation stage or two invalidations in a row, unless    *)
(* rotation once pruned the key.                                            *)
NoRepeatedAlert ==
    Cardinality(signals) <= RestoreLimit =>
        \A a, b \in signals :
            /\ a.key = b.key /\ a.st = b.st /\ a.t < b.t
            /\ KeptBetween(a.key, 0, b.t)
            /\ ~\E c \in signals \ {a, b} : c.key = a.key /\ a.t <= c.t /\ c.t <= b.t
            => a.st = "CONFIRMED"

(* What a running process remembers of a cooldown is never shorter than     *)
(* what the durable rows demand.                                            *)
CooldownRemembered ==
    mode = "up" /\ Cardinality(signals) <= RestoreLimit =>
        \A a \in signals :
            a.st = "CONFIRMED" /\ KeptBetween(a.key, a.t, now)
            => cooldown[a.key] >= a.t + Cooldown

-----------------------------------------------------------------------------
(* The inductive invariant behind the three safety properties.  A cooldown  *)
(* and a stage survive a restart only as far as the rows determine them, so *)
(* it says what memory owes to the rows, and the rows to each other.        *)

Restorable == Cardinality(signals) <= RestoreLimit

(* No row at all, of whatever stage, falls into the cooldown of its key. *)
RowsSpaced ==
    Restorable =>
        \A c, a \in signals :
            /\ c.key = a.key /\ c.st = "CONFIRMED" /\ c.t < a.t
            /\ KeptBetween(c.key, c.t, a.t)
            => a.t >= c.t + Cooldown

(* CooldownRemembered, from the restore on. *)
MemoryCoversRows ==
    mode # "down" /\ Restorable =>
        \A a \in signals :
            a.st = "CONFIRMED" /\ KeptBetween(a.key, a.t, now)
            => cooldown[a.key] >= a.t + Cooldown

(* A row newer than all others of its key, and no confirmation, is where    *)
(* the state machine stands, outside any cooldown.                          *)
StageFollowsRows ==
    mode # "down" /\ Restorable =>
        \A a \in signals :
            /\ a.st # "CONFIRMED" /\ KeptBetween(a.key, 0, now)
            /\ \A b \in signals \ {a} : b.key = a.key => b.t < a.t
            => /\ stage[a.key] = IF a.st = "INVALIDATED" THEN "IDLE" ELSE a.st
               /\ cooldown[a.key] <= a.t

SignalInv ==
    /\ TypeOK
    /\ IsFiniteSet(signals) /\ \A a \in signals : a.t <= now
    /\ RowsSpaced /\ MemoryCoversRows /\ StageFollowsRows /\ NoRepeatedAlert

(* State pruned with its symbol is not resurrected when the symbol is       *)
(* tradable again (prune_directional_states): after a prune that no later   *)
(* alert followed, the key holds no cooldown from before it.                *)
NotResurrected ==
    mode = "up" =>
        \A d \in dropped :
            (\A a \in signals : a.key = d[1] => a.t < d[2]) => cooldown[d[1]] = 0

=============================================================================
