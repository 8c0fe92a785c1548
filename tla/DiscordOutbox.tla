--------------------------- MODULE DiscordOutbox ---------------------------
(***************************************************************************)
(* The durable Discord outbox: the alert_outbox and alerts tables           *)
(* (persistence/repository.py), the drain worker of DiscordNotifier         *)
(* (alerts/discord.py), the market scanners that enqueue intents, the       *)
(* operator's `outbox resolve` command and the process life cycle around    *)
(* them (app.py).                                                           *)
(*                                                                          *)
(* One step is one database commit or one point where the worker awaits, so *)
(* a crash, another process or the operator may come between any two.       *)
(* Nothing in the code stops two application processes from sharing a       *)
(* database (a redeployment that overlaps its predecessor), so Procs may    *)
(* have several members.                                                    *)
(***************************************************************************)
EXTENDS Naturals, FiniteSets

CONSTANTS
    Events,         \* event ids; ids are totally ordered strings, here numbers
    Procs,          \* application processes, each with one drain worker
    Operators,      \* shells running `signalbot outbox resolve`
    RiskEvents,     \* events whose family is PUMP_RISK or CRASH_RISK
    EventTime,      \* signals.event_time_ms of each event, part of its identity
    MaxDelay,       \* alerts.max_delivery_delay_seconds
    RiskMaxDelay,   \* alerts.risk_max_delivery_delay_seconds
    MaxAttempts,    \* alerts.max_attempts
    MaxEmbargo,     \* _MAX_EMBARGO_SECONDS
    BatchLimit,     \* batch_limit of run_dispatch_loop
    MaxActive,      \* alerts.outbox_max_active_items
    DeliveryModes,  \* the delivery settings a start may find, within BOOLEAN
    MaxTime,        \* bound: last instant of the clock
    MaxFaults       \* bound: crashes, stops and failing database calls

ASSUME EventsAssumption == Events \subseteq Nat \ {0} /\ IsFiniteSet(Events)
ASSUME ProcsAssumption == IsFiniteSet(Procs)
ASSUME TimesAssumption ==
    /\ EventTime \in [Events -> Nat]
    /\ RiskEvents \subseteq Events
    /\ MaxDelay \in Nat /\ RiskMaxDelay \in Nat /\ MaxTime \in Nat
ASSUME LimitsAssumption ==
    /\ MaxAttempts \in Nat \ {0} /\ MaxEmbargo \in Nat \ {0}
    /\ BatchLimit \in Nat \ {0} /\ MaxActive \in Nat \ {0}
    /\ DeliveryModes \subseteq BOOLEAN /\ MaxFaults \in Nat

VARIABLES
    \* durable: tables alert_outbox and alerts
    status,     \* alert_outbox.status, "absent" before the row exists
    attempts,   \* alert_outbox.attempts
    created,    \* alert_outbox.created_at_ms
    manual,     \* alert_outbox.detail was written by the operator's resolve
    alerts,     \* rows of table alerts, keyed by (event, attempt)
    \* one process: its drain worker and the notifier's memory
    pc,         \* where the worker stands
    stopping,   \* app stop_event
    enabled,    \* discord_enabled with a webhook configured
    batch,      \* items of the current dispatch_pending snapshot not yet visited
    job,        \* the item being delivered: event, claimed attempt, reply
    embargo,    \* _embargo_until_ms
    saving,     \* the row save_signal_and_enqueue has checked and not committed
    \* one operator shell running resolve_uncertain_outbox
    op,
    \* the world
    net,        \* webhook requests on their way, as <<event, attempt>>
    posted,     \* messages Discord created for an event
    now,        \* wall clock
    faults      \* crashes, stops and database errors so far

durable == <<status, attempts, created, manual, alerts>>
memory == <<pc, stopping, enabled, batch, job, embargo, saving>>
world == <<net, posted, now, faults>>
vars == <<durable, memory, op, world>>

-----------------------------------------------------------------------------
Active == {"pending", "sending", "uncertain"}
Final == {"delivered", "dead", "expired", "disabled"}
Status == {"absent"} \cup Active \cup Final

Accepted == {"ok", "noid"}            \* 2xx with and without a message id
Rejected == {"rateLimited", "refused"}   \* 429 and every other 4xx
Replies == Accepted \cup Rejected \cup {"serverError", "transport"}

AlertStatus == {"sent", "uncertain", "rate_limited", "dead", "expired",
                "resolved_delivered", "resolved_dead"}
Row == [ev : Events, n : Nat, st : AlertStatus]

NoEvent == 0
Job == [ev : Events \cup {NoEvent}, n : Nat, reply : Replies \cup {"none"}]
Attempt(e, n, r) == [ev |-> e, n |-> n, reply |-> r]
Item(e) == Attempt(e, 0, "none")
NoJob == Item(NoEvent)

(* The outbox row a scanner is about to insert. *)
Draft == [ev : Events, at : Nat, to : {"pending", "disabled"}]
DraftOf(e, at, to) == [ev |-> e, at |-> at, to |-> to]
NotSaving == DraftOf(NoEvent, 0, "absent")

OpState == [pc : {"idle", "mark", "audit"}, ev : Events \cup {NoEvent},
            as : {"delivered", "dead"}]
Resolving(l, e, as) == [pc |-> l, ev |-> e, as |-> as]
OpIdle == Resolving("idle", NoEvent, "dead")

Locations == {"down", "off", "idle", "next", "audit", "claim", "posting",
              "mark", "record", "sleep", "retry"}

(* Slips for the mutants: a transport error is retried, a 5xx is taken for  *)
(* a definite failure.                                                      *)
MarkOfRetriesTransport(reply) ==
    CASE reply = "ok" -> "delivered"
      [] reply \in {"rateLimited", "transport"} -> "pending"
      [] reply = "refused" -> "dead"
      [] OTHER -> "uncertain"
MarkOfServerErrorDead(reply) ==
    CASE reply = "ok" -> "delivered"
      [] reply = "rateLimited" -> "pending"
      [] reply \in {"refused", "serverError"} -> "dead"
      [] OTHER -> "uncertain"

(* One status per reply: the branches of deliver_event. *)
MarkOf(reply) ==
    CASE reply = "ok" -> "delivered"
      [] reply = "rateLimited" -> "pending"
      [] reply = "refused" -> "dead"
      [] OTHER -> "uncertain"

AlertOf(reply) ==
    CASE reply = "ok" -> "sent"
      [] reply = "rateLimited" -> "rate_limited"
      [] reply = "refused" -> "dead"
      [] OTHER -> "uncertain"

(* Slip: quarantined rows are not counted. *)
ActiveRowsNoUncertain == {e \in Events : status[e] \in {"pending", "sending"}}
(* The rows the capacity check counts. *)
ActiveRows == {e \in Events : status[e] \in Active}

(* pending_outbox: the first BatchLimit pending rows by creation, then id. *)
Before(e, f) == created[e] < created[f] \/ (created[e] = created[f] /\ e < f)
PendingRows == {e \in Events : status[e] = "pending"}
PendingBatch ==
    {e \in PendingRows :
        Cardinality({f \in PendingRows : Before(f, e)}) < BatchLimit}

(* Slip: the age test is lost. *)
StaleNever(e) == FALSE
(* _delivery_limit_ms and the age test of _expire_if_stale: strictly older. *)
DeliveryLimit(e) ==
    IF e \in RiskEvents /\ RiskMaxDelay < MaxDelay THEN RiskMaxDelay ELSE MaxDelay
Stale(e) == now > EventTime[e] + DeliveryLimit(e)

(* record_alert: an upsert on (event, attempt). *)
RecordAlert(e, n, st) ==
    alerts' = {a \in alerts : ~(a.ev = e /\ a.n = n)}
                 \cup {[ev |-> e, n |-> n, st |-> st]}

(* append_alert_audit: an insert under the next free attempt number, one    *)
(* above the highest the event has.                                         *)
RowsOf(e) == {a \in alerts : a.ev = e}
AppendAlert(e, st) ==
    \E n \in {1} \cup {a.n + 1 : a \in RowsOf(e)} :
        /\ \A a \in RowsOf(e) : a.n < n
        /\ alerts' = alerts \cup {[ev |-> e, n |-> n, st |-> st]}

(* Slip: the update lost its guard. *)
MarkOutboxUnguarded(e, expected, to) == status' = [status EXCEPT ![e] = to]
(* mark_outbox: one guarded update; nothing happens unless the row still    *)
(* has the expected status.                                                 *)
MarkOutbox(e, expected, to) ==
    status' = IF status[e] = expected THEN [status EXCEPT ![e] = to] ELSE status

Goto(p, l) == pc' = [pc EXCEPT ![p] = l]

(* A single-threaded event loop: other tasks of p run only while its worker *)
(* awaits (or does not exist) and no scanner is inside a database call.     *)
AtAwait(p) ==
    pc[p] \in {"off", "idle", "posting", "sleep"} /\ saving[p] = NotSaving

(* Crashes, stops and failing calls come out of one budget. *)
Fault == faults < MaxFaults /\ faults' = faults + 1

-----------------------------------------------------------------------------
TypeOK ==
    /\ status \in [Events -> Status]
    /\ attempts \in [Events -> Nat]
    /\ created \in [Events -> Nat]
    /\ manual \in [Events -> BOOLEAN]
    /\ alerts \subseteq Row
    /\ pc \in [Procs -> Locations]
    /\ stopping \in [Procs -> BOOLEAN]
    /\ enabled \in [Procs -> BOOLEAN]
    /\ batch \in [Procs -> SUBSET Events]
    /\ job \in [Procs -> Job]
    /\ embargo \in [Procs -> Nat]
    /\ saving \in [Procs -> Draft \cup {NotSaving}]
    /\ op \in [Operators -> OpState]
    /\ net \subseteq Events \X Nat
    /\ posted \in [Events -> Nat]
    /\ now \in Nat
    /\ faults \in Nat

Init ==
    /\ status = [e \in Events |-> "absent"]
    /\ attempts = [e \in Events |-> 0]
    /\ created = [e \in Events |-> 0]
    /\ manual = [e \in Events |-> FALSE]
    /\ alerts = {}
    /\ pc = [p \in Procs |-> "down"]
    /\ stopping = [p \in Procs |-> FALSE]
    /\ enabled = [p \in Procs |-> FALSE]
    /\ batch = [p \in Procs |-> {}]
    /\ job = [p \in Procs |-> NoJob]
    /\ embargo = [p \in Procs |-> 0]
    /\ saving = [p \in Procs |-> NotSaving]
    /\ op = [o \in Operators |-> OpIdle]
    /\ net = {}
    /\ posted = [e \in Events |-> 0]
    /\ now = 0
    /\ faults = 0

-----------------------------------------------------------------------------
(* Process life cycle. *)

(* Slip: interrupted deliveries are queued again. *)
RecoverInflightReplays ==
    status' = [e \in Events |-> IF status[e] = "sending" THEN "pending"
                                                         ELSE status[e]]
(* run: recover_inflight quarantines every `sending` row, then the drain    *)
(* task is created if Discord delivery is on.                               *)
RecoverInflight ==
    status' = [e \in Events |-> IF status[e] = "sending" THEN "uncertain"
                                                         ELSE status[e]]

Start(p) ==
    /\ pc[p] = "down"
    /\ RecoverInflight
    /\ \E on \in DeliveryModes :
          /\ enabled' = [enabled EXCEPT ![p] = on]
          /\ Goto(p, IF on THEN "idle" ELSE "off")
    /\ UNCHANGED <<attempts, created, manual, alerts, stopping, batch, job,
                   embargo, saving, op, world>>

(* The application's stop_event is set. *)
StopSet(p) ==
    /\ Fault
    /\ stopping' = [stopping EXCEPT ![p] = TRUE]
    /\ UNCHANGED <<durable, pc, enabled, batch, job, embargo, saving, op, net, posted, now>>

(* A signal, the stop timer, or a fatal pipeline error of a scanner (an     *)
(* event-id conflict of save_signal_and_enqueue among them).                *)
RequestStop(p) ==
    /\ AtAwait(p) /\ ~stopping[p]
    /\ StopSet(p)

Halted(p) ==
    /\ Goto(p, "down")
    /\ stopping' = [stopping EXCEPT ![p] = FALSE]
    /\ enabled' = [enabled EXCEPT ![p] = FALSE]
    /\ batch' = [batch EXCEPT ![p] = {}]
    /\ job' = [job EXCEPT ![p] = NoJob]
    /\ embargo' = [embargo EXCEPT ![p] = 0]
    /\ saving' = [saving EXCEPT ![p] = NotSaving]

(* Shutdown: the loop sees stop_event between batches, or is cancelled at   *)
(* an await when the graceful window has passed.                            *)
Exit(p) ==
    /\ stopping[p] /\ AtAwait(p)
    /\ Halted(p)
    /\ UNCHANGED <<durable, op, world>>

Crash(p) ==
    /\ pc[p] # "down"
    /\ Fault
    /\ Halted(p)
    /\ UNCHANGED <<durable, op, net, posted, now>>

-----------------------------------------------------------------------------
(* Scanner side: save_signal_and_enqueue, a call the event loop of p waits  *)
(* for.  It reads (is there a row, how many are active) and then inserts    *)
(* and commits; no lock spans the two, so another process may commit        *)
(* between them.                                                            *)

Enqueue(p, e) ==
    /\ AtAwait(p) /\ ~stopping[p]
    /\ status[e] = "absent" /\ now >= EventTime[e]
    /\ enabled[p] => Cardinality(ActiveRows) < MaxActive
    /\ saving' = [saving EXCEPT ![p] =
                     DraftOf(e, now, IF enabled[p] THEN "pending" ELSE "disabled")]
    /\ UNCHANGED <<durable, pc, stopping, enabled, batch, job, embargo, op, world>>

EnqueueCommit(p) ==
    LET row == saving[p] IN
    /\ row # NotSaving /\ status[row.ev] = "absent"
    /\ status' = [status EXCEPT ![row.ev] = row.to]
    /\ created' = [created EXCEPT ![row.ev] = row.at]
    /\ saving' = [saving EXCEPT ![p] = NotSaving]
    /\ UNCHANGED <<attempts, manual, alerts, pc, stopping, enabled, batch, job,
                   embargo, op, world>>

(* The commit raises: another process has inserted the row, or the database *)
(* fails.  Nothing is written and the application stops.                    *)
EnqueueFails(p) ==
    /\ saving[p] # NotSaving
    /\ \/ status[saving[p].ev] # "absent" /\ UNCHANGED faults
       \/ Fault
    /\ saving' = [saving EXCEPT ![p] = NotSaving]
    /\ stopping' = [stopping EXCEPT ![p] = TRUE]
    /\ UNCHANGED <<durable, pc, enabled, batch, job, embargo, op, net, posted, now>>

(* OutboxCapacityError: nothing is committed and the application stops. *)
EnqueueRefused(p, e) ==
    /\ AtAwait(p) /\ ~stopping[p] /\ enabled[p]
    /\ status[e] = "absent" /\ now >= EventTime[e]
    /\ Cardinality(ActiveRows) >= MaxActive
    /\ StopSet(p)

-----------------------------------------------------------------------------
(* The drain worker. *)

(* run_dispatch_loop takes a new snapshot of pending rows. *)
Poll(p) ==
    /\ pc[p] = "idle" /\ ~stopping[p]
    /\ batch' = [batch EXCEPT ![p] = PendingBatch]
    /\ Goto(p, "next")
    /\ UNCHANGED <<durable, stopping, enabled, job, embargo, saving, op, world>>

(* The snapshot is exhausted. *)
EndCycle(p) ==
    /\ pc[p] = "next" /\ batch[p] = {}
    /\ Goto(p, "idle")
    /\ UNCHANGED <<durable, stopping, enabled, batch, job, embargo, saving, op, world>>

IsHead(p, e) == e \in batch[p] /\ \A f \in batch[p] \ {e} : Before(e, f)

(* Slip: a row that is being sent is expired as well. *)
ExpireUnguarded(p, e) ==
    /\ Stale(e) /\ status[e] \in {"pending", "sending"}
    /\ status' = [status EXCEPT ![e] = "expired"]
    /\ Goto(p, "audit")
    /\ job' = [job EXCEPT ![p] = Item(e)]
(* _expire_if_stale: a guarded pending -> expired update, then the audit    *)
(* row in a transaction of its own.                                         *)
Expire(p, e) ==
    /\ Stale(e) /\ status[e] = "pending"
    /\ status' = [status EXCEPT ![e] = "expired"]
    /\ Goto(p, "audit")
    /\ job' = [job EXCEPT ![p] = Item(e)]

ExpireItem(p) ==
    /\ pc[p] = "next"
    /\ \E e \in batch[p] :
          /\ IsHead(p, e)
          /\ Expire(p, e)
          /\ batch' = [batch EXCEPT ![p] = @ \ {e}]
    /\ UNCHANGED <<attempts, created, manual, alerts, stopping, enabled,
                   embargo, saving, op, world>>

AuditExpired(p) ==
    /\ pc[p] = "audit"
    /\ AppendAlert(job[p].ev, "expired")
    /\ Goto(p, "next")
    /\ job' = [job EXCEPT ![p] = NoJob]
    /\ UNCHANGED <<status, attempts, created, manual, stopping, enabled, batch,
                   embargo, saving, op, world>>

(* dispatch_pending, an item that was not expired just now: skipped during  *)
(* an embargo, else handed to deliver_event.                                *)
SkipEmbargoed(p) ==
    /\ pc[p] = "next" /\ now < embargo[p]
    /\ \E e \in batch[p] :
          /\ IsHead(p, e)
          /\ ~(Stale(e) /\ status[e] = "pending")
          /\ batch' = [batch EXCEPT ![p] = @ \ {e}]
    /\ UNCHANGED <<durable, pc, stopping, enabled, job, embargo, saving, op, world>>

TakeItem(p) ==
    /\ pc[p] = "next" /\ now >= embargo[p]
    /\ \E e \in batch[p] :
          /\ IsHead(p, e)
          /\ ~(Stale(e) /\ status[e] = "pending")
          /\ batch' = [batch EXCEPT ![p] = @ \ {e}]
          /\ job' = [job EXCEPT ![p] = Item(e)]
    /\ Goto(p, "claim")
    /\ UNCHANGED <<durable, stopping, enabled, embargo, saving, op, world>>

(* claim_outbox, then the request leaves for Discord. *)
Claim(p) ==
    /\ pc[p] = "claim"
    /\ LET e == job[p].ev IN
          /\ status[e] = "pending"
          /\ status' = [status EXCEPT ![e] = "sending"]
          /\ attempts' = [attempts EXCEPT ![e] = @ + 1]
          /\ job' = [job EXCEPT ![p] = Attempt(e, attempts[e] + 1, "none")]
          /\ net' = net \cup {<<e, attempts[e] + 1>>}
    /\ Goto(p, "posting")
    /\ UNCHANGED <<created, manual, alerts, stopping, enabled, batch, embargo, saving,
                   op, posted, now, faults>>

ClaimLost(p) ==
    /\ pc[p] = "claim" /\ status[job[p].ev] # "pending"
    /\ Goto(p, "next")
    /\ job' = [job EXCEPT ![p] = NoJob]
    /\ UNCHANGED <<durable, stopping, enabled, batch, embargo, saving, op, world>>

(* The awaited post returns a response of Discord ... *)
Answered(p) ==
    /\ pc[p] = "posting" /\ <<job[p].ev, job[p].n>> \in net
    /\ net' = net \ {<<job[p].ev, job[p].n>>}
    /\ \E r \in Replies \ {"transport"}, k \in {0, 1} :
          /\ r \in Accepted => k = 1
          /\ r \in Rejected => k = 0
          /\ posted' = [posted EXCEPT ![job[p].ev] = @ + k]
          /\ job' = [job EXCEPT ![p] = Attempt(@.ev, @.n, r)]
    /\ Goto(p, "mark")
    /\ UNCHANGED <<durable, stopping, enabled, batch, embargo, saving, op, now, faults>>

(* ... or raises httpx.HTTPError, whatever became of the request. *)
TransportError(p) ==
    /\ pc[p] = "posting"
    /\ job' = [job EXCEPT ![p] = Attempt(@.ev, @.n, "transport")]
    /\ Goto(p, "mark")
    /\ UNCHANGED <<durable, stopping, enabled, batch, embargo, saving, op, world>>

Mark(p) ==
    /\ pc[p] = "mark"
    /\ MarkOutbox(job[p].ev, "sending", MarkOf(job[p].reply))
    /\ Goto(p, "record")
    /\ UNCHANGED <<attempts, created, manual, alerts, stopping, enabled, batch,
                   job, embargo, saving, op, world>>

(* record_alert in its own transaction; a 429 then sleeps and retries the   *)
(* same item, or, out of attempts, starts the embargo.                      *)
Record(p) ==
    LET limited == job[p].reply = "rateLimited"
        again == limited /\ job[p].n < MaxAttempts IN
    /\ pc[p] = "record"
    /\ RecordAlert(job[p].ev, job[p].n, AlertOf(job[p].reply))
    /\ Goto(p, IF again THEN "sleep" ELSE "next")
    /\ job' = [job EXCEPT ![p] = IF again THEN Item(job[p].ev)
                                          ELSE NoJob]
    /\ IF limited /\ ~again
         THEN \E d \in 1..MaxEmbargo : embargo' = [embargo EXCEPT ![p] = now + d]
         ELSE UNCHANGED embargo
    /\ UNCHANGED <<status, attempts, created, manual, stopping, enabled, saving, batch,
                   op, world>>

Wake(p) ==
    /\ pc[p] = "sleep"
    /\ Goto(p, "retry")
    /\ UNCHANGED <<durable, stopping, enabled, batch, job, embargo, saving, op, world>>

(* The top of deliver_event's loop after a sleep. *)
RetryExpire(p) ==
    /\ pc[p] = "retry"
    /\ Expire(p, job[p].ev)
    /\ UNCHANGED <<attempts, created, manual, alerts, stopping, enabled, batch,
                   embargo, saving, op, world>>

RetryClaim(p) ==
    /\ pc[p] = "retry"
    /\ ~(Stale(job[p].ev) /\ status[job[p].ev] = "pending")
    /\ Goto(p, "claim")
    /\ UNCHANGED <<durable, stopping, enabled, batch, job, embargo, saving, op, world>>

(* Slip: the exception ends the drain task. *)
BatchFailsForGood(p) ==
    /\ pc[p] \in {"next", "audit", "claim", "mark", "record", "retry"}
    /\ Fault
    /\ Goto(p, "off")
    /\ batch' = [batch EXCEPT ![p] = {}]
    /\ job' = [job EXCEPT ![p] = NoJob]
    /\ UNCHANGED <<durable, stopping, enabled, embargo, saving, op, net, posted, now>>
(* A database call of the batch raises: the loop logs, backs off and goes   *)
(* on; a claimed row keeps status `sending`.                                *)
BatchFails(p) ==
    /\ pc[p] \in {"next", "audit", "claim", "mark", "record", "retry"}
    /\ Fault
    /\ Goto(p, "idle")
    /\ batch' = [batch EXCEPT ![p] = {}]
    /\ job' = [job EXCEPT ![p] = NoJob]
    /\ UNCHANGED <<durable, stopping, enabled, embargo, saving, op, net, posted, now>>

-----------------------------------------------------------------------------
(* resolve_uncertain_outbox: a read, a guarded update, an audit row; three  *)
(* transactions of a process of its own.                                    *)

ResolveRead(o, e, as) ==
    /\ op[o].pc = "idle" /\ status[e] = "uncertain"
    /\ op' = [op EXCEPT ![o] = Resolving("mark", e, as)]
    /\ UNCHANGED <<durable, memory, world>>

ResolveMark(o) ==
    /\ op[o].pc = "mark" /\ status[op[o].ev] = "uncertain"
    /\ status' = [status EXCEPT ![op[o].ev] = op[o].as]
    /\ manual' = [manual EXCEPT ![op[o].ev] = TRUE]
    /\ op' = [op EXCEPT ![o] = Resolving("audit", @.ev, @.as)]
    /\ UNCHANGED <<attempts, created, alerts, memory, world>>

(* OutboxResolveError: the row changed after it was read. *)
ResolveRefused(o) ==
    /\ op[o].pc = "mark" /\ status[op[o].ev] # "uncertain"
    /\ op' = [op EXCEPT ![o] = OpIdle]
    /\ UNCHANGED <<durable, memory, world>>

ResolveAudit(o) ==
    /\ op[o].pc = "audit"
    /\ AppendAlert(op[o].ev, IF op[o].as = "dead" THEN "resolved_dead"
                                                  ELSE "resolved_delivered")
    /\ op' = [op EXCEPT ![o] = OpIdle]
    /\ UNCHANGED <<status, attempts, created, manual, memory, world>>

-----------------------------------------------------------------------------
(* The network and Discord, as far as no client is told about it. *)

(* A request is processed, its reply is lost or comes too late. *)
ProcessedUnseen(q) ==
    /\ q \in net
    /\ net' = net \ {q}
    /\ posted' = [posted EXCEPT ![q[1]] = @ + 1]
    /\ UNCHANGED <<durable, memory, op, now, faults>>

RequestLost(q) ==
    /\ q \in net
    /\ net' = net \ {q}
    /\ UNCHANGED <<durable, memory, op, posted, now, faults>>

Tick ==
    /\ now < MaxTime
    /\ now' = now + 1
    /\ UNCHANGED <<durable, memory, op, net, posted, faults>>

-----------------------------------------------------------------------------
Worker(p) ==
    /\ saving[p] = NotSaving
    /\ \/ Poll(p) \/ EndCycle(p)
       \/ ExpireItem(p) \/ AuditExpired(p)
       \/ SkipEmbargoed(p) \/ TakeItem(p)
       \/ Claim(p) \/ ClaimLost(p)
       \/ Answered(p) \/ TransportError(p)
       \/ Mark(p) \/ Record(p)
       \/ Wake(p) \/ RetryExpire(p) \/ RetryClaim(p)

EnqueueReturns(p) == EnqueueCommit(p) \/ EnqueueFails(p)

Next ==
    \/ \E p \in Procs :
          \/ Start(p) \/ RequestStop(p) \/ Exit(p) \/ Crash(p)
          \/ \E e \in Events : Enqueue(p, e) \/ EnqueueRefused(p, e)
          \/ EnqueueReturns(p)
          \/ Worker(p) \/ BatchFails(p)
    \/ \E o \in Operators :
          \/ \E e \in Events, as \in {"delivered", "dead"} : ResolveRead(o, e, as)
          \/ ResolveMark(o) \/ ResolveRefused(o) \/ ResolveAudit(o)
    \/ \E q \in net : ProcessedUnseen(q) \/ RequestLost(q)
    \/ Tick

Spec == Init /\ [][Next]_vars

(* The event loop runs the worker, the HTTP client's timeout ends every     *)
(* post, the driver's timeouts every database call, the container's restart *)
(* policy starts a process again, shutdown is bounded and time passes.      *)
(* Scanners, operators, faults and the network owe nothing.                 *)
FairSpec ==
    /\ Spec
    /\ \A p \in Procs : /\ WF_vars(Worker(p)) /\ WF_vars(EnqueueReturns(p))
                        /\ WF_vars(Start(p)) /\ WF_vars(Exit(p))
    /\ WF_vars(Tick)

-----------------------------------------------------------------------------
(* Safety. *)

(* At most once per event_id: Discord never creates two messages for one    *)
(* event, whatever crashes, restarts, timeouts, late processing, operator   *)
(* commands or overlapping processes do (docs/OPERATIONS.md, "Delivery      *)
(* guarantee").                                                             *)
AtMostOnce == \A e \in Events : posted[e] <= 1

(* An expired alert was never sent and never will be: no message exists and *)
(* no request that could still create one is on its way (_expire_if_stale,  *)
(* "an expired item is never sent").                                        *)
ExpiredNeverSent ==
    \A e \in Events :
        status[e] = "expired" => posted[e] = 0 /\ ~\E q \in net : q[1] = e

(* What the worker itself settles is true of Discord: a row it marked       *)
(* delivered has its message, a row it marked dead has none and will get    *)
(* none (deliver_event's split of replies into certain and uncertain).      *)
SettledTruthfully ==
    \A e \in Events : ~manual[e] =>
        /\ status[e] = "delivered" => posted[e] = 1
        /\ status[e] = "dead" => posted[e] = 0 /\ ~\E q \in net : q[1] = e

(* The hard limit of save_signal_and_enqueue over pending, sending and      *)
(* uncertain rows holds for one process; every further process on the same  *)
(* database may overshoot it by one row, counted before the insert of       *)
(* another, and never by more.                                              *)
CapacityRespected ==
    Cardinality({e \in Events : status[e] \in Active})
        <= MaxActive + (Cardinality(Procs) - 1)

(* Delivery-age expiry bounds the 429 retries of an event although          *)
(* max_attempts does not: every attempt past it costs an embargo of at      *)
(* least one instant or a lost worker.                                      *)
RetryBudget ==
    \A e \in Events : attempts[e] <= MaxAttempts + DeliveryLimit(e) + faults

(* A settled row never changes again and an uncertain one only by the       *)
(* operator: no late reply, restart or second process revives an alert.     *)
SettledForGood ==
    [][\A e \in Events :
          /\ status[e] \in Final => status'[e] = status[e]
          /\ status[e] = "uncertain" /\ status'[e] # "uncertain"
                => manual'[e] /\ status'[e] \in {"delivered", "dead"}]_vars

-----------------------------------------------------------------------------
(* The inductive invariant behind the safety properties. *)

InFlight(e) == \E q \in net : q[1] = e
Unsent == {"absent", "pending", "expired", "disabled"}
Holds(p) == pc[p] \in {"posting", "mark"}

(* The row fits what Discord knows: a row that may still be claimed, or     *)
(* never will be, has neither a message nor a request under way; a request  *)
(* under way is the row's latest attempt and no message exists yet.         *)
RowsMatchDiscord ==
    /\ \A e \in Events : posted[e] \in {0, 1}
    /\ \A e \in Events : status[e] \in Unsent => posted[e] = 0 /\ ~InFlight(e)
    /\ \A q \in net : q[2] = attempts[q[1]] /\ posted[q[1]] = 0

(* A worker that has claimed an event and not yet marked it owns the row's  *)
(* latest attempt, alone; what it was told by Discord is true.              *)
HoldersOwnAttempt ==
    /\ \A p \in Procs : Holds(p) =>
          /\ job[p].n = attempts[job[p].ev]
          /\ status[job[p].ev] \notin Unsent
    /\ \A p, r \in Procs : Holds(p) /\ Holds(r) /\ p # r => job[p].ev # job[r].ev
    /\ \A p \in Procs : pc[p] = "mark" =>
          /\ job[p].reply = "ok" => posted[job[p].ev] = 1
          /\ job[p].reply \in Rejected
                => posted[job[p].ev] = 0 /\ ~InFlight(job[p].ev)

(* Steps that use an event have one. *)
JobsNamed ==
    /\ \A p \in Procs : pc[p] \in {"audit", "claim", "posting", "mark", "record",
                                  "sleep", "retry"}
          => job[p].ev \in Events
    /\ \A p \in Procs : pc[p] \in {"mark", "record"} => job[p].reply \in Replies
    /\ \A o \in Operators : op[o].pc # "idle" => op[o].ev \in Events

OutboxInv == TypeOK /\ RowsMatchDiscord /\ HoldersOwnAttempt /\ JobsNamed
                /\ SettledTruthfully

-----------------------------------------------------------------------------
(* The outbox implements MessageFate: an alert is open while a message may  *)
(* still appear for it.                                                     *)

(* A 429 was received and the row is about to return to pending. *)
ToBeRetried(e) ==
    \E p \in Procs : pc[p] = "mark" /\ job[p].ev = e /\ job[p].reply = "rateLimited"
                      /\ status[e] = "sending"

FateOf(e) ==
    IF status[e] = "absent" THEN "none"
    ELSE IF posted[e] > 0 THEN "sent"
    ELSE IF status[e] = "pending" \/ InFlight(e) \/ ToBeRetried(e) THEN "open"
    ELSE "never"

Channel == INSTANCE MessageFate WITH fate <- [e \in Events |-> FateOf(e)]

(* Every step of the outbox is a step of MessageFate or changes no fate:    *)
(* once sent never sent again, once given up (expired, refused, abandoned   *)
(* with its request lost) never sent at all.                                *)
ImplementsMessageFate == Channel!Spec

-----------------------------------------------------------------------------
(* The audit trail. *)

(* The alerts table is an append-only attempt history: no row is ever       *)
(* overwritten (docs/OPERATIONS.md; append_alert_audit).                    *)
AlertsAppendOnly == [][alerts \subseteq alerts']_vars

-----------------------------------------------------------------------------
(* Liveness. *)

(* A claimed row no worker attends to: a database error struck between the  *)
(* claim and the mark; recover_inflight of the next start quarantines it.   *)
Stranded(e) ==
    /\ status[e] = "sending"
    /\ ~\E p \in Procs : pc[p] \in {"posting", "mark"} /\ job[p].ev = e

(* Nothing waits forever: every pending alert is eventually settled or at   *)
(* least handed to the operator, also behind an embargo, a full batch or a  *)
(* restart.                                                                 *)
NothingWaitsForever ==
    \A e \in Events :
        status[e] = "pending" ~>
            (status[e] \in Final \cup {"uncertain"} \/ Stranded(e))

=============================================================================
