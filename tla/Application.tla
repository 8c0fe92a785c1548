----------------------------- MODULE Application -----------------------------
(***************************************************************************)
(* The process around the market pipelines: SignalApplication.run and its   *)
(* supervisor (app.py), the scanners' task of each market (scanner.py) with *)
(* its WebSocket consumer (exchange/binance/websocket.py), the monitor of   *)
(* the raw evidence recorder, the outbox drain and the loop-lag monitor.    *)
(* The recorder is the one of RawEventRecorder, fed by the consumers and    *)
(* closed by the teardown.                                                  *)
(***************************************************************************)
EXTENDS RawEventRecorder

CONSTANTS
    Supervised,     \* _SUPERVISED_LABELS: the outbox drain and the lag monitor
    CloseDeadline,  \* _RESOURCE_CLOSE_TIMEOUT_SECONDS, in waits of the recorder
    Baseline,       \* bytes that earlier processes left in the directory
    DayOf(_)        \* the UTC day in which the n-th frame of a market arrives

Monitor == "monitor"

ASSUME ApplicationAssumption ==
    /\ Monitor \notin Markets \cup Supervised
    /\ CloseDeadline \in Nat \ {0} /\ Baseline \in 0..MaxBytes
    /\ \A n \in 1..MaxBytes : DayOf(n) \in Days

VARIABLES
    stop,       \* stop_event
    task,       \* supervised tasks: "running", "ended", "failed"
    conn,       \* by market, where consume_forever stands
    phase,      \* where SignalApplication.run stands
    raising,    \* the exception run will end with
    repository, \* "open" or "closed"
    overrun,    \* the deadline of the recorder's close was logged as exceeded
    early       \* auxiliary: a task failed while no stop was requested

appVars == <<stop, task, conn, phase, raising, repository, overrun, early>>
vars == <<recorderVars, appVars>>

-----------------------------------------------------------------------------
Tasks == Markets \cup {Monitor} \cup Supervised

Ended(t) == task[t] # "running"
Pending == {t \in Tasks : ~Ended(t)}
Up == phase # "exited"
Cancelling == phase \in {"cancel", "teardown", "scanners", "recorder", "notifier", "ended"}

Init ==
    /\ RecorderInit
    /\ stop = FALSE
    /\ task = [t \in Tasks |-> "running"]
    /\ conn = [m \in Markets |-> "connecting"]
    /\ phase = "wait" /\ raising = "none"
    /\ repository = "open" /\ overrun = FALSE /\ early = FALSE
    /\ older = Baseline

TypeOK ==
    /\ accepted \in [Markets -> Seq(Record)] /\ queue \in [Markets -> Seq(Record)]
    /\ batch \in [Markets -> Seq(Record)] /\ unwritten \in [Markets -> Seq(Record)]
    /\ sentinel \in [Markets -> {"none", "queued", "seen"}]
    /\ writer \in [Markets -> Finished \cup {"none", "get", "write"}]
    /\ thread \in [Markets -> {"none", "running", "ok", "failed"}]
    /\ tape \in [Markets -> [Days -> Seq(Record)]]
    /\ durable \in [Markets -> Nat]
    /\ older \in Nat /\ reserved \in Nat /\ durableBytes \in Nat
    /\ closed \in BOOLEAN /\ fatal \in Fatals
    /\ closeStep \in {"open", "between", "put", "join", "done", "raised", "cancelled"}
    /\ closeAt \in Markets \cup {NoMarket} /\ joined \subseteq Markets
    /\ tries \in Nat /\ waits \in Nat
    /\ stop \in BOOLEAN
    /\ task \in [Tasks -> {"running", "ended", "failed"}]
    /\ conn \in [Markets -> {"connecting", "open", "handling", "backoff",
                             "returned", "raised", "ended"}]
    /\ phase \in {"wait", "drain", "cancel", "teardown", "scanners", "recorder",
                  "notifier", "ended", "exited"}
    /\ raising \in {"none", "scanner", "supervised", "recorder"}
    /\ repository \in {"open", "closed"}
    /\ overrun \in BOOLEAN /\ early \in BOOLEAN

-----------------------------------------------------------------------------
(* consume_forever *)
ConnGoes(m, at) == conn' = [conn EXCEPT ![m] = at]
OnlyConn == UNCHANGED <<recorderVars, stop, task, phase, raising, repository, overrun,
                         early>>

Connect(m) == conn[m] = "connecting" /\ ConnGoes(m, "open") /\ OnlyConn

(* A transport failure, or the age limit: it cancels a handler in progress. *)
(* With a stop requested the consumer returns, otherwise it backs off.      *)
Disconnect(m) ==
    /\ conn[m] \in {"connecting", "open", "handling"}
    /\ ConnGoes(m, IF stop THEN "returned" ELSE "backoff")
    /\ OnlyConn

(* The wait on stop_event ends by a stop or by its timeout. *)
BackoffEnds(m) ==
    /\ conn[m] = "backoff"
    /\ ConnGoes(m, IF stop THEN "returned" ELSE "connecting")
    /\ OnlyConn

(* A frame arrives after a stop request. *)
ReceiveStopped(m) == conn[m] = "open" /\ stop /\ ConnGoes(m, "returned") /\ OnlyConn

(* _handle_payload: recorded before it is handed to the runtime ... *)
ReceiveRecorded(m) ==
    /\ conn[m] = "open" /\ ~stop
    /\ AppendAccepts(m, DayOf(Len(accepted[m]) + 1))
    /\ ConnGoes(m, "handling")
    /\ UNCHANGED <<stop, task, phase, raising, repository, overrun, early>>
(* ... or dropped, with a stop request, when the recorder refuses it. *)
ReceiveRefused(m) ==
    /\ conn[m] = "open" /\ ~stop
    /\ AppendOverQuota(m) \/ AppendOverflows(m) \/ AppendFailed
    /\ stop' = TRUE
    /\ UNCHANGED <<task, conn, phase, raising, repository, overrun, early>>

HandlerReturns(m) == conn[m] = "handling" /\ ConnGoes(m, "open") /\ OnlyConn
(* A pipeline failure ends the consumer: it is not a disconnect. *)
HandlerRaises(m) == conn[m] = "handling" /\ ConnGoes(m, "raised") /\ OnlyConn

Consume(m) ==
    \/ Connect(m) \/ Disconnect(m) \/ BackoffEnds(m) \/ ReceiveStopped(m)
    \/ ReceiveRecorded(m) \/ ReceiveRefused(m)
    \/ HandlerReturns(m) \/ HandlerRaises(m)

-----------------------------------------------------------------------------
OnlyTasks == UNCHANGED <<recorderVars, phase, raising, repository, overrun>>
TaskEnds(t, how) == ~Ended(t) /\ task' = [task EXCEPT ![t] = how]
(* The finally block of scanner.run cancels the consumer. *)
ConsumerCancelled(m) ==
    ConnGoes(m, "ended")

(* scanner.run: a stop request wins over everything else that is done. *)
ScannerStops(m) ==
    /\ stop /\ TaskEnds(m, "ended") /\ ConsumerCancelled(m)
    /\ UNCHANGED <<stop, early>> /\ OnlyTasks
(* _raise_unexpected_task_exit *)
ScannerFails(m) ==
    /\ ~stop /\ conn[m] \in {"returned", "raised"}
    /\ TaskEnds(m, "failed") /\ ConsumerCancelled(m)
    /\ early' = TRUE
    /\ UNCHANGED stop /\ OnlyTasks
(* prepare, a refresh or the funding loop raises. *)
ScannerCrashes(m) ==
    /\ TaskEnds(m, "failed") /\ ConsumerCancelled(m)
    /\ early' = (early \/ ~stop)
    /\ UNCHANGED stop /\ OnlyTasks

(* Slip: the monitor waits for the stop request alone. *)
MonitorDeaf ==
    /\ stop /\ TaskEnds(Monitor, "ended")
    /\ UNCHANGED <<stop, conn, early>> /\ OnlyTasks
(* _monitor_recorder_failure *)
MonitorReturns ==
    /\ stop \/ fatal # "none"
    /\ TaskEnds(Monitor, "ended") /\ stop' = TRUE
    /\ UNCHANGED <<conn, early>> /\ OnlyTasks

SupervisedReturns(t) ==
    /\ stop /\ TaskEnds(t, "ended")
    /\ UNCHANGED <<stop, conn, early>> /\ OnlyTasks
SupervisedFails(t) ==
    /\ TaskEnds(t, "failed")
    /\ early' = (early \/ ~stop)
    /\ UNCHANGED <<stop, conn>> /\ OnlyTasks

(* A cancellation reaches the task. *)
TaskCancelled(t) ==
    /\ Cancelling /\ TaskEnds(t, "ended")
    /\ IF t \in Markets THEN ConsumerCancelled(t) ELSE UNCHANGED conn
    /\ UNCHANGED <<stop, early>> /\ OnlyTasks

(* SIGINT, SIGTERM or the bounded-run timer. *)
RequestStop ==
    /\ ~stop /\ stop' = TRUE
    /\ UNCHANGED <<task, conn, early>> /\ OnlyTasks

-----------------------------------------------------------------------------
(* run, from the first task that ended to the last resource. *)
Goto(p) == phase' = p
OnlyRun == UNCHANGED <<task, conn, early>>

(* _supervised_exit_error *)
SupervisedError ==
    \E t \in Supervised : task[t] = "failed" \/ (task[t] = "ended" /\ ~stop)

(* Slip: the error of a scanner is only logged. *)
FirstCompletedSwallows ==
    /\ phase = "wait" /\ Pending # Tasks
    /\ stop' = (stop \/ SupervisedError \/ \E m \in Markets : Ended(m))
    /\ raising' = IF SupervisedError THEN "supervised" ELSE "none"
    /\ Goto("drain")
    /\ UNCHANGED <<recorderVars, repository, overrun>> /\ OnlyRun
FirstCompleted ==
    /\ phase = "wait" /\ Pending # Tasks
    /\ stop' = (stop \/ SupervisedError \/ \E m \in Markets : Ended(m))
    /\ raising' = IF \E m \in Markets : task[m] = "failed" THEN "scanner"
                  ELSE IF SupervisedError THEN "supervised" ELSE "none"
    /\ Goto("drain")
    /\ UNCHANGED <<recorderVars, repository, overrun>> /\ OnlyRun

(* Slip: the graceful wait has no deadline. *)
DrainUnbounded ==
    /\ phase = "drain" /\ Pending = {} /\ Goto("teardown")
    /\ UNCHANGED <<recorderVars, stop, raising, repository, overrun>> /\ OnlyRun
(* _wait_remaining_gracefully: the rest ends in time, or it is cancelled    *)
(* and joined under a second deadline.                                      *)
DrainEnds ==
    /\ phase = "drain"
    /\ Goto(IF Pending = {} THEN "teardown" ELSE "cancel")
    /\ UNCHANGED <<recorderVars, stop, raising, repository, overrun>> /\ OnlyRun
CancelEnds ==
    /\ phase = "cancel" /\ Goto("teardown")
    /\ UNCHANGED <<recorderVars, stop, raising, repository, overrun>> /\ OnlyRun

(* The finally block: everything is cancelled and gathered, or abandoned at *)
(* the deadline.                                                            *)
TeardownEnds ==
    /\ phase = "teardown" /\ Goto("scanners") /\ stop' = TRUE
    /\ UNCHANGED <<recorderVars, raising, repository, overrun>> /\ OnlyRun

(* The scanners are closed, each under its deadline; then the recorder.     *)
CloseRecorder ==
    /\ phase = "scanners" /\ Goto("recorder")
    /\ CloseBegins
    /\ UNCHANGED <<stop, raising, repository, overrun>> /\ OnlyRun

(* _bounded_close(recorder.close()): it returns, it raises past the         *)
(* remaining closes, or its deadline passes and it goes on by itself.       *)
RecorderClosed ==
    /\ phase = "recorder" /\ closeStep \in {"done", "raised"}
    /\ Goto(IF closeStep = "done" THEN "notifier" ELSE "ended")
    /\ raising' = IF closeStep = "done" THEN raising ELSE "recorder"
    /\ UNCHANGED <<recorderVars, stop, repository, overrun>> /\ OnlyRun
RecorderCloseOverruns ==
    /\ phase = "recorder" /\ ~CloseEnds /\ waits >= CloseDeadline
    /\ Goto("notifier") /\ overrun' = TRUE
    /\ UNCHANGED <<recorderVars, stop, raising, repository>> /\ OnlyRun

(* The notifier is closed under its deadline, the repository after it. *)
CloseRepository ==
    /\ phase = "notifier" /\ Goto("ended") /\ repository' = "closed"
    /\ UNCHANGED <<recorderVars, stop, raising, overrun>> /\ OnlyRun

(* asyncio.run cancels what is left. *)
LoopEnds ==
    /\ phase = "ended" /\ Goto("exited")
    /\ LoopCancels
    /\ task' = [t \in Tasks |-> IF Ended(t) THEN task[t] ELSE "ended"]
    /\ conn' = [m \in Markets |-> "ended"]
    /\ UNCHANGED <<stop, raising, repository, overrun, early>>

Run ==
    \/ FirstCompleted \/ DrainEnds \/ CancelEnds \/ TeardownEnds \/ CloseRecorder
    \/ RecorderClosed \/ RecorderCloseOverruns
    \/ CloseRepository \/ LoopEnds

-----------------------------------------------------------------------------
Next ==
    \/ \E m \in Markets :
          \/ Up /\ (Consume(m) \/ ScannerStops(m) \/ ScannerFails(m) \/ ScannerCrashes(m))
          \/ Up /\ (WriterStep(m) \/ ThreadStep(m)) /\ UNCHANGED appVars
    \/ \E t \in Supervised : Up /\ (SupervisedReturns(t) \/ SupervisedFails(t))
    \/ \E t \in Tasks : TaskCancelled(t)
    \/ Up /\ (MonitorReturns \/ RequestStop)
    \/ Up /\ CloseStep /\ UNCHANGED appVars
    \/ Run

Spec == Init /\ [][Next]_vars

(* The event loop goes on: run, its deadlines, the recorder's close with    *)
(* its timeouts, and the monitor.  No task, thread or connection has to     *)
(* end, and no frame has to arrive.                                         *)
Fairness ==
    /\ WF_vars(Run)
    /\ WF_vars(Up /\ MonitorReturns)
    /\ WF_vars(Up /\ CloseStep /\ UNCHANGED appVars)
FairSpec == Spec /\ Fairness

-----------------------------------------------------------------------------
(* Properties. *)

(* Lines this process has in its files, each by its place. *)
TapeLines ==
    UNION {{<<m, d, k>> : k \in DOMAIN tape[m][d]} : m \in Markets, d \in Days}

(* The n-th record accepted for a market is in the file of its day. *)
Recorded(m, n) ==
    LET r == accepted[m][n]
    IN  \E k \in DOMAIN tape[m][r.day] : tape[m][r.day][k] = r

Accounted(m) ==
    /\ Len(accepted[m]) = durable[m] + Len(batch[m]) + Len(queue[m])
    /\ writer[m] = "none" => accepted[m] = <<>>
    /\ writer[m] = "get" => batch[m] = <<>>
    /\ writer[m] = "done" => batch[m] = <<>> /\ queue[m] = <<>>
    /\ writer[m] = "failed" => fatal # "none"
    /\ writer[m] = "write" /\ sentinel[m] = "seen" => queue[m] = <<>>
    /\ m \in joined => fatal # "none" \/ writer[m] \in {"none", "done", "cancelled"}
    /\ sentinel[m] # "none" => closed
Closing ==
    /\ closed <=> closeStep # "open"
    /\ joined # {} => closed
    /\ closeStep \in {"put", "join"} => closeAt \in Markets
    /\ closeStep # "raised"

(* The accounting of the recorder: a record that was accepted is durable,   *)
(* in the batch being written or in the queue; a writer ends with both      *)
(* empty or with a fatal error; close leaves no writer behind in silence.   *)
RecorderInv == (\A m \in Markets : Accounted(m)) /\ Closing

(* Each file holds records of its day and market, in the order of their     *)
(* admission, and with a record every earlier one of that day, whatever     *)
(* failed, hung or was cut off: nothing is written behind a batch that      *)
(* failed (_write_batch, and append's test of fatal).  The durable          *)
(* watermark is never ahead of the files: the first durable_records records *)
(* of a market are on disk.                                                 *)
TapeIsPrefix ==
    \A m \in Markets :
        /\ \A d \in Days : \A k \in DOMAIN tape[m][d] :
              LET r == tape[m][d][k] IN
              /\ r.day = d
              /\ r.n \in DOMAIN accepted[m] /\ accepted[m][r.n] = r
              /\ \A j \in 1..(k - 1) : tape[m][d][j].n < r.n
              /\ \A n \in 1..r.n : accepted[m][n].day = d => Recorded(m, n)
        /\ \A n \in 1..durable[m] : Recorded(m, n)

(* The directory never exceeds the hard quota, over failed and half-written *)
(* batches and the files of earlier processes (append's quota invariant).   *)
DiskWithinQuota == older + Cardinality(TapeLines) <= MaxBytes

(* A process that exits with no recorder error and no overrun logged has    *)
(* every accepted record in the files: close drains (class contract).       *)
CleanExitIsComplete ==
    phase = "exited" /\ fatal = "none" /\ ~overrun =>
        \A m \in Markets : \A n \in DOMAIN accepted[m] : Recorded(m, n)

(* A scanner or supervised task that failed before any stop was requested   *)
(* is never swallowed: run raises.                                          *)
FailureReported == phase \in {"ended", "exited"} /\ early => raising # "none"

(* The repository is closed at the end of every run, whatever the tasks,    *)
(* the writers and the recorder's close did.                                *)
RepositoryReached == phase \in {"ended", "exited"} => repository = "closed"

(* Once a stop is requested the event loop ends, with tasks, threads and    *)
(* connections that never do: every wait of the shutdown is bounded.  (The  *)
(* interpreter then joins a thread that still writes: that wait, and what   *)
(* the thread writes after the loop, are outside the model.)                *)
ShutdownEnds == stop ~> phase = "exited"

(* A recorder failure stops the process even when no frame arrives any more *)
(* (_monitor_recorder_failure).                                             *)
RecorderFailureStops == (fatal # "none" /\ Up) ~> (stop \/ ~Up)

=============================================================================
