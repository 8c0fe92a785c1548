-------------------------- MODULE RawEventRecorder --------------------------
(***************************************************************************)
(* The raw evidence recorder (data/raw_events.py).  append runs on the      *)
(* event loop, reserves quota and puts a record into the bounded queue of   *)
(* its market; a writer task per market takes batches and writes them in a  *)
(* thread, one file per UTC day; close puts a sentinel behind the accepted  *)
(* records and joins the writers, each wait under a timeout.                *)
(*                                                                          *)
(* A record is one unit of the byte quota.  Time is not modelled: a wait    *)
(* that has not ended may time out, and `waits` counts the waits of close   *)
(* so that its caller's deadline can be compared with them.                 *)
(***************************************************************************)
EXTENDS Naturals, Sequences, FiniteSets

CONSTANTS
    Markets,
    Days,
    MaxQueue,       \* max_queue_size
    MaxBytes,       \* maximum_total_bytes, in records
    PutAttempts,    \* _SENTINEL_PUT_ATTEMPTS
    NoMarket

ASSUME RecorderAssumption ==
    /\ MaxQueue \in Nat \ {0} /\ MaxBytes \in Nat \ {0} /\ PutAttempts \in Nat \ {0}
    /\ NoMarket \notin Markets

VARIABLES
    accepted,       \* by market, every record append admitted, in order
    queue,          \* by market, _MarketWriter.queue without the sentinel
    sentinel,       \* by market, "none", "queued" or "seen"
    writer,         \* by market, the writer task: where _run stands
    batch,          \* by market, the batch _run is writing
    unwritten,      \* by market, its lines the thread has not written yet
    thread,         \* by market, the thread of to_thread
    tape,           \* by market and day, the lines in the file of this process
    older,          \* bytes the directory held before this process: the baseline
    durable,        \* by market, durable_records of the writer
    reserved,       \* reserved_bytes
    durableBytes,   \* durable_bytes
    closed,         \* _closed
    fatal,          \* what the first _signal_fatal said, "none" before it
    closeStep,      \* where the coroutine of close stands
    closeAt,        \* the writer it is closing
    joined,         \* the writers it has closed
    tries,          \* sentinel puts left for this writer
    waits           \* waits of close so far

queueVars == <<accepted, queue, sentinel, reserved>>
writerVars == <<writer, batch, unwritten, thread, tape, durable, durableBytes>>
closeVars == <<closed, closeStep, closeAt, joined, tries, waits>>
recorderVars == <<queueVars, writerVars, closeVars, older, fatal>>

-----------------------------------------------------------------------------
Record == [n : Nat, day : Days]
Fatals == {"none", "overflow", "write", "join_timeout", "join_cancelled", "mismatch"}
Finished == {"done", "failed", "cancelled"}     \* task.done()

QueueLen(m) == Len(queue[m]) + (IF sentinel[m] = "queued" THEN 1 ELSE 0)

(* _signal_fatal: the first error stays. *)
Signal(error) == fatal' = IF fatal = "none" THEN error ELSE fatal

(* _write_batch partitions the lines by day, the days in the order of their *)
(* first line, and writes one group after the other.                        *)
FirstOfDay(b, i) ==
    CHOOSE j \in 1..i : b[j].day = b[i].day /\ \A k \in 1..(j - 1) : b[k].day # b[i].day
WrittenBefore(b, i, j) ==
    \/ FirstOfDay(b, i) < FirstOfDay(b, j)
    \/ FirstOfDay(b, i) = FirstOfDay(b, j) /\ i < j
WriteOrder(b) ==
    [k \in 1..Len(b) |->
        b[CHOOSE i \in 1..Len(b) :
            Cardinality({j \in 1..Len(b) : WrittenBefore(b, j, i)}) = k - 1]]

(* Every accepted record is durable: the condition of wait_drained and, as  *)
(* no writer has more durable records than accepted ones, of close.         *)
Drained == \A m \in Markets : durable[m] = Len(accepted[m])

NoRecords == [m \in Markets |-> <<>>]
AllNone == [m \in Markets |-> "none"]
EmptyTape == [m \in Markets |-> [d \in Days |-> <<>>]]

RecorderInit ==
    /\ accepted = NoRecords /\ queue = NoRecords
    /\ batch = NoRecords /\ unwritten = NoRecords
    /\ sentinel = AllNone /\ writer = AllNone /\ thread = AllNone
    /\ tape = EmptyTape
    /\ durable = [m \in Markets |-> 0]
    /\ reserved = 0 /\ durableBytes = 0
    /\ closed = FALSE /\ fatal = "none"
    /\ closeStep = "open" /\ closeAt = NoMarket /\ joined = {}
    /\ tries = 0 /\ waits = 0

-----------------------------------------------------------------------------
(* append.  The baseline is scanned before the first admission, when no     *)
(* writer of this process has written: it is `older`.                       *)
(* Slips: the quota is compared with what is durable; a failed recorder     *)
(* goes on admitting.                                                       *)
ProjectedDurable == older + durableBytes + 1
AdmittingFailed == ~closed

Projected == older + durableBytes + reserved + 1
Admitting == ~closed /\ fatal = "none"

(* _writer_for *)
StartWriter(m) ==
    writer' = [writer EXCEPT ![m] = IF @ \in Finished \cup {"none"} THEN "get" ELSE @]

AppendAccepts(m, d) ==
    /\ Admitting /\ Projected <= MaxBytes /\ QueueLen(m) < MaxQueue
    /\ LET r == [n |-> Len(accepted[m]) + 1, day |-> d] IN
       /\ accepted' = [accepted EXCEPT ![m] = Append(@, r)]
       /\ queue' = [queue EXCEPT ![m] = Append(@, r)]
    /\ StartWriter(m)
    /\ reserved' = reserved + 1
    /\ UNCHANGED <<sentinel, batch, unwritten, thread, tape, durable, durableBytes,
                   closeVars, older, fatal>>

(* RawEventCapacityError: raised to the caller, not signalled. *)
AppendOverQuota(m) ==
    /\ Admitting /\ Projected > MaxBytes
    /\ UNCHANGED recorderVars

(* RawEventOverflowError: the reservation is undone. *)
AppendOverflows(m) ==
    /\ Admitting /\ Projected <= MaxBytes /\ QueueLen(m) >= MaxQueue
    /\ StartWriter(m)
    /\ Signal("overflow")
    /\ UNCHANGED <<queueVars, batch, unwritten, thread, tape, durable, durableBytes,
                   closeVars, older>>

(* The recorder has failed: the first error is raised again.  An append     *)
(* after close never happens: consumers return once a stop is requested.    *)
AppendFailed == ~closed /\ fatal # "none" /\ UNCHANGED recorderVars

-----------------------------------------------------------------------------
(* _run wakes up: everything queued up to the sentinel is one batch. *)
TakeBatch(m) ==
    /\ writer[m] = "get" /\ queue[m] # <<>>
    /\ batch' = [batch EXCEPT ![m] = queue[m]]
    /\ unwritten' = [unwritten EXCEPT ![m] = WriteOrder(queue[m])]
    /\ queue' = [queue EXCEPT ![m] = <<>>]
    /\ sentinel' = [sentinel EXCEPT ![m] = IF @ = "queued" THEN "seen" ELSE @]
    /\ writer' = [writer EXCEPT ![m] = "write"]
    /\ thread' = [thread EXCEPT ![m] = "running"]
    /\ UNCHANGED <<accepted, reserved, tape, durable, durableBytes, closeVars, older, fatal>>

(* The sentinel is the next item. *)
TakeSentinel(m) ==
    /\ writer[m] = "get" /\ queue[m] = <<>> /\ sentinel[m] = "queued"
    /\ sentinel' = [sentinel EXCEPT ![m] = "seen"]
    /\ writer' = [writer EXCEPT ![m] = "done"]
    /\ UNCHANGED <<accepted, queue, reserved, batch, unwritten, thread, tape, durable,
                   durableBytes, closeVars, older, fatal>>

(* The thread writes a line; a flush may come later, so a thread that fails *)
(* or a process that dies may leave any part of the batch in the files.     *)
WriteLine(m) ==
    /\ thread[m] = "running" /\ unwritten[m] # <<>>
    /\ tape' = [tape EXCEPT ![m][Head(unwritten[m]).day] = Append(@, Head(unwritten[m]))]
    /\ unwritten' = [unwritten EXCEPT ![m] = Tail(@)]
    /\ UNCHANGED <<queueVars, writer, batch, thread, durable, durableBytes, closeVars,
                   older, fatal>>
ThreadReturns(m) ==
    /\ thread[m] = "running" /\ unwritten[m] = <<>>
    /\ thread' = [thread EXCEPT ![m] = "ok"]
    /\ UNCHANGED <<queueVars, writer, batch, unwritten, tape, durable, durableBytes,
                   closeVars, older, fatal>>
(* A full disk, or a handle that close_handle took away under the thread. *)
ThreadFails(m) ==
    /\ thread[m] = "running"
    /\ thread' = [thread EXCEPT ![m] = "failed"]
    /\ UNCHANGED <<queueVars, writer, batch, unwritten, tape, durable, durableBytes,
                   closeVars, older, fatal>>

(* Slip: a failed write is counted as durable. *)
AccountAnyway(m) ==
    /\ writer[m] = "write" /\ thread[m] \in {"ok", "failed"}
    /\ reserved' = reserved - Len(batch[m])
    /\ durableBytes' = durableBytes + Len(batch[m])
    /\ durable' = [durable EXCEPT ![m] = @ + Len(batch[m])]
    /\ batch' = [batch EXCEPT ![m] = <<>>]
    /\ thread' = [thread EXCEPT ![m] = "none"]
    /\ writer' = [writer EXCEPT ![m] = IF sentinel[m] = "seen" THEN "done" ELSE "get"]
    /\ UNCHANGED <<accepted, queue, sentinel, unwritten, tape, closeVars, older, fatal>>
(* _run goes on after to_thread: the accounting of a written batch ... *)
AccountBatch(m) ==
    /\ writer[m] = "write" /\ thread[m] = "ok"
    /\ reserved' = reserved - Len(batch[m])
    /\ durableBytes' = durableBytes + Len(batch[m])
    /\ durable' = [durable EXCEPT ![m] = @ + Len(batch[m])]
    /\ batch' = [batch EXCEPT ![m] = <<>>]
    /\ thread' = [thread EXCEPT ![m] = "none"]
    /\ writer' = [writer EXCEPT ![m] = IF sentinel[m] = "seen" THEN "done" ELSE "get"]
    /\ UNCHANGED <<accepted, queue, sentinel, unwritten, tape, closeVars, older, fatal>>
(* Slip: the writer ends without a signal. *)
FailSilently(m) ==
    /\ writer[m] = "write" /\ thread[m] = "failed"
    /\ writer' = [writer EXCEPT ![m] = "failed"]
    /\ UNCHANGED <<queueVars, batch, unwritten, thread, tape, durable, durableBytes,
                   closeVars, older, fatal>>
(* ... or the end of the writer, with the batch and the queue undone. *)
FailBatch(m) ==
    /\ writer[m] = "write" /\ thread[m] = "failed"
    /\ Signal("write")
    /\ writer' = [writer EXCEPT ![m] = "failed"]
    /\ UNCHANGED <<queueVars, batch, unwritten, thread, tape, durable, durableBytes,
                   closeVars, older>>

WriterStep(m) == TakeBatch(m) \/ TakeSentinel(m) \/ AccountBatch(m) \/ FailBatch(m)
ThreadStep(m) == WriteLine(m) \/ ThreadReturns(m) \/ ThreadFails(m)

-----------------------------------------------------------------------------
(* RawEventRecorder.close: no admission from here on. *)
CloseBegins ==
    /\ closeStep = "open"
    /\ closed' = TRUE
    /\ closeStep' = "between"
    /\ UNCHANGED <<queueVars, writerVars, older, fatal, closeAt, joined, tries, waits>>

(* _MarketWriter.close of the next writer: without a running task it only   *)
(* closes the handle.                                                       *)
CloseWriter(m) ==
    /\ closeStep = "between" /\ m \notin joined
    /\ IF writer[m] \in Finished \cup {"none"}
       THEN joined' = joined \cup {m} /\ UNCHANGED <<closeStep, closeAt, tries, waits>>
       ELSE /\ closeStep' = "put" /\ closeAt' = m
            /\ tries' = PutAttempts /\ waits' = waits + 1
            /\ UNCHANGED joined
    /\ UNCHANGED <<queueVars, writerVars, older, fatal, closed>>

ToJoin == closeStep' = "join" /\ waits' = waits + 1 /\ tries' = 0

(* There is room for the sentinel. *)
PutSentinel ==
    /\ closeStep = "put" /\ QueueLen(closeAt) < MaxQueue
    /\ sentinel' = [sentinel EXCEPT ![closeAt] = "queued"]
    /\ ToJoin
    /\ UNCHANGED <<accepted, queue, reserved, writerVars, older, fatal, closed, closeAt, joined>>

(* The queue stayed full: the next attempt, unless the task is done or this *)
(* was the last one.                                                        *)
PutTimesOut ==
    /\ closeStep = "put" /\ QueueLen(closeAt) >= MaxQueue
    /\ IF tries > 1 /\ writer[closeAt] \notin Finished
       THEN tries' = tries - 1 /\ waits' = waits + 1 /\ UNCHANGED closeStep
       ELSE ToJoin
    /\ UNCHANGED <<queueVars, writerVars, older, fatal, closed, closeAt, joined>>

NextWriter ==
    /\ closeStep' = "between" /\ closeAt' = NoMarket
    /\ joined' = joined \cup {closeAt}

JoinReturns ==
    /\ closeStep = "join" /\ writer[closeAt] \in Finished
    /\ NextWriter
    /\ UNCHANGED <<queueVars, writerVars, older, fatal, closed, tries, waits>>

(* Slip: the abandoned writer is only logged. *)
JoinGivesUp ==
    /\ closeStep = "join" /\ writer[closeAt] \notin Finished
    /\ NextWriter
    /\ UNCHANGED <<queueVars, writerVars, older, fatal, closed, tries, waits>>
(* The writer hangs: the loss is signalled and the task runs on detached. *)
JoinTimesOut ==
    /\ closeStep = "join" /\ writer[closeAt] \notin Finished
    /\ Signal("join_timeout")
    /\ NextWriter
    /\ UNCHANGED <<queueVars, writerVars, older, closed, tries, waits>>

(* The last check of close. *)
CloseReturns ==
    /\ closeStep = "between" /\ joined = Markets
    /\ IF fatal = "none" /\ ~Drained
       THEN closeStep' = "raised" /\ fatal' = "mismatch"
       ELSE closeStep' = "done" /\ UNCHANGED fatal
    /\ UNCHANGED <<queueVars, writerVars, older, closed, closeAt, joined, tries, waits>>

CloseEnds == closeStep \in {"open", "done", "raised", "cancelled"}
CloseStep ==
    \/ \E m \in Markets : CloseWriter(m)
    \/ PutSentinel \/ PutTimesOut \/ JoinReturns \/ JoinTimesOut \/ CloseReturns

(* The event loop ends and cancels what still runs: a join reports the      *)
(* abandoned writer, a pending put is cancelled without a word.             *)
LoopCancels ==
    /\ closeStep' = IF CloseEnds THEN closeStep ELSE "cancelled"
    /\ IF closeStep = "join" THEN Signal("join_cancelled") ELSE UNCHANGED fatal
    /\ writer' = [m \in Markets |->
                     IF writer[m] \in {"get", "write"} THEN "cancelled" ELSE writer[m]]
    /\ UNCHANGED <<queueVars, batch, unwritten, thread, tape, durable, durableBytes,
                   older, closed, closeAt, joined, tries, waits>>

=============================================================================
