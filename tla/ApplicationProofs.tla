------------------------- MODULE ApplicationProofs -------------------------
(* Proofs of the safety properties of Application: the accounting of the     *)
(* recorder and what the supervisor promises at the end of a run.            *)
EXTENDS Application, SequenceTheorems, TLAPS

USE RecorderAssumption, ApplicationAssumption

-----------------------------------------------------------------------------
(* The inductive invariant *)

\* The frames a consumer can record.
Frames == {[n |-> k, day |-> DayOf(k)] : k \in Nat}

\* The part of the recorder's state that its accounting reads.
RecorderTypes ==
    /\ accepted \in [Markets -> Seq(Frames)]
    /\ queue \in [Markets -> Seq(Frames)]
    /\ batch \in [Markets -> Seq(Frames)]
    /\ sentinel \in [Markets -> {"none", "queued", "seen"}]
    /\ writer \in [Markets -> Finished \cup {"none", "get", "write"}]
    /\ durable \in [Markets -> Nat]
    /\ joined \subseteq Markets

\* The event loop cancels writers when it ends, and only then.
CancelledAtExit == \A m \in Markets : writer[m] = "cancelled" => phase = "exited"

\* run leaves its first wait with a stop requested; a task that ended without
\* one has failed, and run has taken over its error or is about to.
Supervision ==
    /\ task \in [Tasks -> {"running", "ended", "failed"}]
    /\ task[Monitor] # "failed"
    /\ phase # "wait" => stop
    /\ phase = "wait" => raising = "none"
    /\ \A t \in Tasks : task[t] = "ended" => stop
    /\ early => \/ raising # "none"
                \/ phase = "wait" /\ \E t \in Markets \cup Supervised : task[t] = "failed"

AppInv ==
    /\ RecorderTypes
    /\ RecorderInv
    /\ CancelledAtExit
    /\ Supervision
    /\ RepositoryReached

-----------------------------------------------------------------------------
(* The recorder *)

(* An admitted record lengthens what was accepted and the queue by one.      *)
LEMMA Longer ==
    ASSUME NEW S, NEW q \in Seq(S), NEW x \in S
    PROVE  Append(q, x) \in Seq(S) /\ Len(Append(q, x)) = Len(q) + 1
  BY AppendProperties

(* Lengths are numbers, and the empty sequence alone has length zero.        *)
LEMMA Lengths ==
    ASSUME NEW S, NEW q \in Seq(S)
    PROVE  Len(q) \in Nat /\ (q = <<>> <=> Len(q) = 0)
  BY LenProperties, EmptySeq

(* append keeps the accounting.                                              *)
LEMMA AppendKeeps ==
    ASSUME RecorderTypes, RecorderInv, CancelledAtExit, Up, NEW m \in Markets,
           AppendAccepts(m, DayOf(Len(accepted[m]) + 1))
    PROVE  RecorderTypes' /\ RecorderInv'
<1> DEFINE r == [n |-> Len(accepted[m]) + 1, day |-> DayOf(Len(accepted[m]) + 1)]
<1>1. accepted[m] \in Seq(Frames) /\ queue[m] \in Seq(Frames)
  BY DEF RecorderTypes
<1>2. r \in Frames
  BY <1>1, Lengths DEF Frames
<1>3. /\ accepted' = [accepted EXCEPT ![m] = Append(@, r)]
      /\ queue' = [queue EXCEPT ![m] = Append(@, r)]
      /\ StartWriter(m) /\ ~closed
      /\ UNCHANGED <<sentinel, batch, durable, closed, closeStep, closeAt, joined, fatal>>
  BY DEF AppendAccepts, Admitting, closeVars
<1> HIDE DEF r
<1>4. /\ Append(accepted[m], r) \in Seq(Frames)
      /\ Len(Append(accepted[m], r)) = Len(accepted[m]) + 1
      /\ Append(queue[m], r) \in Seq(Frames)
      /\ Len(Append(queue[m], r)) = Len(queue[m]) + 1
  BY <1>1, <1>2, Longer
<1>5. RecorderTypes'
  BY <1>3, <1>4 DEF RecorderTypes, StartWriter, Finished
<1>6. ASSUME NEW k \in Markets PROVE Accounted(k)'
  <2>1. CASE k = m
    <3>1. /\ accepted'[m] = Append(accepted[m], r) /\ queue'[m] = Append(queue[m], r)
          /\ sentinel'[m] = "none" /\ m \notin joined'
          /\ batch'[m] = batch[m] /\ durable'[m] = durable[m]
          /\ writer'[m] = IF writer[m] \in Finished \cup {"none"} THEN "get" ELSE writer[m]
      BY <1>3 DEF RecorderTypes, RecorderInv, Closing, Accounted, StartWriter
    <3>2. /\ Len(accepted[m]) \in Nat /\ Len(batch[m]) \in Nat /\ Len(queue[m]) \in Nat
          /\ durable[m] \in Nat
          /\ (accepted[m] = <<>> => Len(accepted[m]) = 0)
          /\ (Len(batch[m]) = 0 => batch[m] = <<>>)
      BY Lengths DEF RecorderTypes
    <3>3. writer'[m] = "get" => batch[m] = <<>>
      <4>1. CASE writer[m] = "none"
        BY <3>2, <4>1 DEF RecorderInv, Accounted
      <4>2. CASE writer[m] = "done" \/ writer[m] = "get"
        BY <4>2 DEF RecorderInv, Accounted
      <4>3. CASE writer[m] = "failed"
        BY <4>3 DEF RecorderInv, Accounted, AppendAccepts, Admitting
      <4>4. CASE writer[m] = "cancelled"
        BY <4>4 DEF CancelledAtExit, Up
      <4> QED BY <3>1, <4>1, <4>2, <4>3, <4>4 DEF Finished
    <3>4. Len(accepted'[m]) = durable'[m] + Len(batch'[m]) + Len(queue'[m])
      <4>1. Len(accepted[m]) = durable[m] + Len(batch[m]) + Len(queue[m])
        BY DEF RecorderInv, Accounted
      <4> QED BY <1>4, <3>1, <3>2, <4>1
    <3>5. writer'[m] \in {"get", "write"}
      BY <3>1 DEF RecorderTypes, Finished
    <3> QED BY <2>1, <3>1, <3>3, <3>4, <3>5 DEF Accounted
  <2>2. CASE k # m
    <3>1. /\ accepted'[k] = accepted[k] /\ queue'[k] = queue[k] /\ writer'[k] = writer[k]
          /\ sentinel'[k] = sentinel[k] /\ batch'[k] = batch[k] /\ durable'[k] = durable[k]
      BY <1>3, <2>2 DEF RecorderTypes, StartWriter
    <3> QED BY <1>3, <3>1 DEF RecorderInv, Accounted
  <2> QED BY <2>1, <2>2
<1>7. Closing'
  BY <1>3 DEF RecorderInv, Closing
<1> QED BY <1>5, <1>6, <1>7 DEF RecorderInv

(* A step of one writer that leaves the others alone keeps the accounting    *)
(* when it keeps that of its own market.                                     *)
LEMMA WriterKeeps ==
    ASSUME RecorderTypes, RecorderInv, NEW m \in Markets,
           WriterStep(m) \/ ThreadStep(m)
    PROVE  RecorderTypes' /\ RecorderInv'
<1>1. /\ Len(accepted[m]) \in Nat /\ Len(batch[m]) \in Nat /\ Len(queue[m]) \in Nat
      /\ durable[m] \in Nat /\ Len(<<>>) = 0
      /\ <<>> \in Seq(Frames) /\ queue[m] \in Seq(Frames)
      /\ Accounted(m)
  BY Lengths, EmptySeq DEF RecorderTypes, RecorderInv
<1>2. /\ closeVars' = closeVars /\ accepted' = accepted
  BY DEF WriterStep, ThreadStep, TakeBatch, TakeSentinel, AccountBatch, FailBatch,
         WriteLine, ThreadReturns, ThreadFails, closeVars, queueVars
<1>3. Closing'
  BY <1>2 DEF RecorderInv, Closing, closeVars
<1>4. fatal # "none" => fatal' # "none"
  BY DEF WriterStep, ThreadStep, TakeBatch, TakeSentinel, AccountBatch, FailBatch,
         WriteLine, ThreadReturns, ThreadFails, Signal
<1>5. ASSUME NEW k \in Markets, k # m PROVE Accounted(k)'
  <2>1. /\ queue'[k] = queue[k] /\ writer'[k] = writer[k] /\ sentinel'[k] = sentinel[k]
        /\ batch'[k] = batch[k] /\ durable'[k] = durable[k]
    BY <1>5 DEF WriterStep, ThreadStep, TakeBatch, TakeSentinel, AccountBatch, FailBatch,
         WriteLine, ThreadReturns, ThreadFails, queueVars, RecorderTypes
  <2> QED BY <1>2, <1>4, <2>1 DEF RecorderInv, Accounted, closeVars
<1>6. CASE ThreadStep(m)
  <2>1. UNCHANGED <<queue, writer, sentinel, batch, durable, fatal>>
    BY <1>6 DEF ThreadStep, WriteLine, ThreadReturns, ThreadFails, queueVars
  <2> QED BY <1>2, <1>3, <2>1 DEF RecorderTypes, RecorderInv, Accounted, closeVars
<1>7. CASE TakeBatch(m)
  <2>1. /\ batch'[m] = queue[m] /\ queue'[m] = <<>> /\ writer'[m] = "write"
        /\ durable' = durable /\ fatal' = fatal
        /\ sentinel'[m] = IF sentinel[m] = "queued" THEN "seen" ELSE sentinel[m]
        /\ writer[m] = "get"
    BY <1>7 DEF TakeBatch, RecorderTypes
  <2>2. RecorderTypes'
    BY <1>1, <1>2, <1>7 DEF TakeBatch, RecorderTypes, closeVars, Finished
  <2>3. Accounted(m)'
    BY <1>1, <1>2, <2>1 DEF Accounted, closeVars
  <2> QED BY <1>3, <1>5, <2>2, <2>3 DEF RecorderInv
<1>8. CASE TakeSentinel(m)
  <2>1. /\ UNCHANGED <<batch, queue, durable, fatal>> /\ writer'[m] = "done"
        /\ sentinel'[m] = "seen" /\ writer[m] = "get" /\ queue[m] = <<>>
        /\ sentinel[m] = "queued"
    BY <1>8 DEF TakeSentinel, RecorderTypes
  <2>2. RecorderTypes'
    BY <1>1, <1>2, <1>8 DEF TakeSentinel, RecorderTypes, closeVars, Finished
  <2>3. Accounted(m)'
    BY <1>1, <1>2, <2>1 DEF Accounted, closeVars
  <2> QED BY <1>3, <1>5, <2>2, <2>3 DEF RecorderInv
<1>9. CASE AccountBatch(m)
  <2>1. /\ UNCHANGED <<queue, sentinel, fatal>> /\ writer[m] = "write"
        /\ durable'[m] = durable[m] + Len(batch[m])
        /\ batch'[m] = <<>>
        /\ writer'[m] = IF sentinel[m] = "seen" THEN "done" ELSE "get"
    BY <1>9 DEF AccountBatch, RecorderTypes
  <2>2. durable[m] + Len(batch[m]) \in Nat
    BY <1>1
  <2>3. RecorderTypes'
    BY <1>1, <1>2, <2>2, <1>9 DEF AccountBatch, RecorderTypes, closeVars, Finished
  <2>4. Accounted(m)'
    BY <1>1, <1>2, <2>1 DEF Accounted, closeVars
  <2> QED BY <1>3, <1>5, <2>3, <2>4 DEF RecorderInv
<1>10. CASE FailBatch(m)
  <2>1. /\ UNCHANGED <<queue, sentinel, batch, durable>>
        /\ writer'[m] = "failed" /\ fatal' # "none"
    BY <1>10 DEF FailBatch, RecorderTypes, Signal, queueVars
  <2>2. RecorderTypes'
    BY <1>1, <1>2, <1>10 DEF FailBatch, RecorderTypes, closeVars, queueVars, Finished
  <2>3. Accounted(m)'
    BY <1>1, <1>2, <2>1 DEF Accounted, closeVars
  <2> QED BY <1>3, <1>5, <2>2, <2>3 DEF RecorderInv
<1> QED BY <1>6, <1>7, <1>8, <1>9, <1>10 DEF WriterStep

(* close, from its sentinels to its last check, keeps the accounting; with   *)
(* it that check never finds a record missing in silence.                    *)
LEMMA CloseKeeps ==
    ASSUME RecorderTypes, RecorderInv, CancelledAtExit, Up,
           CloseBegins \/ CloseStep
    PROVE  /\ RecorderTypes' /\ RecorderInv' /\ writer' = writer
<1>1. UNCHANGED <<accepted, queue, batch, durable, writer>>
  BY DEF CloseBegins, CloseStep, CloseWriter, PutSentinel, PutTimesOut, JoinReturns,
         JoinTimesOut, CloseReturns, queueVars, writerVars
<1>2. fatal # "none" => fatal' # "none"
  BY DEF CloseBegins, CloseStep, CloseWriter, PutSentinel, PutTimesOut, JoinReturns,
         JoinTimesOut, CloseReturns, Signal
<1>3. CASE CloseBegins
  <2>1. closed' /\ UNCHANGED <<sentinel, joined, fatal, closeAt>> /\ closeStep' = "between"
    BY <1>3 DEF CloseBegins, queueVars
  <2>2. Closing'
    BY <2>1 DEF RecorderInv, Closing
  <2>3. \A m \in Markets : Accounted(m)'
    BY <1>1, <2>1 DEF RecorderInv, Accounted
  <2> QED BY <1>1, <2>1, <2>2, <2>3 DEF RecorderTypes, RecorderInv
<1>4. ASSUME NEW m \in Markets, CloseWriter(m)
      PROVE  RecorderTypes' /\ RecorderInv'
  <2>1. UNCHANGED <<sentinel, fatal, closed>> /\ closed /\ closeStep = "between"
    BY <1>4 DEF CloseWriter, queueVars, RecorderInv, Closing
  <2>2. \/ /\ joined' = joined \cup {m} /\ UNCHANGED <<closeStep, closeAt>>
           /\ writer[m] \in {"done", "failed", "none"}
        \/ closeStep' = "put" /\ closeAt' = m /\ UNCHANGED joined
    BY <1>4 DEF CloseWriter, Finished, CancelledAtExit, Up
  <2>3. Closing'
    BY <2>1, <2>2 DEF RecorderInv, Closing
  <2>4. \A k \in Markets : Accounted(k)'
    BY <1>1, <2>1, <2>2 DEF RecorderInv, Accounted
  <2>5. RecorderTypes'
    BY <1>1, <2>1, <2>2 DEF RecorderTypes
  <2> QED BY <2>3, <2>4, <2>5 DEF RecorderInv
<1>5. CASE PutSentinel
  <2>1. /\ closeAt \in Markets /\ closed /\ UNCHANGED <<fatal, closed, closeAt, joined>>
        /\ sentinel' = [sentinel EXCEPT ![closeAt] = "queued"] /\ closeStep' = "join"
    BY <1>5 DEF PutSentinel, ToJoin, RecorderInv, Closing
  <2>2. Closing'
    BY <2>1 DEF RecorderInv, Closing
  <2>3. ASSUME NEW k \in Markets PROVE Accounted(k)'
    <3>1. sentinel'[k] = sentinel[k] \/ sentinel'[k] = "queued"
      BY <2>1 DEF RecorderTypes
    <3> QED BY <1>1, <2>1, <3>1 DEF RecorderInv, Accounted
  <2>4. RecorderTypes'
    BY <1>1, <2>1 DEF RecorderTypes
  <2> QED BY <1>1, <2>2, <2>3, <2>4 DEF RecorderInv
<1>6. CASE PutTimesOut
  <2>1. /\ UNCHANGED <<sentinel, fatal, closed, closeAt, joined>>
        /\ closeStep = "put" /\ closeStep' \in {"put", "join"}
    BY <1>6 DEF PutTimesOut, ToJoin, queueVars
  <2>2. Closing'
    BY <2>1 DEF RecorderInv, Closing
  <2>3. \A m \in Markets : Accounted(m)'
    BY <1>1, <2>1 DEF RecorderInv, Accounted
  <2> QED BY <1>1, <2>1, <2>2, <2>3 DEF RecorderTypes, RecorderInv
<1>7. CASE JoinReturns \/ JoinTimesOut
  <2>1. /\ closeAt \in Markets /\ closed
        /\ UNCHANGED <<sentinel, closed>> /\ closeStep' = "between"
        /\ joined' = joined \cup {closeAt}
        /\ writer[closeAt] \in {"done", "failed"} \/ fatal' # "none"
    BY <1>7 DEF JoinReturns, JoinTimesOut, NextWriter, queueVars, RecorderInv, Closing,
                Finished, CancelledAtExit, Up, Signal
  <2>2. Closing'
    BY <2>1 DEF RecorderInv, Closing
  <2>3. \A m \in Markets : Accounted(m)'
    BY <1>1, <1>2, <2>1 DEF RecorderInv, Accounted
  <2>4. RecorderTypes'
    BY <1>1, <2>1 DEF RecorderTypes
  <2> QED BY <1>1, <2>2, <2>3, <2>4 DEF RecorderInv
<1>8. CASE CloseReturns
  <2>1. fatal # "none" \/ Drained
    <3> SUFFICES ASSUME fatal = "none", NEW m \in Markets
                 PROVE  durable[m] = Len(accepted[m])
      BY DEF Drained
    <3>1. writer[m] \in {"none", "done"}
      BY <1>8 DEF CloseReturns, RecorderInv, Accounted, CancelledAtExit, Up
    <3>2. /\ Len(accepted[m]) \in Nat /\ Len(batch[m]) \in Nat /\ Len(queue[m]) \in Nat
          /\ durable[m] \in Nat /\ Len(<<>>) = 0
      BY Lengths DEF RecorderTypes
    <3>3. Accounted(m)
      BY DEF RecorderInv
    <3> QED BY <3>1, <3>2, <3>3 DEF Accounted
  <2>2. /\ UNCHANGED <<sentinel, closed, closeAt, joined, fatal>>
        /\ closeStep = "between" /\ closeStep' = "done"
    BY <1>8, <2>1 DEF CloseReturns, queueVars
  <2>3. Closing'
    BY <2>2 DEF RecorderInv, Closing
  <2>4. \A m \in Markets : Accounted(m)'
    BY <1>1, <2>2 DEF RecorderInv, Accounted
  <2> QED BY <1>1, <2>2, <2>3, <2>4 DEF RecorderTypes, RecorderInv
<1> QED BY <1>1, <1>3, <1>4, <1>5, <1>6, <1>7, <1>8 DEF CloseStep

(* The end of the event loop keeps it too.                                   *)
LEMMA LoopKeeps ==
    ASSUME RecorderTypes, RecorderInv, LoopCancels
    PROVE  RecorderTypes' /\ RecorderInv'
<1>1. /\ UNCHANGED <<accepted, queue, sentinel, batch, durable, closed, closeAt, joined>>
      /\ fatal # "none" => fatal' # "none"
      /\ closeStep' = IF CloseEnds THEN closeStep ELSE "cancelled"
      /\ writer' = [m \in Markets |->
             IF writer[m] \in {"get", "write"} THEN "cancelled" ELSE writer[m]]
  BY DEF LoopCancels, Signal, queueVars
<1>2. Closing'
  BY <1>1 DEF RecorderInv, Closing, CloseEnds
<1>3. ASSUME NEW m \in Markets PROVE Accounted(m)'
  <2>1. writer'[m] = writer[m] \/ writer'[m] = "cancelled"
    BY <1>1
  <2> QED BY <1>1, <2>1 DEF RecorderInv, Accounted
<1>4. RecorderTypes'
  BY <1>1 DEF RecorderTypes, Finished
<1> QED BY <1>2, <1>3, <1>4 DEF RecorderInv

(* A step that leaves the recorder alone.                                    *)
LEMMA RecorderStands ==
    ASSUME RecorderTypes, RecorderInv, UNCHANGED recorderVars
    PROVE  RecorderTypes' /\ RecorderInv' /\ writer' = writer
<1>1. UNCHANGED <<accepted, queue, sentinel, batch, durable, writer, closed, closeStep,
                  closeAt, joined, fatal>>
  BY DEF recorderVars, queueVars, writerVars, closeVars
<1> QED BY <1>1 DEF RecorderTypes, RecorderInv, Accounted, Closing

(* A full queue refuses the record, signals it and may restart the writer.   *)
LEMMA OverflowKeeps ==
    ASSUME RecorderTypes, RecorderInv, CancelledAtExit, Up, NEW m \in Markets,
           AppendOverflows(m)
    PROVE  /\ RecorderTypes' /\ RecorderInv'
           /\ \A k \in Markets : writer'[k] # "cancelled"
<1>1. /\ UNCHANGED <<accepted, queue, sentinel, batch, durable, closed, closeStep,
                     closeAt, joined>>
      /\ fatal = "none" /\ fatal' # "none" /\ ~closed
  BY DEF AppendOverflows, Admitting, Signal, queueVars, closeVars
<1>2. ASSUME NEW k \in Markets
      PROVE  /\ writer'[k] \in {"get", "write", writer[k]}
             /\ writer'[k] # "cancelled"
             /\ writer'[k] = "get" => batch[k] = <<>>
             /\ writer'[k] # writer[k] => writer'[k] = "get"
  <2>1. /\ Accounted(k) /\ writer[k] # "cancelled"
        /\ writer[k] \in Finished \cup {"none", "get", "write"}
    BY DEF RecorderInv, CancelledAtExit, Up, RecorderTypes
  <2>2. writer'[k] = IF k = m /\ writer[k] \in Finished \cup {"none"} THEN "get"
                     ELSE writer[k]
    BY DEF AppendOverflows, StartWriter, RecorderTypes
  <2>3. writer[k] = "none" => batch[k] = <<>>
    <3>1. /\ Len(accepted[k]) \in Nat /\ Len(batch[k]) \in Nat /\ Len(queue[k]) \in Nat
          /\ durable[k] \in Nat
          /\ (accepted[k] = <<>> => Len(accepted[k]) = 0)
          /\ (Len(batch[k]) = 0 => batch[k] = <<>>)
      BY Lengths DEF RecorderTypes
    <3> QED BY <2>1, <3>1 DEF Accounted
  <2> QED BY <1>1, <2>1, <2>2, <2>3 DEF Accounted, Finished
<1>3. Closing'
  BY <1>1 DEF RecorderInv, Closing
<1>4. ASSUME NEW k \in Markets PROVE Accounted(k)'
  <2>1. k \notin joined
    BY <1>1 DEF RecorderInv, Closing
  <2> QED BY <1>1, <1>2, <2>1 DEF RecorderInv, Accounted
<1>5. RecorderTypes'
  BY <1>1 DEF RecorderTypes, AppendOverflows, StartWriter, Finished
<1> QED BY <1>2, <1>3, <1>4, <1>5 DEF RecorderInv

-----------------------------------------------------------------------------
(* The application *)

(* A process that has just started satisfies the invariant.                  *)
LEMMA AppInitially == Init => AppInv
<1> SUFFICES ASSUME Init PROVE AppInv
  OBVIOUS
<1> USE DEF Init, RecorderInit
<1>1. RecorderTypes
  BY EmptySeq DEF RecorderTypes, NoRecords, AllNone
<1>2. RecorderInv
  BY DEF RecorderInv, Accounted, Closing, NoRecords, AllNone
<1>3. CancelledAtExit /\ Supervision /\ RepositoryReached
  BY DEF CancelledAtExit, Supervision, RepositoryReached, AllNone, Tasks
<1> QED BY <1>1, <1>2, <1>3 DEF AppInv

(* A task that ends with a stop requested, or that fails, keeps supervision. *)
LEMMA TaskEndKept ==
    ASSUME Supervision, NEW t \in Tasks, NEW how \in {"ended", "failed"},
           TaskEnds(t, how), UNCHANGED <<phase, raising>>,
           how = "ended" => stop', stop => stop',
           early' => early \/ ~stop,
           how = "failed" => t \in Markets \cup Supervised,
           how = "ended" => (early' => early)
    PROVE  Supervision'
<1>1. task' = [task EXCEPT ![t] = how] /\ task[t] = "running"
  BY DEF TaskEnds, Ended, Supervision
<1>2. ASSUME NEW k \in Tasks PROVE task'[k] = IF k = t THEN how ELSE task[k]
  BY <1>1 DEF Supervision
<1>3. task' \in [Tasks -> {"running", "ended", "failed"}]
  BY <1>1 DEF Supervision
<1>4. \A k \in Tasks : task'[k] = "ended" => stop'
  BY <1>2 DEF Supervision
<1>5. early' => \/ raising' # "none"
                \/ phase' = "wait" /\ \E k \in Markets \cup Supervised : task'[k] = "failed"
  <2>1. Markets \cup Supervised \subseteq Tasks
    BY DEF Tasks
  <2>2. CASE early
    <3>1. ASSUME NEW k \in Markets \cup Supervised, task[k] = "failed"
          PROVE  task'[k] = "failed"
      BY <1>1, <1>2, <2>1, <3>1
    <3> QED BY <2>2, <3>1 DEF Supervision
  <2>3. CASE t \in Markets \cup Supervised /\ how = "failed" /\ ~stop
    BY <1>2, <2>1, <2>3 DEF Supervision
  <2> QED BY <2>2, <2>3
<1>6. task'[Monitor] # "failed" /\ (phase' # "wait" => stop')
      /\ (phase' = "wait" => raising' = "none")
  BY <1>2 DEF Supervision, Tasks
<1> QED BY <1>3, <1>4, <1>5, <1>6 DEF Supervision

(* Recorder steps leave the application alone.                               *)
LEMMA AppStands ==
    ASSUME Supervision, RepositoryReached,
           UNCHANGED <<task, phase, raising, repository, early>>, stop => stop'
    PROVE  Supervision' /\ RepositoryReached'
  BY DEF Supervision, RepositoryReached

(* No step of a task, a writer, a thread, the supervisor or the event loop   *)
(* breaks the invariant.                                                     *)
LEMMA AppPreserved == AppInv /\ [Next]_vars => AppInv'
<1> SUFFICES ASSUME AppInv, [Next]_vars PROVE AppInv'
  OBVIOUS
<1>0. RecorderTypes /\ RecorderInv /\ CancelledAtExit /\ Supervision /\ RepositoryReached
  BY DEF AppInv
<1>a. ASSUME UNCHANGED recorderVars, phase' = phase \/ phase # "exited",
             Supervision', RepositoryReached'
      PROVE  AppInv'
  <2>1. RecorderTypes' /\ RecorderInv' /\ writer' = writer
    BY <1>0, <1>a, RecorderStands
  <2>2. CancelledAtExit'
    BY <1>0, <1>a, <2>1 DEF CancelledAtExit
  <2> QED BY <1>a, <2>1, <2>2 DEF AppInv
<1>b. ASSUME NEW t \in Tasks, NEW how \in {"ended", "failed"}, TaskEnds(t, how),
             OnlyTasks, how = "ended" => stop', stop => stop',
             early' => early \/ ~stop,
             how = "failed" => t \in Markets \cup Supervised,
             how = "ended" => (early' => early)
      PROVE  AppInv'
  <2>1. UNCHANGED <<phase, raising, repository>> /\ UNCHANGED recorderVars
    BY <1>b DEF OnlyTasks
  <2>2. Supervision'
    BY <1>0, <1>b, <2>1, TaskEndKept
  <2>3. RepositoryReached'
    BY <1>0, <2>1 DEF RepositoryReached
  <2> QED BY <1>a, <2>1, <2>2, <2>3
<1>c. Markets \subseteq Tasks /\ Supervised \subseteq Tasks /\ Monitor \in Tasks
  BY DEF Tasks
<1>1. ASSUME NEW m \in Markets, Up, Consume(m)
      PROVE  AppInv'
  <2>1. UNCHANGED <<task, phase, raising, repository, early>> /\ (stop => stop')
    BY <1>1 DEF Consume, Connect, Disconnect, BackoffEnds, ReceiveStopped,
       ReceiveRecorded, ReceiveRefused, HandlerReturns, HandlerRaises, OnlyConn
  <2>2. Supervision' /\ RepositoryReached'
    BY <1>0, <2>1, AppStands
  <2>3. CASE UNCHANGED recorderVars
    BY <1>a, <2>1, <2>2, <2>3
  <2>4. CASE ReceiveRecorded(m)
    <3>1. AppendAccepts(m, DayOf(Len(accepted[m]) + 1))
      BY <2>4 DEF ReceiveRecorded
    <3>2. RecorderTypes' /\ RecorderInv'
      BY <1>0, <1>1, <3>1, AppendKeeps
    <3>3. ASSUME NEW k \in Markets PROVE writer'[k] # "cancelled"
      <4>1. writer[k] # "cancelled"
        BY <1>0, <1>1 DEF CancelledAtExit, Up
      <4> QED BY <1>0, <3>1, <4>1 DEF AppendAccepts, StartWriter, RecorderTypes
    <3> QED BY <2>2, <3>2, <3>3 DEF AppInv, CancelledAtExit
  <2>5. CASE AppendOverflows(m)
    <3>1. /\ RecorderTypes' /\ RecorderInv'
          /\ \A k \in Markets : writer'[k] # "cancelled"
      BY <1>0, <1>1, <2>5, OverflowKeeps
    <3> QED BY <2>2, <3>1 DEF AppInv, CancelledAtExit
  <2> QED BY <1>1, <2>3, <2>4, <2>5 DEF Consume, Connect, Disconnect, BackoffEnds,
       ReceiveStopped, ReceiveRefused, HandlerReturns, HandlerRaises, OnlyConn,
       AppendOverQuota, AppendFailed
<1>2. ASSUME NEW m \in Markets, ScannerStops(m)
      PROVE  AppInv'
  BY <1>2, <1>b, <1>c DEF ScannerStops
<1>3. ASSUME NEW m \in Markets, ScannerFails(m) \/ ScannerCrashes(m)
      PROVE  AppInv'
  <2>1. /\ TaskEnds(m, "failed") /\ OnlyTasks /\ (stop => stop')
        /\ (early' => early \/ ~stop)
    <3>1. CASE ScannerFails(m)
      BY <3>1 DEF ScannerFails
    <3>2. CASE ScannerCrashes(m)
      BY <3>2 DEF ScannerCrashes
    <3> QED BY <1>3, <3>1, <3>2
  <2> QED BY <2>1, <1>b, <1>c
<1>4. ASSUME NEW m \in Markets, Up, WriterStep(m) \/ ThreadStep(m), UNCHANGED appVars
      PROVE  AppInv'
  <2>1. UNCHANGED <<task, phase, raising, repository, early, stop>>
    BY <1>4 DEF appVars
  <2>2. Supervision' /\ RepositoryReached'
    BY <1>0, <2>1, AppStands
  <2>3. RecorderTypes' /\ RecorderInv'
    BY <1>0, <1>4, WriterKeeps
  <2>4. ASSUME NEW k \in Markets PROVE writer'[k] # "cancelled"
    <3>1. writer[k] # "cancelled"
      BY <1>0, <1>4 DEF CancelledAtExit, Up
    <3> QED BY <1>0, <1>4, <3>1 DEF WriterStep, ThreadStep, TakeBatch, TakeSentinel,
         AccountBatch, FailBatch, WriteLine, ThreadReturns, ThreadFails, RecorderTypes
  <2> QED BY <2>2, <2>3, <2>4 DEF AppInv, CancelledAtExit
<1>5. ASSUME NEW t \in Supervised, SupervisedReturns(t) \/ SupervisedFails(t)
      PROVE  AppInv'
  <2>1. CASE SupervisedReturns(t)
    BY <2>1, <1>b, <1>c DEF SupervisedReturns
  <2>2. CASE SupervisedFails(t)
    <3>1. /\ TaskEnds(t, "failed") /\ OnlyTasks /\ (stop => stop')
          /\ (early' => early \/ ~stop)
      BY <2>2 DEF SupervisedFails
    <3> QED BY <3>1, <1>b, <1>c
  <2> QED BY <1>5, <2>1, <2>2
<1>6. ASSUME NEW t \in Tasks, TaskCancelled(t)
      PROVE  AppInv'
  <2>1. stop
    BY <1>0, <1>6 DEF TaskCancelled, Cancelling, Supervision
  <2> QED BY <1>6, <2>1, <1>b DEF TaskCancelled
<1>7. ASSUME MonitorReturns
      PROVE  AppInv'
  BY <1>7, <1>b, <1>c DEF MonitorReturns
<1>8. ASSUME RequestStop
      PROVE  AppInv'
  <2>1. /\ UNCHANGED <<task, phase, raising, repository, early>> /\ (stop => stop')
        /\ UNCHANGED recorderVars
    BY <1>8 DEF RequestStop, OnlyTasks
  <2> QED BY <1>0, <2>1, AppStands, <1>a
<1>9. ASSUME Up, CloseStep, UNCHANGED appVars
      PROVE  AppInv'
  <2>1. UNCHANGED <<task, phase, raising, repository, early, stop>>
    BY <1>9 DEF appVars
  <2>2. Supervision' /\ RepositoryReached'
    BY <1>0, <2>1, AppStands
  <2>3. RecorderTypes' /\ RecorderInv' /\ writer' = writer
    BY <1>0, <1>9, CloseKeeps
  <2> QED BY <1>0, <2>1, <2>2, <2>3 DEF AppInv, CancelledAtExit
<1>10. CASE Run
  <2>1. CASE FirstCompleted
    <3>1. /\ phase = "wait" /\ phase' = "drain" /\ UNCHANGED <<recorderVars, task, early>>
          /\ stop' = (stop \/ SupervisedError \/ \E m \in Markets : Ended(m))
          /\ raising' = IF \E m \in Markets : task[m] = "failed" THEN "scanner"
                        ELSE IF SupervisedError THEN "supervised" ELSE "none"
          /\ Pending # Tasks
      BY <2>1 DEF FirstCompleted, Goto, OnlyRun
    <3>2. stop'
      <4>1. PICK t \in Tasks : Ended(t)
        BY <3>1 DEF Pending
      <4>2. CASE t \in Markets
        BY <3>1, <4>1, <4>2
      <4>3. CASE t \in Supervised
        BY <1>0, <1>c, <3>1, <4>1, <4>3 DEF Ended, SupervisedError, Supervision
      <4>4. CASE t = Monitor
        <5>1. CASE task[t] = "ended"
          BY <1>0, <3>1, <4>1, <5>1 DEF Supervision
        <5>2. CASE task[t] = "failed"
          BY <1>0, <3>1, <4>4, <5>2 DEF Supervision
        <5> QED BY <1>0, <4>1, <5>1, <5>2 DEF Ended, Supervision
      <4> QED BY <4>1, <4>2, <4>3, <4>4 DEF Tasks
    <3>3. early => raising' # "none"
      <4>1. CASE \E m \in Markets : task[m] = "failed"
        BY <3>1, <4>1
      <4>2. CASE \E t \in Supervised : task[t] = "failed"
        BY <3>1, <4>2 DEF SupervisedError
      <4>3. CASE \A t \in Markets \cup Supervised : task[t] # "failed"
        BY <1>0, <3>1, <4>3 DEF Supervision
      <4> QED BY <4>1, <4>2, <4>3
    <3>4. Supervision'
      BY <1>0, <3>1, <3>2, <3>3 DEF Supervision
    <3>5. RepositoryReached'
      BY <3>1 DEF RepositoryReached
    <3> QED BY <1>a, <3>1, <3>4, <3>5
  <2>2. CASE DrainEnds \/ CancelEnds \/ TeardownEnds
    <3>1. /\ phase \in {"drain", "cancel", "teardown"}
          /\ phase' \in {"cancel", "teardown", "scanners"}
          /\ UNCHANGED <<recorderVars, raising, task, early>> /\ (stop => stop')
      BY <2>2 DEF DrainEnds, CancelEnds, TeardownEnds, Goto, OnlyRun
    <3>2. Supervision' /\ RepositoryReached'
      BY <1>0, <3>1 DEF Supervision, RepositoryReached
    <3> QED BY <1>a, <3>1, <3>2
  <2>3. CASE CloseRecorder
    <3>1. /\ phase = "scanners" /\ phase' = "recorder" /\ CloseBegins
          /\ UNCHANGED <<raising, task, early, stop>>
      BY <2>3 DEF CloseRecorder, Goto, OnlyRun
    <3>2. Supervision' /\ RepositoryReached'
      BY <1>0, <3>1 DEF Supervision, RepositoryReached
    <3>3. RecorderTypes' /\ RecorderInv' /\ writer' = writer
      BY <1>0, <3>1, CloseKeeps DEF Up
    <3>4. CancelledAtExit'
      BY <1>0, <3>1, <3>3 DEF CancelledAtExit
    <3> QED BY <3>2, <3>3, <3>4 DEF AppInv
  <2>4. CASE RecorderClosed \/ RecorderCloseOverruns
    <3>1. closeStep # "raised"
      BY <1>0 DEF RecorderInv, Closing
    <3>2. /\ phase = "recorder" /\ phase' = "notifier"
          /\ UNCHANGED <<recorderVars, raising, task, early, stop>>
      BY <2>4, <3>1 DEF RecorderClosed, RecorderCloseOverruns, Goto, OnlyRun
    <3>3. Supervision' /\ RepositoryReached'
      BY <1>0, <3>2 DEF Supervision, RepositoryReached
    <3> QED BY <1>a, <3>2, <3>3
  <2>5. CASE CloseRepository
    <3>1. /\ phase = "notifier" /\ phase' = "ended" /\ repository' = "closed"
          /\ UNCHANGED <<recorderVars, raising, task, early, stop>>
      BY <2>5 DEF CloseRepository, Goto, OnlyRun
    <3>2. Supervision' /\ RepositoryReached'
      BY <1>0, <3>1 DEF Supervision, RepositoryReached
    <3> QED BY <1>a, <3>1, <3>2
  <2>6. CASE LoopEnds
    <3>1. /\ phase = "ended" /\ phase' = "exited" /\ LoopCancels
          /\ task' = [t \in Tasks |-> IF Ended(t) THEN task[t] ELSE "ended"]
          /\ UNCHANGED <<stop, raising, repository, early>>
      BY <2>6 DEF LoopEnds, Goto
    <3>2. RepositoryReached'
      BY <1>0, <3>1 DEF RepositoryReached
    <3>3. Supervision'
      <4>1. stop /\ phase # "wait"
        BY <1>0, <3>1 DEF Supervision
      <4>2. task'[Monitor] # "failed" /\ task' \in [Tasks -> {"running", "ended", "failed"}]
        BY <1>0, <1>c, <3>1 DEF Supervision, Ended
      <4> QED BY <1>0, <3>1, <4>1, <4>2 DEF Supervision
    <3>4. RecorderTypes' /\ RecorderInv'
      BY <1>0, <3>1, LoopKeeps
    <3>5. CancelledAtExit'
      BY <3>1 DEF CancelledAtExit
    <3> QED BY <3>2, <3>3, <3>4, <3>5 DEF AppInv
  <2> QED BY <1>10, <2>1, <2>2, <2>3, <2>4, <2>5, <2>6 DEF Run
<1>11. CASE UNCHANGED vars
  <2>1. /\ UNCHANGED <<task, phase, raising, repository, early, stop>>
        /\ UNCHANGED recorderVars
    BY <1>11 DEF vars, appVars
  <2> QED BY <1>0, <2>1, AppStands, <1>a
<1> QED
  BY <1>1, <1>2, <1>3, <1>4, <1>5, <1>6, <1>7, <1>8, <1>9, <1>10, <1>11 DEF Next

-----------------------------------------------------------------------------
(* The theorems *)

(* The invariant holds throughout every run, for every number of markets,    *)
(* supervised tasks, queue sizes, quotas and deadlines.                      *)
THEOREM AppInvariant == Spec => []AppInv
<1>1. Init => AppInv
  BY AppInitially
<1>2. AppInv /\ [Next]_vars => AppInv'
  BY AppPreserved
<1> QED BY <1>1, <1>2, PTL DEF Spec

(* Every accepted record is durable, in a batch or queued, and close never   *)
(* finds one missing that no error has accounted for.                        *)
THEOREM RecordsAccounted == Spec => []RecorderInv
<1>1. AppInv => RecorderInv
  BY DEF AppInv
<1> QED BY <1>1, AppInvariant, PTL

(* A task that failed before a stop was requested makes run raise.           *)
THEOREM FailuresReported == Spec => []FailureReported
<1>1. AppInv => FailureReported
  BY DEF AppInv, Supervision, FailureReported
<1> QED BY <1>1, AppInvariant, PTL

(* Every run closes the repository.                                          *)
THEOREM RepositoryAlwaysClosed == Spec => []RepositoryReached
<1>1. AppInv => RepositoryReached
  BY DEF AppInv
<1> QED BY <1>1, AppInvariant, PTL
=============================================================================
