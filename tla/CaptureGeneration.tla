-------------------------- MODULE CaptureGeneration --------------------------
(***************************************************************************)
(* One generation of the public collector (pump_fade_v3/collector.py): its  *)
(* directory and receipts, the bounded handoff (capture/handoff.py) and the *)
(* pipeline worker (capture/pipeline.py) that feed the segmented writer,    *)
(* its shutdown, and the recovery of an interrupted generation when the     *)
(* process is started again.  The machine may crash between any two steps.  *)
(***************************************************************************)
EXTENDS SegmentedCapture

CONSTANTS
    Times,          \* receipt times the wall clock may show
    MaxRecords,     \* bound: records offered
    MaxCrashes,     \* bound: crashes
    MaxEvents       \* max_events of the handoff, one slot reserved

ASSUME GenerationAssumption ==
    /\ Times \subseteq Nat
    /\ MaxRecords \in Nat /\ MaxCrashes \in Nat /\ MaxEvents \in Nat \ {0, 1}

VARIABLES
    dir,        \* "none", "made" or "receipt": the directory and its start receipt
    terminal,   \* generation-terminal.json: "none", "clean" or "recovered"
    phase,      \* where run_standalone stands
    normal,     \* completed_normally and no owner failed
    queue,      \* the handoff queue, with its control markers
    accepting,  \* _accepting of the handoff
    failed,     \* the fatal state was tripped
    worker,     \* where the pipeline worker stands
    accepted,   \* every record the handoff took, in order
    crashes     \* bound: crashes so far

receiptVars == <<dir, terminal>>
handoffVars == <<queue, accepting, failed, accepted>>
vars == <<storageVars, receiptVars, phase, normal, handoffVars, worker, crashes>>

-----------------------------------------------------------------------------
Stop == [n |-> 0, at |-> 0, kind |-> "stop"]
Item == Frame \cup {Stop}
Writer == [handle : BOOLEAN, bucket : Nat, count : Nat, first : Frame, last : Frame,
           prev : Seq(Frame), next : Nat, known : Nat]
Operation ==
    [pc : {"idle", "check", "open", "write", "fsync", "rename", "manifest", "promote",
           "scan", "rewrite", "replace", "verify", "ok", "error", "refuse"},
     then : {"none", "append", "close", "recover"}, item : Item]

Init ==
    /\ StorageInit
    /\ dir = "none" /\ terminal = "none" /\ phase = "down" /\ normal = FALSE
    /\ queue = <<>> /\ accepting = FALSE /\ failed = FALSE
    /\ worker = "none" /\ accepted = <<>> /\ crashes = 0

TypeOK ==
    /\ segs \in Seq(Segment) /\ residue \subseteq {"manifest", "terminal"} /\ copied \in Nat
    /\ journal \in {"no", "torn", "yes"}
    /\ w \in Writer /\ op \in Operation
    /\ w.handle => w.next \in DOMAIN segs /\ w.next = Len(segs) /\ segs[w.next].stage = "partial"
    /\ dir \in {"none", "made", "receipt"} /\ terminal \in {"none", "clean", "recovered"}
    /\ phase \in {"down", "setup", "run", "draining", "recover", "terminal", "pending",
                  "finished", "refused"}
    /\ normal \in BOOLEAN /\ accepting \in BOOLEAN /\ failed \in BOOLEAN
    /\ queue \in Seq(Item) /\ accepted \in Seq(Frame)
    /\ worker \in {"none", "get", "append", "close", "fatal", "emergency", "abort", "done"}
    /\ crashes \in 0..MaxCrashes

-----------------------------------------------------------------------------
(* run_standalone: the directory, its receipt, and the writer. *)
OnlyPhase == UNCHANGED <<storageVars, normal, handoffVars, worker, crashes>>

MakeDirectory ==
    /\ phase = "down" /\ dir = "none"
    /\ dir' = "made" /\ phase' = "setup"
    /\ UNCHANGED terminal /\ OnlyPhase

StartGeneration ==
    /\ phase = "setup"
    /\ dir' = "receipt" /\ phase' = "run" /\ worker' = "get" /\ accepting' = TRUE
    /\ UNCHANGED <<storageVars, terminal, normal, queue, failed, accepted, crashes>>

-----------------------------------------------------------------------------
(* offer: the events counted are the queued ones and the one in flight.     *)
QueuedEvents == Len(queue) + (IF worker = "append" THEN 1 ELSE 0)

OnlyHandoff == UNCHANGED <<storageVars, receiptVars, phase, normal, worker, crashes>>

Accept(t) ==
    /\ phase = "run" /\ accepting /\ ~failed /\ QueuedEvents + 1 <= MaxEvents - 1
    /\ Len(accepted) < MaxRecords
    /\ LET f == [n |-> Len(accepted) + 1, at |-> t, kind |-> "data"] IN
       queue' = Append(queue, f) /\ accepted' = Append(accepted, f)
    /\ UNCHANGED <<accepting, failed>> /\ OnlyHandoff
(* The queue is full, or the record cannot be encoded: the handoff closes   *)
(* and the transition that says so takes the reserved slot.                 *)
Reject(t) ==
    /\ phase = "run" /\ accepting /\ ~failed
    /\ accepting' = FALSE /\ failed' = TRUE
    /\ queue' = Append(queue, [n |-> Len(accepted) + 1, at |-> t, kind |-> "fatal"])
    /\ UNCHANGED accepted /\ OnlyHandoff

-----------------------------------------------------------------------------
(* CapturePipeline._run *)
OnlyWorker == UNCHANGED <<receiptVars, phase, normal, accepted, crashes>>

Take ==
    /\ worker = "get" /\ queue # <<>>
    /\ LET f == Head(queue) IN
       IF f = Stop THEN StartClose /\ worker' = "close"
       ELSE StartAppend(f) /\ worker' = IF f.kind = "fatal" THEN "fatal" ELSE "append"
    /\ queue' = Tail(queue)
    /\ UNCHANGED <<diskVars, w, accepting, failed>> /\ OnlyWorker

AppendDone ==
    /\ worker = "append" /\ op.pc = "ok"
    /\ worker' = "get" /\ op' = Idle
    /\ UNCHANGED <<diskVars, w, queue, accepting, failed>> /\ OnlyWorker
(* The transition is stored: the writer is closed behind it. *)
FatalDone ==
    /\ worker = "fatal" /\ op.pc = "ok"
    /\ StartClose /\ worker' = "close"
    /\ UNCHANGED <<diskVars, w, queue, accepting, failed>> /\ OnlyWorker
CloseDone ==
    /\ worker = "close" /\ op.pc = "ok"
    /\ worker' = "done" /\ op' = Idle
    /\ UNCHANGED <<diskVars, w, queue, accepting, failed>> /\ OnlyWorker

(* _fail_writer, and the same after a failure to store the transition. *)
FailWriter ==
    /\ worker \in {"append", "close", "fatal"} /\ op.pc = "error"
    /\ worker' = "emergency" /\ op' = Idle
    /\ failed' = TRUE /\ accepting' = FALSE
    /\ UNCHANGED <<diskVars, w, queue>> /\ OnlyWorker
WriteEmergency ==
    /\ worker = "emergency" /\ Emergency
    /\ worker' = "abort"
    /\ UNCHANGED <<op, queue, accepting, failed>> /\ OnlyWorker
(* Slip: what is still queued is not completed. *)
AbortOnly ==
    /\ worker = "abort" /\ Abort
    /\ worker' = "done"
    /\ UNCHANGED <<op, queue, accepting, failed>> /\ OnlyWorker
(* _abort_writer and discard_pending *)
AbortAndDiscard ==
    /\ worker = "abort" /\ Abort
    /\ worker' = "done" /\ queue' = <<>>
    /\ UNCHANGED <<op, accepting, failed>> /\ OnlyWorker

WorkerStep ==
    \/ Take \/ AppendDone \/ FatalDone \/ CloseDone \/ FailWriter \/ WriteEmergency
    \/ AbortAndDiscard

-----------------------------------------------------------------------------
(* The end of a generation: pipeline.stop drains behind the stop marker     *)
(* unless the worker has already ended.                                     *)
StopPipeline ==
    /\ phase = "run"
    /\ normal' \in BOOLEAN
    /\ phase' = IF worker = "done" THEN "down" ELSE "draining"
    /\ accepting' = FALSE
    /\ queue' = IF accepting THEN Append(queue, Stop) ELSE queue
    /\ UNCHANGED <<storageVars, receiptVars, failed, worker, accepted, crashes>>

(* Slip: the fatal state is not looked at. *)
StopUnchecked ==
    /\ phase = "draining" /\ worker = "done" /\ queue = <<>>
    /\ phase' = IF normal THEN "terminal" ELSE "down"
    /\ UNCHANGED receiptVars /\ OnlyPhase
(* The queue is joined and the worker awaited; raise_if_failed, and the     *)
(* test before the terminal receipt.                                        *)
StopReturns ==
    /\ phase = "draining" /\ worker = "done" /\ queue = <<>>
    /\ phase' = IF normal /\ ~failed THEN "terminal" ELSE "down"
    /\ UNCHANGED receiptVars /\ OnlyPhase

(* _durable_receipt of the terminal: the disk guard may refuse it; the      *)
(* temporary file is written ...                                            *)
TerminalRefused ==
    /\ phase = "terminal" /\ phase' = "down"
    /\ UNCHANGED receiptVars /\ OnlyPhase
WriteTerminalTemp ==
    /\ phase = "terminal"
    /\ IF "terminal" \in residue
       THEN phase' = "refused" /\ UNCHANGED residue
       ELSE phase' = "pending" /\ residue' = residue \cup {"terminal"}
    /\ UNCHANGED <<segs, copied, journal, w, op, receiptVars, normal, handoffVars, worker, crashes>>
(* ... and its promotion. *)
PromoteTerminal ==
    /\ phase = "pending"
    /\ residue' = residue \ {"terminal"}
    /\ terminal' = IF normal THEN "clean" ELSE "recovered"
    /\ phase' = "finished"
    /\ UNCHANGED <<segs, copied, journal, w, op, dir, normal, handoffVars, worker, crashes>>

-----------------------------------------------------------------------------
(* recover_previous_generations of the next start. *)
Restart ==
    /\ phase = "down" /\ dir # "none"
    /\ normal' = FALSE /\ worker' = "none" /\ accepting' = FALSE /\ failed' = FALSE
    /\ queue' = <<>>
    /\ IF dir = "made" \/ Ambiguous
       THEN phase' = "refused" /\ UNCHANGED storageVars
       ELSE phase' = "recover" /\ StartRecovery
    /\ UNCHANGED <<receiptVars, accepted, crashes>>

(* The constructor has raised, or the generation gets its terminal receipt. *)
RecoveryEnds ==
    /\ phase = "recover" /\ op.pc \in {"ok", "error", "refuse"}
    /\ phase' = CASE op.pc = "ok" -> "terminal" [] op.pc = "error" -> "down"
                  [] op.pc = "refuse" -> "refused"
    /\ op' = Idle
    /\ UNCHANGED <<diskVars, w, receiptVars, normal, handoffVars, worker, crashes>>

Crash ==
    /\ phase \notin {"down", "finished", "refused"} /\ crashes < MaxCrashes
    /\ crashes' = crashes + 1
    /\ StorageCrash
    /\ phase' = "down" /\ worker' = "none" /\ accepting' = FALSE /\ failed' = FALSE
    /\ queue' = <<>> /\ normal' = FALSE
    /\ UNCHANGED <<receiptVars, accepted>>

-----------------------------------------------------------------------------
Writing == StorageStep /\ UNCHANGED <<receiptVars, phase, normal, handoffVars, worker, crashes>>
Progress ==
    \/ Writing \/ WorkerStep \/ StopReturns \/ RecoveryEnds
    \/ TerminalRefused \/ WriteTerminalTemp \/ PromoteTerminal

Next ==
    \/ MakeDirectory \/ StartGeneration \/ StopPipeline \/ Restart \/ Crash
    \/ \E t \in Times : Accept(t) \/ Reject(t)
    \/ Progress

Spec == Init /\ [][Next]_vars
(* The event loop, the writer's thread and the recovery go on. *)
FairSpec == Spec /\ WF_vars(Progress)

-----------------------------------------------------------------------------
(* Properties. *)

(* The frames of the segment files, one file after the other. *)
Behind(p) == {q \in Places : q[1] < p[1] \/ (q[1] = p[1] /\ q[2] < p[2])}
Stored ==
    [k \in 1..Cardinality(Places) |->
        LET p == CHOOSE p \in Places : Cardinality(Behind(p)) = k - 1
        IN  segs[p[1]].frames[p[2]]]

Evidence == INSTANCE EvidenceLog WITH
    log <- [k \in 1..Cardinality(Places) |-> Stored[k].n],
    safe <- Cardinality({p \in Places : segs[p[1]].synced}),
    verdict <- IF terminal = "none" THEN "open" ELSE terminal

(* The directory is an append-only evidence log: rotation, crashes and      *)
(* recovery never drop a synced record, never leave a gap, and never touch  *)
(* a sealed generation (SegmentedCaptureWriter, recover_previous_...).      *)
IsEvidenceLog == Evidence!Spec

(* No step and no crash breaks the chain of sealed segments: only a fatal   *)
(* journal makes the verification of a directory fail.                      *)
ChainVerifies == journal = "no" => Verified(TRUE)

(* The terminal receipt is true: its segments verify; a generation closed   *)
(* as clean holds exactly the records that were accepted, and nothing       *)
(* failed (collector.py's test before the receipt); a recovered one holds a *)
(* prefix of them, with at most the transition of a rejected record behind. *)
VerdictIsTrue ==
    /\ terminal # "none" => Verified(FALSE)
    /\ terminal = "clean" => ~failed /\ Stored = accepted
    /\ terminal = "recovered" =>
          \A i \in DOMAIN Stored :
              Stored[i].kind = "data" => i <= Len(accepted) /\ Stored[i] = accepted[i]

(* The directory stays within its quota, with temporary files, torn frames  *)
(* and the fatal journal (_ensure_data_capacity and the reserve).           *)
DiskWithinQuota == DirectorySize <= MaxBytes

(* Shutdown and recovery always come to an end, whatever fails: the join of *)
(* the handoff queue does not wait for a worker that is gone.               *)
GenerationDecided ==
    phase \in {"draining", "recover", "terminal"} ~> phase \in {"finished", "refused", "down"}
=============================================================================
