-------------------------- MODULE SegmentedCapture --------------------------
(***************************************************************************)
(* The segmented evidence writer (capture/storage.py): the files of one     *)
(* capture directory, the writer's memory, and its operations split at      *)
(* every step after which a crash leaves other files behind.  append        *)
(* rotates, opens and writes; a segment is synced, renamed and sealed by a  *)
(* manifest that names its predecessor's digest; the constructor verifies   *)
(* the chain and recovers an unfinished tail.                               *)
(*                                                                          *)
(* A digest stands for the frames it is taken over.  A frame and a manifest *)
(* have fixed sizes, and maximum_frames is never below the byte limit.      *)
(***************************************************************************)
EXTENDS Naturals, Sequences, FiniteSets, SequencesExt

CONSTANTS
    Interval,       \* rotation_interval_ms
    MaxSegment,     \* maximum_uncompressed_bytes, in records
    MaxBytes,       \* maximum_total_bytes
    Reserve,        \* emergency_reserve_bytes
    FrameBytes,
    ManifestBytes,
    JournalBytes    \* one line of coverage-fatal.jsonl

ASSUME SizeAssumption ==
    /\ Interval \in Nat \ {0} /\ MaxSegment \in Nat \ {0}
    /\ FrameBytes \in Nat \ {0, 1} /\ ManifestBytes \in Nat /\ JournalBytes \in Nat
    /\ Reserve \in Nat /\ MaxBytes \in Nat
    /\ JournalBytes <= Reserve /\ Reserve < MaxBytes

VARIABLES
    segs,       \* the segment files, by sequence number
    residue,    \* temporary manifest and receipt files present
    copied,     \* frames in a .recovery copy, 0 when there is none
    journal,    \* coverage-fatal.jsonl
    w,          \* the writer's memory
    op          \* the operation its thread is in

diskVars == <<segs, residue, copied, journal>>
storageVars == <<diskVars, w, op>>

-----------------------------------------------------------------------------
Frame == [n : Nat, at : Nat, kind : {"none", "data", "fatal"}]
NoFrame == [n |-> 0, at |-> 0, kind |-> "none"]
NoManifest == [first |-> NoFrame, last |-> NoFrame, count |-> 0, sha |-> <<>>, prev |-> <<>>]
Manifest == [first : Frame, last : Frame, count : Nat, sha : Seq(Frame), prev : Seq(Frame)]
Segment == [bucket : Nat, frames : Seq(Frame), torn : {"no", "header", "payload"},
            synced : BOOLEAN, stage : {"partial", "final", "sealed"}, manifest : Manifest]

Idle == [pc |-> "idle", then |-> "none", item |-> NoFrame]
Bucket(f) == f.at - (f.at % Interval)

Sealed == {i \in DOMAIN segs : segs[i].stage = "sealed"}
Unfinished == DOMAIN segs \ Sealed      \* _unfinished_segment_paths

(* The places of the frames in the segment files. *)
Places == UNION {{<<i, j>> : j \in DOMAIN segs[i].frames} : i \in DOMAIN segs}
Torn == {i \in DOMAIN segs : segs[i].torn # "no"}

(* A torn frame is at most a byte short. *)
TornBytes(s) == IF s.torn = "no" THEN 0 ELSE FrameBytes - 1
ResidueBytes ==
    (IF "manifest" \in residue THEN ManifestBytes ELSE 0) + FrameBytes * copied
(* _directory_size; the receipts of the generation are not counted. *)
DirectorySize ==
    FrameBytes * Cardinality(Places) + (FrameBytes - 1) * Cardinality(Torn)
    + ManifestBytes * Cardinality(Sealed)
    + ResidueBytes + (IF journal = "no" THEN 0 ELSE JournalBytes)

(* _MetadataAccumulator: what a readable segment has to satisfy. *)
Consistent(frames) ==
    /\ frames # <<>>
    /\ \A i \in 2..Len(frames) :
          frames[i].n = frames[i - 1].n + 1 /\ frames[i].at >= frames[i - 1].at

Describes(m, s) ==
    /\ m.sha = s.frames /\ s.torn = "no"
    /\ Consistent(s.frames)
    /\ m.first = Head(s.frames) /\ m.last = Last(s.frames) /\ m.count = Len(s.frames)
    /\ Bucket(m.first) = s.bucket
Follows(m, p) ==
    m.prev = p.sha /\ m.first.at >= p.last.at /\ m.first.n = p.last.n + 1

(* verify_capture_segments *)
Verified(allowTail) ==
    /\ journal = "no"
    /\ Sealed = 1..Cardinality(Sealed)
    /\ \A i \in Sealed :
          /\ Describes(segs[i].manifest, segs[i])
          /\ IF i = 1 THEN segs[1].manifest.prev = <<>> /\ segs[1].manifest.first.n = 1
                      ELSE Follows(segs[i].manifest, segs[i - 1].manifest)
    /\ allowTail \/ Unfinished = {}

-----------------------------------------------------------------------------
FreshWriter ==
    [handle |-> FALSE, bucket |-> 0, count |-> 0, first |-> NoFrame, last |-> NoFrame,
     prev |-> <<>>, next |-> 1, known |-> 0]

StorageInit ==
    /\ segs = <<>> /\ residue = {} /\ copied = 0 /\ journal = "no"
    /\ w = FreshWriter /\ op = Idle

(* The memory of a new writer over the files it finds. *)
Loaded ==
    LET k == Cardinality(Sealed)
        m == IF k = 0 THEN NoManifest ELSE segs[k].manifest
    IN [handle |-> FALSE, bucket |-> 0, count |-> 0, first |-> NoFrame, last |-> m.last,
        prev |-> m.sha, next |-> k + 1, known |-> DirectorySize]

Goto(pc) == op' = [op EXCEPT !.pc = pc]

(* Slip: the reserve for the fatal journal can be used up. *)
EnsureNoReserve(bytes) == w.known + bytes <= MaxBytes
(* _ensure_data_capacity *)
EnsureDataCapacity(bytes) == w.known + bytes + Reserve <= MaxBytes

-----------------------------------------------------------------------------
(* append *)
StartAppend(f) == op' = [pc |-> "check", then |-> "append", item |-> f]

Misplaced(f) == w.last # NoFrame /\ (f.at < w.last.at \/ f.n # w.last.n + 1)
MustRotate(f) == w.handle /\ (Bucket(f) # w.bucket \/ w.count + 1 > MaxSegment)

CheckRecord ==
    /\ op.pc = "check"
    /\ Goto(IF Misplaced(op.item) THEN "error"
            ELSE IF MustRotate(op.item) THEN "fsync" ELSE "open")
    /\ UNCHANGED <<diskVars, w>>

OpenSegment ==
    /\ op.pc = "open"
    /\ IF w.handle
       THEN UNCHANGED <<segs, w>>
       ELSE /\ segs' = Append(segs, [bucket |-> Bucket(op.item), frames |-> <<>>,
                                     torn |-> "no", synced |-> FALSE,
                                     stage |-> "partial", manifest |-> NoManifest])
            /\ w' = [w EXCEPT !.handle = TRUE, !.bucket = Bucket(op.item),
                              !.count = 0, !.first = NoFrame]
    /\ Goto("write")
    /\ UNCHANGED <<residue, copied, journal>>

WriteFrame ==
    /\ op.pc = "write" /\ EnsureDataCapacity(FrameBytes)
    /\ segs' = [segs EXCEPT ![w.next].frames = Append(@, op.item)]
    /\ w' = [w EXCEPT !.known = @ + FrameBytes, !.count = @ + 1,
                      !.first = IF @ = NoFrame THEN op.item ELSE @, !.last = op.item]
    /\ Goto("ok")
    /\ UNCHANGED <<residue, copied, journal>>
(* CaptureShortWriteError *)
ShortWrite ==
    /\ op.pc = "write" /\ EnsureDataCapacity(FrameBytes)
    /\ \E t \in {"header", "payload"} : segs' = [segs EXCEPT ![w.next].torn = t]
    /\ Goto("error")
    /\ UNCHANGED <<residue, copied, journal, w>>

-----------------------------------------------------------------------------
(* _finalize_current *)
StartClose == op' = [pc |-> IF w.handle THEN "fsync" ELSE "ok", then |-> "close",
                     item |-> NoFrame]

(* Slip: the data is renamed without an fsync. *)
RenameUnsynced ==
    /\ op.pc = "fsync"
    /\ w' = [w EXCEPT !.handle = FALSE]
    /\ Goto("rename")
    /\ UNCHANGED diskVars
(* Slip: the handle is kept. *)
SyncKeepsHandle ==
    /\ op.pc = "fsync"
    /\ segs' = [segs EXCEPT ![w.next].synced = TRUE]
    /\ Goto("rename")
    /\ UNCHANGED <<residue, copied, journal, w>>
SyncSegment ==
    /\ op.pc = "fsync"
    /\ segs' = [segs EXCEPT ![w.next].synced = TRUE]
    /\ w' = [w EXCEPT !.handle = FALSE]
    /\ Goto("rename")
    /\ UNCHANGED <<residue, copied, journal>>

(* os.replace and the fsync of the directory. *)
RenameSegment ==
    /\ op.pc = "rename"
    /\ segs' = [segs EXCEPT ![w.next].stage = "final"]
    /\ Goto("manifest")
    /\ UNCHANGED <<residue, copied, journal, w>>

(* _write_manifest: the temporary file, whole or cut short ... *)
WriteManifestTemp ==
    /\ op.pc = "manifest" /\ EnsureDataCapacity(ManifestBytes)
    /\ residue' = residue \cup {"manifest"}
    /\ Goto("promote") \/ Goto("error")
    /\ UNCHANGED <<segs, copied, journal, w>>

Continue == CASE op.then = "append" -> "open" [] op.then = "close" -> "ok"
              [] op.then = "recover" -> "verify"

(* Slip: the digest of this segment does not become the next one's link. *)
PromoteUnlinked ==
    /\ op.pc = "promote"
    /\ LET s == segs[w.next]
           m == [first |-> w.first, last |-> w.last, count |-> w.count,
                 sha |-> s.frames, prev |-> w.prev]
       IN /\ segs' = [segs EXCEPT ![w.next].stage = "sealed", ![w.next].manifest = m]
          /\ w' = [w EXCEPT !.next = @ + 1, !.bucket = 0, !.count = 0,
                            !.first = NoFrame, !.known = @ + ManifestBytes]
    /\ residue' = residue \ {"manifest"}
    /\ Goto(Continue)
    /\ UNCHANGED <<copied, journal>>
(* ... and its promotion, after which the segment is sealed. *)
PromoteManifest ==
    /\ op.pc = "promote"
    /\ LET s == segs[w.next]
           m == [first |-> w.first, last |-> w.last, count |-> w.count,
                 sha |-> s.frames, prev |-> w.prev]
       IN /\ segs' = [segs EXCEPT ![w.next].stage = "sealed", ![w.next].manifest = m]
          /\ w' = [w EXCEPT !.prev = s.frames, !.next = @ + 1, !.bucket = 0, !.count = 0,
                            !.first = NoFrame, !.known = @ + ManifestBytes]
    /\ residue' = residue \ {"manifest"}
    /\ Goto(Continue)
    /\ UNCHANGED <<copied, journal>>

(* os.replace has happened and the fsync of the directory raises: the file  *)
(* has its new name, the writer does not know.                              *)
PublishFails ==
    /\ \/ /\ op.pc = "rename"
          /\ segs' = [segs EXCEPT ![w.next].stage = "final"]
          /\ UNCHANGED <<residue, copied>>
       \/ /\ op.pc = "promote"
          /\ LET m == [first |-> w.first, last |-> w.last, count |-> w.count,
                       sha |-> segs[w.next].frames, prev |-> w.prev]
             IN segs' = [segs EXCEPT ![w.next].stage = "sealed", ![w.next].manifest = m]
          /\ residue' = residue \ {"manifest"}
          /\ UNCHANGED copied
       \/ /\ op.pc = "replace"
          /\ segs' = [segs EXCEPT ![w.next].torn = "no", ![w.next].synced = TRUE]
          /\ copied' = 0
          /\ UNCHANGED residue
    /\ Goto("error")
    /\ UNCHANGED <<journal, w>>

(* A full quota, the free-space floor of the capacity guard or a failing    *)
(* device: the step raises and leaves the files as they are.                *)
StepFails ==
    /\ op.pc \in {"open", "write", "fsync", "rename", "manifest", "promote",
                  "rewrite", "replace"}
    /\ Goto("error")
    /\ UNCHANGED <<diskVars, w>>

-----------------------------------------------------------------------------
(* abort: what was written is made durable, and not claimed to be final. *)
Abort ==
    /\ \/ ~w.handle /\ UNCHANGED segs
       \/ w.handle /\ segs' = [segs EXCEPT ![w.next].synced = TRUE]
       \/ w.handle /\ UNCHANGED segs        \* the fsync raises: logged
    /\ w' = [w EXCEPT !.handle = FALSE]
    /\ UNCHANGED <<residue, copied, journal>>

(* write_emergency_transition: written, cut short, or not possible. *)
Emergency ==
    /\ \/ /\ w.known + JournalBytes <= MaxBytes
          /\ journal' = "yes" /\ w' = [w EXCEPT !.known = @ + JournalBytes]
       \/ w.known + JournalBytes <= MaxBytes /\ journal' = "torn" /\ UNCHANGED w
       \/ UNCHANGED <<journal, w>>
    /\ UNCHANGED <<segs, residue, copied>>

-----------------------------------------------------------------------------
(* The constructor refuses files it cannot account for. *)
Ambiguous ==
    \/ "manifest" \in residue \/ copied > 0
    \/ DirectorySize > MaxBytes
    \/ ~Verified(TRUE)

(* What _recover_unfinished_tail refuses. *)
Unreadable(s) ==
    \/ ~Consistent(s.frames) \/ s.torn = "header"
    \/ s.stage = "final" /\ s.torn # "no"

StartRecovery ==
    /\ w' = Loaded
    /\ op' = [pc |-> "scan", then |-> "recover", item |-> NoFrame]
    /\ UNCHANGED diskVars

Adopted(s) == [w EXCEPT !.bucket = s.bucket, !.count = Len(s.frames),
                        !.first = Head(s.frames), !.last = Last(s.frames)]

(* _recover_unfinished_tail: a partial is rewritten, an orphan is sealed    *)
(* as it stands.                                                            *)
ScanTail ==
    /\ op.pc = "scan"
    /\ IF Unfinished = {} THEN Goto("verify") /\ UNCHANGED w
       ELSE LET s == segs[w.next] IN
            IF Unfinished # {w.next} \/ Unreadable(s) THEN Goto("refuse") /\ UNCHANGED w
            ELSE IF s.stage = "partial" THEN Goto("rewrite") /\ UNCHANGED w
            ELSE Goto("manifest") /\ w' = Adopted(s)
    /\ UNCHANGED diskVars

(* _rewrite_partial: the complete frames go to a copy ... *)
RewriteTemp ==
    /\ op.pc = "rewrite" /\ EnsureDataCapacity(FrameBytes * Len(segs[w.next].frames))
    /\ copied' = Len(segs[w.next].frames)
    /\ Goto("replace")
    /\ UNCHANGED <<segs, residue, journal, w>>

(* ... that replaces it, and _adopt_recovered_partial. *)
ReplacePartial ==
    /\ op.pc = "replace"
    /\ LET s == segs[w.next]
           t == [s EXCEPT !.torn = "no", !.synced = TRUE]
       IN /\ segs' = [segs EXCEPT ![w.next] = t]
          /\ w' = [Adopted(t) EXCEPT !.handle = TRUE,
                                     !.known = @ - TornBytes(s)]
    /\ copied' = 0
    /\ Goto("fsync")
    /\ UNCHANGED <<residue, journal>>

(* The full verification that follows a recovery. *)
VerifyRecovered ==
    /\ op.pc = "verify"
    /\ Goto(IF Verified(FALSE) THEN "ok" ELSE "refuse")
    /\ UNCHANGED <<diskVars, w>>

StorageStep ==
    \/ CheckRecord \/ OpenSegment \/ WriteFrame \/ ShortWrite
    \/ SyncSegment \/ RenameSegment \/ WriteManifestTemp \/ PromoteManifest
    \/ PublishFails \/ StepFails
    \/ ScanTail \/ RewriteTemp \/ ReplacePartial \/ VerifyRecovered

-----------------------------------------------------------------------------
(* A crash of the machine: a segment that was not synced keeps any part of  *)
(* its bytes, or is not there at all.                                       *)
Cut(s, k, t) == [s EXCEPT !.frames = SubSeq(@, 1, k), !.torn = t]
(* All its frames and a part of one behind them: only if one was begun. *)
MayKeep(s, k, t) ==
    \/ k < Len(s.frames) \/ t = "no" \/ s.torn # "no"
    \/ op.pc = "write" /\ EnsureDataCapacity(FrameBytes)

StorageCrash ==
    /\ \/ segs' = segs
       \/ /\ segs # <<>> /\ ~Last(segs).synced
          /\ \/ segs' = Front(segs)
             \/ \E k \in 0..Len(Last(segs).frames), t \in {"no", "header", "payload"} :
                   /\ MayKeep(Last(segs), k, t)
                   /\ segs' = Front(segs) \o <<Cut(Last(segs), k, t)>>
    /\ w' = FreshWriter /\ op' = Idle
    /\ UNCHANGED <<residue, copied, journal>>
=============================================================================
