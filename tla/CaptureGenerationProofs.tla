---------------------- MODULE CaptureGenerationProofs ----------------------
(* Proofs about the capture storage and its generations: the chain of sealed *)
(* segments, the quota, the receipts, and that the directory implements      *)
(* EvidenceLog.                                                              *)
EXTENDS CaptureGeneration, SequenceTheorems, FiniteSetTheorems, TLAPS

-----------------------------------------------------------------------------
(* The inductive invariant.  What is said of the files alone is said of any   *)
(* sequence of segments.                                                      *)

PlacesOf(ss) == UNION {{<<i, j>> : j \in DOMAIN ss[i].frames} : i \in DOMAIN ss}
Before(P, p) == {q \in P : q[1] < p[1] \/ (q[1] = p[1] /\ q[2] < p[2])}
FrameAt(ss, p) == ss[p[1]].frames[p[2]]

\* What the writer links segment i to.
PrevLast(ss, i) == IF i = 1 THEN NoFrame ELSE ss[i - 1].manifest.last
PrevSha(ss, i) == IF i = 1 THEN <<>> ELSE ss[i - 1].manifest.sha

\* Its frames carry on where the segment before it ended; a renamed one is
\* whole; a sealed one has its manifest.
Sound(s, last, sha) ==
    /\ s.frames # <<>> =>
          /\ Consistent(s.frames) /\ Bucket(s.frames[1]) = s.bucket
          /\ s.frames[1].n = last.n + 1 /\ s.frames[1].at >= last.at
    /\ s.stage # "partial" => s.synced /\ s.torn = "no" /\ s.frames # <<>>
    /\ s.stage = "sealed" =>
          s.manifest = [first |-> s.frames[1], last |-> s.frames[Len(s.frames)],
                        count |-> Len(s.frames), sha |-> s.frames, prev |-> sha]
\* Only the last segment may be unfinished.
Chain(ss) ==
    \A i \in 1..Len(ss) :
        /\ i < Len(ss) => ss[i].stage = "sealed"
        /\ Sound(ss[i], PrevLast(ss, i), PrevSha(ss, i))
AllSealed(ss) == \A i \in 1..Len(ss) : ss[i].stage = "sealed"

\* Frames are numbered through the files, and are what the handoff took.
Numbered(ss, acc) ==
    /\ IsFiniteSet(PlacesOf(ss))
    /\ \A p \in PlacesOf(ss) :
          /\ FrameAt(ss, p).n = Cardinality(Before(PlacesOf(ss), p)) + 1
          /\ FrameAt(ss, p).kind \in {"data", "fatal"}
          /\ FrameAt(ss, p).kind = "data" =>
                FrameAt(ss, p).n \in 1..Len(acc) /\ acc[FrameAt(ss, p).n] = FrameAt(ss, p)

\* What the segments and the manifests take.
DataBytes(ss) ==
    FrameBytes * Cardinality(PlacesOf(ss))
    + (FrameBytes - 1) * Cardinality({i \in DOMAIN ss : ss[i].torn # "no"})
    + ManifestBytes * Cardinality({i \in DOMAIN ss : ss[i].stage = "sealed"})

\* Which operation the writer is in, by the worker and the phase.
SealSteps == {"fsync", "rename", "manifest", "promote"}
RecoverySteps == {"scan", "rewrite", "replace"}
Working == worker \in {"get", "append", "fatal", "close"} /\ op.pc # "error"
Stages ==
    /\ worker \in {"append", "fatal"} =>
          /\ op.then = "append"
          /\ op.pc \in SealSteps \cup {"check", "open", "write", "ok", "error"}
    /\ worker = "close" => op.then = "close" /\ op.pc \in SealSteps \cup {"ok", "error"}
    /\ phase = "recover" =>
          /\ worker = "none" /\ op.then = "recover"
          /\ op.pc \in SealSteps \cup RecoverySteps \cup {"verify", "ok", "error", "refuse"}
    /\ worker \notin {"append", "fatal", "close"} /\ phase # "recover" => op = Idle
    /\ worker \in {"get", "append", "fatal", "close", "emergency", "abort"} =>
          phase \in {"run", "draining"}
    /\ phase \in {"run", "draining"} => worker # "none"
    /\ dir # "receipt" =>
          /\ StorageInit /\ accepted = <<>> /\ queue = <<>> /\ ~failed /\ worker = "none"
          /\ phase \in {"down", "setup", "refused"}
    /\ phase = "setup" => dir = "made"
    /\ terminal # "none" => phase = "finished"

\* The writer's memory of the segment it is in.
Holds ==
    LET s == segs[w.next] IN
    /\ w.next = Len(segs) /\ w.next \in 1..Len(segs) /\ s.stage # "sealed"
    /\ s.torn = "no" /\ w.count = Len(s.frames) /\ w.bucket = s.bucket
    /\ w.prev = PrevSha(segs, w.next)
    /\ s.frames # <<>> => w.first = s.frames[1] /\ w.last = s.frames[Len(s.frames)]
    /\ s.frames = <<>> => w.first = NoFrame /\ w.last = PrevLast(segs, w.next)
\* ... and between two segments.
Between ==
    /\ w.next = Len(segs) + 1 /\ AllSealed(segs)
    /\ w.last = PrevLast(segs, w.next) /\ w.prev = PrevSha(segs, w.next) /\ ~w.handle
Sealing ==
    op.pc \in SealSteps =>
        /\ Holds /\ segs[w.next].frames # <<>>
        /\ w.handle = (op.pc = "fsync")
        /\ op.pc # "fsync" => segs[w.next].synced
        /\ segs[w.next].stage = IF op.pc \in {"fsync", "rename"} THEN "partial" ELSE "final"
Appending ==
    Working =>
        /\ w.last.n = Cardinality(PlacesOf(segs)) /\ journal = "no"
        /\ IF w.handle \/ op.pc \in SealSteps THEN Holds ELSE Between
        /\ w.handle => ~segs[w.next].synced /\ (segs[w.next].frames = <<>> => op.pc = "write")
        /\ worker = "close" /\ op.pc = "ok" => ~w.handle
        /\ op.pc = "write" => w.handle /\
              (segs[w.next].frames = <<>> => Bucket(op.item) = w.bucket)
Recovering ==
    phase = "recover" =>
        /\ journal = "no"
        /\ op.pc \in RecoverySteps =>
              /\ ~w.handle /\ w.prev = PrevSha(segs, w.next)
              /\ w.next = IF AllSealed(segs) THEN Len(segs) + 1 ELSE Len(segs)
        /\ op.pc \in {"rewrite", "replace"} =>
              /\ w.next \in 1..Len(segs)
              /\ segs[w.next].stage = "partial" /\ segs[w.next].frames # <<>>
        /\ op.pc = "ok" => AllSealed(segs)

\* The item in the writer's hands and those behind it in the queue.
Taken == IF worker \in {"append", "fatal"} THEN op.item.n ELSE w.last.n
Handling ==
    worker \in {"append", "fatal"} /\ op.pc # "error" =>
        /\ op.item \in Frame
        /\ op.item.kind = IF worker = "append" THEN "data" ELSE "fatal"
        /\ worker = "append" => op.item.n \in 1..Len(accepted) /\ accepted[op.item.n] = op.item
        /\ IF op.pc = "ok" THEN w.last = op.item ELSE op.item.n = w.last.n + 1
        /\ op.pc \notin {"check", "ok"} => op.item.at >= w.last.at
InQueue(i) ==
    /\ queue[i].kind # "data" => i = Len(queue) /\ ~accepting
    /\ queue[i] = Stop \/ queue[i].n = Taken + i
    /\ queue[i].kind = "data" =>
          Taken + i \in 1..Len(accepted) /\ accepted[Taken + i] = queue[i]
    /\ queue[i].kind \in {"data", "fatal", "stop"}
    /\ queue[i].kind = "stop" => queue[i] = Stop
    /\ queue[i].kind = "fatal" => failed
Queued ==
    worker \in {"get", "append"} /\ op.pc # "error" =>
        /\ \A i \in 1..Len(queue) : InQueue(i)
        /\ Len(accepted) =
              IF queue # <<>> /\ queue[Len(queue)].kind # "data"
              THEN Taken + Len(queue) - 1 ELSE Taken + Len(queue)
AllData == \A p \in PlacesOf(segs) : FrameAt(segs, p).kind = "data"
Handoff ==
    /\ \A i \in 1..Len(accepted) : accepted[i].n = i /\ accepted[i].kind = "data"
    /\ accepting => ~failed /\ phase = "run" /\ worker \in {"get", "append"}
    /\ worker \in {"emergency", "abort", "fatal"} => failed
    /\ worker \in {"fatal", "close"} => queue = <<>>
    /\ worker = "close" /\ op.pc # "error" /\ ~failed => w.last.n = Len(accepted)
    /\ worker = "done" /\ ~failed =>
          /\ Cardinality(PlacesOf(segs)) = Len(accepted)
          /\ journal = "no" /\ AllSealed(segs)
    /\ worker # "none" /\ ~failed => AllData

\* The quota: what the data takes, and what the writer knows of it.
Counting ==
    Working \/ (phase = "recover" /\ op.pc \in SealSteps \cup RecoverySteps)
Quota ==
    /\ DataBytes(segs) + ResidueBytes + Reserve <= MaxBytes
    /\ Counting =>
          /\ w.known = DataBytes(segs)
          /\ "manifest" \in residue <=> op.pc = "promote"
          /\ copied = IF op.pc = "replace" THEN Len(segs[w.next].frames) ELSE 0

\* A generation on its way to a receipt verifies; a clean one is complete.
Receipts ==
    /\ phase \in {"terminal", "pending"} \/ terminal # "none" =>
          /\ journal = "no" /\ AllSealed(segs) /\ worker \in {"none", "done"}
    /\ (phase \in {"terminal", "pending"} /\ normal) \/ terminal = "clean" =>
          ~failed /\ Cardinality(PlacesOf(segs)) = Len(accepted) /\ AllData
    /\ phase = "recover" => ~normal

CaptureInv ==
    /\ TypeOK /\ Chain(segs) /\ Numbered(segs, accepted)
    /\ Stages /\ Sealing /\ Appending /\ Recovering
    /\ Handling /\ Queued /\ Handoff
    /\ Quota /\ Receipts
-----------------------------------------------------------------------------
(* Facts about the segment files *)

\* A bucket is a natural number.
LEMMA BucketType == \A f \in Frame : Bucket(f) \in Nat
<1>1. \A a \in Nat, b \in Nat \ {0} : a % b \in 0..(b - 1) /\ a % b <= a
  OBVIOUS
<1> QED BY <1>1, SizeAssumption DEF Bucket, Frame

\* Places and sizes are those of the segment files.
LEMMA Same ==
    /\ Places = PlacesOf(segs) /\ Places' = PlacesOf(segs')
    /\ \A p : Behind(p) = Before(PlacesOf(segs), p)
    /\ DirectorySize = DataBytes(segs) + ResidueBytes + (IF journal = "no" THEN 0 ELSE JournalBytes)
BY DEF Places, PlacesOf, Behind, Before, DirectorySize, DataBytes, Torn, Sealed

\* The fields of a segment have their types.
LEMMA SegmentFields ==
    ASSUME NEW ss \in Seq(Segment)
    PROVE  /\ Len(ss) \in Nat /\ DOMAIN ss = 1..Len(ss)
           /\ \A i \in 1..Len(ss) :
                 /\ ss[i] \in Segment /\ ss[i].frames \in Seq(Frame) /\ ss[i].bucket \in Nat
                 /\ Len(ss[i].frames) \in Nat
                 /\ DOMAIN ss[i].frames = 1..Len(ss[i].frames)
                 /\ ss[i].torn \in {"no", "header", "payload"}
                 /\ ss[i].synced \in BOOLEAN
                 /\ ss[i].stage \in {"partial", "final", "sealed"}
                 /\ ss[i].manifest \in Manifest
<1>1. Len(ss) \in Nat /\ DOMAIN ss = 1..Len(ss) /\ \A i \in 1..Len(ss) : ss[i] \in Segment
  BY LenProperties, ElementOfSeq
<1>2. ASSUME NEW s \in Segment
      PROVE  /\ s.frames \in Seq(Frame) /\ s.bucket \in Nat
             /\ s.torn \in {"no", "header", "payload"} /\ s.synced \in BOOLEAN
             /\ s.stage \in {"partial", "final", "sealed"} /\ s.manifest \in Manifest
             /\ Len(s.frames) \in Nat /\ DOMAIN s.frames = 1..Len(s.frames)
  BY <1>2, LenProperties DEF Segment
<1> QED BY <1>1, <1>2

\* A place is a segment number and a frame number.
LEMMA PlaceRange ==
    ASSUME NEW ss \in Seq(Segment), NEW p \in PlacesOf(ss)
    PROVE  /\ p = <<p[1], p[2]>> /\ p[1] \in 1..Len(ss) /\ p[2] \in 1..Len(ss[p[1]].frames)
           /\ p[1] \in Nat /\ p[2] \in Nat /\ Len(ss[p[1]].frames) \in Nat
<1>1. DOMAIN ss = 1..Len(ss)
      /\ \A i \in 1..Len(ss) :
            Len(ss[i].frames) \in Nat /\ DOMAIN ss[i].frames = 1..Len(ss[i].frames)
  BY SegmentFields
<1>2. PICK i \in 1..Len(ss) : \E j \in 1..Len(ss[i].frames) : p = <<i, j>>
  BY <1>1 DEF PlacesOf
<1>3. PICK j \in 1..Len(ss[i].frames) : p = <<i, j>>
  BY <1>2
<1> QED BY <1>1, <1>3

\* A frame of a segment is at a place.
LEMMA PlaceIn ==
    ASSUME NEW ss \in Seq(Segment), NEW i \in 1..Len(ss), NEW j \in 1..Len(ss[i].frames)
    PROVE  <<i, j>> \in PlacesOf(ss)
<1>1. DOMAIN ss = 1..Len(ss) /\ DOMAIN ss[i].frames = 1..Len(ss[i].frames)
  BY SegmentFields
<1> QED BY <1>1 DEF PlacesOf

(* How a step may change the files: the last segment, by a frame at its end,  *)
(* from its end, or not in its frames.                                        *)
LastOnly(ss, tt) ==
    /\ ss \in Seq(Segment) /\ tt \in Seq(Segment) /\ Len(ss) # 0 /\ Len(tt) = Len(ss)
    /\ \A i \in 1..(Len(ss) - 1) : tt[i] = ss[i]
Appended(ss, tt, f) ==
    /\ LastOnly(ss, tt) /\ f \in Frame
    /\ tt[Len(ss)].frames = Append(ss[Len(ss)].frames, f)
Shortened(ss, tt) ==
    /\ ss \in Seq(Segment) /\ tt \in Seq(Segment) /\ Len(ss) # 0
    /\ \A i \in 1..(Len(ss) - 1) : tt[i] = ss[i]
    /\ \/ Len(tt) = Len(ss) - 1
       \/ Len(tt) = Len(ss) /\ \E k \in 0..Len(ss[Len(ss)].frames) :
                                 tt[Len(ss)].frames = SubSeq(ss[Len(ss)].frames, 1, k)
SameFrames(ss, tt) ==
    /\ ss \in Seq(Segment) /\ tt \in Seq(Segment) /\ Len(ss) <= Len(tt)
    /\ \A i \in 1..Len(ss) : tt[i].frames = ss[i].frames
    /\ \A i \in (Len(ss) + 1)..Len(tt) : tt[i].frames = <<>>
End(ss) == <<Len(ss), Len(ss[Len(ss)].frames) + 1>>

\* Files with the same frames have the same places.
LEMMA SamePlaces ==
    ASSUME NEW ss, NEW tt, SameFrames(ss, tt)
    PROVE  /\ PlacesOf(tt) = PlacesOf(ss)
           /\ \A p \in PlacesOf(ss) : FrameAt(tt, p) = FrameAt(ss, p)
<1> USE DEF SameFrames
<1>0. Len(ss) \in Nat /\ Len(tt) \in Nat
  BY SegmentFields
<1>1. ASSUME NEW p \in PlacesOf(ss) PROVE p \in PlacesOf(tt) /\ FrameAt(tt, p) = FrameAt(ss, p)
  <2>1. p = <<p[1], p[2]>> /\ p[1] \in 1..Len(ss) /\ p[2] \in 1..Len(ss[p[1]].frames)
    BY PlaceRange
  <2>2. p[1] \in 1..Len(tt) /\ tt[p[1]].frames = ss[p[1]].frames
    BY <1>0, <2>1
  <2>3. <<p[1], p[2]>> \in PlacesOf(tt)
    BY <2>1, <2>2, PlaceIn
  <2> QED BY <2>1, <2>2, <2>3 DEF FrameAt
<1>2. ASSUME NEW p \in PlacesOf(tt) PROVE p \in PlacesOf(ss)
  <2>1. p = <<p[1], p[2]>> /\ p[1] \in 1..Len(tt) /\ p[2] \in 1..Len(tt[p[1]].frames)
    BY PlaceRange
  <2>2. p[1] \in 1..Len(ss)
    <3>1. Len(<<>>) = 0
      OBVIOUS
    <3>2. tt[p[1]].frames # <<>>
      BY <2>1, <3>1
    <3> QED BY <1>0, <2>1, <3>2
  <2>3. <<p[1], p[2]>> \in PlacesOf(ss)
    BY <2>1, <2>2, PlaceIn
  <2> QED BY <2>1, <2>3
<1> QED BY <1>1, <1>2

\* An appended frame adds one place, behind all others.
LEMMA OneMore ==
    ASSUME NEW ss, NEW tt, NEW f, Appended(ss, tt, f), IsFiniteSet(PlacesOf(ss))
    PROVE  /\ PlacesOf(tt) = PlacesOf(ss) \cup {End(ss)} /\ End(ss) \notin PlacesOf(ss)
           /\ IsFiniteSet(PlacesOf(tt))
           /\ Cardinality(PlacesOf(tt)) = Cardinality(PlacesOf(ss)) + 1
           /\ FrameAt(tt, End(ss)) = f /\ Before(PlacesOf(tt), End(ss)) = PlacesOf(ss)
           /\ \A p \in PlacesOf(ss) :
                 /\ FrameAt(tt, p) = FrameAt(ss, p)
                 /\ Before(PlacesOf(tt), p) = Before(PlacesOf(ss), p)
<1> DEFINE L == Len(ss)
           new == End(ss)
           n == Len(ss[L].frames)
<1> USE DEF Appended, LastOnly
<1>0. L \in Nat /\ L \in 1..Len(ss) /\ L \in 1..Len(tt) /\ n \in Nat /\ ss[L].frames \in Seq(Frame)
  BY SegmentFields
<1>1. Len(tt[L].frames) = n + 1 /\ tt[L].frames[n + 1] = f
      /\ \A j \in 1..n : tt[L].frames[j] = ss[L].frames[j]
  BY <1>0, AppendProperties
<1>2. new = <<L, n + 1>>
  BY DEF End
<1>3. /\ ss \in Seq(Segment) /\ tt \in Seq(Segment) /\ Len(tt) = L /\ L = Len(ss)
      /\ \A i \in 1..(L - 1) : tt[i].frames = ss[i].frames
  OBVIOUS
<1> HIDE DEF n, new, L, Appended, LastOnly
<1>4. new \notin PlacesOf(ss) /\ new \in PlacesOf(tt)
  <2>1. new[1] = L /\ new[2] = n + 1
    BY <1>2
  <2>2. new \notin PlacesOf(ss)
    <3> SUFFICES ASSUME new \in PlacesOf(ss) PROVE FALSE
      OBVIOUS
    <3>1. new[2] \in 1..Len(ss[new[1]].frames)
      BY <1>3, PlaceRange
    <3> QED BY <3>1, <2>1, <1>0 DEF n
  <2>3. n + 1 \in 1..Len(tt[L].frames)
    BY <1>0, <1>1
  <2> QED BY <2>2, <2>3, <1>0, <1>2, <1>3, PlaceIn
<1>5. ASSUME NEW p \in PlacesOf(ss) PROVE p \in PlacesOf(tt) /\ FrameAt(tt, p) = FrameAt(ss, p)
  <2>1. p = <<p[1], p[2]>> /\ p[1] \in 1..L /\ p[2] \in 1..Len(ss[p[1]].frames)
    BY <1>3, PlaceRange
  <2>2. /\ p[2] \in 1..Len(tt[p[1]].frames)
        /\ tt[p[1]].frames[p[2]] = ss[p[1]].frames[p[2]]
    <3>1. CASE p[1] = L
      <4>1. p[2] \in 1..n
        BY <2>1, <3>1 DEF n
      <4>2. p[2] \in 1..(n + 1)
        BY <4>1, <1>0
      <4>3. p[2] \in 1..Len(tt[L].frames) /\ tt[L].frames[p[2]] = ss[L].frames[p[2]]
        BY <4>1, <4>2, <1>1
      <4> QED BY <3>1, <4>3
    <3>2. CASE p[1] # L
      <4>1. p[1] \in 1..(L - 1)
        BY <2>1, <3>2, <1>0
      <4> QED BY <2>1, <4>1, <1>3
    <3> QED BY <3>1, <3>2
  <2>3. <<p[1], p[2]>> \in PlacesOf(tt)
    BY <2>1, <2>2, <1>3, PlaceIn
  <2> QED BY <2>1, <2>2, <2>3 DEF FrameAt
<1>6. ASSUME NEW p \in PlacesOf(tt), p # new PROVE p \in PlacesOf(ss)
  <2>1. p = <<p[1], p[2]>> /\ p[1] \in 1..L /\ p[2] \in 1..Len(tt[p[1]].frames)
    BY <1>3, PlaceRange
  <2>2. p[2] \in 1..Len(ss[p[1]].frames)
    <3>1. CASE p[1] = L
      <4>1. p[2] \in 1..(n + 1) /\ p[2] # n + 1
        BY <2>1, <3>1, <1>1, <1>2, <1>6
      <4> QED BY <3>1, <4>1, <1>0 DEF n
    <3>2. CASE p[1] # L
      <4>1. p[1] \in 1..(L - 1)
        BY <2>1, <3>2, <1>0
      <4> QED BY <2>1, <4>1, <1>3
    <3> QED BY <3>1, <3>2
  <2>3. <<p[1], p[2]>> \in PlacesOf(ss)
    BY <2>1, <2>2, <1>3, PlaceIn
  <2> QED BY <2>1, <2>3
<1>7. PlacesOf(tt) = PlacesOf(ss) \cup {new}
  BY <1>4, <1>5, <1>6
<1>8. FrameAt(tt, new) = f
  BY <1>1, <1>2 DEF FrameAt
<1>9. ASSUME NEW p \in PlacesOf(ss)
      PROVE  /\ p[1] < new[1] \/ (p[1] = new[1] /\ p[2] < new[2])
             /\ ~(new[1] < p[1] \/ (new[1] = p[1] /\ new[2] < p[2]))
  <2>1. new[1] = L /\ new[2] = n + 1
    BY <1>2
  <2>2. p[1] \in 1..L /\ p[2] \in Nat /\ p[2] \in 1..Len(ss[p[1]].frames)
    BY <1>3, PlaceRange
  <2>3. p[1] = L => p[2] \in 1..n
    BY <2>2 DEF n
  <2> QED BY <2>1, <2>2, <2>3, <1>0
<1>10. ~(new[1] < new[1] \/ (new[1] = new[1] /\ new[2] < new[2]))
  BY <1>0, <1>2
<1>11. /\ IsFiniteSet(PlacesOf(tt))
       /\ Cardinality(PlacesOf(tt)) = Cardinality(PlacesOf(ss)) + 1
  BY <1>4, <1>7, FS_AddElement
<1>12. Before(PlacesOf(tt), new) = PlacesOf(ss)
  BY <1>7, <1>9, <1>10 DEF Before
<1>13. ASSUME NEW p \in PlacesOf(ss) PROVE Before(PlacesOf(tt), p) = Before(PlacesOf(ss), p)
  BY <1>7, <1>9 DEF Before
<1> QED BY <1>4, <1>5, <1>7, <1>8, <1>11, <1>12, <1>13 DEF new

\* A shortened file takes away places, and none in front of those it keeps.
LEMMA Fewer ==
    ASSUME NEW ss, NEW tt, Shortened(ss, tt), IsFiniteSet(PlacesOf(ss))
    PROVE  /\ PlacesOf(tt) \subseteq PlacesOf(ss) /\ IsFiniteSet(PlacesOf(tt))
           /\ Cardinality(PlacesOf(tt)) <= Cardinality(PlacesOf(ss))
           /\ \A p \in PlacesOf(ss) : p[1] # Len(ss) => p \in PlacesOf(tt)
           /\ \A p \in PlacesOf(tt) :
                 /\ FrameAt(tt, p) = FrameAt(ss, p)
                 /\ Before(PlacesOf(tt), p) = Before(PlacesOf(ss), p)
<1> DEFINE L == Len(ss)
<1> USE DEF Shortened
<1>0. L \in Nat /\ L \in 1..Len(ss) /\ Len(tt) \in Nat /\ ss[L].frames \in Seq(Frame)
      /\ Len(ss[L].frames) \in Nat
  BY SegmentFields
<1>1. ASSUME Len(tt) = L
      PROVE  /\ Len(tt[L].frames) \in 0..Len(ss[L].frames)
             /\ \A j \in 1..Len(tt[L].frames) : tt[L].frames[j] = ss[L].frames[j]
  <2>1. PICK k \in 0..Len(ss[L].frames) : tt[L].frames = SubSeq(ss[L].frames, 1, k)
    BY <1>1
  <2> QED BY <1>0, <2>1, SubSeqProperties
<1>3. /\ ss \in Seq(Segment) /\ tt \in Seq(Segment) /\ Len(tt) \in {L, L - 1} /\ L = Len(ss)
      /\ \A i \in 1..(L - 1) : tt[i].frames = ss[i].frames
  OBVIOUS
<1> HIDE DEF L, Shortened
<1>4. ASSUME NEW p \in PlacesOf(tt) PROVE p \in PlacesOf(ss) /\ FrameAt(tt, p) = FrameAt(ss, p)
  <2>1. p = <<p[1], p[2]>> /\ p[1] \in 1..Len(tt) /\ p[2] \in 1..Len(tt[p[1]].frames)
    BY <1>3, PlaceRange
  <2>2. /\ p[1] \in 1..L /\ p[2] \in 1..Len(ss[p[1]].frames)
        /\ tt[p[1]].frames[p[2]] = ss[p[1]].frames[p[2]]
    <3>1. CASE p[1] = L
      <4>1. Len(tt) = L
        BY <2>1, <3>1, <1>0, <1>3
      <4> QED BY <2>1, <3>1, <4>1, <1>0, <1>1
    <3>2. CASE p[1] # L
      <4>1. p[1] \in 1..(L - 1)
        BY <2>1, <3>2, <1>0, <1>3
      <4> QED BY <2>1, <4>1, <1>0, <1>3
    <3> QED BY <3>1, <3>2
  <2>3. <<p[1], p[2]>> \in PlacesOf(ss)
    BY <2>1, <2>2, <1>3, PlaceIn
  <2> QED BY <2>1, <2>2, <2>3 DEF FrameAt
<1>5. ASSUME NEW p \in PlacesOf(ss), p[1] # L PROVE p \in PlacesOf(tt)
  <2>1. p = <<p[1], p[2]>> /\ p[1] \in 1..L /\ p[2] \in 1..Len(ss[p[1]].frames)
    BY <1>3, PlaceRange
  <2>2. p[1] \in 1..(L - 1) /\ p[1] \in 1..Len(tt)
    BY <1>0, <1>3, <1>5, <2>1
  <2>3. <<p[1], p[2]>> \in PlacesOf(tt)
    BY <2>1, <2>2, <1>3, PlaceIn
  <2> QED BY <2>1, <2>3
<1>6. ASSUME NEW p \in PlacesOf(tt), NEW q \in PlacesOf(ss),
             q[1] < p[1] \/ (q[1] = p[1] /\ q[2] < p[2])
      PROVE  q \in PlacesOf(tt)
  <2>1. CASE q[1] = L
    <3>1. p[1] \in 1..Len(tt) /\ p[2] \in 1..Len(tt[p[1]].frames) /\ p[2] \in Nat
      BY <1>3, PlaceRange
    <3>2. q = <<q[1], q[2]>> /\ q[2] \in Nat /\ q[2] \in 1..Len(ss[q[1]].frames)
      BY <1>3, PlaceRange
    <3>3. p[1] = L /\ Len(tt) = L /\ q[2] < p[2]
      BY <2>1, <3>1, <1>0, <1>3, <1>6
    <3>4. q[2] \in 1..Len(tt[L].frames) /\ L \in 1..Len(tt)
      BY <3>1, <3>2, <3>3, <1>0, <1>1
    <3>5. <<L, q[2]>> \in PlacesOf(tt)
      BY <3>4, <1>3, PlaceIn
    <3> QED BY <2>1, <3>2, <3>5
  <2> QED BY <2>1, <1>5
<1>7. /\ PlacesOf(tt) \subseteq PlacesOf(ss) /\ IsFiniteSet(PlacesOf(tt))
      /\ Cardinality(PlacesOf(tt)) <= Cardinality(PlacesOf(ss))
  BY <1>4, FS_Subset
<1>8. ASSUME NEW p \in PlacesOf(tt) PROVE Before(PlacesOf(tt), p) = Before(PlacesOf(ss), p)
  BY <1>4, <1>6 DEF Before
<1> QED BY <1>4, <1>5, <1>7, <1>8 DEF L

\* The size of an interval.
LEMMA Intervals ==
    ASSUME NEW k \in Nat
    PROVE  /\ IsFiniteSet(1..k) /\ Cardinality(1..k) = k
           /\ IsFiniteSet(0..(k - 1)) /\ Cardinality(0..(k - 1)) = k
<1>1. k - 1 \in Int /\ k \in Int /\ 0 \in Int /\ 1 \in Int
  OBVIOUS
<1>2. IsFiniteSet(1..k) /\ Cardinality(1..k) = IF 1 > k THEN 0 ELSE k - 1 + 1
  BY <1>1, FS_Interval
<1>3. IsFiniteSet(0..(k - 1)) /\ Cardinality(0..(k - 1)) = IF 0 > k - 1 THEN 0 ELSE (k - 1) - 0 + 1
  BY <1>1, FS_Interval
<1> QED BY <1>2, <1>3

\* Every rank from nothing to one less than their number belongs to one place.
LEMMA RankIs ==
    ASSUME NEW ss \in Seq(Segment), IsFiniteSet(PlacesOf(ss))
    PROVE  /\ Cardinality(PlacesOf(ss)) \in Nat
           /\ \A p \in PlacesOf(ss) :
                 Cardinality(Before(PlacesOf(ss), p)) \in 0..(Cardinality(PlacesOf(ss)) - 1)
           /\ \A k \in 1..Cardinality(PlacesOf(ss)) :
                 \E p \in PlacesOf(ss) : Cardinality(Before(PlacesOf(ss), p)) = k - 1
<1> DEFINE P == PlacesOf(ss)
           N == Cardinality(P)
           less(q, p) == q[1] < p[1] \/ (q[1] = p[1] /\ q[2] < p[2])
           rank == [p \in P |-> Cardinality(Before(P, p))]
<1>0. N \in Nat /\ \A p \in P : p = <<p[1], p[2]>> /\ p[1] \in Nat /\ p[2] \in Nat
  BY FS_CardinalityType, PlaceRange
<1>1. ASSUME NEW p \in P
      PROVE  /\ IsFiniteSet(Before(P, p)) /\ p \notin Before(P, p)
             /\ Cardinality(Before(P, p)) \in 0..(N - 1)
  <2>1. p \notin Before(P, p) /\ Before(P, p) \in SUBSET P
    BY <1>0 DEF Before
  <2>2. /\ IsFiniteSet(Before(P, p)) /\ Cardinality(Before(P, p)) <= N
        /\ N = Cardinality(Before(P, p)) => P = Before(P, p)
    BY <2>1, FS_Subset
  <2>3. Cardinality(Before(P, p)) \in Nat
    BY <2>2, FS_CardinalityType
  <2> QED BY <2>1, <2>2, <2>3, <1>0
<1>2. ASSUME NEW p \in P, NEW q \in P, less(q, p)
      PROVE  Cardinality(Before(P, q)) < Cardinality(Before(P, p))
  <2>1. p[1] \in Nat /\ p[2] \in Nat /\ q[1] \in Nat /\ q[2] \in Nat
    BY <1>0
  <2>2. \A r \in P : less(r, q) => less(r, p)
    <3> SUFFICES ASSUME NEW r \in P, less(r, q) PROVE less(r, p)
      OBVIOUS
    <3>1. r[1] \in Nat /\ r[2] \in Nat
      BY <1>0
    <3> QED BY <1>2, <2>1, <3>1
  <2>3. Before(P, q) \in SUBSET Before(P, p) /\ q \in Before(P, p) /\ q \notin Before(P, q)
    BY <1>1, <1>2, <2>2 DEF Before
  <2>4. IsFiniteSet(Before(P, p)) /\ IsFiniteSet(Before(P, q))
    BY <1>1
  <2>5. /\ Cardinality(Before(P, q)) <= Cardinality(Before(P, p))
        /\ Cardinality(Before(P, p)) # Cardinality(Before(P, q))
    BY <2>3, <2>4, FS_Subset
  <2>6. Cardinality(Before(P, q)) \in Nat /\ Cardinality(Before(P, p)) \in Nat
    BY <2>4, FS_CardinalityType
  <2> QED BY <2>5, <2>6
<1>3. ASSUME NEW p \in P, NEW q \in P, p # q
      PROVE  Cardinality(Before(P, p)) # Cardinality(Before(P, q))
  <2>1. p = <<p[1], p[2]>> /\ q = <<q[1], q[2]>>
        /\ p[1] \in Nat /\ p[2] \in Nat /\ q[1] \in Nat /\ q[2] \in Nat
    BY <1>0
  <2>2. p[1] # q[1] \/ p[2] # q[2]
    BY <1>3, <2>1
  <2>3. less(p, q) \/ less(q, p)
    BY <2>1, <2>2
  <2>4. Cardinality(Before(P, p)) \in Nat /\ Cardinality(Before(P, q)) \in Nat
    BY <1>1
  <2>5. /\ less(p, q) => Cardinality(Before(P, p)) < Cardinality(Before(P, q))
        /\ less(q, p) => Cardinality(Before(P, q)) < Cardinality(Before(P, p))
    BY <1>2
  <2> HIDE DEF less
  <2> QED BY <2>3, <2>4, <2>5
<1> HIDE DEF N, P
<1>4. rank \in Injection(P, 0..(N - 1))
  BY <1>1, <1>3 DEF Injection, IsInjective
<1>5. IsFiniteSet(0..(N - 1)) /\ Cardinality(0..(N - 1)) = N
  <2>1. N \in Nat
    BY <1>0
  <2> QED BY <2>1, Intervals
<1>6. rank \in Surjection(P, 0..(N - 1))
  <2> HIDE DEF rank
  <2> QED BY <1>4, <1>5, FS_Injection DEF N
<1>7. ASSUME NEW k \in 1..N PROVE \E p \in P : Cardinality(Before(P, p)) = k - 1
  <2>1. k - 1 \in 0..(N - 1)
    BY <1>0
  <2> QED BY <1>6, <2>1 DEF Surjection
<1> QED BY <1>0, <1>1, <1>7 DEF N, P

\* In a chain, all segments are sealed, or all but the last.
LEMMA SealedIs ==
    ASSUME NEW ss \in Seq(Segment), Chain(ss)
    PROVE  LET S == {i \in DOMAIN ss : ss[i].stage = "sealed"} IN
           /\ Len(ss) = 0 => AllSealed(ss)
           /\ AllSealed(ss) => S = 1..Len(ss) /\ Cardinality(S) = Len(ss)
           /\ ~AllSealed(ss) =>
                 /\ Len(ss) # 0 /\ S = 1..(Len(ss) - 1) /\ Cardinality(S) = Len(ss) - 1
                 /\ DOMAIN ss \ S = {Len(ss)}
           /\ Len(ss) # 0 => (AllSealed(ss) <=> ss[Len(ss)].stage = "sealed")
<1> DEFINE S == {i \in DOMAIN ss : ss[i].stage = "sealed"}
<1>1. Len(ss) \in Nat /\ DOMAIN ss = 1..Len(ss)
  BY SegmentFields
<1>2. \A i \in 1..Len(ss) : i < Len(ss) => ss[i].stage = "sealed"
  BY DEF Chain
<1>3. AllSealed(ss) => S = 1..Len(ss)
  BY <1>1 DEF AllSealed
<1>4. Len(ss) # 0 => (AllSealed(ss) <=> ss[Len(ss)].stage = "sealed")
  BY <1>1, <1>2 DEF AllSealed
<1>5. Len(ss) = 0 => AllSealed(ss)
  BY DEF AllSealed
<1>6. ~AllSealed(ss) => S = 1..(Len(ss) - 1)
  BY <1>1, <1>2, <1>4, <1>5
<1>7. ~AllSealed(ss) => DOMAIN ss \ S = {Len(ss)}
  BY <1>1, <1>5, <1>6
<1>8. /\ Cardinality(1..Len(ss)) = Len(ss)
      /\ Len(ss) # 0 => Cardinality(1..(Len(ss) - 1)) = Len(ss) - 1
  <2>1. Len(ss) \in Nat /\ (Len(ss) # 0 => Len(ss) - 1 \in Nat)
    BY <1>1
  <2> QED BY <2>1, Intervals
<1> HIDE DEF S
<1> QED BY <1>3, <1>4, <1>5, <1>6, <1>7, <1>8 DEF S

(* The sizes, by the last segment. *)
LEMMA Bytes ==
    ASSUME NEW ss \in Seq(Segment), Chain(ss), IsFiniteSet(PlacesOf(ss))
    PROVE  /\ Cardinality(PlacesOf(ss)) \in Nat /\ DataBytes(ss) \in Nat
           /\ DataBytes(ss) = FrameBytes * Cardinality(PlacesOf(ss))
                              + (IF Len(ss) = 0 THEN 0 ELSE TornBytes(ss[Len(ss)]))
                              + ManifestBytes * (IF AllSealed(ss) THEN Len(ss) ELSE Len(ss) - 1)
<1> DEFINE T == {i \in DOMAIN ss : ss[i].torn # "no"}
           S == {i \in DOMAIN ss : ss[i].stage = "sealed"}
           c == Cardinality(PlacesOf(ss))
           k == IF AllSealed(ss) THEN Len(ss) ELSE Len(ss) - 1
<1>1. Len(ss) \in Nat /\ DOMAIN ss = 1..Len(ss)
      /\ \A i \in 1..Len(ss) : ss[i].torn \in {"no", "header", "payload"}
  BY SegmentFields
<1>2. \A i \in 1..Len(ss) : i < Len(ss) => ss[i].torn = "no"
  BY DEF Chain, Sound
<1>3. (FrameBytes - 1) * Cardinality(T) = IF Len(ss) = 0 THEN 0 ELSE TornBytes(ss[Len(ss)])
  <2>1. CASE Len(ss) = 0 \/ ss[Len(ss)].torn = "no"
    <3>1. T = {}
      BY <1>1, <1>2, <2>1
    <3>2. Cardinality(T) = 0
      BY <3>1, FS_EmptySet
    <3> QED BY <2>1, <3>2, SizeAssumption DEF TornBytes
  <2>2. CASE Len(ss) # 0 /\ ss[Len(ss)].torn # "no"
    <3>1. T = {Len(ss)}
      BY <1>1, <1>2, <2>2
    <3>2. Cardinality(T) = 1
      BY <3>1, FS_Singleton
    <3> QED BY <2>2, <3>2, SizeAssumption DEF TornBytes
  <2> QED BY <2>1, <2>2
<1>4. Cardinality(S) = k /\ k \in Nat
  BY <1>1, SealedIs
<1>5. c \in Nat
  BY FS_CardinalityType
<1>6. \A a, b \in Nat : a * b \in Nat
  OBVIOUS
<1>7. /\ FrameBytes * c \in Nat /\ ManifestBytes * k \in Nat
      /\ (IF Len(ss) = 0 THEN 0 ELSE TornBytes(ss[Len(ss)])) \in Nat
  <2>1. FrameBytes * c \in Nat /\ ManifestBytes * k \in Nat
    <3> HIDE DEF c, k
    <3> QED BY <1>4, <1>5, <1>6, SizeAssumption
  <2>2. \A t : TornBytes(t) \in Nat
    BY SizeAssumption DEF TornBytes
  <2> QED BY <2>1, <2>2
<1>8. DataBytes(ss) = FrameBytes * c + (FrameBytes - 1) * Cardinality(T) + ManifestBytes * Cardinality(S)
  BY DEF DataBytes
<1> HIDE DEF T, S, c, k
<1>9. DataBytes(ss) = FrameBytes * c
        + (IF Len(ss) = 0 THEN 0 ELSE TornBytes(ss[Len(ss)])) + ManifestBytes * k
  BY <1>3, <1>4, <1>8
<1>10. DataBytes(ss) \in Nat
  BY <1>7, <1>9
<1> QED BY <1>5, <1>9, <1>10 DEF c, k

\* The last segment is replaced.
LEMMA NewLast ==
    ASSUME NEW ss \in Seq(Segment), NEW t \in Segment, Len(ss) # 0
    PROVE  /\ LastOnly(ss, [ss EXCEPT ![Len(ss)] = t])
           /\ [ss EXCEPT ![Len(ss)] = t][Len(ss)] = t
           /\ Len(ss) \in Nat /\ Len(ss) \in 1..Len(ss)
<1>1. Len(ss) \in Nat /\ Len(ss) \in 1..Len(ss) /\ DOMAIN ss = 1..Len(ss)
  BY SegmentFields
<1>2. [ss EXCEPT ![Len(ss)] = t] \in Seq(Segment) /\ Len([ss EXCEPT ![Len(ss)] = t]) = Len(ss)
  BY <1>1, ExceptSeq
<1>3. /\ [ss EXCEPT ![Len(ss)] = t][Len(ss)] = t
      /\ \A i \in 1..(Len(ss) - 1) : [ss EXCEPT ![Len(ss)] = t][i] = ss[i]
  <2> DEFINE L == Len(ss)
  <2>1. L \in Nat /\ DOMAIN ss = 1..L /\ L \in 1..L
    BY <1>1
  <2> HIDE DEF L
  <2>2. [ss EXCEPT ![L] = t][L] = t
    BY <2>1
  <2>3. ASSUME NEW i \in 1..(L - 1) PROVE [ss EXCEPT ![L] = t][i] = ss[i]
    <3>1. i # L /\ i \in DOMAIN ss
      BY <2>1
    <3> QED BY <3>1
  <2> QED BY <2>2, <2>3 DEF L
<1> QED BY <1>1, <1>2, <1>3 DEF LastOnly

\* A sound new last segment keeps the chain.
LEMMA ChainLast ==
    ASSUME NEW ss, NEW tt, LastOnly(ss, tt), Chain(ss),
           Sound(tt[Len(ss)], PrevLast(ss, Len(ss)), PrevSha(ss, Len(ss)))
    PROVE  /\ Chain(tt)
           /\ PrevLast(tt, Len(ss)) = PrevLast(ss, Len(ss))
           /\ PrevSha(tt, Len(ss)) = PrevSha(ss, Len(ss))
           /\ AllSealed(tt) <=> tt[Len(ss)].stage = "sealed"
<1> DEFINE L == Len(ss)
<1>1. L \in Nat /\ ss \in Seq(Segment) /\ tt \in Seq(Segment) /\ L # 0 /\ L = Len(tt)
      /\ \A i \in 1..(L - 1) : tt[i] = ss[i]
  BY SegmentFields DEF LastOnly
<1> HIDE DEF L
<1>2. ASSUME NEW i \in 1..L
      PROVE  PrevLast(tt, i) = PrevLast(ss, i) /\ PrevSha(tt, i) = PrevSha(ss, i)
  BY <1>1 DEF PrevLast, PrevSha
<1>3. ASSUME NEW i \in 1..L
      PROVE  /\ i < L => tt[i].stage = "sealed"
             /\ Sound(tt[i], PrevLast(tt, i), PrevSha(tt, i))
  <2>1. CASE i = L
    BY <2>1, <1>1, <1>2 DEF L
  <2>2. CASE i # L
    <3>1. tt[i] = ss[i] /\ i < L
      BY <2>2, <1>1
    <3>2. ss[i].stage = "sealed" /\ Sound(ss[i], PrevLast(ss, i), PrevSha(ss, i))
      BY <3>1 DEF Chain, L
    <3>3. PrevLast(tt, i) = PrevLast(ss, i) /\ PrevSha(tt, i) = PrevSha(ss, i)
      BY <1>2
    <3> QED BY <3>1, <3>2, <3>3
  <2> QED BY <2>1, <2>2
<1>4. Chain(tt)
  BY <1>1, <1>3 DEF Chain
<1>5. AllSealed(tt) <=> tt[L].stage = "sealed"
  BY <1>1, <1>4, SealedIs
<1>6. L \in 1..L
  BY <1>1
<1> QED BY <1>2, <1>4, <1>5, <1>6 DEF L

\* The numbering only depends on the frames.
LEMMA NumberedSame ==
    ASSUME NEW ss, NEW tt, NEW acc, SameFrames(ss, tt), Numbered(ss, acc)
    PROVE  Numbered(tt, acc)
<1>1. /\ PlacesOf(tt) = PlacesOf(ss)
      /\ \A p \in PlacesOf(ss) : FrameAt(tt, p) = FrameAt(ss, p)
  BY SamePlaces
<1> QED BY <1>1 DEF Numbered

\* A frame with the next number carries the numbering on.
LEMMA NumberedMore ==
    ASSUME NEW ss, NEW tt, NEW acc, NEW f, Appended(ss, tt, f), Numbered(ss, acc),
           f.n = Cardinality(PlacesOf(ss)) + 1, f.kind \in {"data", "fatal"},
           f.kind = "data" => f.n \in 1..Len(acc) /\ acc[f.n] = f
    PROVE  Numbered(tt, acc)
<1>1. /\ PlacesOf(tt) = PlacesOf(ss) \cup {End(ss)}
      /\ IsFiniteSet(PlacesOf(tt))
      /\ FrameAt(tt, End(ss)) = f /\ Before(PlacesOf(tt), End(ss)) = PlacesOf(ss)
      /\ \A p \in PlacesOf(ss) :
            /\ FrameAt(tt, p) = FrameAt(ss, p)
            /\ Before(PlacesOf(tt), p) = Before(PlacesOf(ss), p)
  <2>1. IsFiniteSet(PlacesOf(ss))
    BY DEF Numbered
  <2> QED BY <2>1, OneMore
<1> QED BY <1>1 DEF Numbered

\* What a crash leaves is numbered as before.
LEMMA NumberedFewer ==
    ASSUME NEW ss, NEW tt, NEW acc, Shortened(ss, tt), Numbered(ss, acc)
    PROVE  Numbered(tt, acc)
<1>1. /\ PlacesOf(tt) \subseteq PlacesOf(ss) /\ IsFiniteSet(PlacesOf(tt))
      /\ \A p \in PlacesOf(tt) :
            /\ FrameAt(tt, p) = FrameAt(ss, p)
            /\ Before(PlacesOf(tt), p) = Before(PlacesOf(ss), p)
  <2>1. IsFiniteSet(PlacesOf(ss))
    BY DEF Numbered
  <2> QED BY <2>1, Fewer
<1> QED BY <1>1 DEF Numbered

\* More accepted records do not change the numbering of the stored ones.
LEMMA NumberedAccepted ==
    ASSUME NEW ss, NEW acc, NEW bcc, Numbered(ss, acc), Len(acc) \in Nat, Len(bcc) \in Nat,
           Len(acc) <= Len(bcc), \A i \in 1..Len(acc) : bcc[i] = acc[i]
    PROVE  Numbered(ss, bcc)
BY DEF Numbered

\* A frame that follows the last one, or opens the segment, keeps it sound.
LEMMA SoundAppend ==
    ASSUME NEW s \in Segment, NEW t \in Segment, NEW last, NEW sha, NEW f \in Frame,
           Sound(s, last, sha), s.stage = "partial", t.stage = "partial", t.bucket = s.bucket,
           t.frames = Append(s.frames, f),
           s.frames # <<>> => f.n = s.frames[Len(s.frames)].n + 1
                              /\ f.at >= s.frames[Len(s.frames)].at,
           s.frames = <<>> => f.n = last.n + 1 /\ f.at >= last.at /\ Bucket(f) = s.bucket
    PROVE  Sound(t, last, sha)
<1> DEFINE n == Len(s.frames)
<1>1. s.frames \in Seq(Frame) /\ n \in Nat
  BY LenProperties DEF Segment
<1>2. /\ Len(t.frames) = n + 1 /\ t.frames[n + 1] = f
      /\ \A j \in 1..n : t.frames[j] = s.frames[j]
  BY <1>1, AppendProperties
<1>3. t.frames # <<>>
  BY <1>1, AppendProperties
<1>4. s.frames = <<>> <=> n = 0
  BY <1>1, EmptySeq
<1> HIDE DEF n
<1>5. Consistent(t.frames)
  <2> SUFFICES ASSUME NEW i \in 2..(n + 1)
               PROVE  t.frames[i].n = t.frames[i - 1].n + 1 /\ t.frames[i].at >= t.frames[i - 1].at
    BY <1>2, <1>3 DEF Consistent
  <2>1. CASE i = n + 1
    <3>1. i - 1 = n /\ n \in 1..n
      BY <2>1, <1>1
    <3> QED BY <2>1, <3>1, <1>2, <1>4 DEF n
  <2>2. CASE i # n + 1
    <3>1. i \in 2..n /\ i \in 1..n /\ i - 1 \in 1..n
      BY <2>2, <1>1
    <3>2. s.frames[i].n = s.frames[i - 1].n + 1 /\ s.frames[i].at >= s.frames[i - 1].at
      BY <3>1, <1>1, <1>4 DEF Sound, Consistent, n
    <3> QED BY <3>1, <3>2, <1>2
  <2> QED BY <2>1, <2>2
<1>6. t.frames[1] = IF n = 0 THEN f ELSE s.frames[1]
  BY <1>1, <1>2
<1>7. Bucket(t.frames[1]) = t.bucket /\ t.frames[1].n = last.n + 1 /\ t.frames[1].at >= last.at
  BY <1>4, <1>6 DEF Sound
<1> QED BY <1>3, <1>5, <1>7 DEF Sound

\* A partial segment cut short stays sound.
LEMMA SoundCut ==
    ASSUME NEW s \in Segment, NEW t \in Segment, NEW last, NEW sha,
           Sound(s, last, sha), s.stage = "partial", t.stage = "partial", t.bucket = s.bucket,
           NEW k \in 0..Len(s.frames), t.frames = SubSeq(s.frames, 1, k)
    PROVE  Sound(t, last, sha)
<1>1. s.frames \in Seq(Frame) /\ Len(s.frames) \in Nat /\ t.frames \in Seq(Frame)
  BY LenProperties DEF Segment
<1>2. Len(t.frames) = k /\ \A j \in 1..k : t.frames[j] = s.frames[j]
  BY <1>1, SubSeqProperties
<1>3. /\ t.frames = <<>> <=> k = 0
      /\ s.frames = <<>> <=> Len(s.frames) = 0
  BY <1>1, <1>2, EmptySeq
<1>4. ASSUME k # 0
      PROVE  /\ Consistent(t.frames) /\ Bucket(t.frames[1]) = t.bucket
             /\ t.frames[1].n = last.n + 1 /\ t.frames[1].at >= last.at
  <2>1. s.frames # <<>> /\ t.frames[1] = s.frames[1]
    BY <1>1, <1>2, <1>3, <1>4
  <2>2. ASSUME NEW i \in 2..k
        PROVE  t.frames[i].n = t.frames[i - 1].n + 1 /\ t.frames[i].at >= t.frames[i - 1].at
    <3>1. i \in 2..Len(s.frames) /\ i \in 1..k /\ i - 1 \in 1..k
      BY <1>1
    <3> QED BY <2>1, <3>1, <1>2 DEF Sound, Consistent
  <2> QED BY <1>2, <1>3, <1>4, <2>1, <2>2 DEF Sound, Consistent
<1> QED BY <1>3, <1>4 DEF Sound

\* Products of natural numbers.
LEMMA Products ==
    /\ \A a, b \in Nat : a * b \in Nat
    /\ \A a, b \in Nat : a * (b + 1) = a * b + a
    /\ \A a, b, c \in Nat : b <= c => a * b <= a * c
    /\ \A a, b, c \in Nat : b < c => a * b + a <= a * c
<1>1. \A a, b \in Nat : a * b \in Nat
  OBVIOUS
<1>2. \A a, b \in Nat : a * (b + 1) = a * b + a
  OBVIOUS
<1>3. ASSUME NEW a \in Nat, NEW b \in Nat, NEW c \in Nat, b <= c PROVE a * b <= a * c
  BY <1>3
<1>4. ASSUME NEW a \in Nat, NEW b \in Nat, NEW c \in Nat, b < c PROVE a * b + a <= a * c
  <2>1. b + 1 \in Nat /\ b + 1 <= c
    BY <1>4
  <2>2. a * (b + 1) <= a * c
    BY <2>1, <1>3
  <2>3. a * (b + 1) = a * b + a
    BY <1>2
  <2> QED BY <2>2, <2>3
<1> QED BY <1>1, <1>2, <1>3, <1>4

\* An appended frame takes FrameBytes.
LEMMA BytesAppended ==
    ASSUME NEW ss, NEW tt, NEW f, Appended(ss, tt, f), Chain(ss), Chain(tt),
           IsFiniteSet(PlacesOf(ss)),
           tt[Len(ss)].torn = ss[Len(ss)].torn, tt[Len(ss)].stage = ss[Len(ss)].stage
    PROVE  DataBytes(tt) = DataBytes(ss) + FrameBytes
<1> DEFINE c == Cardinality(PlacesOf(ss))
           d == TornBytes(ss[Len(ss)])
           k == ManifestBytes * (IF AllSealed(ss) THEN Len(ss) ELSE Len(ss) - 1)
<1>1. ss \in Seq(Segment) /\ tt \in Seq(Segment) /\ Len(tt) = Len(ss) /\ Len(ss) # 0
  BY DEF Appended, LastOnly
<1>2. IsFiniteSet(PlacesOf(tt)) /\ Cardinality(PlacesOf(tt)) = c + 1
  BY OneMore
<1>3. AllSealed(tt) <=> AllSealed(ss)
  BY <1>1, SealedIs
<1>4. TornBytes(tt[Len(ss)]) = d
  BY DEF TornBytes
<1>5. DataBytes(ss) = FrameBytes * c + d + k /\ c \in Nat
  BY <1>1, Bytes
<1>6. DataBytes(tt) = FrameBytes * (c + 1) + d + k
  BY <1>1, <1>2, <1>3, <1>4, Bytes
<1>7. d \in Nat /\ k \in Nat /\ FrameBytes \in Nat
  <2>1. Len(ss) \in Nat /\ Len(ss) - 1 \in Nat
    BY <1>1, SegmentFields
  <2> QED BY <2>1, Products, SizeAssumption DEF TornBytes
<1> HIDE DEF c, d, k
<1>8. FrameBytes * (c + 1) = FrameBytes * c + FrameBytes /\ FrameBytes * c \in Nat
  BY <1>5, <1>7, Products
<1> QED BY <1>5, <1>6, <1>7, <1>8

\* A changed last segment takes what its torn frame and its manifest take.
LEMMA BytesChanged ==
    ASSUME NEW ss, NEW tt, LastOnly(ss, tt), Chain(ss), Chain(tt),
           IsFiniteSet(PlacesOf(ss)), tt[Len(ss)].frames = ss[Len(ss)].frames,
           ss[Len(ss)].stage # "sealed"
    PROVE  /\ DataBytes(tt) + TornBytes(ss[Len(ss)]) =
                 DataBytes(ss) + TornBytes(tt[Len(ss)])
                 + (IF tt[Len(ss)].stage = "sealed" THEN ManifestBytes ELSE 0)
           /\ SameFrames(ss, tt) /\ PlacesOf(tt) = PlacesOf(ss)
           /\ TornBytes(ss[Len(ss)]) \in Nat /\ TornBytes(tt[Len(ss)]) \in Nat
           /\ TornBytes(ss[Len(ss)]) <= DataBytes(ss)
<1> DEFINE c == Cardinality(PlacesOf(ss))
           d == TornBytes(ss[Len(ss)])
           e == TornBytes(tt[Len(ss)])
           L == Len(ss)
<1>1. ss \in Seq(Segment) /\ tt \in Seq(Segment) /\ Len(tt) = L /\ L # 0 /\ L \in Nat
  BY SegmentFields DEF LastOnly
<1>2. SameFrames(ss, tt)
  BY <1>1 DEF SameFrames, LastOnly
<1>3. PlacesOf(tt) = PlacesOf(ss)
  BY <1>2, SamePlaces
<1>4. ~AllSealed(ss) /\ (AllSealed(tt) <=> tt[L].stage = "sealed")
  BY <1>1, SealedIs
<1>5. DataBytes(ss) = FrameBytes * c + d + ManifestBytes * (L - 1) /\ c \in Nat
  BY <1>1, <1>4, Bytes
<1>6. DataBytes(tt) = FrameBytes * c + e + ManifestBytes * (IF tt[L].stage = "sealed" THEN L ELSE L - 1)
  BY <1>1, <1>3, <1>4, Bytes
<1>7. d \in Nat /\ e \in Nat /\ FrameBytes \in Nat /\ ManifestBytes \in Nat
  BY SizeAssumption DEF TornBytes
<1>8. /\ ManifestBytes * L = ManifestBytes * (L - 1) + ManifestBytes
      /\ ManifestBytes * (L - 1) \in Nat /\ FrameBytes * c \in Nat
  <2>1. L - 1 \in Nat /\ L = (L - 1) + 1
    BY <1>1
  <2> HIDE DEF L
  <2> QED BY <2>1, <1>5, <1>7, Products
<1> HIDE DEF c, d, e
<1>9. /\ DataBytes(tt) + d = DataBytes(ss) + e + (IF tt[L].stage = "sealed" THEN ManifestBytes ELSE 0)
      /\ d <= DataBytes(ss)
  <2> HIDE DEF L
  <2>1. \A m, f \in Nat, D, E \in Int :
           /\ D = f + d + m /\ E = f + e + m => E + d = D + e + 0
           /\ D = f + d + m /\ E = f + e + (m + ManifestBytes) => E + d = D + e + ManifestBytes
           /\ D = f + d + m => d <= D
    BY <1>7
  <2>2. DataBytes(ss) \in Int /\ DataBytes(tt) \in Int
    BY <1>5, <1>6, <1>7, <1>8
  <2>3. CASE tt[L].stage = "sealed"
    BY <2>1, <2>2, <2>3, <1>5, <1>6, <1>8
  <2>4. CASE tt[L].stage # "sealed"
    BY <2>1, <2>2, <2>4, <1>5, <1>6, <1>8
  <2> QED BY <2>3, <2>4
<1> QED BY <1>2, <1>3, <1>7, <1>9 DEF d, e

\* A new segment takes nothing yet.
LEMMA BytesOpened ==
    ASSUME NEW ss \in Seq(Segment), NEW tt \in Seq(Segment), SameFrames(ss, tt),
           Chain(ss), Chain(tt), IsFiniteSet(PlacesOf(ss)),
           Len(tt) = Len(ss) + 1, AllSealed(ss), tt[Len(ss) + 1].stage = "partial",
           tt[Len(ss) + 1].torn = "no"
    PROVE  DataBytes(tt) = DataBytes(ss)
<1>1. Len(ss) \in Nat /\ Len(tt) # 0 /\ Len(tt) - 1 = Len(ss)
  BY SegmentFields
<1>2. ~AllSealed(tt)
  BY <1>1, SealedIs
<1>3. PlacesOf(tt) = PlacesOf(ss)
  BY SamePlaces
<1>4. Len(ss) # 0 => TornBytes(ss[Len(ss)]) = 0
  <2>1. Len(ss) # 0 => Len(ss) \in 1..Len(ss)
    BY <1>1
  <2>2. Len(ss) # 0 => ss[Len(ss)].torn = "no"
    BY <2>1 DEF Chain, AllSealed, Sound
  <2> QED BY <2>2 DEF TornBytes
<1>5. TornBytes(tt[Len(tt)]) = 0
  BY DEF TornBytes
<1>6. DataBytes(ss) = FrameBytes * Cardinality(PlacesOf(ss)) + 0 + ManifestBytes * Len(ss)
  BY <1>4, Bytes
<1>7. DataBytes(tt) = FrameBytes * Cardinality(PlacesOf(tt)) + 0 + ManifestBytes * (Len(tt) - 1)
  BY <1>1, <1>2, <1>3, <1>5, Bytes
<1> QED BY <1>1, <1>3, <1>6, <1>7

\* A crash does not make the files larger, but for a frame begun and torn.
LEMMA BytesLost ==
    ASSUME NEW ss, NEW tt, Shortened(ss, tt), Chain(ss), Chain(tt),
           IsFiniteSet(PlacesOf(ss)), ss[Len(ss)].stage # "sealed",
           Len(tt) = Len(ss) =>
              /\ tt[Len(ss)].stage # "sealed"
              /\ \/ tt[Len(ss)].torn = "no" \/ ss[Len(ss)].torn # "no"
                 \/ Len(tt[Len(ss)].frames) < Len(ss[Len(ss)].frames)
    PROVE  DataBytes(tt) <= DataBytes(ss)
<1> DEFINE c == Cardinality(PlacesOf(ss))
           d == Cardinality(PlacesOf(tt))
           L == Len(ss)
<1>1. ss \in Seq(Segment) /\ tt \in Seq(Segment) /\ L # 0 /\ L \in Nat /\ L \in 1..L
      /\ Len(tt) \in {L, L - 1} /\ \A i \in 1..(L - 1) : tt[i] = ss[i]
  BY SegmentFields DEF Shortened
<1>2. PlacesOf(tt) \in SUBSET PlacesOf(ss) /\ IsFiniteSet(PlacesOf(tt)) /\ d <= c
  BY Fewer
<1>3. ~AllSealed(ss) /\ (Len(tt) = L => ~AllSealed(tt))
  BY <1>1, SealedIs
<1>4. Len(tt) = L - 1 => AllSealed(tt)
  BY <1>1 DEF AllSealed, Chain
<1>5. DataBytes(ss) = FrameBytes * c + TornBytes(ss[L]) + ManifestBytes * (L - 1) /\ c \in Nat
  BY <1>1, <1>3, Bytes
<1>6. DataBytes(tt) = FrameBytes * d
         + (IF Len(tt) = 0 THEN 0 ELSE TornBytes(tt[Len(tt)])) + ManifestBytes * (L - 1) /\ d \in Nat
  BY <1>1, <1>2, <1>3, <1>4, Bytes
<1>7. /\ \A s : TornBytes(s) \in Nat /\ TornBytes(s) <= FrameBytes
      /\ \A s : s.torn = "no" => TornBytes(s) = 0
      /\ \A s, t : s.torn # "no" => TornBytes(t) <= TornBytes(s)
      /\ FrameBytes \in Nat /\ ManifestBytes * (L - 1) \in Nat
  <2>1. L - 1 \in Nat
    BY <1>1
  <2> QED BY <2>1, SizeAssumption, Products DEF TornBytes
<1>8. FrameBytes * d <= FrameBytes * c /\ (d < c => FrameBytes * d + FrameBytes <= FrameBytes * c)
      /\ FrameBytes * d \in Nat /\ FrameBytes * c \in Nat
  <2> HIDE DEF c, d
  <2> QED BY <1>2, <1>5, <1>6, <1>7, Products
<1>9. CASE Len(tt) = L - 1
  <2>1. Len(tt) # 0 => TornBytes(tt[Len(tt)]) = 0
    <3>1. Len(tt) # 0 => Len(tt) \in 1..Len(tt)
      BY <1>9, <1>1
    <3> QED BY <3>1, <1>4, <1>7, <1>9 DEF Chain, AllSealed, Sound
  <2> DEFINE x == FrameBytes * c
             y == FrameBytes * d
             z == ManifestBytes * (L - 1)
  <2>2. DataBytes(tt) = y + 0 + z
    BY <2>1, <1>6
  <2>3. DataBytes(ss) = x + TornBytes(ss[L]) + z /\ TornBytes(ss[L]) \in Nat
    BY <1>5, <1>7
  <2>4. x \in Nat /\ y \in Nat /\ z \in Nat /\ y <= x
    BY <1>7, <1>8
  <2> HIDE DEF c, d, x, y, z
  <2> QED BY <2>2, <2>3, <2>4
<1>10. CASE Len(tt) = L /\ (tt[L].torn = "no" \/ ss[L].torn # "no")
  <2>1. TornBytes(tt[L]) <= TornBytes(ss[L])
    BY <1>7, <1>10
  <2>2. TornBytes(tt[L]) \in Nat /\ TornBytes(ss[L]) \in Nat
    BY <1>7
  <2>3. DataBytes(tt) = FrameBytes * d + TornBytes(tt[L]) + ManifestBytes * (L - 1)
    BY <1>1, <1>6, <1>10
  <2> HIDE DEF c, d, L
  <2> QED BY <2>1, <2>2, <2>3, <1>5, <1>7, <1>8
<1>11. CASE Len(tt) = L /\ Len(tt[L].frames) < Len(ss[L].frames)
  <2>0. Len(ss[L].frames) \in Nat /\ Len(tt[L].frames) \in Nat
    BY <1>1, <1>11, SegmentFields
  <2> DEFINE p == <<L, Len(ss[L].frames)>>
  <2>1. p \in PlacesOf(ss)
    <3>1. Len(ss[L].frames) \in 1..Len(ss[L].frames)
      BY <1>11, <2>0
    <3> QED BY <3>1, <1>1, PlaceIn
  <2>2. p \notin PlacesOf(tt)
    <3> SUFFICES ASSUME p \in PlacesOf(tt) PROVE FALSE
      OBVIOUS
    <3>1. p[2] \in 1..Len(tt[p[1]].frames)
      BY <1>1, PlaceRange
    <3> QED BY <3>1, <2>0, <1>11
  <2>3. d # c
    BY <2>1, <2>2, <1>2, FS_Subset
  <2>4. d < c
    <3> HIDE DEF c, d
    <3> QED BY <2>3, <1>2, <1>5, <1>6
  <2>5. TornBytes(tt[L]) \in Nat /\ TornBytes(ss[L]) \in Nat /\ TornBytes(tt[L]) <= FrameBytes
    BY <1>7
  <2>6. DataBytes(tt) = FrameBytes * d + TornBytes(tt[L]) + ManifestBytes * (L - 1)
    BY <1>1, <1>6, <1>11
  <2> HIDE DEF c, d, L
  <2> QED BY <2>4, <2>5, <2>6, <1>5, <1>7, <1>8
<1> QED BY <1>1, <1>9, <1>10, <1>11

-----------------------------------------------------------------------------
(* The steps that leave the segment files and the writer's memory alone *)

\* The fixed values have their types.
LEMMA IdleType == NoFrame \in Frame /\ Idle \in Operation /\ FreshWriter \in Writer
BY DEF Idle, Operation, Item, NoFrame, Frame, FreshWriter, Writer

\* An empty directory.
LEMMA NoFiles ==
    /\ <<>> \in Seq(Segment) /\ Len(<<>>) = 0
    /\ PlacesOf(<<>>) = {} /\ Cardinality(PlacesOf(<<>>)) = 0 /\ IsFiniteSet(PlacesOf(<<>>))
    /\ DataBytes(<<>>) = 0 /\ Chain(<<>>) /\ AllSealed(<<>>)
    /\ \A acc : Numbered(<<>>, acc)
<1>1. <<>> \in Seq(Segment) /\ Len(<<>>) = 0 /\ 1..0 = {}
  OBVIOUS
<1>2. PlacesOf(<<>>) = {} /\ Chain(<<>>) /\ AllSealed(<<>>)
  BY <1>1 DEF PlacesOf, Chain, AllSealed
<1>3. Cardinality(PlacesOf(<<>>)) = 0 /\ IsFiniteSet(PlacesOf(<<>>))
  BY <1>2, FS_EmptySet
<1>4. DataBytes(<<>>) = FrameBytes * 0 + 0 + ManifestBytes * 0
  BY <1>1, <1>2, <1>3, Bytes
<1> QED BY <1>1, <1>2, <1>3, <1>4, SizeAssumption DEF Numbered

\* Holds and Between only depend on the files and the memory.
LEMMA SameMemory == segs' = segs /\ w' = w => (Holds' <=> Holds) /\ (Between' <=> Between)
BY DEF Holds, Between

\* The directory is made.
LEMMA MakeDirectoryKeeps == CaptureInv /\ MakeDirectory => CaptureInv'
<1> SUFFICES ASSUME CaptureInv, MakeDirectory PROVE CaptureInv'
  OBVIOUS
<1>1. /\ phase = "down" /\ dir = "none"
      /\ segs' = segs /\ residue' = residue /\ copied' = copied /\ journal' = journal
      /\ w' = w /\ op' = op /\ dir' = "made" /\ terminal' = terminal
      /\ phase' = "setup" /\ normal' = normal /\ queue' = queue /\ accepting' = accepting
      /\ failed' = failed /\ worker' = worker /\ accepted' = accepted /\ crashes' = crashes
  BY DEF MakeDirectory, OnlyPhase, storageVars, diskVars, receiptVars, handoffVars
<1>2. (Holds' <=> Holds) /\ (Between' <=> Between)
  BY <1>1, SameMemory
<1>3. TypeOK'
  BY <1>1, IdleType DEF CaptureInv, TypeOK
<1>4. Chain(segs') /\ Numbered(segs', accepted')
  BY <1>1 DEF CaptureInv
<1>5. Stages'
  BY <1>1 DEF CaptureInv, Stages, StorageInit, SealSteps, Idle
<1>6. Sealing'
  BY <1>1, <1>2 DEF CaptureInv, Sealing, SealSteps, Idle
<1>7. Appending'
  BY <1>1, <1>2 DEF CaptureInv, Appending, Working, SealSteps, Idle, Stages
<1>8. Recovering'
  BY <1>1 DEF CaptureInv, Recovering, RecoverySteps, Stages
<1>9. Handling'
  BY <1>1 DEF CaptureInv, Handling, Stages
<1>10. Queued'
  BY <1>1 DEF CaptureInv, Queued, InQueue, Taken, Handling, Stages, Idle, Handoff
<1>11. Handoff'
  BY <1>1 DEF CaptureInv, Handoff, AllData, Stages, Appending, Between, Working, SealSteps
<1>12. Quota'
  BY <1>1 DEF CaptureInv, Quota, Counting, Working, ResidueBytes, Stages, Idle, SealSteps, RecoverySteps
<1>13. Receipts'
  BY <1>1 DEF CaptureInv, Receipts, Stages, Handoff, AllData
<1> QED BY <1>3, <1>4, <1>5, <1>6, <1>7, <1>8, <1>9, <1>10, <1>11, <1>12, <1>13 DEF CaptureInv

\* The start receipt is written and the worker started.
LEMMA StartGenerationKeeps == CaptureInv /\ StartGeneration => CaptureInv'
<1> SUFFICES ASSUME CaptureInv, StartGeneration PROVE CaptureInv'
  OBVIOUS
<1>1. /\ phase = "setup"
      /\ segs' = segs /\ residue' = residue /\ copied' = copied /\ journal' = journal
      /\ w' = w /\ op' = op /\ dir' = "receipt" /\ terminal' = terminal
      /\ phase' = "run" /\ normal' = normal /\ queue' = queue /\ accepting' = TRUE
      /\ failed' = failed /\ worker' = "get" /\ accepted' = accepted /\ crashes' = crashes
  BY DEF StartGeneration, storageVars, diskVars, receiptVars, handoffVars
<1>0. /\ segs = <<>> /\ residue = {} /\ copied = 0 /\ journal = "no" /\ w = FreshWriter
      /\ op = Idle /\ accepted = <<>> /\ queue = <<>> /\ ~failed
  BY <1>1 DEF CaptureInv, Stages, StorageInit
<1>2. (Holds' <=> Holds) /\ (Between' <=> Between)
  BY <1>1, SameMemory
<1>3. TypeOK'
  BY <1>1, IdleType DEF CaptureInv, TypeOK
<1>4. Chain(segs') /\ Numbered(segs', accepted')
  BY <1>1 DEF CaptureInv
<1>5. Stages'
  BY <1>1 DEF CaptureInv, Stages, StorageInit, SealSteps, Idle
<1>6. Sealing'
  BY <1>1, <1>2 DEF CaptureInv, Sealing, SealSteps, Idle
<1>7. Appending'
  <2>1. w'.last = NoFrame /\ w'.next = 1 /\ w'.prev = <<>> /\ w'.handle = FALSE /\ op'.pc = "idle"
    BY <1>0, <1>1 DEF FreshWriter, Idle
  <2>2. Between'
    BY <1>0, <1>1, <2>1, NoFiles DEF Between, PrevLast, PrevSha
  <2>3. w'.last.n = Cardinality(PlacesOf(segs'))
    BY <1>0, <1>1, <2>1, NoFiles DEF NoFrame
  <2> QED BY <1>0, <1>1, <2>1, <2>2, <2>3 DEF Appending, SealSteps
<1>8. Recovering'
  BY <1>1 DEF CaptureInv, Recovering, RecoverySteps, Stages
<1>9. Handling'
  BY <1>1 DEF CaptureInv, Handling, Stages
<1>10. Queued'
  <2>1. Taken' = 0
    BY <1>0, <1>1 DEF Taken, FreshWriter, NoFrame
  <2> QED BY <1>0, <1>1, <2>1, NoFiles DEF Queued
<1>11. Handoff'
  BY <1>0, <1>1, NoFiles DEF Handoff, AllData, CaptureInv, Stages
<1>12. Quota'
  <2>1. w'.known = 0 /\ op'.pc = "idle"
    BY <1>0, <1>1 DEF FreshWriter, Idle
  <2>2. ResidueBytes' = ResidueBytes /\ DataBytes(segs') = DataBytes(segs) /\ DataBytes(segs') = 0
    BY <1>0, <1>1, NoFiles DEF ResidueBytes
  <2> QED BY <1>0, <1>1, <2>1, <2>2 DEF CaptureInv, Quota
<1>13. Receipts'
  BY <1>1 DEF CaptureInv, Receipts, Stages, Handoff, AllData
<1> QED BY <1>3, <1>4, <1>5, <1>6, <1>7, <1>8, <1>9, <1>10, <1>11, <1>12, <1>13 DEF CaptureInv

\* A record is stored and the worker gets the next.
LEMMA AppendDoneKeeps == CaptureInv /\ AppendDone => CaptureInv'
<1> SUFFICES ASSUME CaptureInv, AppendDone PROVE CaptureInv'
  OBVIOUS
<1>1. /\ worker = "append" /\ op.pc = "ok"
      /\ segs' = segs /\ residue' = residue /\ copied' = copied /\ journal' = journal
      /\ w' = w /\ op' = Idle /\ dir' = dir /\ terminal' = terminal
      /\ phase' = phase /\ normal' = normal /\ queue' = queue /\ accepting' = accepting
      /\ failed' = failed /\ worker' = "get" /\ accepted' = accepted /\ crashes' = crashes
  BY DEF AppendDone, OnlyWorker, storageVars, diskVars, receiptVars, handoffVars
<1>2. (Holds' <=> Holds) /\ (Between' <=> Between)
  BY <1>1, SameMemory
<1>3. TypeOK'
  BY <1>1, IdleType DEF CaptureInv, TypeOK
<1>4. Chain(segs') /\ Numbered(segs', accepted')
  BY <1>1 DEF CaptureInv
<1>5. Stages'
  BY <1>1 DEF CaptureInv, Stages, StorageInit, SealSteps, Idle
<1>6. Sealing'
  BY <1>1, <1>2 DEF CaptureInv, Sealing, SealSteps, Idle
<1>7. Appending'
  BY <1>1, <1>2 DEF CaptureInv, Appending, Working, SealSteps, Idle, Stages
<1>8. Recovering'
  BY <1>1 DEF CaptureInv, Recovering, RecoverySteps, Stages
<1>9. Handling'
  BY <1>1 DEF CaptureInv, Handling, Stages
<1>10. Queued'
  <2>1. Taken' = Taken /\ op.pc # "error"
    BY <1>1 DEF CaptureInv, Handling, Taken
  <2>2. \A i : InQueue(i)' <=> InQueue(i)
    BY <1>1, <2>1 DEF InQueue
  <2> QED BY <1>1, <2>1, <2>2 DEF CaptureInv, Queued
<1>11. Handoff'
  BY <1>1 DEF CaptureInv, Handoff, AllData, Stages, Appending, Between, Working, SealSteps
<1>12. Quota'
  BY <1>1 DEF CaptureInv, Quota, Counting, Working, ResidueBytes, Stages, Idle, SealSteps, RecoverySteps
<1>13. Receipts'
  BY <1>1 DEF CaptureInv, Receipts, Stages, Handoff, AllData
<1> QED BY <1>3, <1>4, <1>5, <1>6, <1>7, <1>8, <1>9, <1>10, <1>11, <1>12, <1>13 DEF CaptureInv

\* The writer is closed behind the last record.
LEMMA CloseDoneKeeps == CaptureInv /\ CloseDone => CaptureInv'
<1> SUFFICES ASSUME CaptureInv, CloseDone PROVE CaptureInv'
  OBVIOUS
<1>1. /\ worker = "close" /\ op.pc = "ok"
      /\ segs' = segs /\ residue' = residue /\ copied' = copied /\ journal' = journal
      /\ w' = w /\ op' = Idle /\ dir' = dir /\ terminal' = terminal
      /\ phase' = phase /\ normal' = normal /\ queue' = queue /\ accepting' = accepting
      /\ failed' = failed /\ worker' = "done" /\ accepted' = accepted /\ crashes' = crashes
  BY DEF CloseDone, OnlyWorker, storageVars, diskVars, receiptVars, handoffVars
<1>2. (Holds' <=> Holds) /\ (Between' <=> Between)
  BY <1>1, SameMemory
<1>3. TypeOK'
  BY <1>1, IdleType DEF CaptureInv, TypeOK
<1>4. Chain(segs') /\ Numbered(segs', accepted')
  BY <1>1 DEF CaptureInv
<1>5. Stages'
  BY <1>1 DEF CaptureInv, Stages, StorageInit, SealSteps, Idle
<1>6. Sealing'
  BY <1>1, <1>2 DEF CaptureInv, Sealing, SealSteps, Idle
<1>7. Appending'
  BY <1>1, <1>2 DEF CaptureInv, Appending, Working, SealSteps, Idle, Stages
<1>8. Recovering'
  BY <1>1 DEF CaptureInv, Recovering, RecoverySteps, Stages
<1>9. Handling'
  BY <1>1 DEF CaptureInv, Handling, Stages
<1>10. Queued'
  BY <1>1 DEF CaptureInv, Queued, InQueue, Taken, Handling, Stages, Idle, Handoff
<1>11. Handoff'
  BY <1>1 DEF CaptureInv, Handoff, AllData, Stages, Appending, Between, Working, SealSteps
<1>12. Quota'
  BY <1>1 DEF CaptureInv, Quota, Counting, Working, ResidueBytes, Stages, Idle, SealSteps, RecoverySteps
<1>13. Receipts'
  BY <1>1 DEF CaptureInv, Receipts, Stages, Handoff, AllData
<1> QED BY <1>3, <1>4, <1>5, <1>6, <1>7, <1>8, <1>9, <1>10, <1>11, <1>12, <1>13 DEF CaptureInv

\* _fail_writer.
LEMMA FailWriterKeeps == CaptureInv /\ FailWriter => CaptureInv'
<1> SUFFICES ASSUME CaptureInv, FailWriter PROVE CaptureInv'
  OBVIOUS
<1>1. /\ worker \in {"append", "close", "fatal"} /\ op.pc = "error"
      /\ segs' = segs /\ residue' = residue /\ copied' = copied /\ journal' = journal
      /\ w' = w /\ op' = Idle /\ dir' = dir /\ terminal' = terminal
      /\ phase' = phase /\ normal' = normal /\ queue' = queue /\ accepting' = FALSE
      /\ failed' = TRUE /\ worker' = "emergency" /\ accepted' = accepted /\ crashes' = crashes
  BY DEF FailWriter, OnlyWorker, storageVars, diskVars, receiptVars, handoffVars
<1>2. (Holds' <=> Holds) /\ (Between' <=> Between)
  BY <1>1, SameMemory
<1>3. TypeOK'
  BY <1>1, IdleType DEF CaptureInv, TypeOK
<1>4. Chain(segs') /\ Numbered(segs', accepted')
  BY <1>1 DEF CaptureInv
<1>5. Stages'
  BY <1>1 DEF CaptureInv, Stages, StorageInit, SealSteps, Idle
<1>6. Sealing'
  BY <1>1, <1>2 DEF CaptureInv, Sealing, SealSteps, Idle
<1>7. Appending'
  BY <1>1, <1>2 DEF CaptureInv, Appending, Working, SealSteps, Idle, Stages
<1>8. Recovering'
  BY <1>1 DEF CaptureInv, Recovering, RecoverySteps, Stages
<1>9. Handling'
  BY <1>1 DEF CaptureInv, Handling, Stages
<1>10. Queued'
  BY <1>1 DEF CaptureInv, Queued, InQueue, Taken, Handling, Stages, Idle, Handoff
<1>11. Handoff'
  BY <1>1 DEF CaptureInv, Handoff, AllData, Stages, Appending, Between, Working, SealSteps
<1>12. Quota'
  BY <1>1 DEF CaptureInv, Quota, Counting, Working, ResidueBytes, Stages, Idle, SealSteps, RecoverySteps
<1>13. Receipts'
  BY <1>1 DEF CaptureInv, Receipts, Stages, Handoff, AllData
<1> QED BY <1>3, <1>4, <1>5, <1>6, <1>7, <1>8, <1>9, <1>10, <1>11, <1>12, <1>13 DEF CaptureInv

\* pipeline.stop returns or raises.
LEMMA StopReturnsKeeps == CaptureInv /\ StopReturns => CaptureInv'
<1> SUFFICES ASSUME CaptureInv, StopReturns PROVE CaptureInv'
  OBVIOUS
<1>1. /\ phase = "draining" /\ worker = "done"
      /\ segs' = segs /\ residue' = residue /\ copied' = copied /\ journal' = journal
      /\ w' = w /\ op' = op /\ dir' = dir /\ terminal' = terminal
      /\ phase' = (IF normal /\ ~failed THEN "terminal" ELSE "down") /\ normal' = normal /\ queue' = queue /\ accepting' = accepting
      /\ failed' = failed /\ worker' = worker /\ accepted' = accepted /\ crashes' = crashes
  BY DEF StopReturns, OnlyPhase, storageVars, diskVars, receiptVars, handoffVars
<1>2. (Holds' <=> Holds) /\ (Between' <=> Between)
  BY <1>1, SameMemory
<1>3. TypeOK'
  BY <1>1, IdleType DEF CaptureInv, TypeOK
<1>4. Chain(segs') /\ Numbered(segs', accepted')
  BY <1>1 DEF CaptureInv
<1>5. Stages'
  BY <1>1 DEF CaptureInv, Stages, StorageInit, SealSteps, Idle
<1>6. Sealing'
  BY <1>1, <1>2 DEF CaptureInv, Sealing, SealSteps, Idle
<1>7. Appending'
  BY <1>1, <1>2 DEF CaptureInv, Appending, Working, SealSteps, Idle, Stages
<1>8. Recovering'
  BY <1>1 DEF CaptureInv, Recovering, RecoverySteps, Stages
<1>9. Handling'
  BY <1>1 DEF CaptureInv, Handling, Stages
<1>10. Queued'
  BY <1>1 DEF CaptureInv, Queued, InQueue, Taken, Handling, Stages, Idle, Handoff
<1>11. Handoff'
  BY <1>1 DEF CaptureInv, Handoff, AllData, Stages, Appending, Between, Working, SealSteps
<1>12. Quota'
  BY <1>1 DEF CaptureInv, Quota, Counting, Working, ResidueBytes, Stages, Idle, SealSteps, RecoverySteps
<1>13. Receipts'
  BY <1>1 DEF CaptureInv, Receipts, Stages, Handoff, AllData
<1> QED BY <1>3, <1>4, <1>5, <1>6, <1>7, <1>8, <1>9, <1>10, <1>11, <1>12, <1>13 DEF CaptureInv

\* The disk guard refuses the terminal receipt.
LEMMA TerminalRefusedKeeps == CaptureInv /\ TerminalRefused => CaptureInv'
<1> SUFFICES ASSUME CaptureInv, TerminalRefused PROVE CaptureInv'
  OBVIOUS
<1>1. /\ phase = "terminal"
      /\ segs' = segs /\ residue' = residue /\ copied' = copied /\ journal' = journal
      /\ w' = w /\ op' = op /\ dir' = dir /\ terminal' = terminal
      /\ phase' = "down" /\ normal' = normal /\ queue' = queue /\ accepting' = accepting
      /\ failed' = failed /\ worker' = worker /\ accepted' = accepted /\ crashes' = crashes
  BY DEF TerminalRefused, OnlyPhase, storageVars, diskVars, receiptVars, handoffVars
<1>2. (Holds' <=> Holds) /\ (Between' <=> Between)
  BY <1>1, SameMemory
<1>3. TypeOK'
  BY <1>1, IdleType DEF CaptureInv, TypeOK
<1>4. Chain(segs') /\ Numbered(segs', accepted')
  BY <1>1 DEF CaptureInv
<1>5. Stages'
  BY <1>1 DEF CaptureInv, Stages, StorageInit, SealSteps, Idle
<1>6. Sealing'
  BY <1>1, <1>2 DEF CaptureInv, Sealing, SealSteps, Idle
<1>7. Appending'
  BY <1>1, <1>2 DEF CaptureInv, Appending, Working, SealSteps, Idle, Stages
<1>8. Recovering'
  BY <1>1 DEF CaptureInv, Recovering, RecoverySteps, Stages
<1>9. Handling'
  BY <1>1 DEF CaptureInv, Handling, Stages
<1>10. Queued'
  BY <1>1 DEF CaptureInv, Queued, InQueue, Taken, Handling, Stages, Idle, Handoff
<1>11. Handoff'
  BY <1>1 DEF CaptureInv, Handoff, AllData, Stages, Appending, Between, Working, SealSteps
<1>12. Quota'
  BY <1>1 DEF CaptureInv, Quota, Counting, Working, ResidueBytes, Stages, Idle, SealSteps, RecoverySteps
<1>13. Receipts'
  BY <1>1 DEF CaptureInv, Receipts, Stages, Handoff, AllData
<1> QED BY <1>3, <1>4, <1>5, <1>6, <1>7, <1>8, <1>9, <1>10, <1>11, <1>12, <1>13 DEF CaptureInv

\* The terminal receipt is in place.
LEMMA PromoteTerminalKeeps == CaptureInv /\ PromoteTerminal => CaptureInv'
<1> SUFFICES ASSUME CaptureInv, PromoteTerminal PROVE CaptureInv'
  OBVIOUS
<1>1. /\ phase = "pending"
      /\ segs' = segs /\ residue' = residue \ {"terminal"} /\ copied' = copied /\ journal' = journal
      /\ w' = w /\ op' = op /\ dir' = dir /\ terminal' = (IF normal THEN "clean" ELSE "recovered")
      /\ phase' = "finished" /\ normal' = normal /\ queue' = queue /\ accepting' = accepting
      /\ failed' = failed /\ worker' = worker /\ accepted' = accepted /\ crashes' = crashes
  BY DEF PromoteTerminal, storageVars, diskVars, receiptVars, handoffVars
<1>2. (Holds' <=> Holds) /\ (Between' <=> Between)
  BY <1>1, SameMemory
<1>3. TypeOK'
  BY <1>1, IdleType DEF CaptureInv, TypeOK
<1>4. Chain(segs') /\ Numbered(segs', accepted')
  BY <1>1 DEF CaptureInv
<1>5. Stages'
  BY <1>1 DEF CaptureInv, Stages, StorageInit, SealSteps, Idle
<1>6. Sealing'
  BY <1>1, <1>2 DEF CaptureInv, Sealing, SealSteps, Idle
<1>7. Appending'
  BY <1>1, <1>2 DEF CaptureInv, Appending, Working, SealSteps, Idle, Stages
<1>8. Recovering'
  BY <1>1 DEF CaptureInv, Recovering, RecoverySteps, Stages
<1>9. Handling'
  BY <1>1 DEF CaptureInv, Handling, Stages
<1>10. Queued'
  BY <1>1 DEF CaptureInv, Queued, InQueue, Taken, Handling, Stages, Idle, Handoff
<1>11. Handoff'
  BY <1>1 DEF CaptureInv, Handoff, AllData, Stages, Appending, Between, Working, SealSteps
<1>12. Quota'
  BY <1>1 DEF CaptureInv, Quota, Counting, Working, ResidueBytes, Stages, Idle, SealSteps, RecoverySteps
<1>13. Receipts'
  BY <1>1 DEF CaptureInv, Receipts, Stages, Handoff, AllData
<1> QED BY <1>3, <1>4, <1>5, <1>6, <1>7, <1>8, <1>9, <1>10, <1>11, <1>12, <1>13 DEF CaptureInv

\* The operations the worker starts and the items of the queue have their types.
LEMMA ItemTypes ==
    /\ \A pc \in {"fsync", "ok"} : [pc |-> pc, then |-> "close", item |-> NoFrame] \in Operation
    /\ \A f \in Frame : [pc |-> "check", then |-> "append", item |-> f] \in Operation
    /\ \A n, at \in Nat, k \in {"data", "fatal"} : [n |-> n, at |-> at, kind |-> k] \in Frame
    /\ Stop \in Item /\ Stop.kind = "stop"
BY IdleType DEF Operation, Item, Frame, Stop

\* An open handoff has only data queued, numbered behind what was taken.
LEMMA AllQueued ==
    ASSUME CaptureInv, accepting, op.pc # "error"
    PROVE  /\ Taken \in Nat /\ Len(queue) \in Nat /\ Len(accepted) = Taken + Len(queue)
           /\ worker \in {"get", "append"}
           /\ \A i \in 1..Len(queue) :
                 /\ queue[i].kind = "data" /\ queue[i].n = Taken + i
                 /\ Taken + i \in 1..Len(accepted) /\ accepted[Taken + i] = queue[i]
<1>1. worker \in {"get", "append"}
  BY DEF CaptureInv, Handoff
<1>2. Taken \in Nat
  BY <1>1 DEF CaptureInv, TypeOK, Writer, Frame, Handling, Taken
<1>3. queue \in Seq(Item) /\ Len(queue) \in Nat
  BY LenProperties DEF CaptureInv, TypeOK
<1>4. \A i \in 1..Len(queue) : InQueue(i)
  BY <1>1 DEF CaptureInv, Queued
<1>5. ASSUME NEW i \in 1..Len(queue)
      PROVE  /\ queue[i].kind = "data" /\ queue[i].n = Taken + i
             /\ Taken + i \in 1..Len(accepted) /\ accepted[Taken + i] = queue[i]
  BY <1>4, ItemTypes DEF InQueue
<1>6. queue # <<>> => Len(queue) \in 1..Len(queue)
  BY <1>3, EmptySeq
<1>7. Len(accepted) = Taken + Len(queue)
  BY <1>1, <1>5, <1>6 DEF CaptureInv, Queued
<1> QED BY <1>1, <1>2, <1>3, <1>5, <1>7

\* The fatal transition is stored and the writer closed behind it.
LEMMA FatalDoneKeeps == CaptureInv /\ FatalDone => CaptureInv'
<1> SUFFICES ASSUME CaptureInv, FatalDone PROVE CaptureInv'
  OBVIOUS
<1>1. /\ worker = "fatal" /\ op.pc = "ok"
      /\ segs' = segs /\ residue' = residue /\ copied' = copied /\ journal' = journal
      /\ w' = w /\ dir' = dir /\ terminal' = terminal /\ phase' = phase
      /\ normal' = normal /\ queue' = queue /\ accepting' = accepting /\ failed' = failed
      /\ worker' = "close" /\ accepted' = accepted /\ crashes' = crashes
      /\ op' = [pc |-> IF w.handle THEN "fsync" ELSE "ok", then |-> "close", item |-> NoFrame]
  BY DEF FatalDone, OnlyWorker, StartClose, storageVars, diskVars, receiptVars, handoffVars
<1>2. (Holds' <=> Holds) /\ (Between' <=> Between)
  BY <1>1, SameMemory
<1>3. TypeOK'
  <2>1. op' \in Operation
    BY <1>1, ItemTypes
  <2> QED BY <1>1, <2>1 DEF CaptureInv, TypeOK
<1>4. Chain(segs') /\ Numbered(segs', accepted')
  BY <1>1 DEF CaptureInv
<1>5. Stages'
  BY <1>1 DEF CaptureInv, Stages, StorageInit, SealSteps, Idle
<1>6. Sealing'
  <2>1. w.handle \in BOOLEAN
    BY DEF CaptureInv, TypeOK, Writer
  <2>2. CASE w.handle
    <3>1. op'.pc = "fsync" /\ segs[w.next].stage = "partial" /\ Holds /\ segs[w.next].frames # <<>>
      BY <2>2, <1>1 DEF CaptureInv, TypeOK, Appending, Working
    <3> QED BY <1>1, <1>2, <2>1, <2>2, <3>1 DEF Sealing
  <2>3. CASE ~w.handle
    BY <2>3, <1>1 DEF Sealing, SealSteps
  <2> QED BY <2>2, <2>3
<1>7. Appending'
  BY <1>1, <1>2 DEF CaptureInv, Appending, Working, SealSteps, Idle, Stages
<1>8. Recovering'
  BY <1>1 DEF CaptureInv, Recovering, RecoverySteps, Stages
<1>9. Handling'
  BY <1>1 DEF CaptureInv, Handling, Stages
<1>10. Queued'
  BY <1>1 DEF CaptureInv, Queued, InQueue, Taken, Handling, Stages, Idle, Handoff
<1>11. Handoff'
  BY <1>1 DEF CaptureInv, Handoff, AllData, Stages, Appending, Between, Working, SealSteps
<1>12. Quota'
  BY <1>1 DEF CaptureInv, Quota, Counting, Working, ResidueBytes, Stages, Idle, SealSteps, RecoverySteps
<1>13. Receipts'
  BY <1>1 DEF CaptureInv, Receipts, Stages, Handoff, AllData
<1> QED BY <1>3, <1>4, <1>5, <1>6, <1>7, <1>8, <1>9, <1>10, <1>11, <1>12, <1>13 DEF CaptureInv

\* offer takes a record.
LEMMA AcceptKeeps == ASSUME NEW t \in Times, CaptureInv, Accept(t) PROVE CaptureInv'
<1>1. /\ phase = "run" /\ accepting /\ ~failed
      /\ segs' = segs /\ residue' = residue /\ copied' = copied /\ journal' = journal
      /\ w' = w /\ op' = op /\ dir' = dir /\ terminal' = terminal
      /\ phase' = phase /\ normal' = normal /\ accepting' = accepting /\ failed' = failed
      /\ worker' = worker /\ crashes' = crashes
      /\ queue' = Append(queue, [n |-> Len(accepted) + 1, at |-> t, kind |-> "data"])
      /\ accepted' = Append(accepted, [n |-> Len(accepted) + 1, at |-> t, kind |-> "data"])
  BY DEF Accept, OnlyHandoff, storageVars, diskVars, receiptVars, handoffVars
<1>2. (Holds' <=> Holds) /\ (Between' <=> Between)
  BY <1>1, SameMemory
<1>3. TypeOK'
  <2> DEFINE x == [n |-> Len(accepted) + 1, at |-> t, kind |-> "data"]
  <2>1. t \in Nat /\ accepted \in Seq(Frame) /\ queue \in Seq(Item) /\ Len(accepted) + 1 \in Nat
    BY GenerationAssumption, LenProperties DEF CaptureInv, TypeOK
  <2>2. x \in Frame /\ x \in Item
    BY <2>1, ItemTypes DEF Item
  <2> HIDE DEF x
  <2>3. Append(queue, x) \in Seq(Item) /\ Append(accepted, x) \in Seq(Frame)
    BY <2>1, <2>2, AppendProperties
  <2>4. queue' \in Seq(Item) /\ accepted' \in Seq(Frame)
    BY <1>1, <2>3 DEF x
  <2> QED BY <1>1, <2>4 DEF CaptureInv, TypeOK
<1>4. Chain(segs') /\ Numbered(segs', accepted')
  <2>1. accepted \in Seq(Frame) /\ accepted' \in Seq(Frame) /\ Len(accepted) \in Nat /\ Len(accepted') \in Nat
    BY <1>3, LenProperties DEF CaptureInv, TypeOK
  <2>2. Len(accepted') = Len(accepted) + 1 /\ \A i \in 1..Len(accepted) : accepted'[i] = accepted[i]
    BY <1>1, <2>1, AppendProperties
  <2>3. Numbered(segs, accepted')
    BY <2>1, <2>2, NumberedAccepted DEF CaptureInv
  <2> QED BY <1>1, <2>3 DEF CaptureInv
<1>5. Stages'
  BY <1>1 DEF CaptureInv, Stages, StorageInit, SealSteps, Idle
<1>6. Sealing'
  BY <1>1, <1>2 DEF CaptureInv, Sealing, SealSteps, Idle
<1>7. Appending'
  BY <1>1, <1>2 DEF CaptureInv, Appending, Working, SealSteps, Idle, Stages
<1>8. Recovering'
  BY <1>1 DEF CaptureInv, Recovering, RecoverySteps, Stages
<1>9. Handling'
  BY <1>1 DEF CaptureInv, Handling, Stages
<1>10. Queued'
  <2> SUFFICES ASSUME op.pc # "error" PROVE Queued'
    BY <1>1 DEF Queued
  <2> DEFINE x == [n |-> Len(accepted) + 1, at |-> t, kind |-> "data"]
             q == Len(queue)
  <2>1. /\ Taken \in Nat /\ q \in Nat /\ Len(accepted) = Taken + q
        /\ \A i \in 1..q :
              /\ queue[i].kind = "data" /\ queue[i].n = Taken + i
              /\ Taken + i \in 1..Len(accepted) /\ accepted[Taken + i] = queue[i]
    BY <1>1, AllQueued
  <2>2. queue \in Seq(Item) /\ accepted \in Seq(Frame) /\ x.kind = "data" /\ x.n = Len(accepted) + 1
    BY DEF CaptureInv, TypeOK
  <2>3. Taken' = Taken
    BY <1>1 DEF Taken
  <2> HIDE DEF x
  <2>4. /\ Len(queue') = q + 1 /\ queue'[q + 1] = x /\ \A i \in 1..q : queue'[i] = queue[i]
        /\ Len(accepted') = Len(accepted) + 1 /\ accepted'[Len(accepted) + 1] = x
        /\ \A i \in 1..Len(accepted) : accepted'[i] = accepted[i]
    <3>1. queue' = Append(queue, x) /\ accepted' = Append(accepted, x)
      BY <1>1 DEF x
    <3> QED BY <3>1, <2>2, AppendProperties
  <2> HIDE DEF q
  <2>5. ASSUME NEW i \in 1..(q + 1)
        PROVE  /\ queue'[i].kind = "data" /\ queue'[i].n = Taken + i
               /\ Taken + i \in 1..Len(accepted') /\ accepted'[Taken + i] = queue'[i]
    <3>1. CASE i = q + 1
      BY <3>1, <2>1, <2>2, <2>4
    <3>2. CASE i # q + 1
      <4>1. i \in 1..q
        BY <3>2, <2>1
      <4> QED BY <4>1, <2>1, <2>4
    <3> QED BY <3>1, <3>2
  <2>6. \A i \in 1..Len(queue') : InQueue(i)'
    BY <1>1, <2>3, <2>4, <2>5 DEF InQueue
  <2>7. queue'[Len(queue')].kind = "data" /\ Len(accepted') = Taken' + Len(queue')
    BY <2>1, <2>2, <2>3, <2>4
  <2> QED BY <2>6, <2>7 DEF Queued
<1>11. Handoff'
  BY <1>1 DEF CaptureInv, Handoff, AllData, Stages, Appending, Between, Working, SealSteps
<1>12. Quota'
  BY <1>1 DEF CaptureInv, Quota, Counting, Working, ResidueBytes, Stages, Idle, SealSteps, RecoverySteps
<1>13. Receipts'
  BY <1>1 DEF CaptureInv, Receipts, Stages, Handoff, AllData
<1> QED BY <1>3, <1>4, <1>5, <1>6, <1>7, <1>8, <1>9, <1>10, <1>11, <1>12, <1>13 DEF CaptureInv

\* offer refuses one and queues the transition.
LEMMA RejectKeeps == ASSUME NEW t \in Times, CaptureInv, Reject(t) PROVE CaptureInv'
<1>1. /\ phase = "run" /\ accepting /\ ~failed
      /\ segs' = segs /\ residue' = residue /\ copied' = copied /\ journal' = journal
      /\ w' = w /\ op' = op /\ dir' = dir /\ terminal' = terminal
      /\ phase' = phase /\ normal' = normal /\ accepting' = FALSE /\ failed' = TRUE
      /\ worker' = worker /\ accepted' = accepted /\ crashes' = crashes
      /\ queue' = Append(queue, [n |-> Len(accepted) + 1, at |-> t, kind |-> "fatal"])
  BY DEF Reject, OnlyHandoff, storageVars, diskVars, receiptVars, handoffVars
<1>2. (Holds' <=> Holds) /\ (Between' <=> Between)
  BY <1>1, SameMemory
<1>3. TypeOK'
  <2> DEFINE x == [n |-> Len(accepted) + 1, at |-> t, kind |-> "fatal"]
  <2>1. t \in Nat /\ accepted \in Seq(Frame) /\ queue \in Seq(Item) /\ Len(accepted) + 1 \in Nat
    BY GenerationAssumption, LenProperties DEF CaptureInv, TypeOK
  <2>2. x \in Item
    BY <2>1, ItemTypes DEF Item
  <2> HIDE DEF x
  <2>3. Append(queue, x) \in Seq(Item)
    BY <2>1, <2>2, AppendProperties
  <2>4. queue' \in Seq(Item)
    BY <1>1, <2>3 DEF x
  <2> QED BY <1>1, <2>4 DEF CaptureInv, TypeOK
<1>4. Chain(segs') /\ Numbered(segs', accepted')
  BY <1>1 DEF CaptureInv
<1>5. Stages'
  BY <1>1 DEF CaptureInv, Stages, StorageInit, SealSteps, Idle
<1>6. Sealing'
  BY <1>1, <1>2 DEF CaptureInv, Sealing, SealSteps, Idle
<1>7. Appending'
  BY <1>1, <1>2 DEF CaptureInv, Appending, Working, SealSteps, Idle, Stages
<1>8. Recovering'
  BY <1>1 DEF CaptureInv, Recovering, RecoverySteps, Stages
<1>9. Handling'
  BY <1>1 DEF CaptureInv, Handling, Stages
<1>10. Queued'
  <2> SUFFICES ASSUME op.pc # "error" PROVE Queued'
    BY <1>1 DEF Queued
  <2> DEFINE x == [n |-> Len(accepted) + 1, at |-> t, kind |-> "fatal"]
             q == Len(queue)
  <2>1. /\ Taken \in Nat /\ q \in Nat /\ Len(accepted) = Taken + q
        /\ \A i \in 1..q :
              /\ queue[i].kind = "data" /\ queue[i].n = Taken + i
              /\ Taken + i \in 1..Len(accepted) /\ accepted[Taken + i] = queue[i]
    BY <1>1, AllQueued
  <2>2. queue \in Seq(Item) /\ x.kind = "fatal" /\ x.n = Len(accepted) + 1
    BY ItemTypes DEF CaptureInv, TypeOK
  <2>3. Taken' = Taken
    BY <1>1 DEF Taken
  <2> HIDE DEF x
  <2>4. Len(queue') = q + 1 /\ queue'[q + 1] = x /\ \A i \in 1..q : queue'[i] = queue[i]
    <3>1. queue' = Append(queue, x)
      BY <1>1 DEF x
    <3> QED BY <3>1, <2>2, AppendProperties
  <2> HIDE DEF q
  <2>6. ASSUME NEW i \in 1..(q + 1) PROVE InQueue(i)'
    <3>1. CASE i = q + 1
      BY <3>1, <1>1, <2>1, <2>2, <2>3, <2>4 DEF InQueue
    <3>2. CASE i # q + 1
      <4>1. i \in 1..q
        BY <3>2, <2>1
      <4> QED BY <4>1, <1>1, <2>1, <2>3, <2>4 DEF InQueue
    <3> QED BY <3>1, <3>2
  <2>7. /\ queue' # <<>> /\ queue'[Len(queue')].kind # "data"
        /\ Len(accepted') = Taken' + Len(queue') - 1
    BY <1>1, <2>1, <2>2, <2>3, <2>4
  <2> QED BY <2>4, <2>6, <2>7 DEF Queued
<1>11. Handoff'
  BY <1>1 DEF CaptureInv, Handoff, AllData, Stages, Appending, Between, Working, SealSteps
<1>12. Quota'
  BY <1>1 DEF CaptureInv, Quota, Counting, Working, ResidueBytes, Stages, Idle, SealSteps, RecoverySteps
<1>13. Receipts'
  BY <1>1 DEF CaptureInv, Receipts, Stages, Handoff, AllData
<1> QED BY <1>3, <1>4, <1>5, <1>6, <1>7, <1>8, <1>9, <1>10, <1>11, <1>12, <1>13 DEF CaptureInv

\* pipeline.stop queues its marker.
LEMMA StopPipelineKeeps == CaptureInv /\ StopPipeline => CaptureInv'
<1> SUFFICES ASSUME CaptureInv, StopPipeline PROVE CaptureInv'
  OBVIOUS
<1>1. /\ phase = "run" /\ normal' \in BOOLEAN
      /\ segs' = segs /\ residue' = residue /\ copied' = copied /\ journal' = journal
      /\ w' = w /\ op' = op /\ dir' = dir /\ terminal' = terminal
      /\ accepting' = FALSE /\ failed' = failed /\ worker' = worker /\ accepted' = accepted
      /\ crashes' = crashes
      /\ phase' = (IF worker = "done" THEN "down" ELSE "draining")
      /\ queue' = (IF accepting THEN Append(queue, Stop) ELSE queue)
  BY DEF StopPipeline, storageVars, diskVars, receiptVars, handoffVars
<1>2. (Holds' <=> Holds) /\ (Between' <=> Between)
  BY <1>1, SameMemory
<1>3. TypeOK'
  <2>1. queue' \in Seq(Item)
    <3>1. queue \in Seq(Item) /\ Stop \in Item
      BY ItemTypes DEF CaptureInv, TypeOK
    <3>2. Append(queue, Stop) \in Seq(Item)
      BY <3>1, AppendProperties
    <3> QED BY <1>1, <3>1, <3>2
  <2> QED BY <1>1, <2>1 DEF CaptureInv, TypeOK
<1>4. Chain(segs') /\ Numbered(segs', accepted')
  BY <1>1 DEF CaptureInv
<1>5. Stages'
  BY <1>1 DEF CaptureInv, Stages, StorageInit, SealSteps, Idle
<1>6. Sealing'
  BY <1>1, <1>2 DEF CaptureInv, Sealing, SealSteps, Idle
<1>7. Appending'
  BY <1>1, <1>2 DEF CaptureInv, Appending, Working, SealSteps, Idle, Stages
<1>8. Recovering'
  BY <1>1 DEF CaptureInv, Recovering, RecoverySteps, Stages
<1>9. Handling'
  BY <1>1 DEF CaptureInv, Handling, Stages
<1>10. Queued'
  <2> SUFFICES ASSUME op.pc # "error", accepting PROVE Queued'
    BY <1>1 DEF CaptureInv, Queued, InQueue, Taken
  <2> DEFINE x == Stop
             q == Len(queue)
  <2>1. /\ Taken \in Nat /\ q \in Nat /\ Len(accepted) = Taken + q
        /\ \A i \in 1..q :
              /\ queue[i].kind = "data" /\ queue[i].n = Taken + i
              /\ Taken + i \in 1..Len(accepted) /\ accepted[Taken + i] = queue[i]
    BY <1>1, AllQueued
  <2>2. queue \in Seq(Item) /\ x.kind = "stop" /\ x = Stop
    BY ItemTypes DEF CaptureInv, TypeOK
  <2>3. Taken' = Taken
    BY <1>1 DEF Taken
  <2> HIDE DEF x
  <2>4. Len(queue') = q + 1 /\ queue'[q + 1] = x /\ \A i \in 1..q : queue'[i] = queue[i]
    <3>1. queue' = Append(queue, x)
      BY <1>1 DEF x
    <3> QED BY <3>1, <2>2, AppendProperties
  <2> HIDE DEF q
  <2>6. ASSUME NEW i \in 1..(q + 1) PROVE InQueue(i)'
    <3>1. CASE i = q + 1
      BY <3>1, <1>1, <2>1, <2>2, <2>3, <2>4 DEF InQueue
    <3>2. CASE i # q + 1
      <4>1. i \in 1..q
        BY <3>2, <2>1
      <4> QED BY <4>1, <1>1, <2>1, <2>3, <2>4 DEF InQueue
    <3> QED BY <3>1, <3>2
  <2>7. /\ queue' # <<>> /\ queue'[Len(queue')].kind # "data"
        /\ Len(accepted') = Taken' + Len(queue') - 1
    BY <1>1, <2>1, <2>2, <2>3, <2>4
  <2> QED BY <2>4, <2>6, <2>7 DEF Queued
<1>11. Handoff'
  BY <1>1 DEF CaptureInv, Handoff, AllData, Stages, Appending, Between, Working, SealSteps
<1>12. Quota'
  BY <1>1 DEF CaptureInv, Quota, Counting, Working, ResidueBytes, Stages, Idle, SealSteps, RecoverySteps
<1>13. Receipts'
  BY <1>1 DEF CaptureInv, Receipts, Stages, Handoff, AllData
<1> QED BY <1>3, <1>4, <1>5, <1>6, <1>7, <1>8, <1>9, <1>10, <1>11, <1>12, <1>13 DEF CaptureInv

\* The temporary terminal receipt is written.
LEMMA WriteTerminalTempKeeps == CaptureInv /\ WriteTerminalTemp => CaptureInv'
<1> SUFFICES ASSUME CaptureInv, WriteTerminalTemp PROVE CaptureInv'
  OBVIOUS
<1>1. /\ phase = "terminal"
      /\ segs' = segs /\ copied' = copied /\ journal' = journal /\ w' = w
      /\ op' = op /\ dir' = dir /\ terminal' = terminal /\ normal' = normal
      /\ queue' = queue /\ accepting' = accepting /\ failed' = failed /\ worker' = worker
      /\ accepted' = accepted /\ crashes' = crashes
      /\ residue' = residue \cup {"terminal"}
      /\ phase' = (IF "terminal" \in residue THEN "refused" ELSE "pending")
  BY DEF WriteTerminalTemp, storageVars, diskVars, receiptVars, handoffVars
<1>2. (Holds' <=> Holds) /\ (Between' <=> Between)
  BY <1>1, SameMemory
<1>3. TypeOK'
  BY <1>1, IdleType DEF CaptureInv, TypeOK
<1>4. Chain(segs') /\ Numbered(segs', accepted')
  BY <1>1 DEF CaptureInv
<1>5. Stages'
  BY <1>1 DEF CaptureInv, Stages, StorageInit, SealSteps, Idle
<1>6. Sealing'
  BY <1>1, <1>2 DEF CaptureInv, Sealing, SealSteps, Idle
<1>7. Appending'
  BY <1>1, <1>2 DEF CaptureInv, Appending, Working, SealSteps, Idle, Stages
<1>8. Recovering'
  BY <1>1 DEF CaptureInv, Recovering, RecoverySteps, Stages
<1>9. Handling'
  BY <1>1 DEF CaptureInv, Handling, Stages
<1>10. Queued'
  BY <1>1 DEF CaptureInv, Queued, InQueue, Taken, Handling, Stages, Idle, Handoff
<1>11. Handoff'
  BY <1>1 DEF CaptureInv, Handoff, AllData, Stages, Appending, Between, Working, SealSteps
<1>12. Quota'
  BY <1>1 DEF CaptureInv, Quota, Counting, Working, ResidueBytes, Stages, Idle, SealSteps, RecoverySteps
<1>13. Receipts'
  BY <1>1 DEF CaptureInv, Receipts, Stages, Handoff, AllData
<1> QED BY <1>3, <1>4, <1>5, <1>6, <1>7, <1>8, <1>9, <1>10, <1>11, <1>12, <1>13 DEF CaptureInv

\* The recovering constructor returns or raises.
LEMMA RecoveryEndsKeeps == CaptureInv /\ RecoveryEnds => CaptureInv'
<1> SUFFICES ASSUME CaptureInv, RecoveryEnds PROVE CaptureInv'
  OBVIOUS
<1>1. /\ phase = "recover" /\ op.pc \in {"ok", "error", "refuse"}
      /\ segs' = segs /\ residue' = residue /\ copied' = copied /\ journal' = journal
      /\ w' = w /\ op' = Idle /\ dir' = dir /\ terminal' = terminal
      /\ normal' = normal /\ queue' = queue /\ accepting' = accepting /\ failed' = failed
      /\ worker' = worker /\ accepted' = accepted /\ crashes' = crashes
      /\ phase' = (IF op.pc = "ok" THEN "terminal" ELSE IF op.pc = "error" THEN "down" ELSE "refused")
  BY DEF RecoveryEnds, storageVars, diskVars, receiptVars, handoffVars
<1>2. (Holds' <=> Holds) /\ (Between' <=> Between)
  BY <1>1, SameMemory
<1>3. TypeOK'
  BY <1>1, IdleType DEF CaptureInv, TypeOK
<1>4. Chain(segs') /\ Numbered(segs', accepted')
  BY <1>1 DEF CaptureInv
<1>5. Stages'
  BY <1>1 DEF CaptureInv, Stages, StorageInit, SealSteps, Idle
<1>6. Sealing'
  BY <1>1, <1>2 DEF CaptureInv, Sealing, SealSteps, Idle
<1>7. Appending'
  BY <1>1, <1>2 DEF CaptureInv, Appending, Working, SealSteps, Idle, Stages
<1>8. Recovering'
  BY <1>1 DEF CaptureInv, Recovering, RecoverySteps, Stages
<1>9. Handling'
  BY <1>1 DEF CaptureInv, Handling, Stages
<1>10. Queued'
  BY <1>1 DEF CaptureInv, Queued, InQueue, Taken, Handling, Stages, Idle, Handoff
<1>11. Handoff'
  BY <1>1 DEF CaptureInv, Handoff, AllData, Stages, Appending, Between, Working, SealSteps
<1>12. Quota'
  BY <1>1 DEF CaptureInv, Quota, Counting, Working, ResidueBytes, Stages, Idle, SealSteps, RecoverySteps
<1>13. Receipts'
  <2>1. op.pc = "ok" => journal = "no" /\ AllSealed(segs)
    BY <1>1 DEF CaptureInv, Recovering
  <2>2. terminal = "none" /\ worker = "none" /\ ~normal
    BY <1>1 DEF CaptureInv, Stages, Receipts
  <2> QED BY <1>1, <2>1, <2>2 DEF Receipts
<1> QED BY <1>3, <1>4, <1>5, <1>6, <1>7, <1>8, <1>9, <1>10, <1>11, <1>12, <1>13 DEF CaptureInv

\* The worker takes the head of the queue.
LEMMA TakeKeeps == CaptureInv /\ Take => CaptureInv'
<1> SUFFICES ASSUME CaptureInv, Take PROVE CaptureInv'
  OBVIOUS
<1> DEFINE f == queue[1]
<1>1. /\ worker = "get" /\ queue # <<>> /\ queue' = Tail(queue)
      /\ segs' = segs /\ residue' = residue /\ copied' = copied /\ journal' = journal
      /\ w' = w /\ dir' = dir /\ terminal' = terminal /\ phase' = phase
      /\ normal' = normal /\ accepting' = accepting /\ failed' = failed
      /\ accepted' = accepted /\ crashes' = crashes
      /\ f = Stop => worker' = "close" /\ op' = [pc |-> IF w.handle THEN "fsync" ELSE "ok",
                                                 then |-> "close", item |-> NoFrame]
      /\ f # Stop => /\ worker' = IF f.kind = "fatal" THEN "fatal" ELSE "append"
                     /\ op' = [pc |-> "check", then |-> "append", item |-> f]
  <2>1. Head(queue) = queue[1]
    BY DEF CaptureInv, TypeOK, Take
  <2> QED BY <2>1 DEF Take, OnlyWorker, StartClose, StartAppend, diskVars, receiptVars
<1>2. (Holds' <=> Holds) /\ (Between' <=> Between)
  BY <1>1, SameMemory
<1>a. /\ op = Idle /\ op.pc = "idle" /\ phase \in {"run", "draining"} /\ dir = "receipt"
      /\ terminal = "none"
  BY <1>1 DEF CaptureInv, Stages, Idle
<1>b. /\ queue \in Seq(Item) /\ Len(queue) \in Nat /\ 1 \in 1..Len(queue) /\ f \in Item
      /\ queue' \in Seq(Item) /\ Len(queue') = Len(queue) - 1
      /\ \A i \in 1..Len(queue') : queue'[i] = queue[i + 1]
  <2>1. queue \in Seq(Item)
    BY DEF CaptureInv, TypeOK
  <2>2. Len(queue) \in Nat /\ 1 \in 1..Len(queue)
    BY <1>1, <2>1, LenProperties, EmptySeq
  <2>3. f \in Item
    BY <2>1, <2>2, ElementOfSeq
  <2> QED BY <1>1, <2>1, <2>2, <2>3, HeadTailProperties
<1>c. Taken = w.last.n /\ Taken \in Nat
  BY <1>1 DEF CaptureInv, TypeOK, Writer, Frame, Taken
<1>d. /\ f.kind # "data" => Len(queue) = 1 /\ ~accepting
      /\ f # Stop => f.n = Taken + 1
      /\ f.kind = "data" => Taken + 1 \in 1..Len(accepted) /\ accepted[Taken + 1] = f
      /\ f.kind \in {"data", "fatal", "stop"} /\ (f.kind = "stop" => f = Stop)
      /\ f.kind = "fatal" => failed
  BY <1>1, <1>a, <1>b DEF CaptureInv, Queued, InQueue
<1>e. f # Stop => f \in Frame /\ f.kind \in {"data", "fatal"} /\ f.n \in Nat /\ f.at \in Nat
  BY <1>b, <1>d, ItemTypes DEF Item, Frame
<1>f. Stop.kind = "stop"
  BY ItemTypes
<1> HIDE DEF f
<1>3. TypeOK'
  <2>1. op' \in Operation
    BY <1>1, <1>e, ItemTypes
  <2> QED BY <1>1, <1>b, <2>1 DEF CaptureInv, TypeOK
<1>4. Chain(segs') /\ Numbered(segs', accepted')
  BY <1>1 DEF CaptureInv
<1>5. Stages'
  BY <1>1, <1>a DEF CaptureInv, Stages, SealSteps
<1>6. Sealing'
  <2>1. w.handle \in BOOLEAN
    BY DEF CaptureInv, TypeOK, Writer
  <2>2. CASE f = Stop /\ w.handle
    <3>1. op'.pc = "fsync" /\ segs[w.next].stage = "partial" /\ Holds /\ segs[w.next].frames # <<>>
      BY <2>2, <1>1, <1>a DEF CaptureInv, TypeOK, Appending, Working
    <3> QED BY <1>1, <1>2, <2>1, <2>2, <3>1 DEF Sealing
  <2>3. CASE ~(f = Stop /\ w.handle)
    BY <2>3, <1>1 DEF Sealing, SealSteps
  <2> QED BY <2>2, <2>3
<1>7. Appending'
  BY <1>1, <1>2, <1>a DEF CaptureInv, Appending, Working, SealSteps
<1>8. Recovering'
  BY <1>1, <1>a DEF Recovering
<1>9. Handling'
  BY <1>1, <1>c, <1>d, <1>e, <1>f DEF Handling
<1>10. Queued'
  <2>1. CASE f # Stop /\ f.kind = "data"
    <3>1. Taken' = Taken + 1 /\ worker' = "append"
      BY <2>1, <1>1, <1>d DEF Taken
    <3>2. ASSUME NEW i \in 1..Len(queue') PROVE InQueue(i)'
      <4>1. i + 1 \in 1..Len(queue) /\ queue'[i] = queue[i + 1] /\ Taken' + i = Taken + (i + 1)
            /\ (i + 1 = Len(queue) => i = Len(queue'))
        <5>1. /\ \A j, m, n \in Int : n = m - 1 /\ j \in 1..n => j + 1 \in 1..m /\ (j + 1 = m => j = n)
              /\ \A a, b, j \in Int : b = a + 1 => b + j = a + (j + 1)
          OBVIOUS
        <5>2. Len(queue') \in Int /\ Len(queue) \in Int /\ i \in Int /\ Taken \in Int /\ Taken' \in Int
          BY <1>b, <1>c, <3>1, LenProperties
        <5> QED BY <3>1, <1>b, <5>1, <5>2
      <4>2. InQueue(i + 1)
        BY <4>1, <1>1, <1>a DEF CaptureInv, Queued
      <4> QED BY <4>1, <4>2, <1>1 DEF InQueue
    <3>3. Len(accepted') = IF queue' # <<>> /\ queue'[Len(queue')].kind # "data"
                           THEN Taken' + Len(queue') - 1 ELSE Taken' + Len(queue')
      <4>1. Len(accepted) = IF queue[Len(queue)].kind # "data"
                            THEN Taken + Len(queue) - 1 ELSE Taken + Len(queue)
        BY <1>1, <1>a DEF CaptureInv, Queued
      <4>2. CASE queue' = <<>>
        <5>1. Len(queue) = 1
          BY <4>2, <1>b, EmptySeq
        <5> QED BY <4>1, <4>2, <5>1, <1>1, <1>b, <1>c, <3>1, <2>1 DEF f
      <4>3. CASE queue' # <<>>
        <5>1. Len(queue') \in 1..Len(queue') /\ Len(queue') + 1 = Len(queue)
          BY <4>3, <1>b, EmptySeq
        <5>2. queue'[Len(queue')] = queue[Len(queue)]
          BY <5>1, <1>b
        <5>3. \A a, b, m, n \in Int : b = a + 1 /\ n + 1 = m => b + n = a + m /\ b + n - 1 = a + m - 1
          OBVIOUS
        <5>4. Len(queue') \in Int /\ Len(queue) \in Int /\ Taken \in Int /\ Taken' \in Int
          BY <1>b, <1>c, <3>1, LenProperties
        <5>5. Taken' + Len(queue') = Taken + Len(queue) /\ Taken' + Len(queue') - 1 = Taken + Len(queue) - 1
          BY <5>1, <5>3, <5>4, <3>1
        <5> QED BY <4>1, <4>3, <5>2, <5>5, <1>1
      <4> QED BY <4>2, <4>3
    <3> QED BY <3>2, <3>3 DEF Queued
  <2>2. CASE ~(f # Stop /\ f.kind = "data")
    BY <2>2, <1>1, <1>d, <1>f DEF Queued
  <2> QED BY <2>1, <2>2
<1>11. Handoff'
  <2>1. f.kind # "data" => queue' = <<>>
    BY <1>b, <1>d, EmptySeq
  <2>2. f = Stop => w.last.n = Len(accepted)
    <3>1. f = Stop => Len(queue) = 1 /\ queue[Len(queue)].kind # "data"
      BY <1>d, <1>f DEF f
    <3>2. f = Stop => Len(accepted) = Taken + Len(queue) - 1
      BY <3>1, <1>1, <1>a DEF CaptureInv, Queued
    <3>3. \A a \in Int : a + 1 - 1 = a
      OBVIOUS
    <3>4. f = Stop => Len(accepted) = Taken + 1 - 1
      BY <3>1, <3>2
    <3> QED BY <3>3, <3>4, <1>c
  <2>3. /\ worker' \in {"close", "fatal", "append"}
        /\ worker' = "fatal" => failed /\ f.kind # "data"
        /\ worker' = "close" => f = Stop
        /\ worker' # "append" => f.kind # "data"
    BY <1>1, <1>d, <1>e, <1>f
  <2> QED BY <1>1, <1>d, <2>1, <2>2, <2>3 DEF CaptureInv, Handoff, AllData
<1>12. Quota'
  <2>1. Working /\ op'.pc \notin {"promote", "replace"}
    BY <1>1, <1>a DEF Working
  <2> QED BY <1>1, <1>a, <2>1 DEF CaptureInv, Quota, Counting, ResidueBytes
<1>13. Receipts'
  BY <1>1, <1>a DEF CaptureInv, Receipts, Stages
<1> QED BY <1>3, <1>4, <1>5, <1>6, <1>7, <1>8, <1>9, <1>10, <1>11, <1>12, <1>13 DEF CaptureInv

-----------------------------------------------------------------------------
(* The steps that change the last segment *)

Changed(ss, tt, t) ==
    /\ tt \in Seq(Segment) /\ Len(tt) = Len(ss) /\ tt[Len(ss)] = t
    /\ Chain(tt) /\ PlacesOf(tt) = PlacesOf(ss)
    /\ \A p \in PlacesOf(ss) : FrameAt(tt, p) = FrameAt(ss, p)
    /\ PrevLast(tt, Len(ss)) = PrevLast(ss, Len(ss))
    /\ PrevSha(tt, Len(ss)) = PrevSha(ss, Len(ss))
    /\ AllSealed(tt) <=> t.stage = "sealed"
    /\ DataBytes(ss) \in Nat /\ DataBytes(tt) \in Nat
    /\ TornBytes(ss[Len(ss)]) \in Nat /\ TornBytes(t) \in Nat
    /\ TornBytes(ss[Len(ss)]) <= DataBytes(ss)
    /\ DataBytes(tt) + TornBytes(ss[Len(ss)]) =
          DataBytes(ss) + TornBytes(t) + (IF t.stage = "sealed" THEN ManifestBytes ELSE 0)

\* A sound last segment with the same frames keeps chain and numbering.
LEMMA LastChanged ==
    ASSUME NEW ss \in Seq(Segment), NEW acc, NEW t \in Segment, Chain(ss), Numbered(ss, acc),
           Len(ss) # 0, ss[Len(ss)].stage # "sealed", t.frames = ss[Len(ss)].frames,
           Sound(t, PrevLast(ss, Len(ss)), PrevSha(ss, Len(ss))),
           NEW tt, tt = [ss EXCEPT ![Len(ss)] = t]
    PROVE  LastOnly(ss, tt) /\ Changed(ss, tt, t) /\ Numbered(tt, acc)
<1>1. LastOnly(ss, tt) /\ tt[Len(ss)] = t /\ Len(ss) \in 1..Len(ss)
  BY NewLast
<1>2. tt \in Seq(Segment) /\ Len(tt) = Len(ss)
  BY <1>1 DEF LastOnly
<1>3. /\ Chain(tt)
      /\ PrevLast(tt, Len(ss)) = PrevLast(ss, Len(ss))
      /\ PrevSha(tt, Len(ss)) = PrevSha(ss, Len(ss))
      /\ AllSealed(tt) <=> t.stage = "sealed"
  BY <1>1, ChainLast
<1>4. IsFiniteSet(PlacesOf(ss))
  BY DEF Numbered
<1>5. /\ DataBytes(tt) + TornBytes(ss[Len(ss)]) =
            DataBytes(ss) + TornBytes(t) + (IF t.stage = "sealed" THEN ManifestBytes ELSE 0)
      /\ SameFrames(ss, tt) /\ PlacesOf(tt) = PlacesOf(ss)
      /\ TornBytes(ss[Len(ss)]) \in Nat /\ TornBytes(t) \in Nat
      /\ TornBytes(ss[Len(ss)]) <= DataBytes(ss)
  BY <1>1, <1>3, <1>4, BytesChanged
<1>6. Numbered(tt, acc) /\ \A p \in PlacesOf(ss) : FrameAt(tt, p) = FrameAt(ss, p)
  BY <1>5, NumberedSame, SamePlaces
<1>7. DataBytes(ss) \in Nat /\ DataBytes(tt) \in Nat
  BY <1>2, <1>3, <1>4, <1>5, Bytes
<1> QED BY <1>1, <1>2, <1>3, <1>5, <1>6, <1>7 DEF Changed

\* The synced flag leaves the rest of a segment alone.
LEMMA Flags ==
    ASSUME NEW s \in Segment, NEW last, NEW sha, Sound(s, last, sha)
    PROVE  /\ [s EXCEPT !.synced = TRUE] \in Segment
           /\ Sound([s EXCEPT !.synced = TRUE], last, sha)
           /\ [s EXCEPT !.synced = TRUE].frames = s.frames
           /\ [s EXCEPT !.synced = TRUE].bucket = s.bucket
           /\ [s EXCEPT !.synced = TRUE].torn = s.torn
           /\ [s EXCEPT !.synced = TRUE].stage = s.stage
           /\ [s EXCEPT !.synced = TRUE].synced = TRUE
           /\ TornBytes([s EXCEPT !.synced = TRUE]) = TornBytes(s)
<1>1. /\ [s EXCEPT !.synced = TRUE] \in Segment
      /\ [s EXCEPT !.synced = TRUE].frames = s.frames
      /\ [s EXCEPT !.synced = TRUE].bucket = s.bucket
      /\ [s EXCEPT !.synced = TRUE].torn = s.torn
      /\ [s EXCEPT !.synced = TRUE].stage = s.stage
      /\ [s EXCEPT !.synced = TRUE].manifest = s.manifest
      /\ [s EXCEPT !.synced = TRUE].synced = TRUE
  BY DEF Segment
<1>2. Sound([s EXCEPT !.synced = TRUE], last, sha)
  BY <1>1 DEF Sound
<1>3. TornBytes([s EXCEPT !.synced = TRUE]) = TornBytes(s)
  BY <1>1 DEF TornBytes
<1> QED BY <1>1, <1>2, <1>3

\* What the invariant says of the files.
LEMMA DiskFacts ==
    ASSUME CaptureInv
    PROVE  /\ segs \in Seq(Segment) /\ Len(segs) \in Nat /\ Chain(segs) /\ Numbered(segs, accepted)
           /\ IsFiniteSet(PlacesOf(segs)) /\ Cardinality(PlacesOf(segs)) \in Nat
           /\ DataBytes(segs) \in Nat
           /\ Len(segs) # 0 =>
                 /\ Len(segs) \in 1..Len(segs) /\ segs[Len(segs)] \in Segment
                 /\ Sound(segs[Len(segs)], PrevLast(segs, Len(segs)), PrevSha(segs, Len(segs)))
<1>1. segs \in Seq(Segment) /\ Chain(segs) /\ Numbered(segs, accepted)
  BY DEF CaptureInv, TypeOK
<1>2. IsFiniteSet(PlacesOf(segs)) /\ Len(segs) \in Nat
  BY <1>1, SegmentFields DEF Numbered
<1>3. Len(segs) # 0 => Len(segs) \in 1..Len(segs) /\ segs[Len(segs)] \in Segment
  BY <1>1, <1>2, SegmentFields
<1>4. Len(segs) # 0 => Sound(segs[Len(segs)], PrevLast(segs, Len(segs)), PrevSha(segs, Len(segs)))
  BY <1>1, <1>3 DEF Chain
<1> QED BY <1>1, <1>2, <1>3, <1>4, Bytes

\* write_emergency_transition.
LEMMA WriteEmergencyKeeps == CaptureInv /\ WriteEmergency => CaptureInv'
<1> SUFFICES ASSUME CaptureInv, WriteEmergency PROVE CaptureInv'
  OBVIOUS
<1>1. /\ worker = "emergency" /\ worker' = "abort"
      /\ segs' = segs /\ residue' = residue /\ copied' = copied /\ op' = op
      /\ dir' = dir /\ terminal' = terminal /\ phase' = phase /\ normal' = normal
      /\ queue' = queue /\ accepting' = accepting /\ failed' = failed
      /\ accepted' = accepted /\ crashes' = crashes
      /\ w' = w \/ w' = [w EXCEPT !.known = @ + JournalBytes]
      /\ journal' \in {"yes", "torn", journal}
  BY DEF WriteEmergency, Emergency, OnlyWorker, receiptVars
<1>2. /\ op = Idle /\ op.pc = "idle" /\ phase \in {"run", "draining"} /\ failed
      /\ terminal = "none" /\ dir = "receipt"
  BY <1>1 DEF CaptureInv, Stages, Idle, Handoff
<1>3. TypeOK'
  <2>1. w' \in Writer /\ w'.handle = w.handle /\ w'.next = w.next
    <3>1. w \in Writer /\ JournalBytes \in Nat
      BY SizeAssumption DEF CaptureInv, TypeOK
    <3> QED BY <1>1, <3>1 DEF Writer
  <2> QED BY <1>1, <2>1 DEF CaptureInv, TypeOK
<1>4. Chain(segs') /\ Numbered(segs', accepted')
  BY <1>1 DEF CaptureInv
<1>5. Stages' /\ Sealing' /\ Appending' /\ Recovering' /\ Handling' /\ Queued'
  BY <1>1, <1>2 DEF CaptureInv, Stages, Sealing, SealSteps, Appending, Working, Recovering,
                    Handling, Queued
<1>6. Handoff' /\ Receipts'
  BY <1>1, <1>2 DEF CaptureInv, Handoff, Receipts, AllData
<1>7. Quota'
  BY <1>1, <1>2 DEF CaptureInv, Quota, ResidueBytes, Counting, Working
<1> QED BY <1>3, <1>4, <1>5, <1>6, <1>7 DEF CaptureInv

\* _abort_writer and discard_pending.
LEMMA AbortKeeps == CaptureInv /\ AbortAndDiscard => CaptureInv'
<1> SUFFICES ASSUME CaptureInv, AbortAndDiscard PROVE CaptureInv'
  OBVIOUS
<1>1. /\ worker = "abort" /\ worker' = "done" /\ queue' = <<>>
      /\ residue' = residue /\ copied' = copied /\ journal' = journal /\ op' = op
      /\ dir' = dir /\ terminal' = terminal /\ phase' = phase /\ normal' = normal
      /\ accepting' = accepting /\ failed' = failed /\ accepted' = accepted /\ crashes' = crashes
      /\ w' = [w EXCEPT !.handle = FALSE]
      /\ segs' = segs \/ (w.handle /\ segs' = [segs EXCEPT ![w.next].synced = TRUE])
  BY DEF AbortAndDiscard, Abort, OnlyWorker, receiptVars
<1>2. /\ op = Idle /\ op.pc = "idle" /\ phase \in {"run", "draining"} /\ failed
      /\ terminal = "none" /\ dir = "receipt"
  BY <1>1 DEF CaptureInv, Stages, Idle, Handoff
<1>3. /\ segs' \in Seq(Segment) /\ Chain(segs') /\ Numbered(segs', accepted)
      /\ DataBytes(segs') = DataBytes(segs)
  <2>1. CASE segs' = segs
    BY <2>1, DiskFacts
  <2>2. CASE w.handle /\ segs' = [segs EXCEPT ![w.next].synced = TRUE]
    <3> DEFINE t == [segs[Len(segs)] EXCEPT !.synced = TRUE]
    <3>1. w.next = Len(segs) /\ segs[Len(segs)].stage = "partial" /\ Len(segs) # 0
      BY <2>2 DEF CaptureInv, TypeOK
    <3>2. segs' = [segs EXCEPT ![Len(segs)] = t]
      BY <2>2, <3>1
    <3>3. /\ t \in Segment /\ Sound(t, PrevLast(segs, Len(segs)), PrevSha(segs, Len(segs)))
          /\ t.frames = segs[Len(segs)].frames /\ t.stage = "partial"
          /\ TornBytes(t) = TornBytes(segs[Len(segs)])
      BY <3>1, DiskFacts, Flags
    <3> HIDE DEF t
    <3>4. /\ segs' \in Seq(Segment) /\ Chain(segs') /\ Numbered(segs', accepted)
          /\ DataBytes(segs) \in Nat /\ DataBytes(segs') \in Nat /\ TornBytes(t) \in Nat
          /\ DataBytes(segs') + TornBytes(segs[Len(segs)]) = DataBytes(segs) + TornBytes(t) + 0
      BY <3>1, <3>2, <3>3, DiskFacts, LastChanged DEF Changed
    <3> QED BY <3>3, <3>4
  <2> QED BY <1>1, <2>1, <2>2
<1>4. TypeOK'
  <2>1. w' \in Writer /\ w'.handle = FALSE
    BY <1>1 DEF CaptureInv, TypeOK, Writer
  <2>2. queue' \in Seq(Item)
    BY <1>1
  <2> QED BY <1>1, <1>3, <2>1, <2>2 DEF CaptureInv, TypeOK
<1>5. Stages' /\ Sealing' /\ Appending' /\ Recovering' /\ Handling' /\ Queued'
  BY <1>1, <1>2 DEF CaptureInv, Stages, Sealing, SealSteps, Appending, Working, Recovering,
                    Handling, Queued
<1>6. Handoff' /\ Receipts'
  BY <1>1, <1>2 DEF CaptureInv, Handoff, Receipts
<1>7. Quota'
  BY <1>1, <1>2, <1>3 DEF CaptureInv, Quota, ResidueBytes, Counting, Working
<1> QED BY <1>1, <1>3, <1>4, <1>5, <1>6, <1>7 DEF CaptureInv

\* recover_previous_generations opens the directory.
LEMMA RestartKeeps == CaptureInv /\ Restart => CaptureInv'
<1> SUFFICES ASSUME CaptureInv, Restart PROVE CaptureInv'
  OBVIOUS
<1>1. /\ phase = "down" /\ dir # "none" /\ segs' = segs /\ residue' = residue /\ copied' = copied
      /\ journal' = journal /\ dir' = dir /\ terminal' = terminal /\ normal' = FALSE
      /\ queue' = <<>> /\ accepting' = FALSE /\ failed' = FALSE /\ worker' = "none"
      /\ accepted' = accepted /\ crashes' = crashes
      /\ IF dir = "made" \/ Ambiguous
         THEN phase' = "refused" /\ w' = w /\ op' = op
         ELSE phase' = "recover" /\ w' = Loaded
              /\ op' = [pc |-> "scan", then |-> "recover", item |-> NoFrame]
  BY DEF Restart, StartRecovery, storageVars, diskVars, receiptVars
<1>2. /\ worker \in {"none", "done"} /\ op = Idle /\ op.pc = "idle" /\ terminal = "none"
      /\ NoFrame \in Frame
  BY <1>1, IdleType DEF CaptureInv, Stages, Idle, TypeOK
<1>3. Chain(segs') /\ Numbered(segs', accepted')
  BY <1>1 DEF CaptureInv
<1>4. CASE dir = "made" \/ Ambiguous
  <2>0. queue' \in Seq(Item) /\ w' = w /\ op' = op /\ phase' = "refused"
    BY <1>1, <1>4
  <2>1. TypeOK'
    BY <1>1, <2>0 DEF CaptureInv, TypeOK
  <2>2. Stages' /\ Sealing' /\ Appending' /\ Recovering' /\ Handling' /\ Queued'
    BY <1>1, <1>2, <1>4 DEF CaptureInv, Stages, StorageInit, Sealing, SealSteps, Appending, Working,
                            Recovering, Handling, Queued
  <2>3. Handoff' /\ Receipts'
    BY <1>1, <1>2, <1>4 DEF CaptureInv, Handoff, Receipts
  <2>4. Quota'
    BY <1>1, <1>2, <1>4 DEF CaptureInv, Quota, ResidueBytes, Counting, Working
  <2> QED BY <1>3, <2>1, <2>2, <2>3, <2>4 DEF CaptureInv
<1>5. CASE ~(dir = "made" \/ Ambiguous)
  <2>0. /\ phase' = "recover" /\ w' = Loaded /\ op' = [pc |-> "scan", then |-> "recover", item |-> NoFrame]
        /\ dir = "receipt"
    BY <1>1, <1>5 DEF CaptureInv, TypeOK
  <2>1. /\ "manifest" \notin residue /\ copied = 0 /\ journal = "no"
    <3>1. copied \in Nat
      BY DEF CaptureInv, TypeOK
    <3>2. "manifest" \notin residue /\ ~(copied > 0) /\ journal = "no"
      BY <1>5 DEF Ambiguous, Verified
    <3> QED BY <3>1, <3>2
  <2>2. DirectorySize = DataBytes(segs)
    <3>1. ResidueBytes = 0
      BY <2>1, SizeAssumption DEF ResidueBytes
    <3> QED BY <2>1, <3>1, Same, DiskFacts
  <2> DEFINE k == Cardinality(Sealed)
             m == IF k = 0 THEN NoManifest ELSE segs[k].manifest
  <2>3. k = (IF AllSealed(segs) THEN Len(segs) ELSE Len(segs) - 1) /\ k \in Nat
        /\ (~AllSealed(segs) => Len(segs) # 0)
    BY DiskFacts, SealedIs DEF Sealed
  <2>4. m \in Manifest /\ m.last = PrevLast(segs, k + 1) /\ m.sha = PrevSha(segs, k + 1)
    <3>1. CASE k = 0
      BY <3>1, IdleType DEF NoManifest, Manifest, PrevLast, PrevSha
    <3>2. CASE k # 0
      <4>1. k \in 1..Len(segs) /\ k + 1 # 1 /\ k + 1 - 1 = k
        <5> HIDE DEF k
        <5>1. Len(segs) \in Nat
          BY DiskFacts
        <5>2. k = Len(segs) \/ k = Len(segs) - 1
          BY <2>3
        <5>3. k \in Nat /\ k # 0
          BY <2>3, <3>2
        <5> QED BY <5>1, <5>2, <5>3
      <4>2. segs[k].manifest \in Manifest
        BY <4>1, SegmentFields, DiskFacts
      <4> HIDE DEF k
      <4> QED BY <3>2, <4>1, <4>2 DEF PrevLast, PrevSha
    <3> QED BY <3>1, <3>2
  <2>5. m.last \in Frame /\ m.sha \in Seq(Frame)
    BY <2>4 DEF Manifest
  <2>6. w' = [handle |-> FALSE, bucket |-> 0, count |-> 0, first |-> NoFrame, last |-> m.last,
              prev |-> m.sha, next |-> k + 1, known |-> DataBytes(segs)]
    BY <2>0, <2>2 DEF Loaded
  <2> HIDE DEF k, m
  <2>7. w' \in Writer /\ w'.handle = FALSE /\ w'.next = k + 1 /\ w'.prev = m.sha
        /\ w'.known = DataBytes(segs)
    BY <2>3, <2>5, <2>6, <1>2, DiskFacts DEF Writer
  <2>8. op' \in Operation /\ op'.pc = "scan" /\ op'.then = "recover"
    BY <2>0, <1>2 DEF Operation, Item
  <2>9. TypeOK'
    <3>1. queue' \in Seq(Item)
      BY <1>1
    <3> QED BY <1>1, <2>0, <2>7, <2>8, <3>1 DEF CaptureInv, TypeOK
  <2>10. Stages' /\ Sealing' /\ Appending' /\ Handling' /\ Queued'
    BY <1>1, <1>2, <2>0, <2>8 DEF CaptureInv, Stages, Sealing, SealSteps, RecoverySteps, Appending,
                                  Working, Handling, Queued
  <2>11. Recovering'
    <3>1. w'.next = IF AllSealed(segs) THEN Len(segs) + 1 ELSE Len(segs)
      BY <2>3, <2>7, DiskFacts
    <3> QED BY <1>1, <2>1, <2>4, <2>7, <2>8, <3>1 DEF Recovering
  <2>12. Handoff' /\ Receipts'
    BY <1>1, <1>2, <2>0 DEF CaptureInv, Handoff, Receipts
  <2>13. Quota'
    BY <1>1, <2>1, <2>7, <2>8 DEF CaptureInv, Quota, ResidueBytes
  <2> QED BY <1>3, <2>9, <2>10, <2>11, <2>12, <2>13 DEF CaptureInv
<1> QED BY <1>4, <1>5

\* Front and Last of the segment files.
LEMMA FrontIs ==
    ASSUME NEW ss \in Seq(Segment), Len(ss) # 0
    PROVE  /\ Last(ss) = ss[Len(ss)]
           /\ Front(ss) \in Seq(Segment) /\ Len(Front(ss)) = Len(ss) - 1
           /\ \A i \in 1..(Len(ss) - 1) : Front(ss)[i] = ss[i]
           /\ \A t \in Segment : Front(ss) \o <<t>> = [ss EXCEPT ![Len(ss)] = t]
<1>1. Len(ss) \in Nat /\ Len(ss) - 1 \in 0..Len(ss) /\ Len(ss) \in 1..Len(ss) /\ DOMAIN ss = 1..Len(ss)
  BY SegmentFields
<1>2. /\ Front(ss) \in Seq(Segment) /\ Len(Front(ss)) = Len(ss) - 1
      /\ \A i \in 1..(Len(ss) - 1) : Front(ss)[i] = ss[i]
  BY <1>1, SubSeqProperties DEF Front
<1>3. ASSUME NEW t \in Segment PROVE Front(ss) \o <<t>> = [ss EXCEPT ![Len(ss)] = t]
  <2> DEFINE a == Front(ss) \o <<t>>
             b == [ss EXCEPT ![Len(ss)] = t]
             L == Len(ss)
  <2>1. <<t>> \in Seq(Segment) /\ Len(<<t>>) = 1 /\ <<t>>[1] = t
    OBVIOUS
  <2>2. a \in Seq(Segment) /\ Len(a) = L
        /\ \A i \in 1..L : a[i] = IF i <= L - 1 THEN Front(ss)[i] ELSE <<t>>[i - (L - 1)]
    <3>1. Front(ss) \o <<t>> \in Seq(Segment) /\ Len(a) = Len(Front(ss)) + 1
          /\ \A i \in 1..(Len(Front(ss)) + 1) :
                a[i] = IF i <= Len(Front(ss)) THEN Front(ss)[i] ELSE <<t>>[i - Len(Front(ss))]
      BY <1>2, <2>1, ConcatProperties
    <3>2. Len(Front(ss)) = L - 1 /\ Len(Front(ss)) + 1 = L
      BY <1>1, <1>2
    <3> HIDE DEF a, L
    <3>3. a \in Seq(Segment)
      BY <3>1 DEF a
    <3> QED BY <3>1, <3>2, <3>3
  <2>0. L \in Nat /\ L \in 1..L
    BY <1>1
  <2>3. b \in Seq(Segment) /\ Len(b) = L /\ b[L] = t /\ \A i \in 1..(L - 1) : b[i] = ss[i]
    BY NewLast DEF LastOnly
  <2>6. \A i \in 1..(L - 1) : Front(ss)[i] = ss[i]
    BY <1>2
  <2> HIDE DEF a, b, L
  <2>4. ASSUME NEW i \in 1..L PROVE a[i] = b[i]
    <3>1. CASE i = L
      <4>1. ~(i <= L - 1) /\ i - (L - 1) = 1
        BY <3>1, <2>0
      <4> QED BY <3>1, <4>1, <2>1, <2>2, <2>3
    <3>2. CASE i # L
      <4>1. i \in 1..(L - 1) /\ i <= L - 1
        BY <3>2, <2>0
      <4> QED BY <4>1, <2>2, <2>3, <2>6
    <3> QED BY <3>1, <3>2
  <2>5. a = b
    BY <2>2, <2>3, <2>4, SeqEqual
  <2> QED BY <2>5 DEF a, b
<1>4. Last(ss) = ss[Len(ss)]
  BY DEF Last
<1> QED BY <1>2, <1>3, <1>4

\* A chain without its last segment is a chain.
LEMMA ChainFront ==
    ASSUME NEW ss \in Seq(Segment), NEW tt \in Seq(Segment), Len(ss) # 0, Len(tt) = Len(ss) - 1,
           \A i \in 1..(Len(ss) - 1) : tt[i] = ss[i], Chain(ss)
    PROVE  Chain(tt)
<1>1. Len(ss) \in Nat /\ Len(tt) \in Nat
  BY SegmentFields
<1> SUFFICES ASSUME NEW i \in 1..Len(tt)
             PROVE  tt[i].stage = "sealed" /\ Sound(tt[i], PrevLast(tt, i), PrevSha(tt, i))
  BY DEF Chain
<1>2. i \in 1..Len(ss) /\ i < Len(ss) /\ tt[i] = ss[i]
  BY <1>1
<1>3. PrevLast(tt, i) = PrevLast(ss, i) /\ PrevSha(tt, i) = PrevSha(ss, i)
  <2>1. i # 1 => i - 1 \in 1..(Len(ss) - 1)
    BY <1>1, <1>2
  <2> QED BY <2>1 DEF PrevLast, PrevSha
<1> QED BY <1>2, <1>3 DEF Chain

\* What a crash leaves of an unsynced segment.
LEMMA CutIs ==
    ASSUME NEW s \in Segment, NEW k \in 0..Len(s.frames), NEW x \in {"no", "header", "payload"},
           MayKeep(s, k, x), NEW t, t = Cut(s, k, x)
    PROVE  /\ t \in Segment /\ t.stage = s.stage /\ t.bucket = s.bucket /\ t.synced = s.synced
           /\ t.frames = SubSeq(s.frames, 1, k)
           /\ \/ Len(t.frames) < Len(s.frames)
              \/ /\ t.frames = s.frames
                 /\ t.torn = "no" \/ s.torn # "no" \/ (op.pc = "write" /\ EnsureDataCapacity(FrameBytes))
<1>1. s.frames \in Seq(Frame) /\ Len(s.frames) \in Nat
  BY LenProperties DEF Segment
<1>2. SubSeq(s.frames, 1, k) \in Seq(Frame) /\ Len(SubSeq(s.frames, 1, k)) = k
  BY <1>1, SubSeqProperties
<1>3. k = Len(s.frames) => SubSeq(s.frames, 1, k) = s.frames
  BY <1>1, SubSeqFull
<1>4. /\ t \in Segment /\ t.stage = s.stage /\ t.bucket = s.bucket /\ t.synced = s.synced
      /\ t.frames = SubSeq(s.frames, 1, k) /\ t.torn = x
  BY <1>2 DEF Cut, Segment
<1>5. k < Len(s.frames) \/ k = Len(s.frames)
  BY <1>1
<1> QED BY <1>2, <1>3, <1>4, <1>5 DEF MayKeep

\* After a crash the files are a chain, numbered and within the quota.
LEMMA CrashSegs ==
    ASSUME CaptureInv, StorageCrash
    PROVE  /\ segs' \in Seq(Segment) /\ Chain(segs') /\ Numbered(segs', accepted)
           /\ DataBytes(segs') + ResidueBytes + Reserve <= MaxBytes
           /\ \/ segs' = segs
              \/ Len(segs) # 0 /\ ~segs[Len(segs)].synced /\ Shortened(segs, segs')
                 /\ (Len(segs') = Len(segs) => ~segs'[Len(segs)].synced)
<1> DEFINE L == Len(segs)
<1>1. /\ segs \in Seq(Segment) /\ L \in Nat /\ Chain(segs) /\ Numbered(segs, accepted)
      /\ IsFiniteSet(PlacesOf(segs)) /\ DataBytes(segs) \in Nat
      /\ L # 0 =>
            /\ L \in 1..L /\ segs[L] \in Segment
            /\ Sound(segs[L], PrevLast(segs, L), PrevSha(segs, L))
  BY DiskFacts
<1>2. DataBytes(segs) + ResidueBytes + Reserve <= MaxBytes /\ ResidueBytes \in Nat
  <2>1. ResidueBytes \in Nat
    <3>1. copied \in Nat
      BY DEF CaptureInv, TypeOK
    <3>2. FrameBytes * copied \in Nat
      BY <3>1, SizeAssumption, Products
    <3> QED BY <3>2, SizeAssumption DEF ResidueBytes
  <2> QED BY <2>1 DEF CaptureInv, Quota
<1>3. CASE segs' = segs
  BY <1>1, <1>2, <1>3
<1>4. ASSUME segs # <<>>, ~Last(segs).synced
      PROVE  /\ L # 0 /\ L \in 1..L /\ Last(segs) = segs[L] /\ ~segs[L].synced
             /\ segs[L].stage = "partial"
  <2>1. L # 0
    BY <1>1, <1>4, EmptySeq
  <2>2. Last(segs) = segs[L]
    BY <1>1, <2>1, FrontIs
  <2>3. segs[L].stage \in {"partial", "final", "sealed"}
    BY <1>1, <2>1, SegmentFields
  <2> QED BY <1>1, <1>4, <2>1, <2>2, <2>3 DEF Sound
<1>5. CASE segs # <<>> /\ ~Last(segs).synced /\ segs' = Front(segs)
  <2>1. L # 0 /\ L \in 1..L /\ ~segs[L].synced /\ segs[L].stage = "partial"
    BY <1>4, <1>5
  <2>2. /\ segs' \in Seq(Segment) /\ Len(segs') = L - 1
        /\ \A i \in 1..(L - 1) : segs'[i] = segs[i]
    BY <1>1, <1>5, <2>1, FrontIs
  <2>3. Shortened(segs, segs')
    BY <1>1, <2>1, <2>2 DEF Shortened
  <2>4. Chain(segs')
    BY <1>1, <2>1, <2>2, ChainFront
  <2>5. Numbered(segs', accepted)
    BY <1>1, <2>3, NumberedFewer
  <2>6. DataBytes(segs') <= DataBytes(segs)
    <3>1. Len(segs') # L
      BY <1>1, <2>2
    <3> QED BY <1>1, <2>1, <2>3, <2>4, <3>1, BytesLost
  <2>7. DataBytes(segs') \in Nat
    BY <2>2, <2>4, <2>5, Bytes DEF Numbered
  <2>8. \A a, b, c, d, e \in Int : a <= b /\ b + c + d <= e => a + c + d <= e
    OBVIOUS
  <2>9. DataBytes(segs') + ResidueBytes + Reserve <= MaxBytes
    BY <1>1, <1>2, <2>6, <2>7, <2>8, SizeAssumption
  <2>10. Len(segs') # L
    BY <1>1, <2>2
  <2> QED BY <2>1, <2>2, <2>3, <2>4, <2>5, <2>9, <2>10
<1>6. CASE /\ segs # <<>> /\ ~Last(segs).synced
           /\ \E k \in 0..Len(Last(segs).frames), x \in {"no", "header", "payload"} :
                 MayKeep(Last(segs), k, x) /\ segs' = Front(segs) \o <<Cut(Last(segs), k, x)>>
  <2>1. L # 0 /\ L \in 1..L /\ ~segs[L].synced /\ segs[L].stage = "partial" /\ Last(segs) = segs[L]
    BY <1>4, <1>6
  <2>2. PICK k \in 0..Len(segs[L].frames), x \in {"no", "header", "payload"} :
                 MayKeep(segs[L], k, x) /\ segs' = Front(segs) \o <<Cut(segs[L], k, x)>>
    BY <1>6, <2>1
  <2> DEFINE t == Cut(segs[L], k, x)
  <2>3. /\ t \in Segment /\ t.stage = "partial" /\ t.bucket = segs[L].bucket /\ ~t.synced
        /\ t.frames = SubSeq(segs[L].frames, 1, k)
        /\ \/ Len(t.frames) < Len(segs[L].frames)
           \/ /\ t.frames = segs[L].frames
              /\ \/ t.torn = "no" \/ segs[L].torn # "no"
                 \/ op.pc = "write" /\ EnsureDataCapacity(FrameBytes)
    <3>1. segs[L] \in Segment /\ MayKeep(segs[L], k, x) /\ t = Cut(segs[L], k, x)
      BY <1>1, <2>1, <2>2
    <3> HIDE DEF t, L
    <3>2. /\ t \in Segment /\ t.stage = segs[L].stage /\ t.bucket = segs[L].bucket
          /\ t.synced = segs[L].synced /\ t.frames = SubSeq(segs[L].frames, 1, k)
          /\ \/ Len(t.frames) < Len(segs[L].frames)
             \/ /\ t.frames = segs[L].frames
                /\ \/ t.torn = "no" \/ segs[L].torn # "no"
                   \/ op.pc = "write" /\ EnsureDataCapacity(FrameBytes)
      BY <3>1, CutIs
    <3> QED BY <2>1, <3>2
  <2>a. segs' = Front(segs) \o <<t>>
    BY <2>2
  <2> HIDE DEF t
  <2>4. Sound(t, PrevLast(segs, L), PrevSha(segs, L))
    BY <1>1, <2>1, <2>3, SoundCut
  <2>5. segs' = [segs EXCEPT ![L] = t]
    BY <1>1, <2>1, <2>3, <2>a, FrontIs
  <2>6. /\ LastOnly(segs, segs') /\ segs'[L] = t
    BY <1>1, <2>1, <2>3, <2>5, NewLast
  <2>7. segs' \in Seq(Segment) /\ Len(segs') = L /\ \A i \in 1..(L - 1) : segs'[i] = segs[i]
    BY <2>6 DEF LastOnly
  <2>8. Shortened(segs, segs')
    BY <1>1, <2>1, <2>3, <2>6, <2>7 DEF Shortened
  <2>9. Chain(segs')
    BY <1>1, <2>4, <2>6, ChainLast
  <2>10. Numbered(segs', accepted)
    BY <1>1, <2>8, NumberedFewer
  <2>11. DataBytes(segs') \in Nat
    BY <2>7, <2>9, <2>10, Bytes DEF Numbered
  <2>12. DataBytes(segs') + ResidueBytes + Reserve <= MaxBytes
    <3>1. CASE t.torn = "no" \/ segs[L].torn # "no" \/ Len(t.frames) < Len(segs[L].frames)
      <4>1. DataBytes(segs') <= DataBytes(segs)
        BY <1>1, <2>1, <2>3, <2>6, <2>8, <2>9, <3>1, BytesLost
      <4>2. \A a, b, c, d, e \in Int : a <= b /\ b + c + d <= e => a + c + d <= e
        OBVIOUS
      <4> QED BY <4>1, <4>2, <1>1, <1>2, <2>11, SizeAssumption
    <3>2. CASE /\ t.frames = segs[L].frames /\ t.torn # "no" /\ segs[L].torn = "no"
               /\ op.pc = "write" /\ EnsureDataCapacity(FrameBytes)
      <4>1. /\ TornBytes(segs[L]) = 0 /\ TornBytes(t) = FrameBytes - 1
        BY <3>2 DEF TornBytes
      <4>2. DataBytes(segs') + TornBytes(segs[L]) = DataBytes(segs) + TornBytes(t) + 0
        BY <1>1, <2>1, <2>3, <2>4, <2>5, <3>2, LastChanged DEF Changed
      <4>3. Working
        BY <3>2 DEF CaptureInv, Stages, Idle, SealSteps, RecoverySteps, Working, TypeOK
      <4>4. w.known = DataBytes(segs) /\ "manifest" \notin residue /\ copied = 0
        BY <3>2, <4>3 DEF CaptureInv, Quota, Counting
      <4>5. ResidueBytes = 0
        BY <4>4, SizeAssumption DEF ResidueBytes
      <4>6. DataBytes(segs) + FrameBytes + Reserve <= MaxBytes
        BY <3>2, <4>4 DEF EnsureDataCapacity
      <4>7. \A a, b, c, d, e \in Int :
               a + 0 = b + (c - 1) + 0 /\ b + c + d <= e => a + 0 + d <= e
        OBVIOUS
      <4>8. DataBytes(segs') + 0 = DataBytes(segs) + (FrameBytes - 1) + 0
        BY <4>1, <4>2
      <4> QED BY <4>5, <4>6, <4>7, <4>8, <1>1, <2>11, SizeAssumption
    <3> QED BY <2>3, <3>1, <3>2
  <2> QED BY <2>1, <2>3, <2>6, <2>7, <2>8, <2>9, <2>10, <2>12
<1> QED BY <1>3, <1>5, <1>6 DEF StorageCrash

\* The machine crashes.
LEMMA CrashKeeps == CaptureInv /\ Crash => CaptureInv'
<1> SUFFICES ASSUME CaptureInv, Crash PROVE CaptureInv'
  OBVIOUS
<1>1. /\ phase \notin {"down", "finished", "refused"} /\ crashes < MaxCrashes
      /\ crashes' = crashes + 1 /\ StorageCrash
      /\ phase' = "down" /\ worker' = "none" /\ accepting' = FALSE /\ failed' = FALSE
      /\ queue' = <<>> /\ normal' = FALSE
      /\ dir' = dir /\ terminal' = terminal /\ accepted' = accepted
      /\ w' = FreshWriter /\ op' = Idle
      /\ residue' = residue /\ copied' = copied /\ journal' = journal
  BY DEF Crash, StorageCrash, receiptVars
<1>2. /\ op' \in Operation /\ op'.pc = "idle" /\ w' \in Writer /\ w'.handle = FALSE
  BY <1>1, IdleType DEF Idle, FreshWriter
<1>3. /\ segs' \in Seq(Segment) /\ Chain(segs') /\ Numbered(segs', accepted)
      /\ DataBytes(segs') + ResidueBytes + Reserve <= MaxBytes
      /\ segs = <<>> => segs' = segs
  <2>1. segs = <<>> => segs' = segs
    BY <1>1 DEF StorageCrash
  <2> QED BY <1>1, <2>1, CrashSegs
<1>4. terminal = "none"
  BY <1>1 DEF CaptureInv, Stages
<1>5. TypeOK'
  <2>1. queue' \in Seq(Item) /\ crashes' \in 0..MaxCrashes
    BY <1>1, GenerationAssumption DEF CaptureInv, TypeOK
  <2> QED BY <1>1, <1>2, <1>3, <2>1 DEF CaptureInv, TypeOK
<1>6. Stages' /\ Sealing' /\ Appending' /\ Recovering' /\ Handling' /\ Queued'
  <2>1. dir # "receipt" => StorageInit' /\ accepted' = <<>>
    BY <1>1, <1>3 DEF CaptureInv, Stages, StorageInit
  <2> QED BY <1>1, <1>2, <1>4, <2>1 DEF Stages, Sealing, SealSteps, Appending, Working, Recovering,
                                        Handling, Queued
<1>7. Handoff' /\ Receipts'
  BY <1>1, <1>4 DEF CaptureInv, Handoff, Receipts
<1>8. Quota'
  BY <1>1, <1>2, <1>3 DEF CaptureInv, Quota, ResidueBytes, Counting, Working
<1> QED BY <1>1, <1>3, <1>5, <1>6, <1>7, <1>8 DEF CaptureInv

\* Nothing is there yet.
LEMMA InitHolds == Init => CaptureInv
<1> SUFFICES ASSUME Init PROVE CaptureInv
  OBVIOUS
<1>1. /\ segs = <<>> /\ residue = {} /\ copied = 0 /\ journal = "no" /\ w = FreshWriter /\ op = Idle
      /\ dir = "none" /\ terminal = "none" /\ phase = "down" /\ normal = FALSE
      /\ queue = <<>> /\ accepting = FALSE /\ failed = FALSE
      /\ worker = "none" /\ accepted = <<>> /\ crashes = 0
  BY DEF Init, StorageInit
<1>2. /\ segs \in Seq(Segment) /\ Chain(segs) /\ Numbered(segs, accepted) /\ DataBytes(segs) = 0
  BY <1>1, NoFiles
<1>3. /\ op \in Operation /\ op.pc = "idle" /\ w \in Writer /\ w.handle = FALSE
  BY <1>1, IdleType DEF Idle, FreshWriter
<1>4. TypeOK
  <2>1. queue \in Seq(Item) /\ accepted \in Seq(Frame) /\ crashes \in 0..MaxCrashes
    BY <1>1, GenerationAssumption
  <2> QED BY <1>1, <1>2, <1>3, <2>1 DEF TypeOK
<1>5. Stages /\ Sealing /\ Appending /\ Recovering /\ Handling /\ Queued
  BY <1>1, <1>3 DEF Stages, StorageInit, Sealing, SealSteps, Appending, Working, Recovering,
                    Handling, Queued
<1>6. Handoff /\ Receipts
  BY <1>1 DEF Handoff, Receipts
<1>7. Quota
  BY <1>1, <1>2, <1>3, SizeAssumption DEF Quota, ResidueBytes, Counting, Working
<1> QED BY <1>2, <1>4, <1>5, <1>6, <1>7 DEF CaptureInv

-----------------------------------------------------------------------------
(* The writer's own steps *)

Elsewhere == UNCHANGED <<receiptVars, phase, normal, handoffVars, worker, crashes>>

\* A step of the writer leaves everything else alone.
LEMMA Others ==
    Elsewhere => /\ dir' = dir /\ terminal' = terminal /\ phase' = phase /\ normal' = normal
                 /\ queue' = queue /\ accepting' = accepting /\ failed' = failed
                 /\ accepted' = accepted /\ worker' = worker /\ crashes' = crashes
BY DEF Elsewhere, receiptVars, handoffVars

\* Who is in the writer: the worker, or a recovery.
LEMMA Whose ==
    ASSUME CaptureInv, op.pc \notin {"idle", "ok", "error", "refuse"}
    PROVE  /\ dir = "receipt" /\ terminal = "none" /\ op \in Operation
           /\ \/ /\ phase \in {"run", "draining"} /\ worker \in {"append", "fatal", "close"}
                 /\ Working /\ Counting /\ op.pc \in SealSteps \cup {"check", "open", "write"}
                 /\ worker = "close" => op.then = "close" /\ op.pc \in SealSteps
                 /\ worker \in {"append", "fatal"} => op.then = "append"
              \/ /\ phase = "recover" /\ worker = "none" /\ op.then = "recover"
                 /\ ~Working /\ (Counting <=> op.pc # "verify")
                 /\ op.pc \in SealSteps \cup RecoverySteps \cup {"verify"}
<1>1. worker \in {"append", "fatal", "close"} \/ phase = "recover"
  BY DEF CaptureInv, TypeOK, Stages, Idle
<1>2. dir = "receipt" /\ terminal = "none" /\ op \in Operation
  BY DEF CaptureInv, TypeOK, Stages, StorageInit, Idle
<1>3. CASE worker \in {"append", "fatal", "close"}
  BY <1>2, <1>3 DEF CaptureInv, Stages, Working, Counting, SealSteps
<1>4. CASE phase = "recover"
  BY <1>2, <1>4 DEF CaptureInv, Stages, Working, Counting, SealSteps, RecoverySteps
<1> QED BY <1>1, <1>2, <1>3, <1>4

\* What every step of the writer keeps, by the step it goes to.
LEMMA StepKeeps ==
    ASSUME CaptureInv, Elsewhere, op.pc \notin {"idle", "ok", "error", "refuse"},
           NEW p, op' = [op EXCEPT !.pc = p],
           worker # "none" => p \in SealSteps \cup {"check", "open", "write", "ok", "error"},
           worker = "close" => p \in SealSteps \cup {"ok", "error"},
           phase = "recover" =>
              p \in SealSteps \cup RecoverySteps \cup {"verify", "ok", "error", "refuse"},
           worker # "none" /\ ~failed /\ AllData => AllData',
           worker = "close" => w'.last.n = w.last.n
    PROVE  /\ op' \in Operation /\ op'.pc = p /\ op'.then = op.then /\ op'.item = op.item
           /\ Stages' /\ Queued' /\ Handoff' /\ Receipts'
<1>1. op' \in Operation /\ op'.pc = p /\ op'.then = op.then /\ op'.item = op.item
  BY Whose DEF Operation, SealSteps, RecoverySteps
<1>2. Stages'
  BY <1>1, Whose, Others DEF CaptureInv, Stages, SealSteps, RecoverySteps
<1>3. Queued'
  <2>1. worker = "append" => Taken' = Taken
    BY <1>1, Others DEF Taken
  <2>2. worker = "append" => \A i : InQueue(i)' <=> InQueue(i)
    BY <2>1, Others DEF InQueue
  <2> QED BY <1>1, <2>1, <2>2, Whose, Others DEF CaptureInv, Queued
<1>4. Handoff' /\ Receipts'
  BY <1>1, Whose, Others DEF CaptureInv, Handoff, Receipts
<1> QED BY <1>1, <1>2, <1>3, <1>4

\* A step of the writer raises.
LEMMA StepFailsKeeps == CaptureInv /\ StepFails /\ Elsewhere => CaptureInv'
<1> SUFFICES ASSUME CaptureInv, StepFails, Elsewhere PROVE CaptureInv'
  OBVIOUS
<1>1. /\ op.pc \notin {"idle", "ok", "error", "refuse"} /\ op' = [op EXCEPT !.pc = "error"]
      /\ segs' = segs /\ residue' = residue /\ copied' = copied /\ journal' = journal /\ w' = w
  BY DEF StepFails, Goto, diskVars
<1>2. AllData' <=> AllData
  BY <1>1 DEF AllData
<1>3. op' \in Operation /\ op'.pc = "error" /\ Stages' /\ Queued' /\ Handoff' /\ Receipts'
  BY <1>1, <1>2, StepKeeps
<1>4. TypeOK' /\ Chain(segs') /\ Numbered(segs', accepted')
  BY <1>1, <1>3, Others DEF CaptureInv, TypeOK
<1>5. Sealing' /\ Appending' /\ Handling'
  BY <1>3 DEF Sealing, SealSteps, Appending, Working, Handling
<1>6. Recovering' /\ Quota'
  BY <1>1, <1>3, Others DEF CaptureInv, Recovering, RecoverySteps, Quota, ResidueBytes, Counting,
                            Working, SealSteps
<1> QED BY <1>3, <1>4, <1>5, <1>6 DEF CaptureInv

\* append checks order and rotation.
LEMMA CheckRecordKeeps == CaptureInv /\ CheckRecord /\ Elsewhere => CaptureInv'
<1> SUFFICES ASSUME CaptureInv, CheckRecord, Elsewhere PROVE CaptureInv'
  OBVIOUS
<1> DEFINE p == IF Misplaced(op.item) THEN "error" ELSE IF MustRotate(op.item) THEN "fsync" ELSE "open"
<1>1. /\ op.pc = "check" /\ op' = [op EXCEPT !.pc = p]
      /\ segs' = segs /\ residue' = residue /\ copied' = copied /\ journal' = journal /\ w' = w
  BY DEF CheckRecord, Goto, diskVars
<1>2. /\ phase \in {"run", "draining"} /\ worker \in {"append", "fatal"} /\ Working /\ Counting
  BY <1>1, Whose DEF SealSteps, RecoverySteps
<1>3. AllData' <=> AllData
  BY <1>1 DEF AllData
<1>4. p \in {"error", "fsync", "open"} /\ (p # "error" => ~Misplaced(op.item))
      /\ (p = "fsync" => w.handle)
  BY DEF MustRotate
<1> HIDE DEF p
<1>5. /\ op' \in Operation /\ op'.pc = p /\ op'.item = op.item
      /\ Stages' /\ Queued' /\ Handoff' /\ Receipts'
  BY <1>1, <1>2, <1>3, <1>4, StepKeeps DEF SealSteps
<1>6. TypeOK' /\ Chain(segs') /\ Numbered(segs', accepted')
  BY <1>1, <1>5, Others DEF CaptureInv, TypeOK
<1>7. w.handle => Holds /\ segs[w.next].frames # <<>> /\ segs[w.next].stage = "partial"
                  /\ ~segs[w.next].synced
  BY <1>1, <1>2 DEF CaptureInv, Appending, TypeOK
<1>8. Holds' <=> Holds
  BY <1>1, SameMemory
<1>9. Between' <=> Between
  BY <1>1, SameMemory
<1>10. Sealing'
  BY <1>1, <1>4, <1>5, <1>7, <1>8 DEF Sealing, SealSteps
<1>11. Appending'
  <2>1. w.handle \/ Between
    BY <1>1, <1>2 DEF CaptureInv, Appending, SealSteps
  <2>2. w.last.n = Cardinality(PlacesOf(segs)) /\ journal = "no"
    BY <1>2 DEF CaptureInv, Appending
  <2> QED BY <1>1, <1>2, <1>4, <1>5, <1>7, <1>8, <1>9, <2>1, <2>2, Others DEF Appending, SealSteps
<1>12. Handling'
  <2>1. /\ op.item \in Frame /\ op.item.kind = (IF worker = "append" THEN "data" ELSE "fatal")
        /\ worker = "append" => op.item.n \in 1..Len(accepted) /\ accepted[op.item.n] = op.item
        /\ op.item.n = w.last.n + 1
    BY <1>1, <1>2 DEF CaptureInv, Handling
  <2>2. w.last \in Frame
    BY DEF CaptureInv, TypeOK, Writer
  <2>3. ~Misplaced(op.item) => op.item.at >= w.last.at
    <3>1. w.last = NoFrame => w.last.at = 0
      BY DEF NoFrame
    <3>2. op.item.at \in Nat /\ w.last.at \in Nat
      BY <2>1, <2>2 DEF Frame
    <3>3. CASE w.last = NoFrame
      BY <3>1, <3>2, <3>3
    <3>4. CASE w.last # NoFrame
      BY <3>2, <3>4 DEF Misplaced
    <3> QED BY <3>3, <3>4
  <2> QED BY <1>1, <1>4, <1>5, <2>1, <2>3, Others DEF Handling
<1>13. Recovering' /\ Quota'
  BY <1>1, <1>2, <1>4, <1>5, Others DEF CaptureInv, Recovering, Quota, ResidueBytes
<1> QED BY <1>5, <1>6, <1>10, <1>11, <1>12, <1>13 DEF CaptureInv

\* LastChanged for the segment in the writer's hands.
LEMMA LastOf ==
    ASSUME CaptureInv, NEW t \in Segment, w.next = Len(segs), w.next \in 1..Len(segs),
           segs[w.next].stage # "sealed",
           t.frames = segs[w.next].frames,
           Sound(t, PrevLast(segs, w.next), PrevSha(segs, w.next)),
           segs' = [segs EXCEPT ![w.next] = t]
    PROVE  /\ Changed(segs, segs', t) /\ Numbered(segs', accepted)
           /\ AllData' <=> AllData
<1>1. /\ segs \in Seq(Segment) /\ Chain(segs) /\ Numbered(segs, accepted) /\ Len(segs) # 0
      /\ segs[Len(segs)].stage # "sealed" /\ t.frames = segs[Len(segs)].frames
      /\ Sound(t, PrevLast(segs, Len(segs)), PrevSha(segs, Len(segs)))
      /\ segs' = [segs EXCEPT ![Len(segs)] = t]
  BY DiskFacts
<1>3. Changed(segs, segs', t) /\ Numbered(segs', accepted)
  BY <1>1, LastChanged
<1>4. AllData' <=> AllData
  BY <1>3 DEF AllData, Changed
<1> QED BY <1>3, <1>4

\* A flag of the segment in hand changes, its contents do not.
LEMMA HoldsOn ==
    ASSUME CaptureInv, Holds, NEW t \in Segment, t.frames = segs[w.next].frames,
           t.bucket = segs[w.next].bucket, t.torn = "no", t.stage # "sealed",
           Sound(t, PrevLast(segs, w.next), PrevSha(segs, w.next)),
           segs' = [segs EXCEPT ![w.next] = t],
           w' = [w EXCEPT !.handle = FALSE] \/ w' = w
    PROVE  /\ Holds' /\ segs' \in Seq(Segment) /\ Len(segs') = Len(segs) /\ segs'[w.next] = t
           /\ Chain(segs') /\ Numbered(segs', accepted) /\ PlacesOf(segs') = PlacesOf(segs)
           /\ DataBytes(segs') = DataBytes(segs) /\ (AllData' <=> AllData)
           /\ w' \in Writer /\ w'.next = w.next /\ w'.last = w.last /\ w'.known = w.known
<1>1. /\ w' \in Writer /\ w'.next = w.next /\ w'.last = w.last /\ w'.known = w.known
      /\ w'.count = w.count /\ w'.bucket = w.bucket /\ w'.prev = w.prev /\ w'.first = w.first
  BY DEF CaptureInv, TypeOK, Writer
<1>2. /\ w.next = Len(segs) /\ w.next \in 1..Len(segs) /\ segs[w.next].stage # "sealed"
      /\ segs[w.next].torn = "no"
  BY DEF Holds
<1>3. /\ segs' \in Seq(Segment) /\ Len(segs') = Len(segs) /\ segs'[w.next] = t
      /\ Chain(segs') /\ Numbered(segs', accepted) /\ PlacesOf(segs') = PlacesOf(segs)
      /\ AllData' <=> AllData
      /\ PrevLast(segs', w.next) = PrevLast(segs, w.next)
      /\ PrevSha(segs', w.next) = PrevSha(segs, w.next)
      /\ DataBytes(segs) \in Nat /\ DataBytes(segs') \in Nat
      /\ DataBytes(segs') + TornBytes(segs[w.next]) = DataBytes(segs) + TornBytes(t) + 0
  BY <1>2, LastOf DEF Changed
<1>4. TornBytes(segs[w.next]) = 0 /\ TornBytes(t) = 0
  BY <1>2 DEF TornBytes
<1>5. DataBytes(segs') = DataBytes(segs)
  BY <1>3, <1>4
<1>6. Holds'
  BY <1>1, <1>2, <1>3 DEF Holds
<1> QED BY <1>1, <1>3, <1>5, <1>6

\* _finalize_current syncs and closes the handle.
LEMMA SyncSegmentKeeps == CaptureInv /\ SyncSegment /\ Elsewhere => CaptureInv'
<1> SUFFICES ASSUME CaptureInv, SyncSegment, Elsewhere PROVE CaptureInv'
  OBVIOUS
<1> DEFINE s == segs[w.next]
           t == [s EXCEPT !.synced = TRUE]
<1>1. /\ op.pc = "fsync" /\ op' = [op EXCEPT !.pc = "rename"]
      /\ segs' = [segs EXCEPT ![w.next].synced = TRUE] /\ w' = [w EXCEPT !.handle = FALSE]
      /\ residue' = residue /\ copied' = copied /\ journal' = journal
  BY DEF SyncSegment, Goto
<1>2. Holds /\ s.frames # <<>> /\ s.stage = "partial"
  BY <1>1 DEF CaptureInv, Sealing, SealSteps
<1>3. w.next = Len(segs) /\ w.next \in 1..Len(segs) /\ s.torn = "no"
  BY <1>2 DEF Holds
<1>4. s \in Segment /\ Sound(s, PrevLast(segs, w.next), PrevSha(segs, w.next))
  BY <1>3, DiskFacts
<1>5. /\ t \in Segment /\ Sound(t, PrevLast(segs, w.next), PrevSha(segs, w.next))
      /\ t.frames = s.frames /\ t.bucket = s.bucket /\ t.torn = "no" /\ t.stage = "partial"
      /\ t.synced = TRUE
  BY <1>2, <1>3, <1>4, Flags
<1>6. segs' = [segs EXCEPT ![w.next] = t]
  BY <1>1
<1> HIDE DEF t
<1>7. /\ Holds' /\ segs' \in Seq(Segment) /\ Len(segs') = Len(segs) /\ segs'[w.next] = t
      /\ Chain(segs') /\ Numbered(segs', accepted) /\ PlacesOf(segs') = PlacesOf(segs)
      /\ DataBytes(segs') = DataBytes(segs) /\ (AllData' <=> AllData)
      /\ w' \in Writer /\ w'.next = w.next /\ w'.last = w.last /\ w'.known = w.known
  BY <1>1, <1>2, <1>5, <1>6, HoldsOn
<1>a. w'.handle = FALSE
  BY <1>1 DEF CaptureInv, TypeOK, Writer
<1>8. /\ op' \in Operation /\ op'.pc = "rename" /\ op'.item = op.item
      /\ Stages' /\ Queued' /\ Handoff' /\ Receipts'
  BY <1>1, <1>7, StepKeeps DEF SealSteps
<1>9. TypeOK'
  BY <1>1, <1>7, <1>8, <1>a, Others DEF CaptureInv, TypeOK
<1>10. Sealing'
  BY <1>2, <1>5, <1>7, <1>8, <1>a DEF Sealing, SealSteps
<1>11. Appending'
  BY <1>1, <1>7, <1>8, <1>a, Others DEF CaptureInv, Appending, Working, SealSteps
<1>12. Recovering'
  BY <1>1, <1>8, Others DEF CaptureInv, Recovering, RecoverySteps
<1>13. Handling'
  BY <1>1, <1>7, <1>8, Others DEF CaptureInv, Handling
<1>14. Quota'
  BY <1>1, <1>7, <1>8, Others DEF CaptureInv, Quota, ResidueBytes, Counting, Working, SealSteps
<1> QED BY <1>7, <1>8, <1>9, <1>10, <1>11, <1>12, <1>13, <1>14, Others DEF CaptureInv

\* _finalize_current renames.
LEMMA RenameSegmentKeeps == CaptureInv /\ RenameSegment /\ Elsewhere => CaptureInv'
<1> SUFFICES ASSUME CaptureInv, RenameSegment, Elsewhere PROVE CaptureInv'
  OBVIOUS
<1> DEFINE s == segs[w.next]
           t == [s EXCEPT !.stage = "final"]
<1>1. /\ op.pc = "rename" /\ op' = [op EXCEPT !.pc = "manifest"]
      /\ segs' = [segs EXCEPT ![w.next].stage = "final"] /\ w' = w
      /\ residue' = residue /\ copied' = copied /\ journal' = journal
  BY DEF RenameSegment, Goto
<1>2. Holds /\ s.frames # <<>> /\ s.synced /\ s.stage = "partial" /\ ~w.handle
  BY <1>1 DEF CaptureInv, Sealing, SealSteps, TypeOK, Writer
<1>3. w.next = Len(segs) /\ w.next \in 1..Len(segs) /\ s.torn = "no"
  BY <1>2 DEF Holds
<1>4. s \in Segment /\ Sound(s, PrevLast(segs, w.next), PrevSha(segs, w.next))
  BY <1>3, DiskFacts
<1>5. /\ t \in Segment /\ t.frames = s.frames /\ t.bucket = s.bucket /\ t.torn = "no"
      /\ t.stage = "final" /\ t.synced = s.synced
  BY <1>3, <1>4 DEF Segment
<1>b. Sound(t, PrevLast(segs, w.next), PrevSha(segs, w.next))
  BY <1>2, <1>4, <1>5 DEF Sound
<1>6. segs' = [segs EXCEPT ![w.next] = t]
  BY <1>1
<1> HIDE DEF t
<1>7. /\ Holds' /\ segs' \in Seq(Segment) /\ Len(segs') = Len(segs) /\ segs'[w.next] = t
      /\ Chain(segs') /\ Numbered(segs', accepted) /\ PlacesOf(segs') = PlacesOf(segs)
      /\ DataBytes(segs') = DataBytes(segs) /\ (AllData' <=> AllData)
  BY <1>1, <1>2, <1>5, <1>b, <1>6, HoldsOn
<1>8. /\ op' \in Operation /\ op'.pc = "manifest" /\ op'.item = op.item
      /\ Stages' /\ Queued' /\ Handoff' /\ Receipts'
  BY <1>1, <1>7, StepKeeps DEF SealSteps
<1>9. TypeOK'
  BY <1>1, <1>2, <1>7, <1>8, Others DEF CaptureInv, TypeOK
<1>10. Sealing'
  BY <1>1, <1>2, <1>5, <1>7, <1>8 DEF CaptureInv, TypeOK, Writer, Sealing, SealSteps
<1>11. Appending'
  BY <1>1, <1>2, <1>7, <1>8, Others DEF CaptureInv, Appending, Working, SealSteps
<1>12. Recovering'
  BY <1>1, <1>8, Others DEF CaptureInv, Recovering, RecoverySteps
<1>13. Handling'
  BY <1>1, <1>7, <1>8, Others DEF CaptureInv, Handling
<1>14. Quota'
  BY <1>1, <1>7, <1>8, Others DEF CaptureInv, Quota, ResidueBytes, Counting, Working, SealSteps
<1> QED BY <1>7, <1>8, <1>9, <1>10, <1>11, <1>12, <1>13, <1>14, Others DEF CaptureInv

\* _write_manifest writes the temporary file.
LEMMA WriteManifestTempKeeps == CaptureInv /\ WriteManifestTemp /\ Elsewhere => CaptureInv'
<1> SUFFICES ASSUME CaptureInv, WriteManifestTemp, Elsewhere PROVE CaptureInv'
  OBVIOUS
<1>1. /\ op.pc = "manifest" /\ EnsureDataCapacity(ManifestBytes)
      /\ residue' = residue \cup {"manifest"}
      /\ segs' = segs /\ copied' = copied /\ journal' = journal /\ w' = w
  BY DEF WriteManifestTemp
<1>2. PICK p \in {"promote", "error"} : op' = [op EXCEPT !.pc = p]
  BY DEF WriteManifestTemp, Goto
<1>3. AllData' <=> AllData
  BY <1>1 DEF AllData
<1>4. /\ op' \in Operation /\ op'.pc = p /\ op'.item = op.item
      /\ Stages' /\ Queued' /\ Handoff' /\ Receipts'
  BY <1>1, <1>2, <1>3, StepKeeps DEF SealSteps
<1>5. TypeOK' /\ Chain(segs') /\ Numbered(segs', accepted')
  BY <1>1, <1>4, Others DEF CaptureInv, TypeOK
<1>6. Holds' <=> Holds
  BY <1>1, SameMemory
<1>7. Sealing'
  BY <1>1, <1>2, <1>4, <1>6 DEF CaptureInv, Sealing, SealSteps
<1>8. Appending'
  BY <1>1, <1>2, <1>4, <1>6, Others DEF CaptureInv, Appending, Working, SealSteps
<1>9. Recovering' /\ Handling'
  BY <1>1, <1>2, <1>4, Others DEF CaptureInv, Recovering, RecoverySteps, Handling
<1>10. Quota'
  <2>1. Counting
    BY <1>1, Whose
  <2>2. w.known = DataBytes(segs) /\ copied = 0
    BY <1>1, <2>1 DEF CaptureInv, Quota
  <2>3. ResidueBytes' = ManifestBytes
    BY <1>1, <2>2, SizeAssumption DEF ResidueBytes
  <2>4. DataBytes(segs) + ManifestBytes + Reserve <= MaxBytes
    BY <1>1, <2>2 DEF EnsureDataCapacity
  <2>5. Counting' => p = "promote"
    BY <1>2, <1>4 DEF Counting, Working, SealSteps, RecoverySteps
  <2> QED BY <1>1, <1>4, <2>2, <2>3, <2>4, <2>5 DEF Quota
<1> QED BY <1>4, <1>5, <1>7, <1>8, <1>9, <1>10 DEF CaptureInv

\* A frame is cut short.
LEMMA ShortWriteKeeps == CaptureInv /\ ShortWrite /\ Elsewhere => CaptureInv'
<1> SUFFICES ASSUME CaptureInv, ShortWrite, Elsewhere PROVE CaptureInv'
  OBVIOUS
<1>1. /\ op.pc = "write" /\ EnsureDataCapacity(FrameBytes) /\ op' = [op EXCEPT !.pc = "error"]
      /\ residue' = residue /\ copied' = copied /\ journal' = journal /\ w' = w
  BY DEF ShortWrite, Goto
<1>2. PICK x \in {"header", "payload"} : segs' = [segs EXCEPT ![w.next].torn = x]
  BY DEF ShortWrite
<1> DEFINE s == segs[w.next]
           t == [s EXCEPT !.torn = x]
<1>3. Working /\ Counting /\ worker \in {"append", "fatal"}
  BY <1>1, Whose DEF SealSteps, RecoverySteps
<1>4. Holds /\ w.handle
  BY <1>1, <1>3 DEF CaptureInv, Appending
<1>5. /\ w.next = Len(segs) /\ w.next \in 1..Len(segs) /\ s.torn = "no" /\ s.stage = "partial"
  BY <1>4 DEF Holds, CaptureInv, TypeOK
<1>6. s \in Segment /\ Sound(s, PrevLast(segs, w.next), PrevSha(segs, w.next))
  BY <1>5, DiskFacts
<1>7. t \in Segment /\ t.frames = s.frames /\ t.stage = "partial" /\ t.torn = x /\ t.bucket = s.bucket
  BY <1>2, <1>5, <1>6 DEF Segment
<1>8. Sound(t, PrevLast(segs, w.next), PrevSha(segs, w.next))
  BY <1>6, <1>7 DEF Sound
<1>9. segs' = [segs EXCEPT ![w.next] = t]
  BY <1>2
<1> HIDE DEF t
<1>10. Changed(segs, segs', t) /\ Numbered(segs', accepted) /\ (AllData' <=> AllData)
  BY <1>5, <1>7, <1>8, <1>9, LastOf
<1>11. op' \in Operation /\ op'.pc = "error" /\ Stages' /\ Queued' /\ Handoff' /\ Receipts'
  BY <1>1, <1>3, <1>10, StepKeeps
<1>12. segs' \in Seq(Segment) /\ Len(segs') = Len(segs) /\ segs'[w.next] = t /\ Chain(segs')
  BY <1>5, <1>10 DEF Changed
<1>13. TypeOK'
  <2>1. w'.next \in DOMAIN segs'
    BY <1>1, <1>5, <1>12, SegmentFields
  <2> QED BY <1>1, <1>5, <1>7, <1>11, <1>12, <2>1, Others DEF CaptureInv, TypeOK
<1>14. Sealing' /\ Appending' /\ Handling'
  BY <1>11 DEF Sealing, SealSteps, Appending, Working, Handling
<1>15. Recovering'
  BY <1>1, <1>11, Others DEF CaptureInv, Recovering, RecoverySteps
<1>16. Quota'
  <2>1. DataBytes(segs') + 0 = DataBytes(segs) + (FrameBytes - 1) + 0
    <3>1. TornBytes(s) = 0 /\ TornBytes(t) = FrameBytes - 1
      BY <1>2, <1>5, <1>7 DEF TornBytes
    <3> QED BY <3>1, <1>5, <1>7, <1>10 DEF Changed
  <2>2. w.known = DataBytes(segs) /\ copied = 0 /\ "manifest" \notin residue
    BY <1>1, <1>3 DEF CaptureInv, Quota
  <2>3. ResidueBytes' = 0
    BY <1>1, <2>2, SizeAssumption DEF ResidueBytes
  <2>4. DataBytes(segs) + FrameBytes + Reserve <= MaxBytes
    BY <1>1, <2>2 DEF EnsureDataCapacity
  <2>5. \A a, b, c, d, e \in Int : a + 0 = b + (c - 1) + 0 /\ b + c + d <= e => a + 0 + d <= e
    OBVIOUS
  <2>6. DataBytes(segs) \in Nat /\ DataBytes(segs') \in Nat
    BY <1>10 DEF Changed
  <2>7. DataBytes(segs') + 0 + Reserve <= MaxBytes
    BY <2>1, <2>4, <2>5, <2>6, SizeAssumption
  <2>8. ~Counting'
    BY <1>11 DEF Counting, Working, SealSteps, RecoverySteps
  <2> QED BY <2>3, <2>7, <2>8 DEF Quota
<1> QED BY <1>10, <1>11, <1>12, <1>13, <1>14, <1>15, <1>16, Others DEF CaptureInv

\* The manifest is in place and the segment sealed.
LEMMA PromoteManifestKeeps == CaptureInv /\ PromoteManifest /\ Elsewhere => CaptureInv'
<1> SUFFICES ASSUME CaptureInv, PromoteManifest, Elsewhere PROVE CaptureInv'
  OBVIOUS
<1> DEFINE s == segs[w.next]
           m == [first |-> w.first, last |-> w.last, count |-> w.count,
                 sha |-> s.frames, prev |-> w.prev]
           t == [s EXCEPT !.stage = "sealed", !.manifest = m]
           p == Continue
<1>1. /\ op.pc = "promote" /\ op' = [op EXCEPT !.pc = p]
      /\ segs' = [segs EXCEPT ![w.next].stage = "sealed", ![w.next].manifest = m]
      /\ w' = [w EXCEPT !.prev = s.frames, !.next = @ + 1, !.bucket = 0, !.count = 0,
                        !.first = NoFrame, !.known = @ + ManifestBytes]
      /\ residue' = residue \ {"manifest"} /\ copied' = copied /\ journal' = journal
  BY DEF PromoteManifest, Goto
<1>2. Holds /\ s.frames # <<>> /\ s.synced /\ s.stage = "final" /\ ~w.handle /\ Counting
  BY <1>1, Whose DEF CaptureInv, Sealing, SealSteps, TypeOK, Writer
<1>3. /\ w.next = Len(segs) /\ w.next \in 1..Len(segs) /\ s.torn = "no"
      /\ w.count = Len(s.frames) /\ w.prev = PrevSha(segs, w.next)
      /\ w.first = s.frames[1] /\ w.last = s.frames[Len(s.frames)]
  BY <1>2 DEF Holds
<1>4. s \in Segment /\ Sound(s, PrevLast(segs, w.next), PrevSha(segs, w.next)) /\ s.frames \in Seq(Frame)
  BY <1>3, DiskFacts DEF Segment
<1>5. /\ w \in Writer /\ w.first \in Frame /\ w.last \in Frame /\ w.count \in Nat /\ w.known \in Nat
      /\ w.prev \in Seq(Frame) /\ w.next \in Nat
  BY DEF CaptureInv, TypeOK, Writer
<1>6. m \in Manifest
  BY <1>4, <1>5 DEF Manifest
<1>7. /\ t \in Segment /\ t.frames = s.frames /\ t.bucket = s.bucket /\ t.torn = s.torn
      /\ t.synced = s.synced /\ t.stage = "sealed" /\ t.manifest = m
  BY <1>4, <1>6 DEF Segment
<1>8. Sound(t, PrevLast(segs, w.next), PrevSha(segs, w.next))
  BY <1>2, <1>3, <1>4, <1>7 DEF Sound
<1>9. segs' = [segs EXCEPT ![w.next] = t]
  BY <1>1
<1>a. m.last = w.last /\ m.sha = s.frames
  OBVIOUS
<1> HIDE DEF t, m
<1>10. Changed(segs, segs', t) /\ Numbered(segs', accepted) /\ (AllData' <=> AllData)
  BY <1>2, <1>3, <1>7, <1>8, <1>9, LastOf
<1>11. /\ segs' \in Seq(Segment) /\ Len(segs') = Len(segs) /\ segs'[w.next] = t /\ Chain(segs')
       /\ PlacesOf(segs') = PlacesOf(segs) /\ AllSealed(segs')
  BY <1>3, <1>7, <1>10 DEF Changed
<1>12. /\ w' \in Writer /\ w'.handle = FALSE /\ w'.last = w.last /\ w'.prev = s.frames
       /\ w'.next = w.next + 1 /\ w'.known = w.known + ManifestBytes
  <2> DEFINE fs == s.frames
             nx == w.next + 1
             kn == w.known + ManifestBytes
  <2>1. nx \in Nat /\ kn \in Nat /\ fs \in Seq(Frame) /\ NoFrame \in Frame
    BY <1>4, <1>5, IdleType, SizeAssumption
  <2>2. w' = [w EXCEPT !.prev = fs, !.next = nx, !.bucket = 0, !.count = 0,
                       !.first = NoFrame, !.known = kn]
    BY <1>1
  <2>3. w.handle = FALSE
    BY <1>2, <1>5 DEF Writer
  <2> HIDE DEF fs, nx, kn
  <2>4. /\ w' \in Writer /\ w'.handle = FALSE /\ w'.last = w.last /\ w'.prev = fs
        /\ w'.next = nx /\ w'.known = kn
    BY <1>5, <2>1, <2>2, <2>3 DEF Writer
  <2> QED BY <2>4 DEF fs, nx, kn
<1>13. /\ phase = "recover" => p = "verify"
       /\ worker \in {"append", "fatal"} => p = "open"
       /\ worker = "close" => p = "ok"
       /\ worker \in {"append", "fatal", "close"} \/ phase = "recover"
       /\ p \in {"open", "ok", "verify"}
  BY <1>1, Whose DEF Continue
<1> HIDE DEF p
<1>14. /\ op' \in Operation /\ op'.pc = p /\ op'.item = op.item
       /\ Stages' /\ Queued' /\ Handoff' /\ Receipts'
  BY <1>1, <1>10, <1>12, <1>13, StepKeeps, Whose
<1>15. TypeOK'
  BY <1>1, <1>11, <1>12, <1>14, Others DEF CaptureInv, TypeOK
<1>16. Sealing'
  BY <1>13, <1>14 DEF Sealing, SealSteps
<1>17. Between'
  <2>1. w.next + 1 # 1 /\ w.next + 1 - 1 = w.next
    BY <1>5, <1>3
  <2>2. PrevLast(segs', w'.next) = w.last /\ PrevSha(segs', w'.next) = s.frames
    <3>1. segs'[w'.next - 1].manifest = m /\ w'.next # 1
      <4>1. w'.next - 1 = w.next /\ w'.next # 1
        <5>1. \A a, b \in Nat : a = b + 1 /\ b + 1 # 1 => a - 1 = b /\ a # 1
          OBVIOUS
        <5>2. w'.next \in Nat
          BY <1>12 DEF Writer
        <5> QED BY <1>5, <1>12, <2>1, <5>1, <5>2
      <4>2. segs'[w'.next - 1] = t
        BY <4>1, <1>11
      <4> QED BY <4>1, <4>2, <1>7
    <3> QED BY <3>1, <1>a DEF PrevLast, PrevSha
  <2> QED BY <1>3, <1>11, <1>12, <2>2 DEF Between
<1>18. Appending'
  BY <1>1, <1>11, <1>12, <1>13, <1>14, <1>17, Others DEF CaptureInv, Appending, Working, SealSteps
<1>19. Recovering'
  BY <1>1, <1>13, <1>14, Others DEF CaptureInv, Recovering, RecoverySteps
<1>20. Handling'
  BY <1>1, <1>12, <1>13, <1>14, Others DEF CaptureInv, Handling
<1>21. Quota'
  <2>1. DataBytes(segs') + 0 = DataBytes(segs) + 0 + ManifestBytes
    <3>1. TornBytes(s) = 0 /\ TornBytes(t) = 0
      BY <1>3, <1>7 DEF TornBytes
    <3> QED BY <3>1, <1>3, <1>7, <1>10 DEF Changed
  <2>2. w.known = DataBytes(segs) /\ copied = 0 /\ "manifest" \in residue
    BY <1>1, <1>2 DEF CaptureInv, Quota
  <2>3. ResidueBytes' = 0 /\ ResidueBytes = ManifestBytes
    BY <1>1, <2>2, SizeAssumption DEF ResidueBytes
  <2>4. DataBytes(segs) + ManifestBytes + Reserve <= MaxBytes
    BY <2>3 DEF CaptureInv, Quota
  <2>5. DataBytes(segs) \in Nat /\ DataBytes(segs') \in Nat
    BY <1>10 DEF Changed
  <2>6. \A a, b, c, d, e \in Int : a + 0 = b + 0 + c /\ b + c + d <= e => a + 0 + d <= e /\ a = b + c
    OBVIOUS
  <2>7. DataBytes(segs') + 0 + Reserve <= MaxBytes /\ DataBytes(segs') = DataBytes(segs) + ManifestBytes
    BY <2>1, <2>4, <2>5, <2>6, SizeAssumption
  <2>8. "manifest" \notin residue' /\ op'.pc \notin {"promote", "replace"}
    BY <1>1, <1>13, <1>14
  <2> QED BY <1>1, <1>12, <2>2, <2>3, <2>7, <2>8 DEF Quota
<1> QED BY <1>10, <1>11, <1>14, <1>15, <1>16, <1>18, <1>19, <1>20, <1>21, Others DEF CaptureInv

\* append writes its frame.
LEMMA WriteFrameKeeps == CaptureInv /\ WriteFrame /\ Elsewhere => CaptureInv'
<1> SUFFICES ASSUME CaptureInv, WriteFrame, Elsewhere PROVE CaptureInv'
  OBVIOUS
<1> DEFINE s == segs[w.next]
           f == op.item
           t == [s EXCEPT !.frames = Append(s.frames, f)]
           ff == IF w.first = NoFrame THEN f ELSE w.first
           kn == w.known + FrameBytes
           ct == w.count + 1
<1>1. /\ op.pc = "write" /\ EnsureDataCapacity(FrameBytes) /\ op' = [op EXCEPT !.pc = "ok"]
      /\ segs' = [segs EXCEPT ![w.next] = t]
      /\ w' = [w EXCEPT !.known = kn, !.count = ct, !.first = ff, !.last = f]
      /\ residue' = residue /\ copied' = copied /\ journal' = journal
  BY DEF WriteFrame, Goto
<1>2. Working /\ Counting /\ worker \in {"append", "fatal"} /\ phase \in {"run", "draining"}
  BY <1>1, Whose DEF SealSteps, RecoverySteps
<1>3. /\ Holds /\ w.handle /\ ~s.synced /\ journal = "no"
      /\ w.last.n = Cardinality(PlacesOf(segs))
      /\ s.frames = <<>> => Bucket(f) = w.bucket
  BY <1>1, <1>2 DEF CaptureInv, Appending
<1>4. /\ w.next = Len(segs) /\ w.next \in 1..Len(segs) /\ s.torn = "no" /\ s.stage = "partial"
      /\ w.count = Len(s.frames) /\ w.bucket = s.bucket /\ w.prev = PrevSha(segs, w.next)
      /\ s.frames # <<>> => w.first = s.frames[1] /\ w.last = s.frames[Len(s.frames)]
      /\ s.frames = <<>> => w.first = NoFrame /\ w.last = PrevLast(segs, w.next)
  BY <1>3 DEF Holds, CaptureInv, TypeOK
<1>5. /\ s \in Segment /\ Sound(s, PrevLast(segs, w.next), PrevSha(segs, w.next))
      /\ s.frames \in Seq(Frame) /\ Len(s.frames) \in Nat
  BY <1>4, DiskFacts, SegmentFields
<1>6. /\ f \in Frame /\ f.kind = (IF worker = "append" THEN "data" ELSE "fatal")
      /\ worker = "append" => f.n \in 1..Len(accepted) /\ accepted[f.n] = f
      /\ f.n = w.last.n + 1 /\ f.at >= w.last.at
  BY <1>1, <1>2 DEF CaptureInv, Handling
<1>7. /\ Append(s.frames, f) \in Seq(Frame) /\ Len(Append(s.frames, f)) = Len(s.frames) + 1
      /\ Append(s.frames, f)[Len(s.frames) + 1] = f
      /\ \A j \in 1..Len(s.frames) : Append(s.frames, f)[j] = s.frames[j]
  BY <1>5, <1>6, AppendProperties
<1>8. /\ t \in Segment /\ t.frames = Append(s.frames, f) /\ t.stage = "partial" /\ t.torn = "no"
      /\ t.bucket = s.bucket /\ ~t.synced
  BY <1>3, <1>4, <1>5, <1>7 DEF Segment
<1> HIDE DEF t, f, s, ff, kn, ct
<1>9. Sound(t, PrevLast(segs, w.next), PrevSha(segs, w.next))
  BY <1>3, <1>4, <1>5, <1>6, <1>8, SoundAppend
<1>10. LastOnly(segs, segs') /\ segs'[Len(segs)] = t
  <2>1. segs' = [segs EXCEPT ![Len(segs)] = t] /\ Len(segs) # 0 /\ segs \in Seq(Segment)
    BY <1>1, <1>4, DiskFacts
  <2>2. t \in Segment
    BY <1>8
  <2> QED BY <2>1, <2>2, NewLast
<1>11. Appended(segs, segs', f)
  BY <1>4, <1>6, <1>8, <1>10 DEF Appended, s
<1>12. segs' \in Seq(Segment) /\ Len(segs') = Len(segs) /\ segs'[w.next] = t
  BY <1>4, <1>10 DEF LastOnly
<1>13. /\ Chain(segs') /\ PrevLast(segs', w.next) = PrevLast(segs, w.next)
       /\ PrevSha(segs', w.next) = PrevSha(segs, w.next)
  BY <1>4, <1>9, <1>10, DiskFacts, ChainLast
<1>14. Numbered(segs', accepted)
  BY <1>3, <1>6, <1>11, DiskFacts, NumberedMore
<1>15. DataBytes(segs') = DataBytes(segs) + FrameBytes
  BY <1>4, <1>8, <1>10, <1>11, <1>13, DiskFacts, BytesAppended DEF s
<1>16. /\ PlacesOf(segs') = PlacesOf(segs) \cup {End(segs)}
       /\ Cardinality(PlacesOf(segs')) = Cardinality(PlacesOf(segs)) + 1
       /\ FrameAt(segs', End(segs)) = f
       /\ \A p \in PlacesOf(segs) : FrameAt(segs', p) = FrameAt(segs, p)
  BY <1>11, DiskFacts, OneMore
<1>17. worker # "none" /\ ~failed /\ AllData => AllData'
  <2>1. ~failed => worker = "append"
    BY <1>2 DEF CaptureInv, Handoff
  <2> QED BY <1>6, <1>16, <2>1 DEF AllData
<1>18. /\ op' \in Operation /\ op'.pc = "ok" /\ op'.item = f
       /\ Stages' /\ Queued' /\ Handoff' /\ Receipts'
  BY <1>1, <1>2, <1>17, StepKeeps DEF f
<1>19. /\ w' \in Writer /\ w'.handle = TRUE /\ w'.next = w.next /\ w'.last = f /\ w'.known = kn
       /\ w'.count = ct /\ w'.first = ff /\ w'.bucket = w.bucket /\ w'.prev = w.prev
  <2>1. w \in Writer /\ w.first \in Frame /\ w.count \in Nat /\ w.known \in Nat
    BY DEF CaptureInv, TypeOK, Writer
  <2>2. ff \in Frame /\ kn \in Nat /\ ct \in Nat
    BY <1>6, <2>1, SizeAssumption DEF ff, kn, ct
  <2>3. w.handle = TRUE
    BY <1>3, <2>1 DEF Writer
  <2> QED BY <1>1, <1>6, <2>1, <2>2, <2>3 DEF Writer
<1>20. TypeOK'
  <2>1. w'.next \in DOMAIN segs'
    BY <1>4, <1>12, <1>19, SegmentFields
  <2> QED BY <1>1, <1>4, <1>8, <1>12, <1>18, <1>19, <2>1, Others DEF CaptureInv, TypeOK
<1>21. Holds'
  <2>1. t.frames # <<>> /\ Len(t.frames) = ct /\ t.frames[Len(t.frames)] = f
    <3>1. Len(t.frames) = Len(s.frames) + 1 /\ t.frames[Len(s.frames) + 1] = f
      BY <1>7, <1>8
    <3>2. Len(<<>>) = 0 /\ Len(s.frames) + 1 # 0
      BY <1>5
    <3> QED BY <1>4, <3>1, <3>2 DEF ct
  <2>2. t.frames[1] = ff
    <3>1. CASE s.frames = <<>>
      <4>1. Len(s.frames) + 1 = 1
        BY <3>1
      <4> QED BY <3>1, <4>1, <1>4, <1>7, <1>8 DEF ff
    <3>2. CASE s.frames # <<>>
      <4>1. 1 \in 1..Len(s.frames)
        BY <3>2, <1>5, EmptySeq
      <4>2. t.frames[1] = s.frames[1] /\ w.first = s.frames[1]
        BY <3>2, <4>1, <1>4, <1>7, <1>8
      <4>3. w.first # NoFrame
        <5>1. s.frames[1].n = PrevLast(segs, w.next).n + 1
          BY <3>2, <1>5 DEF Sound
        <5>2. PrevLast(segs, w.next) \in Frame
          <6>1. segs \in Seq(Segment)
            BY DiskFacts
          <6>2. CASE w.next = 1
            BY <6>2, IdleType DEF PrevLast
          <6>3. CASE w.next # 1
            <7>1. w.next - 1 \in 1..Len(segs)
              <8>1. Len(segs) \in Nat
                BY <6>1, SegmentFields
              <8>2. \A a, b \in Nat : a \in 1..b /\ a # 1 => a - 1 \in 1..b
                OBVIOUS
              <8> QED BY <1>4, <6>3, <8>1, <8>2
            <7>2. segs[w.next - 1].manifest \in Manifest
              BY <6>1, <7>1, SegmentFields
            <7> QED BY <6>3, <7>2 DEF PrevLast, Manifest
          <6> QED BY <6>2, <6>3
        <5>3. PrevLast(segs, w.next).n \in Nat
          BY <5>2 DEF Frame
        <5>4. NoFrame.n = 0
          BY DEF NoFrame
        <5> QED BY <4>2, <5>1, <5>3, <5>4
      <4> QED BY <4>2, <4>3 DEF ff
    <3> QED BY <3>1, <3>2
  <2> QED BY <1>4, <1>8, <1>12, <1>13, <1>19, <2>1, <2>2 DEF Holds
<1>22. Sealing' /\ Recovering'
  BY <1>2, <1>18, Others DEF Sealing, SealSteps, Recovering
<1>23. Appending'
  <2>1. f.n = Cardinality(PlacesOf(segs'))
    BY <1>3, <1>6, <1>16
  <2>2. t.frames # <<>>
    <3>1. Len(t.frames) = Len(s.frames) + 1
      BY <1>7, <1>8
    <3> QED BY <3>1, <1>5
  <2> QED BY <1>1, <1>2, <1>3, <1>8, <1>12, <1>18, <1>19, <1>21, <2>1, <2>2, Others
          DEF Appending
<1>24. Handling'
  BY <1>6, <1>18, <1>19, Others DEF Handling
<1>25. Quota'
  <2>1. w.known = DataBytes(segs) /\ copied = 0 /\ "manifest" \notin residue
    BY <1>1, <1>2 DEF CaptureInv, Quota
  <2>2. ResidueBytes' = 0
    BY <1>1, <2>1, SizeAssumption DEF ResidueBytes
  <2>3. DataBytes(segs) + FrameBytes + Reserve <= MaxBytes
    BY <1>1, <2>1 DEF EnsureDataCapacity
  <2>4. DataBytes(segs') + 0 + Reserve <= MaxBytes
    BY <1>15, <2>3, DiskFacts, SizeAssumption
  <2> QED BY <1>1, <1>15, <1>18, <1>19, <2>1, <2>2, <2>4 DEF Quota, kn
<1> QED BY <1>12, <1>13, <1>14, <1>18, <1>20, <1>21, <1>22, <1>23, <1>24, <1>25, Others DEF CaptureInv

\* _open_segment.
LEMMA OpenSegmentKeeps == CaptureInv /\ OpenSegment /\ Elsewhere => CaptureInv'
<1> SUFFICES ASSUME CaptureInv, OpenSegment, Elsewhere PROVE CaptureInv'
  OBVIOUS
<1> DEFINE f == op.item
           b == Bucket(f)
           t == [bucket |-> b, frames |-> <<>>, torn |-> "no", synced |-> FALSE,
                 stage |-> "partial", manifest |-> NoManifest]
<1>1. /\ op.pc = "open" /\ op' = [op EXCEPT !.pc = "write"]
      /\ residue' = residue /\ copied' = copied /\ journal' = journal
      /\ IF w.handle THEN segs' = segs /\ w' = w
         ELSE /\ segs' = Append(segs, t)
              /\ w' = [w EXCEPT !.handle = TRUE, !.bucket = b, !.count = 0, !.first = NoFrame]
  BY DEF OpenSegment, Goto
<1>2. Working /\ Counting /\ worker \in {"append", "fatal"} /\ phase \in {"run", "draining"}
  BY <1>1, Whose DEF SealSteps, RecoverySteps
<1>3. /\ journal = "no" /\ w.last.n = Cardinality(PlacesOf(segs))
      /\ w.handle => Holds /\ ~segs[w.next].synced /\ segs[w.next].frames # <<>>
      /\ ~w.handle => Between
  BY <1>1, <1>2 DEF CaptureInv, Appending, SealSteps
<1>4. f \in Frame /\ b \in Nat
  BY <1>1, <1>2, BucketType DEF CaptureInv, Handling
<1>5. ASSUME AllData => AllData', w'.last = w.last
      PROVE  /\ op' \in Operation /\ op'.pc = "write" /\ op'.item = f
             /\ Stages' /\ Queued' /\ Handoff' /\ Receipts' /\ Sealing' /\ Recovering' /\ Handling'
  <2>1. /\ op' \in Operation /\ op'.pc = "write" /\ op'.item = f
        /\ Stages' /\ Queued' /\ Handoff' /\ Receipts'
    BY <1>1, <1>2, <1>5, StepKeeps
  <2>2. Sealing' /\ Recovering'
    BY <1>2, <2>1, Others DEF Sealing, SealSteps, Recovering
  <2>3. Handling'
    BY <1>1, <1>2, <1>5, <2>1, Others DEF CaptureInv, Handling
  <2> QED BY <2>1, <2>2, <2>3
<1>6. CASE w.handle
  <2>1. segs' = segs /\ w' = w
    BY <1>1, <1>6
  <2>2. /\ op' \in Operation /\ op'.pc = "write" /\ op'.item = f
        /\ Stages' /\ Queued' /\ Handoff' /\ Receipts' /\ Sealing' /\ Recovering' /\ Handling'
    BY <2>1, <1>5 DEF AllData
  <2>3. TypeOK' /\ Chain(segs') /\ Numbered(segs', accepted')
    BY <1>1, <2>1, <2>2, Others DEF CaptureInv, TypeOK
  <2>4. Appending'
    BY <1>1, <1>2, <1>3, <1>6, <2>1, <2>2, SameMemory, Others DEF Appending
  <2>5. Quota'
    BY <1>1, <1>2, <2>1, <2>2 DEF CaptureInv, Quota, ResidueBytes
  <2> QED BY <2>2, <2>3, <2>4, <2>5 DEF CaptureInv
<1>7. CASE ~w.handle
  <2>1. segs' = Append(segs, t)
        /\ w' = [w EXCEPT !.handle = TRUE, !.bucket = b, !.count = 0, !.first = NoFrame]
    BY <1>1, <1>7
  <2>2. /\ w.next = Len(segs) + 1 /\ AllSealed(segs)
        /\ w.last = PrevLast(segs, w.next) /\ w.prev = PrevSha(segs, w.next)
    BY <1>3, <1>7 DEF Between
  <2>3. t \in Segment
    <3>1. NoManifest \in Manifest
      BY IdleType DEF NoManifest, Manifest
    <3> QED BY <1>4, <3>1 DEF Segment
  <2>4. /\ t.bucket = b /\ t.frames = <<>> /\ t.torn = "no" /\ t.synced = FALSE /\ t.stage = "partial"
    OBVIOUS
  <2> HIDE DEF t, b, f
  <2>5. /\ segs' \in Seq(Segment) /\ Len(segs') = Len(segs) + 1 /\ segs'[w.next] = t
        /\ Len(segs) \in Nat /\ \A i \in 1..Len(segs) : segs'[i] = segs[i]
    BY <2>1, <2>2, <2>3, DiskFacts, AppendProperties
  <2>6. SameFrames(segs, segs')
    <3>1. \A i \in (Len(segs) + 1)..Len(segs') : i = w.next
      BY <2>2, <2>5
    <3> QED BY <2>4, <2>5, <3>1, DiskFacts DEF SameFrames
  <2>7. \A i \in 1..(Len(segs) + 1) :
           PrevLast(segs', i) = PrevLast(segs, i) /\ PrevSha(segs', i) = PrevSha(segs, i)
    <3> TAKE i \in 1..(Len(segs) + 1)
    <3>1. i # 1 => i - 1 \in 1..Len(segs)
      BY <2>5
    <3> QED BY <2>5, <3>1 DEF PrevLast, PrevSha
  <2>8. Chain(segs')
    <3> SUFFICES ASSUME NEW i \in 1..Len(segs')
                 PROVE  /\ i < Len(segs') => segs'[i].stage = "sealed"
                        /\ Sound(segs'[i], PrevLast(segs', i), PrevSha(segs', i))
      BY DEF Chain
    <3>1. CASE i = w.next
      <4>1. ~(i < Len(segs'))
        BY <2>2, <2>5, <3>1
      <4>2. Sound(t, PrevLast(segs', i), PrevSha(segs', i))
        BY <2>4 DEF Sound
      <4> QED BY <2>5, <3>1, <4>1, <4>2
    <3>2. CASE i # w.next
      <4>1. i \in 1..Len(segs) /\ i \in 1..(Len(segs) + 1)
        BY <2>2, <2>5, <3>2
      <4>2. segs[i].stage = "sealed" /\ Sound(segs[i], PrevLast(segs, i), PrevSha(segs, i))
        BY <2>2, <4>1, DiskFacts DEF AllSealed, Chain
      <4> QED BY <2>5, <2>7, <4>1, <4>2
    <3> QED BY <3>1, <3>2
  <2>9. Numbered(segs', accepted) /\ PlacesOf(segs') = PlacesOf(segs)
        /\ \A p \in PlacesOf(segs) : FrameAt(segs', p) = FrameAt(segs, p)
    BY <2>6, DiskFacts, NumberedSame, SamePlaces
  <2>10. DataBytes(segs') = DataBytes(segs)
    <3>1. segs'[Len(segs) + 1].stage = "partial" /\ segs'[Len(segs) + 1].torn = "no"
      BY <2>2, <2>4, <2>5
    <3> QED BY <2>2, <2>5, <2>6, <2>8, <3>1, DiskFacts, BytesOpened
  <2>11. /\ w' \in Writer /\ w'.handle = TRUE /\ w'.next = w.next /\ w'.last = w.last
         /\ w'.known = w.known /\ w'.bucket = b /\ w'.count = 0 /\ w'.first = NoFrame
         /\ w'.prev = w.prev
    <3>1. w \in Writer
      BY DEF CaptureInv, TypeOK
    <3> QED BY <1>4, <2>1, <3>1, IdleType DEF Writer
  <2>12. /\ op' \in Operation /\ op'.pc = "write" /\ op'.item = f
         /\ Stages' /\ Queued' /\ Handoff' /\ Receipts' /\ Sealing' /\ Recovering' /\ Handling'
    <3>1. AllData => AllData'
      BY <2>9 DEF AllData
    <3> QED BY <1>5, <2>11, <3>1
  <2>13. Holds'
    <3>1. /\ PrevLast(segs', w.next) = PrevLast(segs, w.next)
          /\ PrevSha(segs', w.next) = PrevSha(segs, w.next)
      BY <2>2, <2>5, <2>7
    <3>2. w.next = Len(segs') /\ w.next \in 1..Len(segs') /\ Len(<<>>) = 0
      BY <2>2, <2>5
    <3> QED BY <2>2, <2>4, <2>5, <2>11, <3>1, <3>2 DEF Holds
  <2>14. TypeOK'
    <3>1. w'.next \in DOMAIN segs' /\ w'.next = Len(segs')
      BY <2>2, <2>5, <2>11, SegmentFields
    <3> QED BY <1>1, <2>4, <2>5, <2>11, <2>12, <3>1, Others DEF CaptureInv, TypeOK
  <2>15. Appending'
    BY <1>1, <1>3, <2>4, <2>5, <2>9, <2>11, <2>12, <2>13, Others DEF Appending, b
  <2>16. Quota'
    BY <1>1, <1>2, <2>10, <2>11, <2>12 DEF CaptureInv, Quota, ResidueBytes
  <2> QED BY <2>5, <2>8, <2>9, <2>12, <2>14, <2>15, <2>16, Others DEF CaptureInv
<1> QED BY <1>6, <1>7

\* The unfinished segment is the last one.
LEMMA TailIs ==
    ASSUME CaptureInv
    PROVE  /\ Unfinished = {} <=> AllSealed(segs)
           /\ ~AllSealed(segs) => Unfinished = {Len(segs)} /\ Len(segs) \in 1..Len(segs)
                                  /\ segs[Len(segs)].stage # "sealed"
<1>1. segs \in Seq(Segment) /\ Chain(segs) /\ Len(segs) \in Nat /\ DOMAIN segs = 1..Len(segs)
  BY DiskFacts, SegmentFields
<1>2. CASE AllSealed(segs)
  BY <1>1, <1>2 DEF Unfinished, Sealed, AllSealed
<1>3. CASE ~AllSealed(segs)
  <2>1. Unfinished = {Len(segs)} /\ Len(segs) # 0
    BY <1>1, <1>3, SealedIs DEF Unfinished, Sealed
  <2>2. segs[Len(segs)].stage # "sealed"
    BY <1>1, <1>3, <2>1, SealedIs
  <2> QED BY <1>1, <1>3, <2>1, <2>2
<1> QED BY <1>2, <1>3

\* The memory a recovered segment is adopted with.
LEMMA AdoptedIs ==
    ASSUME CaptureInv, NEW t \in Segment, t.frames # <<>>
    PROVE  /\ Adopted(t) \in Writer /\ Adopted(t).handle = w.handle /\ Adopted(t).next = w.next
           /\ Adopted(t).prev = w.prev /\ Adopted(t).known = w.known
           /\ Adopted(t).bucket = t.bucket /\ Adopted(t).count = Len(t.frames)
           /\ Adopted(t).first = t.frames[1] /\ Adopted(t).last = t.frames[Len(t.frames)]
<1>1. t.frames \in Seq(Frame) /\ t.bucket \in Nat
  BY DEF Segment
<1>2. Len(t.frames) \in Nat /\ 1 \in 1..Len(t.frames) /\ Len(t.frames) \in 1..Len(t.frames)
  BY <1>1, EmptySeq, LenProperties
<1>3. /\ Head(t.frames) = t.frames[1] /\ Last(t.frames) = t.frames[Len(t.frames)]
      /\ t.frames[1] \in Frame /\ t.frames[Len(t.frames)] \in Frame
  BY <1>1, <1>2, ElementOfSeq, HeadTailProperties DEF Last
<1>4. w \in Writer
  BY DEF CaptureInv, TypeOK
<1> QED BY <1>1, <1>2, <1>3, <1>4 DEF Adopted, Writer

\* _recover_unfinished_tail looks at the tail.
LEMMA ScanTailKeeps == CaptureInv /\ ScanTail /\ Elsewhere => CaptureInv'
<1> SUFFICES ASSUME CaptureInv, ScanTail, Elsewhere PROVE CaptureInv'
  OBVIOUS
<1> DEFINE s == segs[w.next]
<1>1. /\ op.pc = "scan" /\ segs' = segs /\ residue' = residue /\ copied' = copied /\ journal' = journal
  BY DEF ScanTail, diskVars
<1>2. /\ phase = "recover" /\ worker = "none" /\ Counting
      /\ dir = "receipt" /\ terminal = "none"
  BY <1>1, Whose DEF SealSteps
<1>3. /\ ~w.handle /\ w.prev = PrevSha(segs, w.next) /\ journal = "no"
      /\ w.next = IF AllSealed(segs) THEN Len(segs) + 1 ELSE Len(segs)
  BY <1>1, <1>2 DEF CaptureInv, Recovering, RecoverySteps
<1>4. /\ w.known = DataBytes(segs) /\ "manifest" \notin residue /\ copied = 0
  BY <1>1, <1>2 DEF CaptureInv, Quota
<1>5. ASSUME NEW p \in {"verify", "refuse", "rewrite", "manifest"}, op' = [op EXCEPT !.pc = p],
             w' \in Writer, w'.handle = w.handle, w'.next = w.next, w'.known = w.known, w'.prev = w.prev,
             p = "rewrite" => ~AllSealed(segs) /\ s.stage = "partial" /\ s.frames # <<>>,
             p = "manifest" => Holds' /\ s.stage = "final" /\ s.frames # <<>> /\ s.synced
      PROVE  CaptureInv'
  <2>1. /\ op' \in Operation /\ op'.pc = p /\ op'.item = op.item
        /\ Stages' /\ Queued' /\ Handoff' /\ Receipts'
    BY <1>1, <1>2, <1>5, StepKeeps DEF SealSteps, RecoverySteps
  <2>2. TypeOK' /\ Chain(segs') /\ Numbered(segs', accepted')
    BY <1>1, <1>3, <1>5, <2>1, Others DEF CaptureInv, TypeOK
  <2>3. Sealing'
    <3>1. w'.handle = FALSE
      BY <1>3, <1>5 DEF CaptureInv, TypeOK, Writer
    <3> QED BY <1>1, <1>5, <2>1, <3>1 DEF Sealing, SealSteps
  <2>4. Appending' /\ Handling'
    BY <1>2, Others DEF Appending, Working, Handling
  <2>5. Recovering'
    <3>1. ~AllSealed(segs) => Len(segs) \in 1..Len(segs)
      BY TailIs
    <3> QED BY <1>1, <1>3, <1>5, <2>1, <3>1 DEF Recovering, RecoverySteps
  <2>6. Quota'
    BY <1>1, <1>4, <1>5, <2>1 DEF CaptureInv, Quota, ResidueBytes
  <2> QED BY <2>1, <2>2, <2>3, <2>4, <2>5, <2>6 DEF CaptureInv
<1>6. w \in Writer
  BY DEF CaptureInv, TypeOK
<1>7. CASE Unfinished = {} \/ (Unfinished # {w.next} \/ Unreadable(s))
  <2>1. PICK p \in {"verify", "refuse"} : op' = [op EXCEPT !.pc = p] /\ w' = w
    BY <1>7 DEF ScanTail, Goto
  <2> QED BY <1>5, <1>6, <2>1
<1>8. CASE /\ Unfinished # {} /\ ~(Unfinished # {w.next} \/ Unreadable(s))
  <2>1. /\ ~AllSealed(segs) /\ w.next = Len(segs) /\ w.next \in 1..Len(segs)
        /\ s.stage # "sealed" /\ s \in Segment
        /\ Sound(s, PrevLast(segs, w.next), PrevSha(segs, w.next))
    BY <1>3, <1>8, TailIs, DiskFacts
  <2>2. s.frames # <<>> /\ s.stage \in {"partial", "final"}
    BY <1>8, <2>1 DEF Unreadable, Consistent, Segment
  <2>3. CASE s.stage = "partial"
    <3>1. op' = [op EXCEPT !.pc = "rewrite"] /\ w' = w
      BY <1>8, <2>3 DEF ScanTail, Goto
    <3> QED BY <1>5, <1>6, <2>1, <2>2, <2>3, <3>1
  <2>4. CASE s.stage = "final"
    <3>1. op' = [op EXCEPT !.pc = "manifest"] /\ w' = Adopted(s)
      BY <1>8, <2>4 DEF ScanTail, Goto
    <3>2. /\ w' \in Writer /\ w'.handle = w.handle /\ w'.next = w.next
          /\ w'.prev = w.prev /\ w'.known = w.known
          /\ w'.bucket = s.bucket /\ w'.count = Len(s.frames)
          /\ w'.first = s.frames[1] /\ w'.last = s.frames[Len(s.frames)]
      BY <2>1, <2>2, <3>1, AdoptedIs
    <3>3. s.synced /\ s.torn = "no"
      BY <2>1, <2>4 DEF Sound
    <3>4. Holds'
      BY <1>1, <1>3, <2>1, <2>2, <2>4, <3>2, <3>3 DEF Holds
    <3> QED BY <1>5, <2>2, <2>4, <3>1, <3>2, <3>3, <3>4
  <2> QED BY <2>2, <2>3, <2>4
<1> QED BY <1>7, <1>8

\* _rewrite_partial copies the complete frames.
LEMMA RewriteTempKeeps == CaptureInv /\ RewriteTemp /\ Elsewhere => CaptureInv'
<1> SUFFICES ASSUME CaptureInv, RewriteTemp, Elsewhere PROVE CaptureInv'
  OBVIOUS
<1> DEFINE k == Len(segs[w.next].frames)
<1>1. /\ op.pc = "rewrite" /\ EnsureDataCapacity(FrameBytes * k) /\ op' = [op EXCEPT !.pc = "replace"]
      /\ copied' = k /\ segs' = segs /\ residue' = residue /\ journal' = journal /\ w' = w
  BY DEF RewriteTemp, Goto
<1>2. phase = "recover" /\ worker = "none" /\ Counting
  BY <1>1, Whose DEF SealSteps
<1>3. k \in Nat
  <2>1. w.next \in 1..Len(segs)
    BY <1>1, <1>2 DEF CaptureInv, Recovering
  <2> QED BY <2>1, DiskFacts, SegmentFields
<1> HIDE DEF k
<1>4. /\ op' \in Operation /\ op'.pc = "replace" /\ op'.item = op.item
      /\ Stages' /\ Queued' /\ Handoff' /\ Receipts'
  BY <1>1, <1>2, StepKeeps DEF SealSteps, RecoverySteps
<1>5. TypeOK' /\ Chain(segs') /\ Numbered(segs', accepted')
  BY <1>1, <1>3, <1>4, Others DEF CaptureInv, TypeOK
<1>6. Sealing' /\ Appending' /\ Handling'
  BY <1>2, <1>4, Others DEF Sealing, SealSteps, Appending, Working, Handling
<1>7. Recovering'
  BY <1>1, <1>4, Others DEF CaptureInv, Recovering, RecoverySteps
<1>8. Quota'
  <2>1. w.known = DataBytes(segs) /\ "manifest" \notin residue
    BY <1>1, <1>2 DEF CaptureInv, Quota
  <2>2. FrameBytes * k \in Nat
    BY <1>3, Products, SizeAssumption
  <2>3. ResidueBytes' = FrameBytes * k
    BY <1>1, <2>1, <2>2 DEF ResidueBytes
  <2>4. DataBytes(segs) + FrameBytes * k + Reserve <= MaxBytes
    BY <1>1, <2>1 DEF EnsureDataCapacity
  <2> QED BY <1>1, <1>4, <2>1, <2>3, <2>4 DEF Quota, k
<1> QED BY <1>4, <1>5, <1>6, <1>7, <1>8 DEF CaptureInv

\* The copy replaces the partial, which is adopted.
LEMMA ReplacePartialKeeps == CaptureInv /\ ReplacePartial /\ Elsewhere => CaptureInv'
<1> SUFFICES ASSUME CaptureInv, ReplacePartial, Elsewhere PROVE CaptureInv'
  OBVIOUS
<1> DEFINE s == segs[w.next]
           t == [s EXCEPT !.torn = "no", !.synced = TRUE]
<1>1. /\ op.pc = "replace" /\ op' = [op EXCEPT !.pc = "fsync"]
      /\ segs' = [segs EXCEPT ![w.next] = t]
      /\ w' = [Adopted(t) EXCEPT !.handle = TRUE, !.known = @ - TornBytes(s)]
      /\ copied' = 0 /\ residue' = residue /\ journal' = journal
  BY DEF ReplacePartial, Goto
<1>2. phase = "recover" /\ worker = "none" /\ Counting
  BY <1>1, Whose DEF SealSteps
<1>3. /\ w.prev = PrevSha(segs, w.next) /\ w.next \in 1..Len(segs) /\ journal = "no"
      /\ s.stage = "partial" /\ s.frames # <<>> /\ w.next = Len(segs)
  <2>1. /\ w.prev = PrevSha(segs, w.next) /\ w.next \in 1..Len(segs) /\ journal = "no"
        /\ s.stage = "partial" /\ s.frames # <<>>
        /\ w.next = IF AllSealed(segs) THEN Len(segs) + 1 ELSE Len(segs)
    BY <1>1, <1>2 DEF CaptureInv, Recovering, RecoverySteps
  <2>2. ~AllSealed(segs)
    BY <2>1 DEF AllSealed
  <2> QED BY <2>1, <2>2
<1>4. s \in Segment /\ Sound(s, PrevLast(segs, w.next), PrevSha(segs, w.next))
  BY <1>3, DiskFacts
<1>5. /\ t \in Segment /\ t.frames = s.frames /\ t.bucket = s.bucket /\ t.torn = "no"
      /\ t.stage = "partial" /\ t.synced = TRUE
  BY <1>3, <1>4 DEF Segment
<1>6. Sound(t, PrevLast(segs, w.next), PrevSha(segs, w.next))
  BY <1>4, <1>5 DEF Sound
<1> HIDE DEF t
<1>7. Changed(segs, segs', t) /\ Numbered(segs', accepted) /\ (AllData' <=> AllData)
  BY <1>1, <1>3, <1>5, <1>6, LastOf
<1>8. /\ segs' \in Seq(Segment) /\ Len(segs') = Len(segs) /\ segs'[w.next] = t /\ Chain(segs')
      /\ PrevLast(segs', w.next) = PrevLast(segs, w.next)
      /\ PrevSha(segs', w.next) = PrevSha(segs, w.next)
      /\ DataBytes(segs) \in Nat /\ DataBytes(segs') \in Nat /\ TornBytes(s) \in Nat
      /\ TornBytes(s) <= DataBytes(segs)
  BY <1>3, <1>7 DEF Changed
<1>9. DataBytes(segs') + TornBytes(s) = DataBytes(segs) + 0 + 0
  <2>1. TornBytes(t) = 0
    BY <1>5 DEF TornBytes
  <2> QED BY <2>1, <1>3, <1>5, <1>7 DEF Changed
<1>10. DataBytes(segs') = DataBytes(segs) - TornBytes(s) /\ DataBytes(segs') <= DataBytes(segs)
  BY <1>8, <1>9
<1>11. w.known = DataBytes(segs) /\ "manifest" \notin residue
  BY <1>1, <1>2 DEF CaptureInv, Quota
<1>12. /\ w' \in Writer /\ w'.handle = TRUE /\ w'.next = w.next /\ w'.prev = w.prev
       /\ w'.known = DataBytes(segs')
       /\ w'.bucket = t.bucket /\ w'.count = Len(t.frames)
       /\ w'.first = t.frames[1] /\ w'.last = t.frames[Len(t.frames)]
  <2> DEFINE a == Adopted(t)
  <2>1. /\ a \in Writer /\ a.next = w.next /\ a.prev = w.prev /\ a.known = w.known
        /\ a.bucket = t.bucket /\ a.count = Len(t.frames)
        /\ a.first = t.frames[1] /\ a.last = t.frames[Len(t.frames)]
    BY <1>3, <1>5, AdoptedIs
  <2>2. w' = [a EXCEPT !.handle = TRUE, !.known = DataBytes(segs')]
    BY <1>1, <1>10, <1>11, <2>1
  <2> HIDE DEF a
  <2> QED BY <1>8, <2>1, <2>2 DEF Writer
<1>13. /\ op' \in Operation /\ op'.pc = "fsync" /\ op'.item = op.item
       /\ Stages' /\ Queued' /\ Handoff' /\ Receipts'
  BY <1>1, <1>2, <1>7, StepKeeps DEF SealSteps
<1>14. TypeOK'
  <2>1. w'.next \in DOMAIN segs'
    BY <1>3, <1>8, <1>12, SegmentFields
  <2> QED BY <1>1, <1>3, <1>5, <1>8, <1>12, <1>13, <2>1, Others DEF CaptureInv, TypeOK
<1>15. Holds'
  BY <1>3, <1>5, <1>8, <1>12 DEF Holds
<1>16. Sealing'
  BY <1>3, <1>5, <1>8, <1>12, <1>13, <1>15 DEF Sealing, SealSteps
<1>17. Appending' /\ Handling'
  BY <1>2, Others DEF Appending, Working, Handling
<1>18. Recovering'
  BY <1>1, <1>3, <1>13 DEF Recovering, RecoverySteps
<1>19. Quota'
  <2>1. ResidueBytes' = 0
    BY <1>1, <1>11, SizeAssumption DEF ResidueBytes
  <2>2. DataBytes(segs) + ResidueBytes + Reserve <= MaxBytes /\ ResidueBytes \in Nat
    <3>1. copied \in Nat
      BY DEF CaptureInv, TypeOK
    <3>2. FrameBytes * copied \in Nat
      BY <3>1, SizeAssumption, Products
    <3> QED BY <3>2, SizeAssumption DEF ResidueBytes, CaptureInv, Quota
  <2>3. \A a, b, c, d, e \in Int : a <= b /\ c >= 0 /\ b + c + d <= e => a + 0 + d <= e
    OBVIOUS
  <2>4. DataBytes(segs') + 0 + Reserve <= MaxBytes
    BY <1>8, <1>10, <2>2, <2>3, SizeAssumption
  <2> QED BY <1>1, <1>11, <1>12, <1>13, <2>1, <2>4 DEF Quota
<1> QED BY <1>7, <1>8, <1>13, <1>14, <1>16, <1>17, <1>18, <1>19, Others DEF CaptureInv

\* A rename or a promotion whose directory fsync raises: the last segment is
\* sound in its new form, and the bytes on disk are those counted before.
LEMMA PublishFailsKeeps == CaptureInv /\ PublishFails /\ Elsewhere => CaptureInv'
<1> SUFFICES ASSUME CaptureInv, PublishFails, Elsewhere PROVE CaptureInv'
  OBVIOUS
<1> DEFINE s == segs[w.next]
<1>1. /\ op.pc \in {"rename", "promote", "replace"} /\ op' = [op EXCEPT !.pc = "error"]
      /\ journal' = journal /\ w' = w
  BY DEF PublishFails, Goto
<1>2. Counting
  BY <1>1, Whose DEF SealSteps, RecoverySteps
<1>3. /\ w.known = DataBytes(segs)
      /\ "manifest" \in residue <=> op.pc = "promote"
      /\ copied = IF op.pc = "replace" THEN Len(s.frames) ELSE 0
      /\ DataBytes(segs) + ResidueBytes + Reserve <= MaxBytes
  BY <1>2 DEF CaptureInv, Quota
<1>4. /\ w.next = Len(segs) /\ w.next \in 1..Len(segs)
      /\ op.pc \in {"rename", "promote"} => ~w.handle /\ Holds /\ s.synced /\ s.frames # <<>>
      /\ s.stage = IF op.pc = "promote" THEN "final" ELSE "partial"
  <2>1. CASE op.pc \in {"rename", "promote"}
    <3>1. Holds /\ s.frames # <<>> /\ s.synced /\ ~w.handle
          /\ s.stage = IF op.pc = "promote" THEN "final" ELSE "partial"
      BY <2>1 DEF CaptureInv, Sealing, SealSteps, TypeOK, Writer
    <3> QED BY <2>1, <3>1 DEF Holds
  <2>2. CASE op.pc = "replace"
    <3>1. phase = "recover"
      BY <2>2, Whose DEF SealSteps
    <3>2. /\ w.next \in 1..Len(segs) /\ s.stage = "partial"
          /\ w.next = IF AllSealed(segs) THEN Len(segs) + 1 ELSE Len(segs)
      BY <2>2, <3>1 DEF CaptureInv, Recovering, RecoverySteps
    <3>3. ~AllSealed(segs)
      BY <3>2 DEF AllSealed
    <3> QED BY <2>2, <3>2, <3>3
  <2> QED BY <1>1, <2>1, <2>2
<1>5. s \in Segment /\ Sound(s, PrevLast(segs, w.next), PrevSha(segs, w.next)) /\ s.frames \in Seq(Frame)
  BY <1>4, DiskFacts DEF Segment
<1>6. PICK t \in Segment :
          /\ segs' = [segs EXCEPT ![w.next] = t] /\ t.frames = s.frames /\ TornBytes(t) = 0
          /\ Sound(t, PrevLast(segs, w.next), PrevSha(segs, w.next))
          /\ t.stage = "sealed" <=> op.pc = "promote"
          /\ w.handle => t.stage = "partial"
          /\ residue' \subseteq residue \ {"manifest"} /\ copied' = 0
  <2>1. CASE op.pc = "rename"
    <3> DEFINE t == [s EXCEPT !.stage = "final"]
    <3>1. segs' = [segs EXCEPT ![w.next] = t] /\ residue' = residue /\ copied' = copied
      BY <2>1 DEF PublishFails
    <3>2. s.torn = "no"
      BY <2>1, <1>4 DEF Holds
    <3>3. /\ t \in Segment /\ t.frames = s.frames /\ t.bucket = s.bucket /\ t.torn = "no"
          /\ t.stage = "final" /\ t.synced = s.synced
      BY <1>5, <3>2 DEF Segment
    <3>4. Sound(t, PrevLast(segs, w.next), PrevSha(segs, w.next))
      BY <2>1, <1>4, <1>5, <3>3 DEF Sound
    <3> HIDE DEF t
    <3>5. TornBytes(t) = 0
      BY <3>3 DEF TornBytes
    <3> QED BY <2>1, <1>3, <1>4, <3>1, <3>3, <3>4, <3>5
  <2>2. CASE op.pc = "promote"
    <3> DEFINE m == [first |-> w.first, last |-> w.last, count |-> w.count,
                     sha |-> s.frames, prev |-> w.prev]
               t == [s EXCEPT !.stage = "sealed", !.manifest = m]
    <3>1. segs' = [segs EXCEPT ![w.next] = t] /\ residue' = residue \ {"manifest"} /\ copied' = copied
      BY <2>2 DEF PublishFails
    <3>2. /\ s.torn = "no" /\ w.count = Len(s.frames) /\ w.prev = PrevSha(segs, w.next)
          /\ w.first = s.frames[1] /\ w.last = s.frames[Len(s.frames)]
      BY <2>2, <1>4 DEF Holds
    <3>3. m \in Manifest
      <4>1. w.first \in Frame /\ w.last \in Frame /\ w.count \in Nat /\ w.prev \in Seq(Frame)
        BY DEF CaptureInv, TypeOK, Writer
      <4> QED BY <1>5, <4>1 DEF Manifest
    <3>4. /\ t \in Segment /\ t.frames = s.frames /\ t.bucket = s.bucket /\ t.torn = s.torn
          /\ t.synced = s.synced /\ t.stage = "sealed" /\ t.manifest = m
      BY <1>5, <3>3 DEF Segment
    <3>5. Sound(t, PrevLast(segs, w.next), PrevSha(segs, w.next))
      BY <2>2, <1>4, <1>5, <3>2, <3>4 DEF Sound
    <3> HIDE DEF t, m
    <3>6. TornBytes(t) = 0
      BY <3>2, <3>4 DEF TornBytes
    <3> QED BY <2>2, <1>3, <1>4, <3>1, <3>4, <3>5, <3>6
  <2>3. CASE op.pc = "replace"
    <3> DEFINE t == [s EXCEPT !.torn = "no", !.synced = TRUE]
    <3>1. segs' = [segs EXCEPT ![w.next] = t] /\ residue' = residue /\ copied' = 0
      BY <2>3 DEF PublishFails
    <3>2. /\ t \in Segment /\ t.frames = s.frames /\ t.bucket = s.bucket /\ t.torn = "no"
          /\ t.stage = "partial" /\ t.synced = TRUE
      BY <2>3, <1>4, <1>5 DEF Segment
    <3>3. Sound(t, PrevLast(segs, w.next), PrevSha(segs, w.next))
      BY <1>5, <3>2 DEF Sound
    <3> HIDE DEF t
    <3>4. TornBytes(t) = 0
      BY <3>2 DEF TornBytes
    <3> QED BY <2>3, <1>3, <3>1, <3>2, <3>3, <3>4
  <2> QED BY <1>1, <2>1, <2>2, <2>3
<1>7. s.stage # "sealed"
  BY <1>4
<1>8. Changed(segs, segs', t) /\ Numbered(segs', accepted) /\ (AllData' <=> AllData)
  BY <1>4, <1>6, <1>7, LastOf
<1>9. op' \in Operation /\ op'.pc = "error" /\ Stages' /\ Queued' /\ Handoff' /\ Receipts'
  BY <1>1, <1>8, StepKeeps
<1>10. segs' \in Seq(Segment) /\ Len(segs') = Len(segs) /\ segs'[w.next] = t /\ Chain(segs')
  BY <1>4, <1>8 DEF Changed
<1>11. TypeOK'
  <2>1. w'.next \in DOMAIN segs'
    BY <1>1, <1>4, <1>10, SegmentFields
  <2> QED BY <1>1, <1>4, <1>6, <1>9, <1>10, <2>1, Others DEF CaptureInv, TypeOK
<1>12. Sealing' /\ Appending' /\ Handling'
  BY <1>9 DEF Sealing, SealSteps, Appending, Working, Handling
<1>13. Recovering'
  BY <1>1, <1>9, Others DEF CaptureInv, Recovering, RecoverySteps
<1>14. Quota'
  <2>1. DataBytes(segs') + TornBytes(s) =
            DataBytes(segs) + 0 + (IF op.pc = "promote" THEN ManifestBytes ELSE 0)
    BY <1>4, <1>6, <1>8 DEF Changed
  <2>2. /\ DataBytes(segs) \in Nat /\ DataBytes(segs') \in Nat /\ TornBytes(s) \in Nat
    BY <1>4, <1>8 DEF Changed
  <2>3. ResidueBytes' = 0
    BY <1>6, SizeAssumption DEF ResidueBytes
  <2>4. ResidueBytes \in Nat /\ (op.pc = "promote" => ResidueBytes >= ManifestBytes)
    <3>1. copied \in Nat
      BY DEF CaptureInv, TypeOK
    <3>2. FrameBytes * copied \in Nat
      BY <3>1, SizeAssumption, Products
    <3>3. ManifestBytes \in Nat /\ ResidueBytes =
              (IF "manifest" \in residue THEN ManifestBytes ELSE 0) + FrameBytes * copied
      BY SizeAssumption DEF ResidueBytes
    <3>4. \A a, b \in Nat : a + b \in Nat /\ 0 + b \in Nat /\ a + b >= a
      OBVIOUS
    <3> QED BY <1>3, <3>2, <3>3, <3>4
  <2>5. \A a, b, c, d, e, r, x \in Int :
            a + c = b + 0 + x /\ c >= 0 /\ r >= x /\ b + r + d <= e => a + 0 + d <= e
    OBVIOUS
  <2>6. DataBytes(segs') + 0 + Reserve <= MaxBytes
    <3> DEFINE x == IF op.pc = "promote" THEN ManifestBytes ELSE 0
    <3>1. x \in Nat /\ ResidueBytes >= x
      BY <2>4, SizeAssumption
    <3>2. DataBytes(segs') + TornBytes(s) = DataBytes(segs) + 0 + x
      BY <2>1
    <3> HIDE DEF x
    <3> QED BY <1>3, <2>2, <2>4, <2>5, <3>1, <3>2, SizeAssumption
  <2>7. ~Counting'
    BY <1>9 DEF Counting, Working, SealSteps, RecoverySteps
  <2> QED BY <2>3, <2>6, <2>7 DEF Quota
<1> QED BY <1>8, <1>9, <1>10, <1>11, <1>12, <1>13, <1>14, Others DEF CaptureInv

\* The recovered directory is verified.
LEMMA VerifyRecoveredKeeps == CaptureInv /\ VerifyRecovered /\ Elsewhere => CaptureInv'
<1> SUFFICES ASSUME CaptureInv, VerifyRecovered, Elsewhere PROVE CaptureInv'
  OBVIOUS
<1> DEFINE p == IF Verified(FALSE) THEN "ok" ELSE "refuse"
<1>1. /\ op.pc = "verify" /\ op' = [op EXCEPT !.pc = p]
      /\ segs' = segs /\ residue' = residue /\ copied' = copied /\ journal' = journal /\ w' = w
  BY DEF VerifyRecovered, Goto, diskVars
<1>2. phase = "recover" /\ worker = "none"
  BY <1>1, Whose DEF SealSteps
<1>3. p \in {"ok", "refuse"} /\ (p = "ok" => AllSealed(segs))
  BY TailIs DEF Verified
<1> HIDE DEF p
<1>4. /\ op' \in Operation /\ op'.pc = p /\ op'.item = op.item
      /\ Stages' /\ Queued' /\ Handoff' /\ Receipts'
  BY <1>1, <1>2, <1>3, StepKeeps
<1>5. TypeOK' /\ Chain(segs') /\ Numbered(segs', accepted')
  BY <1>1, <1>4, Others DEF CaptureInv, TypeOK
<1>6. Sealing' /\ Appending' /\ Handling'
  BY <1>2, <1>3, <1>4, Others DEF Sealing, SealSteps, Appending, Working, Handling
<1>7. Recovering'
  BY <1>1, <1>3, <1>4, Others DEF CaptureInv, Recovering, RecoverySteps
<1>8. Quota'
  BY <1>1, <1>2, <1>3, <1>4, Others DEF CaptureInv, Quota, ResidueBytes, Counting, Working, SealSteps,
                                        RecoverySteps
<1> QED BY <1>4, <1>5, <1>6, <1>7, <1>8 DEF CaptureInv

-----------------------------------------------------------------------------
(* The invariant and what follows from it *)

\* Nothing changes.
LEMMA StutterKeeps == CaptureInv /\ UNCHANGED vars => CaptureInv'
<1> SUFFICES ASSUME CaptureInv, UNCHANGED vars PROVE CaptureInv'
  OBVIOUS
<1>1. /\ segs' = segs /\ residue' = residue /\ copied' = copied /\ journal' = journal
      /\ w' = w /\ op' = op /\ dir' = dir /\ terminal' = terminal /\ phase' = phase
      /\ normal' = normal /\ queue' = queue /\ accepting' = accepting /\ failed' = failed
      /\ accepted' = accepted /\ worker' = worker /\ crashes' = crashes
  BY DEF vars, storageVars, diskVars, receiptVars, handoffVars
<1>2. TypeOK' /\ Chain(segs') /\ Numbered(segs', accepted')
  BY <1>1 DEF CaptureInv, TypeOK
<1>3. Stages'
  BY <1>1 DEF CaptureInv, Stages, StorageInit
<1>4. Sealing' /\ Appending' /\ Recovering'
  <2>1. Working' <=> Working
    BY <1>1 DEF Working
  <2> QED BY <1>1, <2>1, SameMemory DEF CaptureInv, Sealing, Appending, Recovering
<1>5. Handling' /\ Queued'
  <2>1. Taken' = Taken
    BY <1>1 DEF Taken
  <2>2. \A i : InQueue(i)' <=> InQueue(i)
    BY <1>1, <2>1 DEF InQueue
  <2> QED BY <1>1, <2>1, <2>2 DEF CaptureInv, Handling, Queued
<1>6. Handoff' /\ Receipts'
  BY <1>1 DEF CaptureInv, Handoff, Receipts, AllData
<1>7. Quota'
  BY <1>1 DEF CaptureInv, Quota, ResidueBytes, Counting, Working
<1> QED BY <1>2, <1>3, <1>4, <1>5, <1>6, <1>7 DEF CaptureInv

\* Every step of the writer keeps the invariant.
LEMMA WritingKeeps == CaptureInv /\ Writing => CaptureInv'
<1> SUFFICES ASSUME CaptureInv, Writing PROVE CaptureInv'
  OBVIOUS
<1>1. StorageStep /\ Elsewhere
  BY DEF Writing, Elsewhere
<1> QED BY <1>1, CheckRecordKeeps, OpenSegmentKeeps, WriteFrameKeeps, ShortWriteKeeps,
           SyncSegmentKeeps, RenameSegmentKeeps, WriteManifestTempKeeps, PromoteManifestKeeps,
           StepFailsKeeps, ScanTailKeeps, RewriteTempKeeps, ReplacePartialKeeps,
           PublishFailsKeeps, VerifyRecoveredKeeps DEF StorageStep

\* Every step keeps the invariant.
LEMMA NextKeeps == CaptureInv /\ [Next]_vars => CaptureInv'
<1> SUFFICES ASSUME CaptureInv, [Next]_vars PROVE CaptureInv'
  OBVIOUS
<1>1. CASE Next
  <2>1. CASE \E t \in Times : Accept(t) \/ Reject(t)
    BY <2>1, AcceptKeeps, RejectKeeps
  <2>2. CASE MakeDirectory \/ StartGeneration \/ StopPipeline \/ Restart \/ Crash
    BY <2>2, MakeDirectoryKeeps, StartGenerationKeeps, StopPipelineKeeps, RestartKeeps, CrashKeeps
  <2>3. CASE WorkerStep
    BY <2>3, TakeKeeps, AppendDoneKeeps, FatalDoneKeeps, CloseDoneKeeps, FailWriterKeeps,
       WriteEmergencyKeeps, AbortKeeps DEF WorkerStep
  <2>4. CASE Writing \/ StopReturns \/ RecoveryEnds \/ TerminalRefused \/ WriteTerminalTemp \/ PromoteTerminal
    BY <2>4, WritingKeeps, StopReturnsKeeps, RecoveryEndsKeeps, TerminalRefusedKeeps,
       WriteTerminalTempKeeps, PromoteTerminalKeeps
  <2> QED BY <1>1, <2>1, <2>2, <2>3, <2>4 DEF Next, Progress
<1> QED BY <1>1, StutterKeeps

(* Every state of a generation satisfies the invariant: the chain of the      *)
(* files, the numbering, the writer's memory, the handoff and the quota.      *)
THEOREM CaptureInvariant == Spec => []CaptureInv
BY InitHolds, NextKeeps, PTL DEF Spec

(* The writer, the handoff, the receipts and the files keep their types, and  *)
(* an open handle is on the last, unfinished segment.                         *)
THEOREM CaptureTypes == Spec => []TypeOK
<1>1. CaptureInv => TypeOK
  BY DEF CaptureInv
<1> QED BY <1>1, CaptureInvariant, PTL

(* The size of the directory stays within maximum_total_bytes through every   *)
(* append, rotation, torn write, fatal journal, crash and recovery.           *)
THEOREM DirectoryWithinQuota == Spec => []DiskWithinQuota
<1>1. ASSUME CaptureInv PROVE DiskWithinQuota
  <2> DEFINE d == DataBytes(segs)
             r == ResidueBytes
             j == IF journal = "no" THEN 0 ELSE JournalBytes
  <2>1. d \in Nat /\ d + r + Reserve <= MaxBytes
    BY <1>1, DiskFacts DEF CaptureInv, Quota
  <2>2. r \in Nat
    <3>1. copied \in Nat
      BY <1>1 DEF CaptureInv, TypeOK
    <3>2. FrameBytes * copied \in Nat
      BY <3>1, SizeAssumption, Products
    <3> QED BY <3>2, SizeAssumption DEF ResidueBytes
  <2>3. j \in Nat /\ j <= Reserve
    BY SizeAssumption
  <2>4. DirectorySize = d + r + j
    BY Same
  <2> HIDE DEF d, r, j
  <2>5. d + r + j <= MaxBytes
    BY <2>1, <2>2, <2>3, SizeAssumption
  <2> QED BY <2>4, <2>5 DEF DiskWithinQuota
<1> QED BY <1>1, CaptureInvariant, PTL

\* A sealed segment is what its manifest says, and follows the one before it.
LEMMA LinksVerify ==
    ASSUME CaptureInv, NEW i \in Sealed
    PROVE  /\ Describes(segs[i].manifest, segs[i])
           /\ IF i = 1 THEN segs[1].manifest.prev = <<>> /\ segs[1].manifest.first.n = 1
                       ELSE Follows(segs[i].manifest, segs[i - 1].manifest)
<1> DEFINE s == segs[i]
           m == segs[i].manifest
<1>1. segs \in Seq(Segment) /\ Chain(segs) /\ DOMAIN segs = 1..Len(segs)
  BY DiskFacts, SegmentFields
<1>2. i \in 1..Len(segs) /\ s.stage = "sealed" /\ Sound(s, PrevLast(segs, i), PrevSha(segs, i))
  BY <1>1 DEF Sealed, Chain
<1>3. /\ s.frames # <<>> /\ s.torn = "no" /\ Consistent(s.frames) /\ Bucket(s.frames[1]) = s.bucket
      /\ s.frames[1].n = PrevLast(segs, i).n + 1 /\ s.frames[1].at >= PrevLast(segs, i).at
      /\ m = [first |-> s.frames[1], last |-> s.frames[Len(s.frames)],
              count |-> Len(s.frames), sha |-> s.frames, prev |-> PrevSha(segs, i)]
  BY <1>2 DEF Sound
<1>4. /\ m.first = s.frames[1] /\ m.last = s.frames[Len(s.frames)] /\ m.count = Len(s.frames)
      /\ m.sha = s.frames /\ m.prev = PrevSha(segs, i)
  BY <1>3
<1>5. Head(s.frames) = s.frames[1] /\ Last(s.frames) = s.frames[Len(s.frames)]
  BY DEF Last
<1> HIDE DEF m, s
<1>6. Describes(m, s)
  BY <1>3, <1>4, <1>5 DEF Describes
<1>7. CASE i = 1
  <2>1. PrevLast(segs, i).n + 1 = 1 /\ PrevSha(segs, i) = <<>>
    BY <1>7 DEF PrevLast, PrevSha, NoFrame
  <2> QED BY <1>3, <1>4, <1>6, <1>7, <2>1 DEF m, s
<1>8. CASE i # 1
  <2>1. PrevLast(segs, i) = segs[i - 1].manifest.last /\ PrevSha(segs, i) = segs[i - 1].manifest.sha
    BY <1>8 DEF PrevLast, PrevSha
  <2>2. Follows(m, segs[i - 1].manifest)
    BY <1>3, <1>4, <2>1 DEF Follows
  <2> QED BY <1>6, <1>8, <2>2 DEF m, s
<1> QED BY <1>7, <1>8

\* The files verify; with all segments sealed also without a tail.
LEMMA FilesVerify ==
    ASSUME CaptureInv, journal = "no"
    PROVE  Verified(TRUE) /\ (AllSealed(segs) => Verified(FALSE))
<1>1. Sealed = 1..Cardinality(Sealed)
  <2>1. segs \in Seq(Segment) /\ Chain(segs)
    BY DiskFacts
  <2>2. AllSealed(segs) => Sealed = 1..Len(segs) /\ Cardinality(Sealed) = Len(segs)
    BY <2>1, SealedIs DEF Sealed
  <2>3. ~AllSealed(segs) => Sealed = 1..(Len(segs) - 1) /\ Cardinality(Sealed) = Len(segs) - 1
    BY <2>1, SealedIs DEF Sealed
  <2> QED BY <2>2, <2>3
<1>2. AllSealed(segs) => Unfinished = {}
  BY TailIs
<1> QED BY <1>1, <1>2, LinksVerify DEF Verified

(* As long as no fatal journal is there, verify_capture_segments accepts the  *)
(* directory after every step of the writer and after every crash.            *)
THEOREM ChainAlwaysVerifies == Spec => []ChainVerifies
<1>1. CaptureInv => ChainVerifies
  BY FilesVerify DEF ChainVerifies
<1> QED BY <1>1, CaptureInvariant, PTL

-----------------------------------------------------------------------------
(* The stored frames, in order *)

StoredOf(ss) ==
    [k \in 1..Cardinality(PlacesOf(ss)) |->
        LET p == CHOOSE p \in PlacesOf(ss) : Cardinality(Before(PlacesOf(ss), p)) = k - 1
        IN  ss[p[1]].frames[p[2]]]

\* The frame of rank k has number k and is the k-th accepted record.
LEMMA StoredIs ==
    ASSUME NEW ss \in Seq(Segment), NEW acc, Numbered(ss, acc),
           NEW k \in 1..Cardinality(PlacesOf(ss))
    PROVE  /\ StoredOf(ss)[k].n = k
           /\ StoredOf(ss)[k].kind = "data" => k \in 1..Len(acc) /\ acc[k] = StoredOf(ss)[k]
           /\ \E p \in PlacesOf(ss) : StoredOf(ss)[k] = FrameAt(ss, p)
<1> DEFINE q == CHOOSE p \in PlacesOf(ss) : Cardinality(Before(PlacesOf(ss), p)) = k - 1
<1>1. IsFiniteSet(PlacesOf(ss))
  BY DEF Numbered
<1>2. Cardinality(PlacesOf(ss)) \in Nat
      /\ \E p \in PlacesOf(ss) : Cardinality(Before(PlacesOf(ss), p)) = k - 1
  BY <1>1, RankIs
<1>3. q \in PlacesOf(ss) /\ Cardinality(Before(PlacesOf(ss), q)) = k - 1
  BY <1>2
<1>4. StoredOf(ss)[k] = FrameAt(ss, q)
  BY DEF StoredOf, FrameAt
<1> HIDE DEF q
<1>5. FrameAt(ss, q).n = k
  <2>1. FrameAt(ss, q).n = Cardinality(Before(PlacesOf(ss), q)) + 1
    BY <1>3 DEF Numbered
  <2> QED BY <1>2, <1>3, <2>1
<1>6. FrameAt(ss, q).kind = "data" => k \in 1..Len(acc) /\ acc[k] = FrameAt(ss, q)
  BY <1>3, <1>5 DEF Numbered
<1> QED BY <1>3, <1>4, <1>5, <1>6

\* Stored by the segment files.
LEMMA StoredSame == Stored = StoredOf(segs)
BY DEF Stored, StoredOf, Places, PlacesOf, Behind, Before

(* The terminal receipt is true, whatever was rejected, torn, lost in a crash *)
(* or recovered before it was written.                                        *)
THEOREM VerdictAlwaysTrue == Spec => []VerdictIsTrue
<1>1. ASSUME CaptureInv PROVE VerdictIsTrue
  <2> DEFINE N == Cardinality(PlacesOf(segs))
  <2>0. segs \in Seq(Segment) /\ Numbered(segs, accepted) /\ N \in Nat /\ DOMAIN Stored = 1..N
    BY <1>1, DiskFacts, StoredSame DEF StoredOf
  <2>1. terminal # "none" => Verified(FALSE)
    BY <1>1, FilesVerify DEF CaptureInv, Receipts
  <2>2. ASSUME terminal = "clean" PROVE ~failed /\ Stored = accepted
    <3>1. ~failed /\ N = Len(accepted) /\ AllData
      BY <1>1, <2>2 DEF CaptureInv, Receipts
    <3>2. accepted \in Seq(Frame)
      BY <1>1 DEF CaptureInv, TypeOK
    <3>3. DOMAIN accepted = 1..N /\ accepted = [k \in 1..N |-> accepted[k]]
      BY <3>1, <3>2
    <3>4. \A k \in 1..N : Stored[k] = accepted[k]
      BY <2>0, <3>1, StoredIs, StoredSame DEF AllData
    <3>5. Stored = [k \in 1..N |-> Stored[k]]
      BY StoredSame DEF StoredOf
    <3> HIDE DEF N
    <3> QED BY <3>1, <3>3, <3>4, <3>5
  <2>3. \A i \in DOMAIN Stored :
           Stored[i].kind = "data" => i <= Len(accepted) /\ Stored[i] = accepted[i]
    <3> SUFFICES ASSUME NEW i \in 1..N, Stored[i].kind = "data"
                 PROVE  i <= Len(accepted) /\ Stored[i] = accepted[i]
      BY <2>0
    <3>1. i \in 1..Len(accepted) /\ accepted[i] = Stored[i]
      BY <2>0, StoredIs, StoredSame
    <3>2. Len(accepted) \in Nat
      BY <1>1 DEF CaptureInv, TypeOK
    <3> QED BY <3>1, <3>2
  <2> QED BY <2>1, <2>2, <2>3 DEF VerdictIsTrue
<1> QED BY <1>1, CaptureInvariant, PTL

-----------------------------------------------------------------------------
(* The refinement of EvidenceLog *)

Count(n) == [k \in 1..n |-> k]
SyncedPlaces(ss) == {p \in PlacesOf(ss) : ss[p[1]].synced}

\* The sequence 1..n, one longer and cut short.
LEMMA Counts ==
    ASSUME NEW n \in Nat
    PROVE  /\ Len(Count(n)) = n
           /\ Append(Count(n), n + 1) = Count(n + 1)
           /\ \A k \in 0..n : SubSeq(Count(n), 1, k) = Count(k)
<1>1. \A m \in Nat : Count(m) \in Seq(Nat) /\ Len(Count(m)) = m /\ \A i \in 1..m : Count(m)[i] = i
  BY DEF Count
<1>2. Append(Count(n), n + 1) = Count(n + 1)
  <2> DEFINE a == Append(Count(n), n + 1)
             b == Count(n + 1)
  <2>1. a \in Seq(Nat) /\ Len(a) = n + 1 /\ a[n + 1] = n + 1 /\ \A i \in 1..n : a[i] = Count(n)[i]
    BY <1>1, AppendProperties
  <2>2. b \in Seq(Nat) /\ Len(b) = n + 1 /\ \A i \in 1..(n + 1) : b[i] = i
    BY <1>1
  <2> HIDE DEF a, b
  <2>3. ASSUME NEW i \in 1..(n + 1) PROVE a[i] = b[i]
    <3>1. CASE i = n + 1
      BY <2>1, <2>2, <3>1
    <3>2. CASE i # n + 1
      <4>1. i \in 1..n
        BY <3>2
      <4>2. Count(n)[i] = i
        BY <1>1, <4>1
      <4> QED BY <2>1, <2>2, <4>1, <4>2
    <3> QED BY <3>1, <3>2
  <2>4. a = b
    BY <2>1, <2>2, <2>3, SeqEqual
  <2> QED BY <2>4 DEF a, b
<1>3. ASSUME NEW k \in 0..n PROVE SubSeq(Count(n), 1, k) = Count(k)
  <2> DEFINE a == SubSeq(Count(n), 1, k)
             b == Count(k)
  <2>0. Count(n) \in Seq(Nat) /\ Len(Count(n)) = n /\ k \in Nat
    BY <1>1
  <2>1. a \in Seq(Nat) /\ Len(a) = k /\ \A i \in 1..k : a[i] = Count(n)[i]
    <3>1. 1 \in 1..(n + 1) /\ k \in 0..n /\ k \in (1 - 1)..n /\ k - 1 + 1 = k
      BY <2>0
    <3>2. \A i \in 1..k : 1 + i - 1 = i
      BY <2>0
    <3> QED BY <2>0, <3>1, <3>2, SubSeqProperties
  <2>2. b \in Seq(Nat) /\ Len(b) = k /\ \A i \in 1..k : b[i] = i
    BY <1>1
  <2> HIDE DEF a, b
  <2>3. ASSUME NEW i \in 1..k PROVE a[i] = b[i]
    <3>1. i \in 1..n
      BY <2>0
    <3>2. Count(n)[i] = i
      BY <1>1, <3>1
    <3> QED BY <2>1, <2>2, <3>2
  <2>4. a = b
    BY <2>1, <2>2, <2>3, SeqEqual
  <2> QED BY <2>4 DEF a, b
<1> QED BY <1>1, <1>2, <1>3

\* The numbers of the stored frames are 1..n.
LEMMA LogIs ==
    ASSUME NEW ss \in Seq(Segment), NEW acc, Numbered(ss, acc)
    PROVE  [k \in 1..Cardinality(PlacesOf(ss)) |-> StoredOf(ss)[k].n] =
              Count(Cardinality(PlacesOf(ss)))
<1>1. \A k \in 1..Cardinality(PlacesOf(ss)) : StoredOf(ss)[k].n = k
  BY StoredIs
<1> QED BY <1>1 DEF Count

\* The abstract variables, by the files.
LEMMA Mapping ==
    ASSUME CaptureInv, CaptureInv'
    PROVE  /\ [k \in 1..Cardinality(Places) |-> Stored[k].n] = Count(Cardinality(PlacesOf(segs)))
           /\ [k \in 1..Cardinality(Places) |-> Stored[k].n]' = Count(Cardinality(PlacesOf(segs')))
           /\ Cardinality({p \in Places : segs[p[1]].synced}) = Cardinality(SyncedPlaces(segs))
           /\ Cardinality({p \in Places : segs[p[1]].synced})' = Cardinality(SyncedPlaces(segs'))
           /\ Cardinality(PlacesOf(segs)) \in Nat /\ Cardinality(PlacesOf(segs')) \in Nat
           /\ Cardinality(SyncedPlaces(segs)) \in 0..Cardinality(PlacesOf(segs))
           /\ Cardinality(SyncedPlaces(segs')) \in 0..Cardinality(PlacesOf(segs'))
<1>1. segs \in Seq(Segment) /\ Numbered(segs, accepted) /\ segs' \in Seq(Segment) /\ Numbered(segs', accepted')
  BY DEF CaptureInv, TypeOK
<1>2. Places = PlacesOf(segs) /\ Places' = PlacesOf(segs')
  BY Same
<1>3. Stored = StoredOf(segs) /\ Stored' = StoredOf(segs')
  BY DEF Stored, StoredOf, Places, PlacesOf, Behind, Before
<1>4. ASSUME NEW P, IsFiniteSet(P), NEW Q \in SUBSET P
      PROVE  Cardinality(P) \in Nat /\ Cardinality(Q) \in 0..Cardinality(P)
  <2>1. IsFiniteSet(Q) /\ Cardinality(Q) <= Cardinality(P)
    BY <1>4, FS_Subset
  <2> QED BY <1>4, <2>1, FS_CardinalityType
<1>5. IsFiniteSet(PlacesOf(segs)) /\ IsFiniteSet(PlacesOf(segs'))
  BY <1>1 DEF Numbered
<1>6. SyncedPlaces(segs) \in SUBSET PlacesOf(segs) /\ SyncedPlaces(segs') \in SUBSET PlacesOf(segs')
  BY DEF SyncedPlaces
<1>7. [k \in 1..Cardinality(Places) |-> Stored[k].n] = Count(Cardinality(PlacesOf(segs)))
  BY <1>1, <1>2, <1>3, LogIs
<1>8. [k \in 1..Cardinality(Places) |-> Stored[k].n]' = Count(Cardinality(PlacesOf(segs')))
  BY <1>1, <1>2, <1>3, LogIs
<1>9. /\ Cardinality({p \in Places : segs[p[1]].synced}) = Cardinality(SyncedPlaces(segs))
      /\ Cardinality({p \in Places : segs[p[1]].synced})' = Cardinality(SyncedPlaces(segs'))
  BY <1>2 DEF SyncedPlaces
<1> QED BY <1>4, <1>5, <1>6, <1>7, <1>8, <1>9

\* Steps of EvidenceLog, by what happens to the places and the synced ones.
LEMMA MappedStutter ==
    ASSUME CaptureInv, CaptureInv', PlacesOf(segs') = PlacesOf(segs),
           SyncedPlaces(segs') = SyncedPlaces(segs), terminal' = terminal
    PROVE  UNCHANGED Evidence!vars
BY Mapping DEF Evidence!vars

\* One place more is a Record.
LEMMA MappedRecord ==
    ASSUME CaptureInv, CaptureInv', terminal = "none", terminal' = "none",
           Cardinality(PlacesOf(segs')) = Cardinality(PlacesOf(segs)) + 1,
           SyncedPlaces(segs') = SyncedPlaces(segs)
    PROVE  Evidence!Next
<1> DEFINE N == Cardinality(PlacesOf(segs))
<1>1. N \in Nat /\ Cardinality(PlacesOf(segs')) = N + 1
  BY Mapping
<1>2. Len(Count(N)) = N /\ Append(Count(N), N + 1) = Count(N + 1)
  BY <1>1, Counts
<1>3. Evidence!Record
  BY <1>1, <1>2, Mapping DEF Evidence!Record
<1> QED BY <1>3 DEF Evidence!Next

\* All places synced is a Sync.
LEMMA MappedSync ==
    ASSUME CaptureInv, CaptureInv', terminal = "none", terminal' = "none",
           PlacesOf(segs') = PlacesOf(segs), SyncedPlaces(segs') = PlacesOf(segs')
    PROVE  Evidence!Next
<1> DEFINE N == Cardinality(PlacesOf(segs))
<1>1. N \in Nat /\ Cardinality(PlacesOf(segs')) = N /\ Cardinality(SyncedPlaces(segs')) = N
  BY Mapping
<1>2. Len(Count(N)) = N
  BY <1>1, Counts
<1>3. Evidence!Sync
  BY <1>1, <1>2, Mapping DEF Evidence!Sync
<1> QED BY <1>3 DEF Evidence!Next

\* Unsynced places lost is a Lose.
LEMMA MappedLose ==
    ASSUME CaptureInv, CaptureInv', terminal = "none", terminal' = "none",
           Cardinality(PlacesOf(segs')) <= Cardinality(PlacesOf(segs)),
           SyncedPlaces(segs') = SyncedPlaces(segs)
    PROVE  Evidence!Next
<1> DEFINE N == Cardinality(PlacesOf(segs))
           M == Cardinality(PlacesOf(segs'))
           S == Cardinality(SyncedPlaces(segs))
<1>1. N \in Nat /\ M \in Nat /\ M <= N /\ S \in 0..M
  BY Mapping
<1> HIDE DEF N, M, S
<1>2. Len(Count(N)) = N /\ SubSeq(Count(N), 1, M) = Count(M) /\ M \in S..N
  <2>1. M \in 0..N /\ M \in S..N
    BY <1>1
  <2> QED BY <1>1, <2>1, Counts
<1>3. \E k \in S..Len(Count(N)) : Count(M) = SubSeq(Count(N), 1, k)
  BY <1>2
<1>4. Evidence!Lose
  BY <1>3, Mapping DEF Evidence!Lose, N, M, S
<1> QED BY <1>4 DEF Evidence!Next

\* A receipt over synced places is a Seal.
LEMMA MappedSeal ==
    ASSUME CaptureInv, CaptureInv', terminal = "none", terminal' \in {"clean", "recovered"},
           segs' = segs, SyncedPlaces(segs) = PlacesOf(segs)
    PROVE  Evidence!Next
<1> DEFINE N == Cardinality(PlacesOf(segs))
<1>1. N \in Nat /\ Cardinality(PlacesOf(segs')) = N /\ Cardinality(SyncedPlaces(segs)) = N
      /\ Cardinality(SyncedPlaces(segs')) = N
  BY Mapping
<1>2. Len(Count(N)) = N
  BY <1>1, Counts
<1>3. Evidence!Seal
  BY <1>1, <1>2, Mapping DEF Evidence!Seal
<1> QED BY <1>3 DEF Evidence!Next

\* Only the last segment may be unsynced.
LEMMA SyncedBut ==
    ASSUME NEW ss \in Seq(Segment), Chain(ss), NEW p \in PlacesOf(ss),
           p[1] # Len(ss) \/ ss[Len(ss)].synced
    PROVE  ss[p[1]].synced
<1>1. Len(ss) \in Nat /\ p[1] \in 1..Len(ss)
  BY SegmentFields, PlaceRange
<1>2. CASE p[1] = Len(ss)
  BY <1>2
<1>3. CASE p[1] # Len(ss)
  <2>1. ss[p[1]].stage = "sealed" /\ Sound(ss[p[1]], PrevLast(ss, p[1]), PrevSha(ss, p[1]))
    BY <1>1, <1>3 DEF Chain
  <2> QED BY <2>1 DEF Sound
<1> QED BY <1>2, <1>3

\* The last segment changes and its synced flag does not.
LEMMA SyncedSame ==
    ASSUME NEW ss, NEW tt, LastOnly(ss, tt), tt[Len(ss)].synced = ss[Len(ss)].synced,
           PlacesOf(tt) = PlacesOf(ss)
    PROVE  SyncedPlaces(tt) = SyncedPlaces(ss)
<1>1. ss \in Seq(Segment) /\ Len(ss) \in Nat
  BY SegmentFields DEF LastOnly
<1>2. ASSUME NEW p \in PlacesOf(ss) PROVE tt[p[1]].synced = ss[p[1]].synced
  <2>1. p[1] \in 1..Len(ss)
    BY <1>1, PlaceRange
  <2>2. p[1] = Len(ss) \/ p[1] \in 1..(Len(ss) - 1)
    BY <1>1, <2>1
  <2> QED BY <2>2 DEF LastOnly
<1> QED BY <1>2 DEF SyncedPlaces

\* The last segment is unsynced before and after, or lost.
LEMMA UnsyncedLast ==
    ASSUME NEW ss \in Seq(Segment), NEW tt \in Seq(Segment), Len(ss) # 0,
           Len(tt) \in {Len(ss) - 1, Len(ss)}, \A i \in 1..(Len(ss) - 1) : tt[i] = ss[i],
           ~ss[Len(ss)].synced, Len(tt) = Len(ss) => ~tt[Len(ss)].synced
    PROVE  SyncedPlaces(tt) = SyncedPlaces(ss)
<1>0. Len(ss) \in Nat /\ Len(tt) \in Nat
  BY SegmentFields
<1>1. ASSUME NEW p \in SyncedPlaces(ss) PROVE p \in SyncedPlaces(tt)
  <2>1. p \in PlacesOf(ss) /\ ss[p[1]].synced
    BY DEF SyncedPlaces
  <2>2. p = <<p[1], p[2]>> /\ p[1] \in 1..Len(ss) /\ p[2] \in 1..Len(ss[p[1]].frames)
    BY <2>1, PlaceRange
  <2>3. p[1] \in 1..(Len(ss) - 1) /\ p[1] \in 1..Len(tt)
    BY <1>0, <2>1, <2>2
  <2>4. <<p[1], p[2]>> \in PlacesOf(tt)
    BY <2>2, <2>3, PlaceIn
  <2> QED BY <2>1, <2>2, <2>3, <2>4 DEF SyncedPlaces
<1>2. ASSUME NEW p \in SyncedPlaces(tt) PROVE p \in SyncedPlaces(ss)
  <2>1. p \in PlacesOf(tt) /\ tt[p[1]].synced
    BY DEF SyncedPlaces
  <2>2. p = <<p[1], p[2]>> /\ p[1] \in 1..Len(tt) /\ p[2] \in 1..Len(tt[p[1]].frames)
    BY <2>1, PlaceRange
  <2>3. p[1] \in 1..(Len(ss) - 1) /\ p[1] \in 1..Len(ss)
    BY <1>0, <2>1, <2>2
  <2>4. <<p[1], p[2]>> \in PlacesOf(ss)
    BY <2>2, <2>3, PlaceIn
  <2> QED BY <2>1, <2>2, <2>3, <2>4 DEF SyncedPlaces
<1> QED BY <1>1, <1>2

\* How a step on the last segment maps.
LEMMA Touched ==
    ASSUME CaptureInv, CaptureInv', w.next = Len(segs), w.next \in 1..Len(segs),
           NEW t, segs' = [segs EXCEPT ![w.next] = t],
           terminal = "none", terminal' = "none"
    PROVE  /\ LastOnly(segs, segs') /\ segs'[Len(segs)] = t
           /\ t.frames = segs[w.next].frames /\ t.synced = segs[w.next].synced =>
                 UNCHANGED Evidence!vars
           /\ t.frames = segs[w.next].frames /\ t.synced => Evidence!Next
<1>1. /\ segs \in Seq(Segment) /\ segs' \in Seq(Segment) /\ Chain(segs') /\ Len(segs) \in Nat
      /\ DOMAIN segs = 1..Len(segs)
  BY DiskFacts, SegmentFields DEF CaptureInv, TypeOK
<1>0. /\ \A n \in Nat : \A i \in 1..(n - 1) : i \in 1..n /\ i # n
      /\ \A n \in Nat : \A i \in 1..n : i = n \/ i \in 1..(n - 1)
      /\ \A n \in Nat : n <= n /\ \A i \in (n + 1)..n : FALSE
      /\ \A n \in Nat : n \in 1..n => n # 0
  OBVIOUS
<1>2. LastOnly(segs, segs') /\ segs'[Len(segs)] = t
  <2>1. Len(segs') = Len(segs)
    <3>1. DOMAIN segs' = 1..Len(segs)
      BY <1>1
    <3> QED BY <1>1, <3>1, LenProperties
  <2>2. \A i \in 1..(Len(segs) - 1) : segs'[i] = segs[i]
    BY <1>0, <1>1
  <2>3. Len(segs) # 0
    BY <1>0, <1>1
  <2> QED BY <1>1, <2>1, <2>2, <2>3 DEF LastOnly
<1>3. ASSUME t.frames = segs[w.next].frames PROVE PlacesOf(segs') = PlacesOf(segs)
  <2>1. SameFrames(segs, segs')
    <3>1. \A i \in 1..Len(segs) : i = Len(segs) \/ i \in 1..(Len(segs) - 1)
      BY <1>0, <1>1
    <3>2. Len(segs') = Len(segs) /\ \A i \in 1..(Len(segs) - 1) : segs'[i] = segs[i]
      BY <1>2 DEF LastOnly
    <3>3. \A i \in 1..Len(segs) : segs'[i].frames = segs[i].frames
      BY <1>2, <1>3, <3>1, <3>2
    <3>4. \A i \in (Len(segs) + 1)..Len(segs') : FALSE
      BY <1>0, <1>1, <3>2
    <3>5. Len(segs) <= Len(segs')
      BY <1>0, <1>1, <3>2
    <3> QED BY <1>1, <3>3, <3>4, <3>5 DEF SameFrames
  <2> QED BY <2>1, SamePlaces
<1>4. ASSUME t.frames = segs[w.next].frames, t.synced = segs[w.next].synced
      PROVE  UNCHANGED Evidence!vars
  <2>1. SyncedPlaces(segs') = SyncedPlaces(segs)
    BY <1>2, <1>3, <1>4, SyncedSame
  <2> QED BY <1>3, <1>4, <2>1, MappedStutter
<1>5. ASSUME t.frames = segs[w.next].frames, t.synced PROVE Evidence!Next
  <2>1. segs'[Len(segs')].synced
    BY <1>2, <1>5 DEF LastOnly
  <2>2. SyncedPlaces(segs') = PlacesOf(segs')
    BY <1>1, <2>1, SyncedBut DEF SyncedPlaces
  <2> QED BY <1>3, <1>5, <2>2, MappedSync
<1> QED BY <1>2, <1>4, <1>5

\* A step that leaves files and receipt alone is not visible.
LEMMA Untouched ==
    ASSUME CaptureInv, CaptureInv', segs' = segs, terminal' = terminal
    PROVE  UNCHANGED Evidence!vars
BY MappedStutter

\* append records one frame.
LEMMA WriteFrameMaps == CaptureInv /\ CaptureInv' /\ WriteFrame /\ Elsewhere => Evidence!Next
<1> SUFFICES ASSUME CaptureInv, CaptureInv', WriteFrame, Elsewhere PROVE Evidence!Next
  OBVIOUS
<1> DEFINE t == [segs[w.next] EXCEPT !.frames = Append(@, op.item)]
<1>1. op.pc = "write" /\ op' = [op EXCEPT !.pc = "ok"] /\ segs' = [segs EXCEPT ![w.next] = t]
  BY DEF WriteFrame, Goto
<1>2. /\ worker \in {"append", "fatal"} /\ Working /\ terminal = "none" /\ terminal' = "none"
      /\ op \in Operation /\ worker' = worker
  BY <1>1, Whose, Others DEF SealSteps, RecoverySteps
<1>3. Holds /\ ~segs[w.next].synced /\ w.last.n = Cardinality(PlacesOf(segs))
  BY <1>1, <1>2 DEF CaptureInv, Appending
<1>4. w.next = Len(segs) /\ w.next \in 1..Len(segs)
  BY <1>3 DEF Holds
<1>5. LastOnly(segs, segs') /\ segs'[Len(segs)] = t
  BY <1>1, <1>2, <1>4, Touched
<1>6. ~t.synced
  <2>1. segs[w.next] \in Segment
    BY <1>4, DiskFacts
  <2> QED BY <1>3, <2>1 DEF Segment
<1> HIDE DEF t
<1>7. SyncedPlaces(segs') = SyncedPlaces(segs)
  BY <1>3, <1>4, <1>5, <1>6, UnsyncedLast DEF LastOnly
<1>8. Cardinality(PlacesOf(segs')) = Cardinality(PlacesOf(segs)) + 1
  <2>1. op'.pc = "ok"
    BY <1>1, <1>2 DEF Operation
  <2>2. Working'
    BY <1>2, <2>1 DEF Working
  <2>3. w'.last.n = Cardinality(PlacesOf(segs'))
    BY <2>2 DEF CaptureInv, Appending
  <2>4. w'.last = op.item
    BY DEF WriteFrame, CaptureInv, TypeOK, Writer
  <2>5. op.item.n = w.last.n + 1
    BY <1>1, <1>2 DEF CaptureInv, Handling
  <2> QED BY <1>3, <2>3, <2>4, <2>5
<1> QED BY <1>2, <1>7, <1>8, MappedRecord

\* A new segment file is not visible.
LEMMA OpenSegmentMaps ==
    CaptureInv /\ CaptureInv' /\ OpenSegment /\ Elsewhere => UNCHANGED Evidence!vars
<1> SUFFICES ASSUME CaptureInv, CaptureInv', OpenSegment, Elsewhere PROVE UNCHANGED Evidence!vars
  OBVIOUS
<1>1. terminal' = terminal
  BY Others
<1>2. CASE w.handle
  BY <1>1, <1>2, Untouched DEF OpenSegment
<1>3. CASE ~w.handle
  <2> DEFINE t == [bucket |-> Bucket(op.item), frames |-> <<>>, torn |-> "no", synced |-> FALSE,
                   stage |-> "partial", manifest |-> NoManifest]
  <2>1. segs' = Append(segs, t) /\ t.frames = <<>>
    BY <1>3 DEF OpenSegment
  <2> HIDE DEF t
  <2>2. segs \in Seq(Segment) /\ segs' \in Seq(Segment) /\ Len(segs) \in Nat /\ Len(segs') \in Nat
    BY DiskFacts, SegmentFields DEF CaptureInv, TypeOK
  <2>3. Len(segs') = Len(segs) + 1 /\ segs'[Len(segs) + 1] = t
        /\ \A i \in 1..Len(segs) : segs'[i] = segs[i]
    BY <2>1, <2>2, AppendProperties
  <2>4. SameFrames(segs, segs')
    <3>1. \A i \in (Len(segs) + 1)..Len(segs') : i = Len(segs) + 1
      BY <2>2, <2>3
    <3> QED BY <2>1, <2>2, <2>3, <3>1 DEF SameFrames
  <2>5. PlacesOf(segs') = PlacesOf(segs)
    BY <2>4, SamePlaces
  <2>6. \A p \in PlacesOf(segs) : segs'[p[1]] = segs[p[1]]
    BY <2>2, <2>3, PlaceRange
  <2>7. SyncedPlaces(segs') = SyncedPlaces(segs)
    BY <2>5, <2>6 DEF SyncedPlaces
  <2> QED BY <1>1, <2>5, <2>7, MappedStutter
<1> QED BY <1>2, <1>3

\* Sealing and recovery of the last segment sync it or are not visible.
LEMMA LastStepMaps ==
    ASSUME CaptureInv, CaptureInv', Elsewhere,
           ShortWrite \/ SyncSegment \/ RenameSegment \/ PromoteManifest \/ ReplacePartial
           \/ PublishFails
    PROVE  Evidence!Next \/ UNCHANGED Evidence!vars
<1> DEFINE s == segs[w.next]
<1>1. /\ op.pc \in {"write", "fsync", "rename", "promote", "replace"}
  BY DEF ShortWrite, SyncSegment, RenameSegment, PromoteManifest, ReplacePartial, PublishFails
<1>2. terminal = "none" /\ terminal' = "none"
  BY <1>1, Whose, Others
<1>3. w.next = Len(segs) /\ w.next \in 1..Len(segs)
  <2>1. CASE op.pc = "write"
    <3>1. Holds
      BY <2>1, Whose DEF CaptureInv, Appending, SealSteps, RecoverySteps
    <3> QED BY <3>1 DEF Holds
  <2>2. CASE op.pc \in {"fsync", "rename", "promote"}
    <3>1. Holds
      BY <2>2 DEF CaptureInv, Sealing, SealSteps
    <3> QED BY <3>1 DEF Holds
  <2>3. CASE op.pc = "replace"
    <3>1. phase = "recover"
      BY <2>3, Whose DEF SealSteps
    <3>2. /\ w.next \in 1..Len(segs) /\ s.stage = "partial"
          /\ w.next = IF AllSealed(segs) THEN Len(segs) + 1 ELSE Len(segs)
      BY <2>3, <3>1 DEF CaptureInv, Recovering, RecoverySteps
    <3>3. ~AllSealed(segs)
      BY <3>2 DEF AllSealed
    <3> QED BY <3>2, <3>3
  <2> QED BY <1>1, <2>1, <2>2, <2>3
<1>4. s \in Segment
  BY <1>3, DiskFacts
<1>5. PICK t : /\ segs' = [segs EXCEPT ![w.next] = t] /\ t.frames = s.frames
               /\ t.synced = s.synced \/ t.synced = TRUE
  <2>1. CASE ShortWrite
    <3>1. PICK x \in {"header", "payload"} : segs' = [segs EXCEPT ![w.next] = [s EXCEPT !.torn = x]]
      BY <2>1 DEF ShortWrite
    <3>2. [s EXCEPT !.torn = x].frames = s.frames /\ [s EXCEPT !.torn = x].synced = s.synced
      BY <1>4 DEF Segment
    <3> QED BY <3>1, <3>2
  <2>2. CASE SyncSegment
    <3>1. segs' = [segs EXCEPT ![w.next] = [s EXCEPT !.synced = TRUE]]
      BY <2>2 DEF SyncSegment
    <3>2. [s EXCEPT !.synced = TRUE].frames = s.frames /\ [s EXCEPT !.synced = TRUE].synced = TRUE
      BY <1>4 DEF Segment
    <3> QED BY <3>1, <3>2
  <2>3. CASE RenameSegment \/ (PublishFails /\ op.pc = "rename")
    <3>1. segs' = [segs EXCEPT ![w.next] = [s EXCEPT !.stage = "final"]]
      BY <2>3 DEF RenameSegment, PublishFails
    <3>2. [s EXCEPT !.stage = "final"].frames = s.frames /\ [s EXCEPT !.stage = "final"].synced = s.synced
      BY <1>4 DEF Segment
    <3> QED BY <3>1, <3>2
  <2>4. CASE PromoteManifest \/ (PublishFails /\ op.pc = "promote")
    <3>1. PICK m : segs' = [segs EXCEPT ![w.next] = [s EXCEPT !.stage = "sealed", !.manifest = m]]
      BY <2>4 DEF PromoteManifest, PublishFails
    <3>2. /\ [s EXCEPT !.stage = "sealed", !.manifest = m].frames = s.frames
          /\ [s EXCEPT !.stage = "sealed", !.manifest = m].synced = s.synced
      BY <1>4 DEF Segment
    <3> QED BY <3>1, <3>2
  <2>5. CASE ReplacePartial \/ (PublishFails /\ op.pc = "replace")
    <3>1. segs' = [segs EXCEPT ![w.next] = [s EXCEPT !.torn = "no", !.synced = TRUE]]
      BY <2>5 DEF ReplacePartial, PublishFails
    <3>2. /\ [s EXCEPT !.torn = "no", !.synced = TRUE].frames = s.frames
          /\ [s EXCEPT !.torn = "no", !.synced = TRUE].synced = TRUE
      BY <1>4 DEF Segment
    <3> QED BY <3>1, <3>2
  <2>6. CASE PublishFails
    <3>1. op.pc = "rename" \/ op.pc = "promote" \/ op.pc = "replace"
      BY <2>6 DEF PublishFails
    <3> QED BY <2>6, <3>1, <2>3, <2>4, <2>5
  <2> QED BY <2>1, <2>2, <2>3, <2>4, <2>5, <2>6
<1> QED BY <1>2, <1>3, <1>5, Touched

\* Every step of the writer.
LEMMA WritingMaps ==
    CaptureInv /\ CaptureInv' /\ Writing => Evidence!Next \/ UNCHANGED Evidence!vars
<1> SUFFICES ASSUME CaptureInv, CaptureInv', Writing PROVE Evidence!Next \/ UNCHANGED Evidence!vars
  OBVIOUS
<1>1. StorageStep /\ Elsewhere /\ terminal' = terminal
  BY Others DEF Writing, Elsewhere
<1>2. CASE CheckRecord \/ WriteManifestTemp \/ StepFails \/ ScanTail \/ RewriteTemp \/ VerifyRecovered
  <2>1. segs' = segs
    BY <1>2 DEF CheckRecord, WriteManifestTemp, StepFails, ScanTail, RewriteTemp, VerifyRecovered, diskVars
  <2> QED BY <1>1, <2>1, Untouched
<1> QED BY <1>1, <1>2, WriteFrameMaps, OpenSegmentMaps, LastStepMaps DEF StorageStep

\* abort syncs, or is not visible.
LEMMA AbortMaps ==
    CaptureInv /\ CaptureInv' /\ AbortAndDiscard => Evidence!Next \/ UNCHANGED Evidence!vars
<1> SUFFICES ASSUME CaptureInv, CaptureInv', AbortAndDiscard
             PROVE  Evidence!Next \/ UNCHANGED Evidence!vars
  OBVIOUS
<1>1. /\ worker = "abort" /\ terminal' = terminal
      /\ segs' = segs \/ (w.handle /\ segs' = [segs EXCEPT ![w.next] = [@ EXCEPT !.synced = TRUE]])
  BY DEF AbortAndDiscard, Abort, OnlyWorker, receiptVars
<1>2. terminal = "none"
  BY <1>1 DEF CaptureInv, Stages
<1>3. CASE segs' = segs
  BY <1>1, <1>3, Untouched
<1>4. CASE w.handle /\ segs' = [segs EXCEPT ![w.next] = [@ EXCEPT !.synced = TRUE]]
  <2> DEFINE t == [segs[w.next] EXCEPT !.synced = TRUE]
  <2>1. w.next = Len(segs) /\ w.next \in 1..Len(segs) /\ segs[w.next] \in Segment
    <3>1. w.next = Len(segs) /\ w.next \in DOMAIN segs
      BY <1>4 DEF CaptureInv, TypeOK
    <3> QED BY <3>1, DiskFacts, SegmentFields
  <2>2. t.frames = segs[w.next].frames /\ t.synced = TRUE
    BY <2>1 DEF Segment
  <2>3. segs' = [segs EXCEPT ![w.next] = t]
    BY <1>4
  <2> HIDE DEF t
  <2> QED BY <1>1, <1>2, <2>1, <2>2, <2>3, Touched
<1> QED BY <1>1, <1>3, <1>4

\* A crash loses unsynced records from the end.
LEMMA CrashMaps == CaptureInv /\ CaptureInv' /\ Crash => Evidence!Next
<1> SUFFICES ASSUME CaptureInv, CaptureInv', Crash PROVE Evidence!Next
  OBVIOUS
<1>1. terminal = "none" /\ terminal' = "none" /\ StorageCrash
  BY DEF Crash, receiptVars, CaptureInv, Stages
<1>2. /\ segs \in Seq(Segment) /\ segs' \in Seq(Segment)
      /\ IsFiniteSet(PlacesOf(segs)) /\ Cardinality(PlacesOf(segs)) \in Nat
  BY DiskFacts DEF CaptureInv, TypeOK
<1>3. CASE segs' = segs
  <2>1. /\ Cardinality(PlacesOf(segs')) <= Cardinality(PlacesOf(segs))
        /\ SyncedPlaces(segs') = SyncedPlaces(segs)
    BY <1>2, <1>3
  <2> QED BY <1>1, <2>1, MappedLose
<1>4. CASE /\ Len(segs) # 0 /\ ~segs[Len(segs)].synced /\ Shortened(segs, segs')
           /\ Len(segs') = Len(segs) => ~segs'[Len(segs)].synced
  <2>1. Cardinality(PlacesOf(segs')) <= Cardinality(PlacesOf(segs))
    BY <1>2, <1>4, Fewer
  <2>2. Len(segs') \in {Len(segs) - 1, Len(segs)} /\ \A i \in 1..(Len(segs) - 1) : segs'[i] = segs[i]
    BY <1>4 DEF Shortened
  <2>3. SyncedPlaces(segs') = SyncedPlaces(segs)
    BY <1>2, <1>4, <2>2, UnsyncedLast
  <2> QED BY <1>1, <2>1, <2>3, MappedLose
<1> QED BY <1>1, <1>3, <1>4, CrashSegs

\* The terminal receipt seals the generation.
LEMMA PromoteTerminalMaps == CaptureInv /\ CaptureInv' /\ PromoteTerminal => Evidence!Next
<1> SUFFICES ASSUME CaptureInv, CaptureInv', PromoteTerminal PROVE Evidence!Next
  OBVIOUS
<1>1. phase = "pending" /\ segs' = segs /\ terminal' \in {"clean", "recovered"}
  BY DEF PromoteTerminal
<1>2. terminal = "none" /\ AllSealed(segs)
  BY <1>1 DEF CaptureInv, Stages, Receipts
<1>3. segs \in Seq(Segment) /\ Chain(segs) /\ Len(segs) \in Nat
  BY DiskFacts
<1>4. \A p \in PlacesOf(segs) : segs[p[1]].synced
  <2> TAKE p \in PlacesOf(segs)
  <2>1. p[1] \in 1..Len(segs)
    BY <1>3, PlaceRange
  <2> QED BY <1>2, <1>3, <2>1 DEF AllSealed, Chain, Sound
<1>5. SyncedPlaces(segs) = PlacesOf(segs)
  BY <1>4 DEF SyncedPlaces
<1> QED BY <1>1, <1>2, <1>5, MappedSeal

\* Every step is a step of the evidence log or not visible.
LEMMA NextMaps ==
    CaptureInv /\ CaptureInv' /\ [Next]_vars => [Evidence!Next]_Evidence!vars
<1> SUFFICES ASSUME CaptureInv, CaptureInv', [Next]_vars
             PROVE  Evidence!Next \/ UNCHANGED Evidence!vars
  OBVIOUS
<1>1. CASE \/ UNCHANGED vars
           \/ MakeDirectory \/ StartGeneration \/ StopPipeline \/ Restart
           \/ \E t \in Times : Accept(t) \/ Reject(t)
           \/ Take \/ AppendDone \/ FatalDone \/ CloseDone \/ FailWriter \/ WriteEmergency
           \/ StopReturns \/ RecoveryEnds \/ TerminalRefused \/ WriteTerminalTemp
  <2>1. segs' = segs /\ terminal' = terminal
    <3>1. CASE UNCHANGED vars \/ MakeDirectory \/ StartGeneration \/ StopPipeline \/ Restart
      BY <3>1 DEF vars, MakeDirectory, StartGeneration, StopPipeline, Restart, StartRecovery,
                  OnlyPhase, storageVars, diskVars, receiptVars
    <3>2. CASE \E t \in Times : Accept(t) \/ Reject(t)
      BY <3>2 DEF Accept, Reject, OnlyHandoff, storageVars, diskVars, receiptVars
    <3>3. CASE Take \/ AppendDone \/ FatalDone \/ CloseDone \/ FailWriter \/ WriteEmergency
      BY <3>3 DEF Take, AppendDone, FatalDone, CloseDone, FailWriter, WriteEmergency, Emergency,
                  OnlyWorker, diskVars, receiptVars
    <3>4. CASE StopReturns \/ RecoveryEnds \/ TerminalRefused \/ WriteTerminalTemp
      BY <3>4 DEF StopReturns, RecoveryEnds, TerminalRefused, WriteTerminalTemp, OnlyPhase,
                  storageVars, diskVars, receiptVars
    <3> QED BY <1>1, <3>1, <3>2, <3>3, <3>4
  <2> QED BY <2>1, Untouched
<1> QED BY <1>1, WritingMaps, AbortMaps, CrashMaps, PromoteTerminalMaps
        DEF Next, Progress, WorkerStep

\* An empty directory is an empty log.
LEMMA InitMaps == Init => Evidence!Init
<1> SUFFICES ASSUME Init PROVE Evidence!Init
  OBVIOUS
<1>1. segs = <<>> /\ terminal = "none"
  BY DEF Init, StorageInit
<1>2. Places = {} /\ Cardinality(Places) = 0
  BY <1>1, NoFiles, Same
<1>3. {p \in Places : segs[p[1]].synced} = {}
  BY <1>2
<1>4. [k \in 1..0 |-> Stored[k].n] = <<>>
  OBVIOUS
<1> QED BY <1>1, <1>2, <1>3, <1>4 DEF Evidence!Init

(* The directory implements the evidence log: a written frame is a record, a  *)
(* sync covers all of them, a crash loses only unsynced ones from the end,    *)
(* the terminal receipt seals, and no other step is visible to a reader.      *)
THEOREM ImplementsEvidenceLog == Spec => IsEvidenceLog
<1>1. CaptureInv /\ CaptureInv' /\ [Next]_vars => [Evidence!Next]_Evidence!vars
  BY NextMaps
<1>2. Init => Evidence!Init
  BY InitMaps
<1> QED BY <1>1, <1>2, CaptureInvariant, PTL DEF Spec, IsEvidenceLog, Evidence!Spec
=============================================================================
