------------------------ MODULE RecorderFilesProofs ------------------------
(* Proofs about the files of the raw evidence recorder: what they hold, that  *)
(* they keep the quota, and that a clean exit leaves nothing out.             *)
EXTENDS ApplicationProofs, FiniteSetTheorems

USE RecorderAssumption, ApplicationAssumption

-----------------------------------------------------------------------------
(* The inductive invariant *)

\* The n-th frame of a market.
Frame(n) == [n |-> n, day |-> DayOf(n)]

FileTypes ==
    /\ unwritten \in [Markets -> Seq(Frames)]
    /\ thread \in [Markets -> {"none", "running", "ok", "failed"}]
    /\ tape \in [Markets -> [Days -> Seq(Frames)]]

\* Records of a market that have been handed to a thread.
Begun(m) == durable[m] + Len(batch[m])

\* What is durable, in the batch and in the queue follows on one another, in
\* the order of admission.
Numbered(m) ==
    /\ \A i \in 1..Len(accepted[m]) : accepted[m][i] = Frame(i)
    /\ \A i \in 1..Len(batch[m]) : batch[m][i] = Frame(durable[m] + i)
    /\ \A i \in 1..Len(queue[m]) : queue[m][i] = Frame(Begun(m) + i)

\* The number is that of a line in a file, or of a line the thread has left.
OnTape(m, n) == \E d \in Days : \E k \in 1..Len(tape[m][d]) : tape[m][d][k].n = n
Left(m, n) == \E i \in 1..Len(unwritten[m]) : unwritten[m][i].n = n

\* A file holds lines of its day in the order of their numbers.
Ordered(m) ==
    \A d \in Days : \A k \in 1..Len(tape[m][d]) :
        /\ tape[m][d][k].day = d
        /\ tape[m][d][k].n \in 1..Begun(m)
        /\ \A j \in 1..(k - 1) : tape[m][d][j].n < tape[m][d][k].n

\* The lines left are of the batch; of one day they come in order, and behind
\* the lines in its file.
Leaving(m) ==
    \A i \in 1..Len(unwritten[m]) :
        /\ unwritten[m][i].n \in (durable[m] + 1)..Begun(m)
        /\ \A j \in 1..(i - 1) :
              unwritten[m][j].day = unwritten[m][i].day => unwritten[m][j].n < unwritten[m][i].n
        /\ \A k \in 1..Len(tape[m][unwritten[m][i].day]) :
              tape[m][unwritten[m][i].day][k].n < unwritten[m][i].n

\* No record handed to a thread is forgotten.
Kept(m) == \A n \in 1..Begun(m) : OnTape(m, n) \/ Left(m, n)

\* A thread works for a writer that waits for it, or that failed or was
\* cancelled over it; once it has returned nothing is left.
Threaded(m) ==
    /\ thread[m] \in {"none", "ok"} => unwritten[m] = <<>>
    /\ thread[m] # "none" => writer[m] \in {"write", "failed", "cancelled"}

FilesOf(m) == Numbered(m) /\ Ordered(m) /\ Leaving(m) /\ Kept(m) /\ Threaded(m)

\* The quota counts each accepted record once, durable or reserved.
AcceptedRecords == {r \in Markets \X Nat : r[2] \in 1..Len(accepted[r[1]])}
Counted ==
    /\ reserved \in Int /\ durableBytes \in Int /\ older = Baseline
    /\ IsFiniteSet(AcceptedRecords)
    /\ Cardinality(AcceptedRecords) = durableBytes + reserved
    /\ older + durableBytes + reserved <= MaxBytes

\* run goes past the recorder's close when it has returned or overrun its
\* deadline; when it has returned without an error everything is durable.
ClosedInFull ==
    /\ phase \in {"notifier", "ended", "exited"} /\ ~overrun => closeStep = "done"
    /\ closeStep = "done" /\ fatal = "none" => Drained

FilesInv ==
    /\ FileTypes
    /\ \A m \in Markets : FilesOf(m)
    /\ Counted
    /\ ClosedInFull

-----------------------------------------------------------------------------
(* The order in which a batch is written *)

(* A set of numbers has a least one.                                         *)
LEMMA Least ==
    ASSUME NEW T \in SUBSET Nat, T # {}
    PROVE  \E x \in T : \A y \in T : x <= y
<1> DEFINE R == {ss \in Nat \X Nat : ss[1] < ss[2]}
<1>1. IsWellFoundedOn(R, Nat)
  BY NatLessThanWellFounded, Zenon DEF OpToRel
<1>2. PICK x \in T : \A y \in T : ~ (<<y, x>> \in R)
  BY <1>1, WFMin, Zenon
<1>3. ASSUME NEW y \in T PROVE x <= y
  <2>1. <<y, x>> \notin R
    BY <1>2
  <2> QED BY <2>1
<1> QED BY <1>3

(* The first line of a day is one of that day, and none of it is earlier.     *)
LEMMA FirstLine ==
    ASSUME NEW b, NEW i \in Nat \ {0}
    PROVE  LET f == FirstOfDay(b, i)
           IN  f \in 1..i /\ b[f].day = b[i].day /\ \A k \in 1..(f - 1) : b[k].day # b[i].day
<1> DEFINE T == {j \in 1..i : b[j].day = b[i].day}
<1>1. T \in SUBSET Nat /\ i \in T
  OBVIOUS
<1>2. PICK x \in T : \A y \in T : x <= y
  BY <1>1, Least
<1>3. x \in 1..i /\ b[x].day = b[i].day /\ \A k \in 1..(x - 1) : b[k].day # b[i].day
  BY <1>2
<1> QED BY <1>3 DEF FirstOfDay

(* Two lines have the same first line exactly when they are of one day.       *)
LEMMA FirstOfSameDay ==
    ASSUME NEW b, NEW i \in Nat \ {0}, NEW j \in Nat \ {0}
    PROVE  FirstOfDay(b, i) = FirstOfDay(b, j) <=> b[i].day = b[j].day
<1> DEFINE f == FirstOfDay(b, i)
           g == FirstOfDay(b, j)
<1>1. f \in 1..i /\ b[f].day = b[i].day /\ \A k \in 1..(f - 1) : b[k].day # b[i].day
  BY FirstLine
<1>2. g \in 1..j /\ b[g].day = b[j].day /\ \A k \in 1..(g - 1) : b[k].day # b[j].day
  BY FirstLine
<1> HIDE DEF f, g
<1>3. ASSUME b[i].day = b[j].day PROVE f = g
  BY <1>1, <1>2, <1>3
<1> QED BY <1>1, <1>2, <1>3 DEF f, g

\* The lines of a batch of n lines that are written before the i-th.
Earlier(b, n, i) == {j \in 1..n : WrittenBefore(b, j, i)}

(* The number of lines written before one is smaller than the batch, and it  *)
(* grows along the order.                                                     *)
LEMMA RankGrows ==
    ASSUME NEW n \in Nat, NEW b, NEW i \in 1..n
    PROVE  /\ IsFiniteSet(Earlier(b, n, i))
           /\ Cardinality(Earlier(b, n, i)) \in 0..(n - 1)
           /\ \A j \in 1..n : WrittenBefore(b, j, i) =>
                 Cardinality(Earlier(b, n, j)) < Cardinality(Earlier(b, n, i))
<1>0. \A k \in 1..n : FirstOfDay(b, k) \in Nat
  BY FirstLine
<1>1. IsFiniteSet(1..n) /\ Cardinality(1..n) = n
  BY FS_Interval
<1>2. ASSUME NEW k \in 1..n
      PROVE  /\ Earlier(b, n, k) \in SUBSET (1..n)
             /\ IsFiniteSet(Earlier(b, n, k)) /\ Cardinality(Earlier(b, n, k)) \in Nat
             /\ k \notin Earlier(b, n, k)
  <2>1. Earlier(b, n, k) \in SUBSET (1..n)
    BY DEF Earlier
  <2>2. IsFiniteSet(Earlier(b, n, k))
    BY <1>1, <2>1, FS_Subset
  <2>3. k \notin Earlier(b, n, k)
    BY <1>0 DEF Earlier, WrittenBefore
  <2> QED BY <2>1, <2>2, <2>3, FS_CardinalityType
<1>3. ASSUME NEW k \in 1..n, NEW S \in SUBSET (1..n), IsFiniteSet(S),
             Earlier(b, n, k) \subseteq S, k \in S
      PROVE  Cardinality(Earlier(b, n, k)) < Cardinality(S)
  <2>1. /\ Cardinality(Earlier(b, n, k)) <= Cardinality(S)
        /\ Cardinality(S) = Cardinality(Earlier(b, n, k)) => S = Earlier(b, n, k)
    BY <1>3, FS_Subset
  <2>2. Cardinality(S) \in Nat
    BY <1>3, FS_CardinalityType
  <2> QED BY <1>2, <1>3, <2>1, <2>2
<1>4. Cardinality(Earlier(b, n, i)) < n
  BY <1>1, <1>2, <1>3
<1>5. ASSUME NEW j \in 1..n, WrittenBefore(b, j, i)
      PROVE  Cardinality(Earlier(b, n, j)) < Cardinality(Earlier(b, n, i))
  <2>1. Earlier(b, n, j) \subseteq Earlier(b, n, i)
    BY <1>0, <1>5 DEF Earlier, WrittenBefore
  <2>2. j \in Earlier(b, n, i)
    BY <1>5 DEF Earlier
  <2> QED BY <1>2, <1>3, <2>1, <2>2
<1> QED BY <1>2, <1>4, <1>5

(* Every place of the order belongs to one line of the batch.                 *)
LEMMA RankIsPlace ==
    ASSUME NEW n \in Nat, NEW b
    PROVE  /\ \A i, j \in 1..n :
                 Cardinality(Earlier(b, n, i)) = Cardinality(Earlier(b, n, j)) => i = j
           /\ \A k \in 1..n : \E i \in 1..n : Cardinality(Earlier(b, n, i)) = k - 1
<1> DEFINE rank == [i \in 1..n |-> Cardinality(Earlier(b, n, i))]
<1>1. ASSUME NEW i \in 1..n, NEW j \in 1..n, i # j
      PROVE  Cardinality(Earlier(b, n, i)) # Cardinality(Earlier(b, n, j))
  <2>1. WrittenBefore(b, i, j) \/ WrittenBefore(b, j, i)
    <3>1. FirstOfDay(b, i) \in Nat /\ FirstOfDay(b, j) \in Nat
      BY FirstLine
    <3> QED BY <1>1, <3>1 DEF WrittenBefore
  <2>2. /\ Cardinality(Earlier(b, n, i)) \in 0..(n - 1)
        /\ Cardinality(Earlier(b, n, j)) \in 0..(n - 1)
        /\ WrittenBefore(b, i, j) =>
              Cardinality(Earlier(b, n, i)) < Cardinality(Earlier(b, n, j))
        /\ WrittenBefore(b, j, i) =>
              Cardinality(Earlier(b, n, j)) < Cardinality(Earlier(b, n, i))
    BY RankGrows
  <2> QED BY <2>1, <2>2
<1>2. rank \in [1..n -> 0..(n - 1)]
  BY RankGrows
<1>3. rank \in Injection(1..n, 0..(n - 1))
  BY <1>1, <1>2 DEF Injection, IsInjective
<1>4. /\ IsFiniteSet(1..n) /\ Cardinality(1..n) = n
      /\ IsFiniteSet(0..(n - 1)) /\ Cardinality(0..(n - 1)) = n
  BY FS_Interval
<1>5. rank \in Surjection(1..n, 0..(n - 1))
  <2> HIDE DEF rank
  <2> QED BY <1>3, <1>4, FS_Injection
<1>6. ASSUME NEW k \in 1..n PROVE \E i \in 1..n : Cardinality(Earlier(b, n, i)) = k - 1
  <2>1. k - 1 \in 0..(n - 1)
    OBVIOUS
  <2> QED BY <1>5, <2>1 DEF Surjection
<1> QED BY <1>1, <1>6

(* _write_batch writes every line of the batch once, the lines of a day in    *)
(* their order.                                                               *)
LEMMA WriteOrderIs ==
    ASSUME NEW S, NEW b \in Seq(S)
    PROVE  /\ WriteOrder(b) \in Seq(S) /\ Len(WriteOrder(b)) = Len(b)
           /\ \E p \in [1..Len(b) -> 1..Len(b)] :
                 /\ \A k \in 1..Len(b) : WriteOrder(b)[k] = b[p[k]]
                 /\ \A i \in 1..Len(b) : \E k \in 1..Len(b) : p[k] = i
                 /\ \A j, k \in 1..Len(b) :
                       j < k /\ b[p[j]].day = b[p[k]].day => p[j] < p[k]
<1> DEFINE n == Len(b)
           p == [k \in 1..n |-> CHOOSE i \in 1..n : Cardinality(Earlier(b, n, i)) = k - 1]
<1>0. n \in Nat /\ \A i \in 1..n : b[i] \in S
  BY LenProperties, ElementOfSeq
<1> HIDE DEF n
<1>1. ASSUME NEW k \in 1..n
      PROVE  p[k] \in 1..n /\ Cardinality(Earlier(b, n, p[k])) = k - 1
  BY <1>0, RankIsPlace
<1>2. p \in [1..n -> 1..n]
  BY <1>1
<1>3. WriteOrder(b) = [k \in 1..n |-> b[p[k]]]
  BY DEF WriteOrder, Earlier, n
<1> HIDE DEF p
<1>4. WriteOrder(b) \in Seq(S) /\ Len(WriteOrder(b)) = n
  <2>1. WriteOrder(b) \in [1..n -> S]
    BY <1>0, <1>1, <1>3
  <2> QED BY <1>0, <2>1, LenProperties, SeqDef
<1>5. ASSUME NEW i \in 1..n PROVE \E k \in 1..n : p[k] = i
  <2> DEFINE k == Cardinality(Earlier(b, n, i)) + 1
  <2>1. k \in 1..n /\ Cardinality(Earlier(b, n, i)) = k - 1
    BY <1>0, RankGrows
  <2> HIDE DEF k
  <2>2. p[k] = i
    BY <1>0, <1>1, <2>1, RankIsPlace
  <2> QED BY <2>1, <2>2
<1>6. ASSUME NEW j \in 1..n, NEW k \in 1..n, j < k, b[p[j]].day = b[p[k]].day
      PROVE  p[j] < p[k]
  <2>0. p[j] \in Nat \ {0} /\ p[k] \in Nat \ {0}
    BY <1>0, <1>1
  <2>1. FirstOfDay(b, p[k]) = FirstOfDay(b, p[j])
    BY <1>6, <2>0, FirstOfSameDay
  <2>2. CASE p[k] < p[j]
    <3>1. WrittenBefore(b, p[k], p[j])
      BY <2>1, <2>2 DEF WrittenBefore
    <3>2. Cardinality(Earlier(b, n, p[k])) < Cardinality(Earlier(b, n, p[j]))
      BY <1>0, <1>1, <3>1, RankGrows
    <3> QED BY <1>0, <1>1, <1>6, <3>2
  <2>3. p[k] # p[j]
    BY <1>0, <1>1, <1>6
  <2> QED BY <1>0, <1>1, <2>2, <2>3
<1> QED BY <1>2, <1>3, <1>4, <1>5, <1>6 DEF n

-----------------------------------------------------------------------------
(* The files *)

(* A frame is its number and the day of that number.                          *)
LEMMA FrameIs ==
    ASSUME NEW f \in Frames
    PROVE  f.n \in Nat /\ f.day = DayOf(f.n) /\ f = Frame(f.n)
  BY DEF Frames, Frame

(* Lengths and counters of a market are numbers.                              *)
LEMMA Sizes ==
    ASSUME RecorderTypes, RecorderInv, NEW m \in Markets
    PROVE  /\ Len(accepted[m]) \in Nat /\ Len(batch[m]) \in Nat /\ Len(queue[m]) \in Nat
           /\ durable[m] \in Nat /\ Begun(m) \in Nat
           /\ Len(accepted[m]) = Begun(m) + Len(queue[m])
<1>1. /\ Len(accepted[m]) \in Nat /\ Len(batch[m]) \in Nat /\ Len(queue[m]) \in Nat
      /\ durable[m] \in Nat
  BY Lengths DEF RecorderTypes
<1> QED BY <1>1 DEF RecorderInv, Accounted, Begun

(* A record within the quota has a day the recorder has a file for.           *)
LEMMA DayInRange ==
    ASSUME RecorderTypes, Counted, NEW m \in Markets, NEW n \in 1..Len(accepted[m])
    PROVE  DayOf(n) \in Days
<1> DEFINE L == Len(accepted[m])
           f == [i \in 1..L |-> <<m, i>>]
<1>1. L \in Nat
  BY Lengths DEF RecorderTypes
<1>2. f \in Injection(1..L, AcceptedRecords)
  <2>1. \A i \in 1..L : <<m, i>> \in AcceptedRecords
    BY <1>1 DEF AcceptedRecords
  <2> QED BY <2>1 DEF Injection, IsInjective
<1>3. Cardinality(1..L) <= Cardinality(AcceptedRecords)
  <2> HIDE DEF f
  <2> QED BY <1>2, FS_Injection DEF Counted
<1>4. Cardinality(1..L) = L
  BY <1>1, FS_Interval
<1>5. L <= MaxBytes
  BY <1>1, <1>3, <1>4 DEF Counted
<1> QED BY <1>1, <1>5

(* A market whose lines and records stay as they are.                         *)
LEMMA FilesStand ==
    ASSUME NEW m \in Markets, FilesOf(m),
           accepted'[m] = accepted[m], batch'[m] = batch[m], queue'[m] = queue[m],
           durable'[m] = durable[m], tape'[m] = tape[m], unwritten'[m] = unwritten[m],
           Threaded(m)'
    PROVE  FilesOf(m)'
<1>1. Begun(m)' = Begun(m)
  BY DEF Begun
<1>2. Numbered(m)'
  BY <1>1 DEF FilesOf, Numbered
<1>3. Ordered(m)' /\ Leaving(m)'
  BY <1>1 DEF FilesOf, Ordered, Leaving
<1>4. Kept(m)'
  BY <1>1 DEF FilesOf, Kept, OnTape, Left
<1> QED BY <1>2, <1>3, <1>4 DEF FilesOf

(* append numbers its record after all the others.                            *)
LEMMA AppendFiles ==
    ASSUME RecorderTypes, RecorderInv, Up, CancelledAtExit, NEW m \in Markets, FilesOf(m),
           AppendAccepts(m, DayOf(Len(accepted[m]) + 1))
    PROVE  FilesOf(m)'
<1> DEFINE r == Frame(Len(accepted[m]) + 1)
<1>1. /\ accepted'[m] = Append(accepted[m], r) /\ queue'[m] = Append(queue[m], r)
      /\ batch'[m] = batch[m] /\ durable'[m] = durable[m] /\ tape'[m] = tape[m]
      /\ unwritten'[m] = unwritten[m] /\ thread'[m] = thread[m]
      /\ writer'[m] = IF writer[m] \in Finished \cup {"none"} THEN "get" ELSE writer[m]
      /\ fatal = "none"
  BY DEF AppendAccepts, Admitting, StartWriter, RecorderTypes, Frame
<1> HIDE DEF r
<1>2. /\ accepted[m] \in Seq(Frames) /\ queue[m] \in Seq(Frames)
      /\ Len(accepted[m]) \in Nat /\ Len(queue[m]) \in Nat /\ Begun(m) \in Nat
      /\ Len(accepted[m]) = Begun(m) + Len(queue[m])
  BY Sizes DEF RecorderTypes
<1>3. r \in Frames
  BY <1>2 DEF r, Frames, Frame
<1>4. /\ Len(accepted'[m]) = Len(accepted[m]) + 1
      /\ \A i \in 1..Len(accepted[m]) : accepted'[m][i] = accepted[m][i]
      /\ accepted'[m][Len(accepted[m]) + 1] = r
  BY <1>1, <1>2, <1>3, AppendProperties
<1>5. /\ Len(queue'[m]) = Len(queue[m]) + 1
      /\ \A i \in 1..Len(queue[m]) : queue'[m][i] = queue[m][i]
      /\ queue'[m][Len(queue[m]) + 1] = r
  BY <1>1, <1>2, <1>3, AppendProperties
<1>6. Begun(m)' = Begun(m)
  BY <1>1 DEF Begun
<1>7. Numbered(m)'
  <2>1. ASSUME NEW i \in 1..Len(accepted'[m]) PROVE accepted'[m][i] = Frame(i)
    <3>1. i \in 1..Len(accepted[m]) \/ i = Len(accepted[m]) + 1
      BY <1>2, <1>4
    <3> QED BY <1>4, <3>1 DEF r, FilesOf, Numbered
  <2>2. ASSUME NEW i \in 1..Len(queue'[m]) PROVE queue'[m][i] = Frame(Begun(m) + i)
    <3>1. CASE i \in 1..Len(queue[m])
      BY <1>5, <3>1 DEF FilesOf, Numbered
    <3>2. CASE i = Len(queue[m]) + 1
      <4>1. Begun(m) + i = Len(accepted[m]) + 1
        BY <1>2, <3>2
      <4> QED BY <1>5, <3>2, <4>1 DEF r
    <3> QED BY <1>2, <1>5, <3>1, <3>2
  <2>3. \A i \in 1..Len(batch'[m]) : batch'[m][i] = Frame(durable'[m] + i)
    BY <1>1 DEF FilesOf, Numbered
  <2> QED BY <1>6, <2>1, <2>2, <2>3 DEF Numbered
<1>8. Ordered(m)' /\ Leaving(m)'
  BY <1>1, <1>6 DEF FilesOf, Ordered, Leaving
<1>9. Kept(m)'
  BY <1>1, <1>6 DEF FilesOf, Kept, OnTape, Left
<1>10. Threaded(m)'
  <2>1. writer[m] # "failed" /\ writer[m] # "cancelled"
    BY <1>1 DEF RecorderInv, Accounted, CancelledAtExit, Up
  <2> QED BY <1>1, <2>1 DEF FilesOf, Threaded, Finished
<1> QED BY <1>7, <1>8, <1>9, <1>10 DEF FilesOf

(* The thread of a new batch has all of its lines before it, behind what is   *)
(* in the files.                                                              *)
LEMMA BatchFiles ==
    ASSUME RecorderTypes, RecorderInv, FileTypes, Counted, NEW m \in Markets, FilesOf(m),
           TakeBatch(m)
    PROVE  FilesOf(m)' /\ unwritten'[m] \in Seq(Frames)
<1> DEFINE q == queue[m]
           w == WriteOrder(q)
<1>1. /\ accepted'[m] = accepted[m] /\ batch'[m] = q /\ queue'[m] = <<>>
      /\ durable'[m] = durable[m] /\ tape'[m] = tape[m] /\ unwritten'[m] = w
      /\ thread'[m] = "running" /\ writer'[m] = "write" /\ writer[m] = "get"
  BY DEF TakeBatch, RecorderTypes, FileTypes
<1>2. /\ batch[m] = <<>> /\ unwritten[m] = <<>> /\ Len(<<>>) = 0
  BY <1>1, EmptySeq DEF RecorderInv, Accounted, FilesOf, Threaded, FileTypes
<1>3. /\ q \in Seq(Frames) /\ Len(q) \in Nat /\ durable[m] \in Nat
      /\ Begun(m) = durable[m] /\ Begun(m)' = durable[m] + Len(q)
  BY <1>1, <1>2, Sizes DEF RecorderTypes, Begun
<1>4. \A i \in 1..Len(q) : q[i] = Frame(durable[m] + i)
  BY <1>3 DEF FilesOf, Numbered
<1>5. /\ w \in Seq(Frames) /\ Len(w) = Len(q)
  BY <1>3, WriteOrderIs
<1>6. PICK p \in [1..Len(q) -> 1..Len(q)] :
              /\ \A k \in 1..Len(q) : w[k] = q[p[k]]
              /\ \A i \in 1..Len(q) : \E k \in 1..Len(q) : p[k] = i
              /\ \A j, k \in 1..Len(q) : j < k /\ q[p[j]].day = q[p[k]].day => p[j] < p[k]
  BY <1>3, WriteOrderIs
<1> HIDE DEF w
<1>7. ASSUME NEW k \in 1..Len(q)
      PROVE  w[k].n = durable[m] + p[k] /\ w[k].day = q[p[k]].day /\ p[k] \in 1..Len(q)
  <2>1. p[k] \in 1..Len(q) /\ w[k] = q[p[k]]
    BY <1>6
  <2>2. q[p[k]] = Frame(durable[m] + p[k])
    BY <1>4, <2>1
  <2> QED BY <2>1, <2>2 DEF Frame
<1>8. Numbered(m)'
  BY <1>1, <1>2, <1>4 DEF FilesOf, Numbered
<1>9. Ordered(m)'
  BY <1>1, <1>3 DEF FilesOf, Ordered
<1>10. Leaving(m)'
  <2> SUFFICES ASSUME NEW i \in 1..Len(q)
               PROVE  /\ w[i].n \in (durable[m] + 1)..(durable[m] + Len(q))
                      /\ \A j \in 1..(i - 1) : w[j].day = w[i].day => w[j].n < w[i].n
                      /\ \A k \in 1..Len(tape[m][w[i].day]) : tape[m][w[i].day][k].n < w[i].n
    BY <1>1, <1>3, <1>5 DEF Leaving
  <2>1. w[i].n \in (durable[m] + 1)..(durable[m] + Len(q))
    BY <1>3, <1>7
  <2>2. ASSUME NEW j \in 1..(i - 1), w[j].day = w[i].day PROVE w[j].n < w[i].n
    <3>1. j \in 1..Len(q) /\ j < i
      BY <1>3
    <3>2. p[j] < p[i]
      BY <1>6, <1>7, <2>2, <3>1
    <3>3. p[j] \in Nat /\ p[i] \in Nat
      BY <1>7, <3>1
    <3> QED BY <1>3, <1>7, <3>1, <3>2, <3>3
  <2>3. ASSUME NEW k \in 1..Len(tape[m][w[i].day]) PROVE tape[m][w[i].day][k].n < w[i].n
    <3>1. w[i].day \in Days
      <4>1. w[i] \in Frames
        BY <1>5, ElementOfSeq
      <4>2. w[i].n \in 1..Len(accepted[m])
        BY <1>3, <2>1, Sizes
      <4> QED BY <4>1, <4>2, FrameIs, DayInRange
    <3>2. tape[m][w[i].day][k].n \in 1..durable[m]
      BY <1>3, <3>1 DEF FilesOf, Ordered
    <3>3. \A a \in 1..durable[m], c \in (durable[m] + 1)..(durable[m] + Len(q)) : a < c
      BY <1>3
    <3> QED BY <2>1, <3>2, <3>3
  <2> QED BY <2>1, <2>2, <2>3
<1>11. Kept(m)'
  <2> SUFFICES ASSUME NEW n \in 1..(durable[m] + Len(q))
               PROVE  OnTape(m, n)' \/ Left(m, n)'
    BY <1>3 DEF Kept
  <2>1. CASE n <= durable[m]
    <3>1. OnTape(m, n)
      BY <1>2, <1>3, <2>1 DEF FilesOf, Kept, Left
    <3> QED BY <1>1, <3>1 DEF OnTape
  <2>2. CASE n > durable[m]
    <3>1. n - durable[m] \in 1..Len(q)
      BY <1>3, <2>2
    <3>2. PICK k \in 1..Len(q) : p[k] = n - durable[m]
      BY <1>6, <3>1
    <3>3. w[k].n = n
      BY <1>3, <1>7, <3>2
    <3> QED BY <1>1, <1>5, <3>3 DEF Left
  <2> QED BY <1>3, <2>1, <2>2
<1>12. Threaded(m)'
  BY <1>1 DEF Threaded
<1> QED BY <1>1, <1>5, <1>8, <1>9, <1>10, <1>11, <1>12 DEF FilesOf

(* The thread puts its next line at the end of the file of its day.           *)
LEMMA LineFiles ==
    ASSUME RecorderTypes, RecorderInv, FileTypes, Counted, NEW m \in Markets, FilesOf(m),
           WriteLine(m)
    PROVE  FilesOf(m)' /\ FileTypes'
<1> DEFINE u == unwritten[m]
           h == Head(u)
           t(d) == tape[m][d]
<1>1. /\ accepted'[m] = accepted[m] /\ batch'[m] = batch[m] /\ queue'[m] = queue[m]
      /\ durable'[m] = durable[m] /\ unwritten' = [unwritten EXCEPT ![m] = Tail(u)]
      /\ unwritten'[m] = Tail(u) /\ UNCHANGED thread /\ writer'[m] = writer[m]
      /\ thread[m] = "running" /\ u # <<>>
      /\ tape' = [tape EXCEPT ![m][h.day] = Append(@, h)]
  BY DEF WriteLine, queueVars, FileTypes
<1>2. /\ u \in Seq(Frames) /\ h \in Frames /\ h = u[1] /\ Tail(u) \in Seq(Frames)
      /\ Len(u) \in Nat \ {0} /\ Len(Tail(u)) = Len(u) - 1
      /\ \A i \in 1..Len(Tail(u)) : Tail(u)[i] = u[i + 1]
  BY <1>1, HeadTailProperties, EmptySeq DEF FileTypes
<1>3. /\ Begun(m) \in Nat /\ durable[m] \in Nat /\ Begun(m)' = Begun(m)
      /\ Begun(m) <= Len(accepted[m]) /\ Len(accepted[m]) \in Nat
  BY <1>1, Sizes DEF Begun
<1>4. h.n \in (durable[m] + 1)..Begun(m) /\ h.n \in Nat /\ h.day = DayOf(h.n)
  BY <1>2, FrameIs DEF FilesOf, Leaving
<1>5. h.day \in Days
  BY <1>3, <1>4, DayInRange
<1>6. ASSUME NEW d \in Days
      PROVE  t(d) \in Seq(Frames) /\ tape'[m][d] = IF d = h.day THEN Append(t(d), h) ELSE t(d)
  BY <1>1, <1>5 DEF FileTypes
<1>7. ASSUME NEW d \in Days
      PROVE  /\ tape'[m][d] \in Seq(Frames) /\ Len(t(d)) \in Nat
             /\ Len(tape'[m][d]) = IF d = h.day THEN Len(t(d)) + 1 ELSE Len(t(d))
             /\ \A k \in 1..Len(t(d)) : tape'[m][d][k] = t(d)[k]
             /\ d = h.day => tape'[m][d][Len(t(d)) + 1] = h
  <2>1. t(d) \in Seq(Frames) /\ Len(t(d)) \in Nat
    BY <1>6, LenProperties
  <2>2. CASE d = h.day
    <3>1. tape'[m][d] = Append(t(d), h)
      BY <1>6, <2>2
    <3>2. /\ Append(t(d), h) \in Seq(Frames) /\ Len(Append(t(d), h)) = Len(t(d)) + 1
          /\ \A k \in 1..Len(t(d)) : Append(t(d), h)[k] = t(d)[k]
          /\ Append(t(d), h)[Len(t(d)) + 1] = h
      BY <1>2, <2>1, AppendProperties
    <3> QED BY <2>1, <2>2, <3>1, <3>2
  <2>3. CASE d # h.day
    BY <1>6, <2>1, <2>3
  <2> QED BY <2>2, <2>3
<1>8. FileTypes'
  <2>1. unwritten' \in [Markets -> Seq(Frames)]
    BY <1>1, <1>2 DEF FileTypes
  <2>2. tape' \in [Markets -> [Days -> Seq(Frames)]]
    <3>1. Append(t(h.day), h) \in Seq(Frames)
      BY <1>2, <1>5, <1>6, AppendProperties
    <3> QED BY <1>1, <3>1 DEF FileTypes
  <2> QED BY <1>1, <2>1, <2>2 DEF FileTypes
<1> HIDE DEF u, h
<1>9. Numbered(m)'
  BY <1>1, <1>3 DEF FilesOf, Numbered
<1>10. \A k \in 1..Len(t(h.day)) : t(h.day)[k].n < h.n
  BY <1>2 DEF FilesOf, Leaving, u
<1>11. Ordered(m)'
  <2> SUFFICES ASSUME NEW d \in Days, NEW k \in 1..Len(tape'[m][d])
               PROVE  /\ tape'[m][d][k].day = d
                      /\ tape'[m][d][k].n \in 1..Begun(m)
                      /\ \A j \in 1..(k - 1) : tape'[m][d][j].n < tape'[m][d][k].n
    BY <1>3 DEF Ordered
  <2>1. CASE k \in 1..Len(t(d))
    <3>1. /\ tape'[m][d][k] = t(d)[k]
          /\ \A j \in 1..(k - 1) : tape'[m][d][j] = t(d)[j]
      BY <1>7, <2>1
    <3> QED BY <2>1, <3>1 DEF FilesOf, Ordered
  <2>2. CASE d = h.day /\ k = Len(t(d)) + 1
    <3>1. \A j \in 1..(k - 1) : j \in 1..Len(t(d)) /\ tape'[m][d][j] = t(d)[j]
      BY <1>7, <2>2
    <3>2. tape'[m][d][k] = h
      BY <1>7, <2>2
    <3>3. h.n \in 1..Begun(m)
      BY <1>3, <1>4
    <3>4. \A j \in 1..(k - 1) : tape'[m][d][j].n < h.n
      BY <1>10, <2>2, <3>1
    <3> QED BY <2>2, <3>2, <3>3, <3>4
  <2> QED BY <1>7, <2>1, <2>2
<1>12. Leaving(m)'
  <2> SUFFICES ASSUME NEW i \in 1..Len(Tail(u))
               PROVE  LET x == Tail(u)[i] IN
                      /\ x.n \in (durable[m] + 1)..Begun(m)
                      /\ \A j \in 1..(i - 1) : Tail(u)[j].day = x.day => Tail(u)[j].n < x.n
                      /\ \A k \in 1..Len(tape'[m][x.day]) : tape'[m][x.day][k].n < x.n
    BY <1>1, <1>3 DEF Leaving
  <2> DEFINE x == u[i + 1]
  <2>1. /\ i + 1 \in 1..Len(u) /\ Tail(u)[i] = x
        /\ \A j \in 1..(i - 1) : j + 1 \in 1..((i + 1) - 1) /\ Tail(u)[j] = u[j + 1]
        /\ 1 \in 1..((i + 1) - 1)
    BY <1>2
  <2>2. /\ x.n \in (durable[m] + 1)..Begun(m)
        /\ \A j \in 1..((i + 1) - 1) : u[j].day = x.day => u[j].n < x.n
        /\ \A k \in 1..Len(t(x.day)) : t(x.day)[k].n < x.n
    BY <2>1 DEF FilesOf, Leaving, u
  <2>3. x.day \in Days
    <3>1. x \in Frames
      BY <1>2, <2>1, ElementOfSeq
    <3>2. x.n \in 1..Len(accepted[m])
      BY <1>3, <2>2
    <3> QED BY <3>1, <3>2, FrameIs, DayInRange
  <2> HIDE DEF x
  <2>4. ASSUME NEW k \in 1..Len(tape'[m][x.day]) PROVE tape'[m][x.day][k].n < x.n
    <3>1. CASE k \in 1..Len(t(x.day))
      BY <1>7, <2>2, <2>3, <3>1
    <3>2. CASE x.day = h.day /\ k = Len(t(x.day)) + 1
      <4>1. tape'[m][x.day][k] = h /\ h = u[1]
        <5>1. tape'[m][x.day][Len(t(x.day)) + 1] = h
          BY <1>7, <2>3, <3>2
        <5> QED BY <1>2, <3>2, <5>1
      <4>2. u[1].day = x.day => u[1].n < x.n
        BY <2>1, <2>2
      <4> QED BY <3>2, <4>1, <4>2
    <3>3. /\ Len(t(x.day)) \in Nat
          /\ Len(tape'[m][x.day]) = IF x.day = h.day THEN Len(t(x.day)) + 1 ELSE Len(t(x.day))
      BY <1>7, <2>3
    <3> QED BY <3>1, <3>2, <3>3
  <2> QED BY <2>1, <2>2, <2>4
<1>13. Kept(m)'
  <2> SUFFICES ASSUME NEW n \in 1..Begun(m)
               PROVE  OnTape(m, n)' \/ Left(m, n)'
    BY <1>3 DEF Kept
  <2>1. CASE OnTape(m, n)
    <3>1. PICK d \in Days : \E k \in 1..Len(t(d)) : t(d)[k].n = n
      BY <2>1 DEF OnTape
    <3>2. PICK k \in 1..Len(t(d)) : t(d)[k].n = n
      BY <3>1
    <3>3. k \in 1..Len(tape'[m][d]) /\ tape'[m][d][k].n = n
      <4>1. /\ Len(t(d)) \in Nat /\ tape'[m][d][k] = t(d)[k]
            /\ Len(tape'[m][d]) = IF d = h.day THEN Len(t(d)) + 1 ELSE Len(t(d))
        BY <1>7, <3>2
      <4> QED BY <3>2, <4>1
    <3> QED BY <3>3 DEF OnTape
  <2>2. CASE Left(m, n)
    <3>1. PICK i \in 1..Len(u) : u[i].n = n
      BY <2>2 DEF Left, u
    <3>2. CASE i = 1
      <4>1. /\ Len(t(h.day)) + 1 \in 1..Len(tape'[m][h.day])
            /\ tape'[m][h.day][Len(t(h.day)) + 1].n = n
        <5>1. /\ Len(t(h.day)) \in Nat /\ Len(tape'[m][h.day]) = Len(t(h.day)) + 1
              /\ tape'[m][h.day][Len(t(h.day)) + 1] = h
          BY <1>5, <1>7
        <5> QED BY <1>2, <3>1, <3>2, <5>1
      <4> QED BY <1>5, <4>1 DEF OnTape
    <3>3. CASE i # 1
      <4>1. i - 1 \in 1..Len(Tail(u)) /\ Tail(u)[i - 1] = u[i]
        BY <1>2, <3>3
      <4> QED BY <1>1, <3>1, <4>1 DEF Left
    <3> QED BY <3>2, <3>3
  <2> QED BY <2>1, <2>2 DEF FilesOf, Kept
<1>14. Threaded(m)'
  BY <1>1 DEF FilesOf, Threaded
<1> QED BY <1>8, <1>9, <1>11, <1>12, <1>13, <1>14 DEF FilesOf

(* Each step of a writer or of its thread keeps the files of its market.      *)
LEMMA WriterFiles ==
    ASSUME RecorderTypes, RecorderInv, FileTypes, Counted, NEW m \in Markets,
           \A k \in Markets : FilesOf(k),
           WriterStep(m) \/ ThreadStep(m)
    PROVE  FileTypes' /\ \A k \in Markets : FilesOf(k)'
<1>1. ASSUME NEW k \in Markets, k # m PROVE FilesOf(k)'
  <2>1. /\ accepted'[k] = accepted[k] /\ batch'[k] = batch[k] /\ queue'[k] = queue[k]
        /\ durable'[k] = durable[k] /\ tape'[k] = tape[k] /\ unwritten'[k] = unwritten[k]
        /\ thread'[k] = thread[k] /\ writer'[k] = writer[k]
    BY <1>1 DEF WriterStep, ThreadStep, TakeBatch, TakeSentinel, AccountBatch, FailBatch,
       WriteLine, ThreadReturns, ThreadFails, queueVars, RecorderTypes, FileTypes
  <2>2. Threaded(k)'
    BY <2>1 DEF FilesOf, Threaded
  <2> QED BY <2>1, <2>2, FilesStand
<1>2. CASE TakeBatch(m)
  <2>1. FilesOf(m)' /\ unwritten'[m] \in Seq(Frames)
    BY <1>2, BatchFiles
  <2>2. FileTypes'
    BY <1>2, <2>1 DEF TakeBatch, FileTypes
  <2> QED BY <1>1, <2>1, <2>2
<1>3. CASE WriteLine(m)
  <2>1. FilesOf(m)' /\ FileTypes'
    BY <1>3, LineFiles
  <2> QED BY <1>1, <2>1
<1>4. CASE TakeSentinel(m) \/ FailBatch(m) \/ ThreadReturns(m) \/ ThreadFails(m)
  <2>1. /\ accepted' = accepted /\ batch' = batch /\ queue' = queue
        /\ durable' = durable /\ tape' = tape /\ unwritten' = unwritten
    BY <1>4 DEF TakeSentinel, FailBatch, ThreadReturns, ThreadFails, queueVars
  <2>2. Threaded(m)'
    <3>1. CASE TakeSentinel(m)
      BY <3>1 DEF TakeSentinel, FilesOf, Threaded, RecorderTypes
    <3>2. CASE FailBatch(m)
      BY <3>2 DEF FailBatch, FilesOf, Threaded, RecorderTypes
    <3>3. CASE ThreadReturns(m)
      BY <3>3 DEF ThreadReturns, FilesOf, Threaded, FileTypes
    <3>4. CASE ThreadFails(m)
      BY <3>4 DEF ThreadFails, FilesOf, Threaded, FileTypes
    <3> QED BY <1>4, <3>1, <3>2, <3>3, <3>4
  <2>3. FilesOf(m)'
    BY <2>1, <2>2, FilesStand
  <2>4. FileTypes'
    BY <1>4, <2>1 DEF FileTypes, TakeSentinel, FailBatch, ThreadReturns, ThreadFails
  <2> QED BY <1>1, <2>3, <2>4
<1>5. CASE AccountBatch(m)
  <2>1. /\ accepted' = accepted /\ batch'[m] = <<>> /\ queue' = queue
        /\ durable'[m] = Begun(m) /\ tape' = tape /\ unwritten' = unwritten
        /\ thread'[m] = "none" /\ thread[m] = "ok" /\ thread' \in [Markets -> {"none", "running", "ok", "failed"}]
    BY <1>5 DEF AccountBatch, RecorderTypes, FileTypes, Begun
  <2>2. unwritten[m] = <<>> /\ Len(<<>>) = 0 /\ Begun(m) \in Nat
    BY <2>1, EmptySeq, Sizes DEF FilesOf, Threaded
  <2>3. Begun(m)' = Begun(m)
    BY <2>1, <2>2 DEF Begun
  <2>4. Numbered(m)'
    BY <2>1, <2>2, <2>3 DEF FilesOf, Numbered
  <2>5. Ordered(m)' /\ Leaving(m)'
    BY <2>1, <2>2, <2>3 DEF FilesOf, Ordered, Leaving
  <2>6. Kept(m)'
    BY <2>1, <2>3 DEF FilesOf, Kept, OnTape, Left
  <2>7. Threaded(m)'
    BY <2>1, <2>2 DEF Threaded
  <2> QED BY <1>1, <2>1, <2>4, <2>5, <2>6, <2>7 DEF FilesOf, FileTypes
<1> QED BY <1>2, <1>3, <1>4, <1>5 DEF WriterStep, ThreadStep

-----------------------------------------------------------------------------
(* The quota *)

(* append counts its record, and only while there is room.                    *)
LEMMA AppendCounted ==
    ASSUME RecorderTypes, Counted, NEW m \in Markets,
           AppendAccepts(m, DayOf(Len(accepted[m]) + 1))
    PROVE  Counted'
<1> DEFINE n == Len(accepted[m]) + 1
           r == [n |-> n, day |-> DayOf(n)]
<1>1. /\ accepted' = [accepted EXCEPT ![m] = Append(@, r)]
      /\ reserved' = reserved + 1 /\ UNCHANGED <<durableBytes, older>>
      /\ older + durableBytes + reserved + 1 <= MaxBytes
  BY DEF AppendAccepts, Projected
<1>2. accepted[m] \in Seq(Frames) /\ Len(accepted[m]) \in Nat /\ r \in Frames
  BY Lengths DEF RecorderTypes, Frames
<1>3. Len(Append(accepted[m], r)) = n
  BY <1>2, Longer
<1>4. \A k \in Markets : Len(accepted'[k]) = IF k = m THEN n ELSE Len(accepted[k])
  BY <1>1, <1>3 DEF RecorderTypes
<1>5. n \in Nat
  BY <1>2
<1>6. AcceptedRecords' = AcceptedRecords \cup {<<m, n>>}
  BY <1>2, <1>4 DEF AcceptedRecords
<1>7. <<m, n>> \notin AcceptedRecords
  BY <1>2 DEF AcceptedRecords
<1>8. /\ IsFiniteSet(AcceptedRecords \cup {<<m, n>>})
      /\ Cardinality(AcceptedRecords \cup {<<m, n>>}) = Cardinality(AcceptedRecords) + 1
  BY <1>7, FS_AddElement DEF Counted
<1> QED BY <1>1, <1>6, <1>8 DEF Counted

(* Steps that only move records between reserved and durable.                 *)
LEMMA CountedStands ==
    ASSUME Counted, accepted' = accepted, older' = older,
           reserved' \in Int, durableBytes' \in Int,
           durableBytes' + reserved' = durableBytes + reserved
    PROVE  Counted'
<1>1. AcceptedRecords' = AcceptedRecords
  BY DEF AcceptedRecords
<1>2. older' + durableBytes' + reserved' <= MaxBytes
  <2>1. /\ older \in Int /\ durableBytes \in Int /\ reserved \in Int /\ MaxBytes \in Int
        /\ older + durableBytes + reserved <= MaxBytes
    BY DEF Counted
  <2>2. older + (durableBytes + reserved) <= MaxBytes
    BY <2>1
  <2>3. older' + (durableBytes' + reserved') <= MaxBytes
    BY <2>2
  <2>4. \A a, b, c, d \in Int : a + (b + c) <= d => a + b + c <= d
    OBVIOUS
  <2>5. older' \in Int
    BY <2>1
  <2> QED BY <2>1, <2>3, <2>4, <2>5
<1> QED BY <1>1, <1>2 DEF Counted

(* Every line in a file is a record that the quota counts, and no two lines   *)
(* are the same one.                                                          *)
LEMMA LinesCounted ==
    ASSUME RecorderTypes, RecorderInv, FileTypes, \A m \in Markets : FilesOf(m), Counted
    PROVE  DiskWithinQuota
<1> DEFINE number(l) == tape[l[1]][l[2]][l[3]].n
           f == [l \in TapeLines |-> <<l[1], number(l)>>]
<1>1. ASSUME NEW m \in Markets, NEW d \in Days
      PROVE  DOMAIN tape[m][d] = 1..Len(tape[m][d]) /\ Len(tape[m][d]) \in Nat
  <2>1. tape[m][d] \in Seq(Frames)
    BY DEF FileTypes
  <2> QED BY <2>1, LenProperties
<1>2. ASSUME NEW l \in TapeLines
      PROVE  /\ l[1] \in Markets /\ l[2] \in Days /\ l[3] \in 1..Len(tape[l[1]][l[2]])
             /\ l = <<l[1], l[2], l[3]>>
  <2>1. PICK m \in Markets, d \in Days : l \in {<<m, d, k>> : k \in DOMAIN tape[m][d]}
    BY DEF TapeLines
  <2>2. PICK k \in 1..Len(tape[m][d]) : l = <<m, d, k>>
    BY <1>1, <2>1
  <2> QED BY <2>2
<1>3. ASSUME NEW l \in TapeLines
      PROVE  /\ <<l[1], number(l)>> \in AcceptedRecords
             /\ l[2] = DayOf(number(l)) /\ number(l) \in Nat
  <2> DEFINE m == l[1]
             d == l[2]
             k == l[3]
  <2>1. m \in Markets /\ d \in Days /\ k \in 1..Len(tape[m][d])
    BY <1>2
  <2> HIDE DEF m, d, k
  <2>2. tape[m][d][k].day = d /\ tape[m][d][k].n \in 1..Begun(m)
    BY <2>1 DEF FilesOf, Ordered
  <2>3. tape[m][d][k] \in Frames
    <3>1. tape[m][d] \in Seq(Frames)
      BY <2>1 DEF FileTypes
    <3> QED BY <2>1, <3>1, ElementOfSeq
  <2>4. Begun(m) \in Nat /\ Begun(m) <= Len(accepted[m]) /\ Len(accepted[m]) \in Nat
    BY <2>1, Sizes
  <2>5. tape[m][d][k].n \in Nat /\ tape[m][d][k].n \in 1..Len(accepted[m])
    BY <2>2, <2>4
  <2>6. <<m, tape[m][d][k].n>> \in AcceptedRecords
    BY <2>1, <2>5 DEF AcceptedRecords
  <2> QED BY <2>2, <2>3, <2>5, <2>6, FrameIs DEF m, d, k
<1>4. ASSUME NEW l \in TapeLines, NEW o \in TapeLines, <<l[1], number(l)>> = <<o[1], number(o)>>
      PROVE  l = o
  <2>1. l[1] = o[1] /\ number(l) = number(o)
    BY <1>4
  <2>2. l[2] = o[2]
    <3>1. l[2] = DayOf(number(l)) /\ o[2] = DayOf(number(o))
      BY <1>3
    <3> HIDE DEF number
    <3> QED BY <2>1, <3>1
  <2> DEFINE t == tape[l[1]][l[2]]
  <2>3. /\ l[3] \in 1..Len(t) /\ o[3] \in 1..Len(t) /\ Len(t) \in Nat
        /\ t[l[3]].n = t[o[3]].n /\ t[l[3]].n \in Nat
    <3>1. l[1] \in Markets /\ l[2] \in Days /\ l[3] \in 1..Len(t) /\ o[3] \in 1..Len(t)
      BY <1>2, <2>1, <2>2
    <3>2. t[l[3]].n = t[o[3]].n /\ t[l[3]].n \in Nat
      BY <1>3, <2>1, <2>2
    <3> QED BY <1>1, <3>1, <3>2
  <2>4. /\ \A j \in 1..(l[3] - 1) : t[j].n < t[l[3]].n
        /\ \A j \in 1..(o[3] - 1) : t[j].n < t[o[3]].n
    BY <1>2, <2>1, <2>2, <2>3 DEF FilesOf, Ordered
  <2> HIDE DEF t
  <2>5. l[3] = o[3]
    <3>1. CASE l[3] < o[3]
      BY <2>3, <2>4, <3>1
    <3>2. CASE o[3] < l[3]
      BY <2>3, <2>4, <3>2
    <3> QED BY <2>3, <3>1, <3>2
  <2> QED BY <1>2, <2>1, <2>2, <2>5
<1>5. f \in Injection(TapeLines, AcceptedRecords)
  <2>1. f \in [TapeLines -> AcceptedRecords]
    BY <1>3
  <2>2. \A l, o \in TapeLines : f[l] = f[o] => l = o
    BY <1>4
  <2> HIDE DEF f
  <2> QED BY <2>1, <2>2 DEF Injection, IsInjective
<1> HIDE DEF f
<1>6. /\ IsFiniteSet(TapeLines)
      /\ Cardinality(TapeLines) <= Cardinality(AcceptedRecords)
  BY <1>5, FS_Injection DEF Counted
<1>7. Cardinality(TapeLines) \in Nat
  BY <1>6, FS_CardinalityType
<1>8. /\ older \in Int /\ durableBytes \in Int /\ reserved \in Int
      /\ older + (durableBytes + reserved) <= MaxBytes
  BY DEF Counted
<1>9. Cardinality(TapeLines) <= durableBytes + reserved
  BY <1>6 DEF Counted
<1> QED BY <1>7, <1>8, <1>9 DEF DiskWithinQuota

-----------------------------------------------------------------------------
(* The invariant *)

(* What a step of the application does to the recorder.                       *)
LEMMA RecorderSteps ==
    ASSUME [Next]_vars
    PROVE  \/ UNCHANGED recorderVars
           \/ Up /\ \E m \in Markets :
                 \/ AppendAccepts(m, DayOf(Len(accepted[m]) + 1))
                 \/ AppendOverflows(m)
                 \/ WriterStep(m) \/ ThreadStep(m)
           \/ Up /\ (CloseBegins \/ CloseStep)
           \/ LoopCancels
<1>1. CASE UNCHANGED vars
  BY <1>1 DEF vars
<1>2. ASSUME NEW m \in Markets, Up, Consume(m)
      PROVE  \/ UNCHANGED recorderVars
             \/ AppendAccepts(m, DayOf(Len(accepted[m]) + 1)) \/ AppendOverflows(m)
  BY <1>2 DEF Consume, Connect, Disconnect, BackoffEnds, ReceiveStopped, ReceiveRecorded,
     ReceiveRefused, HandlerReturns, HandlerRaises, OnlyConn, AppendOverQuota, AppendFailed
<1>3. ASSUME NEW m \in Markets, ScannerStops(m) \/ ScannerFails(m) \/ ScannerCrashes(m)
      PROVE  UNCHANGED recorderVars
  BY <1>3 DEF ScannerStops, ScannerFails, ScannerCrashes, OnlyTasks
<1>4. ASSUME NEW t, SupervisedReturns(t) \/ SupervisedFails(t) \/ TaskCancelled(t)
      PROVE  UNCHANGED recorderVars
  BY <1>4 DEF SupervisedReturns, SupervisedFails, TaskCancelled, OnlyTasks
<1>5. CASE MonitorReturns \/ RequestStop
  BY <1>5 DEF MonitorReturns, RequestStop, OnlyTasks
<1>6. CASE Run
  BY <1>6 DEF Run, FirstCompleted, DrainEnds, CancelEnds, TeardownEnds, CloseRecorder,
     RecorderClosed, RecorderCloseOverruns, CloseRepository, LoopEnds, Up
<1> QED BY <1>1, <1>2, <1>3, <1>4, <1>5, <1>6 DEF Next

(* No step disturbs the files or the count of the quota.                      *)
LEMMA FilesKept ==
    ASSUME AppInv, FileTypes, \A m \in Markets : FilesOf(m), Counted, [Next]_vars
    PROVE  FileTypes' /\ (\A m \in Markets : FilesOf(m)') /\ Counted'
<1>0. RecorderTypes /\ RecorderInv /\ CancelledAtExit
  BY DEF AppInv
<1>a. ASSUME UNCHANGED <<accepted, queue, batch, durable, tape, unwritten, thread, older,
                         reserved, durableBytes>>,
             \A m \in Markets : thread[m] # "none" =>
                 writer'[m] = writer[m] \/ writer'[m] = "cancelled"
      PROVE  FileTypes' /\ (\A m \in Markets : FilesOf(m)') /\ Counted'
  <2>1. FileTypes'
    BY <1>a DEF FileTypes
  <2>2. ASSUME NEW m \in Markets PROVE FilesOf(m)'
    <3>1. Threaded(m)'
      BY <1>a DEF FilesOf, Threaded
    <3> QED BY <1>a, <3>1, FilesStand
  <2>3. Counted'
    BY <1>a, CountedStands DEF Counted
  <2> QED BY <2>1, <2>2, <2>3
<1>1. CASE UNCHANGED recorderVars
  BY <1>a, <1>1 DEF recorderVars, queueVars, writerVars
<1>2. ASSUME Up, NEW m \in Markets, AppendAccepts(m, DayOf(Len(accepted[m]) + 1))
      PROVE  FileTypes' /\ (\A k \in Markets : FilesOf(k)') /\ Counted'
  <2>1. FilesOf(m)'
    BY <1>0, <1>2, AppendFiles
  <2>2. FileTypes'
    BY <1>2 DEF FileTypes, AppendAccepts
  <2>3. ASSUME NEW k \in Markets, k # m PROVE FilesOf(k)'
    <3>1. /\ accepted'[k] = accepted[k] /\ batch'[k] = batch[k] /\ queue'[k] = queue[k]
          /\ durable'[k] = durable[k] /\ tape'[k] = tape[k] /\ unwritten'[k] = unwritten[k]
          /\ thread'[k] = thread[k] /\ writer'[k] = writer[k]
      BY <1>0, <1>2, <2>3 DEF AppendAccepts, StartWriter, RecorderTypes
    <3>2. Threaded(k)'
      BY <3>1 DEF FilesOf, Threaded
    <3> QED BY <3>1, <3>2, FilesStand
  <2>4. Counted'
    BY <1>0, <1>2, AppendCounted
  <2> QED BY <2>1, <2>2, <2>3, <2>4
<1>3. ASSUME Up, NEW m \in Markets, AppendOverflows(m)
      PROVE  FileTypes' /\ (\A k \in Markets : FilesOf(k)') /\ Counted'
  <2>1. UNCHANGED <<accepted, queue, batch, durable, tape, unwritten, thread, older,
                    reserved, durableBytes>>
    BY <1>3 DEF AppendOverflows, queueVars
  <2>2. ASSUME NEW k \in Markets, thread[k] # "none" PROVE writer'[k] = writer[k]
    <3>1. writer[k] = "write"
      BY <1>0, <1>3, <2>2 DEF FilesOf, Threaded, RecorderInv, Accounted, CancelledAtExit,
         Up, AppendOverflows, Admitting
    <3> QED BY <1>0, <1>3, <3>1 DEF AppendOverflows, StartWriter, RecorderTypes, Finished
  <2> QED BY <1>a, <2>1, <2>2
<1>4. ASSUME NEW m \in Markets, WriterStep(m) \/ ThreadStep(m)
      PROVE  FileTypes' /\ (\A k \in Markets : FilesOf(k)') /\ Counted'
  <2>1. FileTypes' /\ \A k \in Markets : FilesOf(k)'
    BY <1>0, <1>4, WriterFiles
  <2>2. /\ accepted' = accepted /\ older' = older
        /\ reserved' \in Int /\ durableBytes' \in Int
        /\ durableBytes' + reserved' = durableBytes + reserved
    <3>1. CASE AccountBatch(m)
      <4>1. Len(batch[m]) \in Nat
        BY <1>0, Sizes
      <4>2. reserved \in Int /\ durableBytes \in Int
        BY DEF Counted
      <4>3. /\ accepted' = accepted /\ older' = older
            /\ reserved' = reserved - Len(batch[m])
            /\ durableBytes' = durableBytes + Len(batch[m])
        BY <3>1 DEF AccountBatch
      <4>4. \A a, b \in Int : \A c \in Nat :
                a - c \in Int /\ b + c \in Int /\ (b + c) + (a - c) = b + a
        OBVIOUS
      <4> QED BY <4>1, <4>2, <4>3, <4>4
    <3>2. CASE ~AccountBatch(m)
      BY <1>4, <3>2 DEF WriterStep, ThreadStep, TakeBatch, TakeSentinel, FailBatch,
         WriteLine, ThreadReturns, ThreadFails, queueVars, Counted
    <3> QED BY <3>1, <3>2
  <2> QED BY <2>1, <2>2, CountedStands
<1>5. CASE CloseBegins \/ CloseStep
  <2>1. UNCHANGED <<accepted, queue, reserved, older>> /\ UNCHANGED writerVars
    BY <1>5 DEF CloseBegins, CloseStep, CloseWriter, PutSentinel, PutTimesOut, JoinReturns,
       JoinTimesOut, CloseReturns, queueVars
  <2> QED BY <1>a, <2>1 DEF writerVars
<1>6. CASE LoopCancels
  <2>1. /\ UNCHANGED <<accepted, queue, batch, durable, tape, unwritten, thread, older,
                       reserved, durableBytes>>
        /\ \A m \in Markets : writer'[m] = writer[m] \/ writer'[m] = "cancelled"
    BY <1>6 DEF LoopCancels, queueVars
  <2> QED BY <1>a, <2>1
<1> QED BY <1>1, <1>2, <1>3, <1>4, <1>5, <1>6, RecorderSteps

(* Once close has returned without an error nothing more is accepted and      *)
(* nothing durable is lost; run goes on when it has returned or overrun.      *)
LEMMA ClosedInFullKept ==
    ASSUME AppInv, ClosedInFull, [Next]_vars
    PROVE  ClosedInFull'
<1>0. RecorderTypes /\ RecorderInv /\ CancelledAtExit
  BY DEF AppInv
<1>1. /\ fatal # "none" => fatal' # "none"
      /\ closeStep = "done" => closeStep' = "done"
      /\ closeStep' = "done" /\ closeStep # "done" => CloseReturns
  <2>1. CASE UNCHANGED recorderVars
    BY <2>1 DEF recorderVars, closeVars
  <2>2. ASSUME NEW m \in Markets,
               \/ AppendAccepts(m, DayOf(Len(accepted[m]) + 1))
               \/ AppendOverflows(m)
               \/ WriterStep(m) \/ ThreadStep(m)
        PROVE  closeStep' = closeStep /\ (fatal # "none" => fatal' # "none")
    BY <2>2 DEF AppendAccepts, AppendOverflows, Signal, closeVars, WriterStep, ThreadStep,
       TakeBatch, TakeSentinel, AccountBatch, FailBatch, WriteLine, ThreadReturns, ThreadFails
  <2>3. CASE CloseBegins \/ CloseStep
    BY <2>3 DEF CloseBegins, CloseStep, CloseWriter, PutSentinel, PutTimesOut, JoinReturns,
       JoinTimesOut, CloseReturns, ToJoin, NextWriter, Signal
  <2>4. CASE LoopCancels
    BY <2>4 DEF LoopCancels, CloseEnds, Signal
  <2> QED BY <2>1, <2>2, <2>3, <2>4, RecorderSteps
<1>2. ASSUME closeStep' = "done", fatal' = "none" PROVE Drained'
  <2>1. fatal = "none"
    BY <1>1, <1>2
  <2>2. CASE CloseReturns
    BY <2>1, <2>2, <1>2 DEF CloseReturns, Drained, queueVars, writerVars
  <2>3. CASE closeStep = "done"
    <3>1. Drained /\ closed
      BY <1>0, <2>1, <2>3 DEF ClosedInFull, RecorderInv, Closing
    <3>2. ASSUME NEW m \in Markets PROVE Len(batch[m]) = 0 /\ durable[m] + 0 = durable[m]
      BY <1>0, <3>1, Sizes DEF Drained, Begun
    <3>3. CASE UNCHANGED <<accepted, durable>>
      BY <3>1, <3>3 DEF Drained
    <3>4. ASSUME NEW m \in Markets, WriterStep(m) \/ ThreadStep(m)
          PROVE  UNCHANGED <<accepted, durable>>
      <4>1. CASE AccountBatch(m)
        BY <1>0, <3>2, <4>1 DEF AccountBatch, RecorderTypes
      <4> QED BY <3>4, <4>1 DEF WriterStep, ThreadStep, TakeBatch, TakeSentinel, FailBatch,
           WriteLine, ThreadReturns, ThreadFails, queueVars
    <3>5. ASSUME NEW m \in Markets
          PROVE  ~AppendAccepts(m, DayOf(Len(accepted[m]) + 1)) /\ ~AppendOverflows(m)
      BY <3>1 DEF AppendAccepts, AppendOverflows, Admitting
    <3>6. CASE UNCHANGED recorderVars \/ CloseBegins \/ CloseStep \/ LoopCancels
      BY <3>3, <3>6 DEF recorderVars, queueVars, writerVars, CloseBegins, CloseStep,
         CloseWriter, PutSentinel, PutTimesOut, JoinReturns, JoinTimesOut, CloseReturns,
         LoopCancels
    <3> QED BY <3>3, <3>4, <3>5, <3>6, RecorderSteps
  <2> QED BY <1>1, <1>2, <2>2, <2>3
<1>3. ASSUME phase' \in {"notifier", "ended", "exited"}, ~overrun'
      PROVE  closeStep' = "done"
  <2>1. CASE phase' = phase /\ overrun' = overrun
    BY <1>1, <1>3, <2>1 DEF ClosedInFull
  <2>2. CASE Run
    <3>1. CASE RecorderClosed
      BY <1>0, <3>1 DEF RecorderClosed, RecorderInv, Closing, recorderVars, closeVars
    <3>2. CASE CloseRepository \/ LoopEnds
      BY <1>1, <1>3, <3>2 DEF CloseRepository, LoopEnds, Goto, ClosedInFull
    <3>3. CASE RecorderCloseOverruns
      BY <1>3, <3>3 DEF RecorderCloseOverruns
    <3> QED BY <1>3, <2>2, <3>1, <3>2, <3>3 DEF Run, FirstCompleted, DrainEnds, CancelEnds,
         TeardownEnds, CloseRecorder, Goto
  <2>3. CASE Next /\ ~Run
    <3>1. phase' = phase /\ overrun' = overrun
      BY <2>3 DEF Next, Consume, Connect, Disconnect, BackoffEnds, ReceiveStopped,
         ReceiveRecorded, ReceiveRefused, HandlerReturns, HandlerRaises, OnlyConn,
         ScannerStops, ScannerFails, ScannerCrashes, SupervisedReturns, SupervisedFails,
         TaskCancelled, MonitorReturns, RequestStop, OnlyTasks, appVars
    <3> QED BY <2>1, <3>1
  <2>4. CASE UNCHANGED vars
    BY <2>1, <2>4 DEF vars, appVars
  <2> QED BY <2>2, <2>3, <2>4
<1> QED BY <1>2, <1>3 DEF ClosedInFull

(* A process that has just started has written nothing.                       *)
LEMMA FilesInitially == Init => FilesInv
<1> SUFFICES ASSUME Init PROVE FilesInv
  OBVIOUS
<1> USE DEF Init, RecorderInit
<1>1. FileTypes
  BY EmptySeq DEF FileTypes, NoRecords, AllNone, EmptyTape
<1>2. ASSUME NEW m \in Markets PROVE FilesOf(m)
  <2>1. /\ Len(accepted[m]) = 0 /\ Len(batch[m]) = 0 /\ Len(queue[m]) = 0
        /\ unwritten[m] = <<>> /\ Len(unwritten[m]) = 0 /\ durable[m] = 0
        /\ thread[m] = "none" /\ \A d \in Days : Len(tape[m][d]) = 0
    BY EmptySeq DEF NoRecords, AllNone, EmptyTape
  <2>2. Begun(m) = 0
    BY <2>1 DEF Begun
  <2> QED BY <2>1, <2>2 DEF FilesOf, Numbered, Ordered, Leaving, Kept, Threaded
<1>3. Counted
  <2>1. AcceptedRecords = {}
    BY EmptySeq DEF AcceptedRecords, NoRecords
  <2> QED BY <2>1, FS_EmptySet DEF Counted
<1>4. ClosedInFull
  BY DEF ClosedInFull
<1> QED BY <1>1, <1>2, <1>3, <1>4 DEF FilesInv

-----------------------------------------------------------------------------
(* The theorems *)

(* The invariant of the files holds throughout every run, for all markets,    *)
(* days, queue limits, quotas and deadlines.                                  *)
THEOREM FilesInvariant == Spec => []FilesInv
<1>1. Init => FilesInv
  BY FilesInitially
<1>2. AppInv /\ FilesInv /\ [Next]_vars => FilesInv'
  <2> SUFFICES ASSUME AppInv, FilesInv, [Next]_vars PROVE FilesInv'
    OBVIOUS
  <2>1. FileTypes' /\ (\A m \in Markets : FilesOf(m)') /\ Counted'
    BY FilesKept DEF FilesInv
  <2>2. ClosedInFull'
    BY ClosedInFullKept DEF FilesInv
  <2> QED BY <2>1, <2>2 DEF FilesInv
<1> QED BY <1>1, <1>2, AppInvariant, PTL DEF Spec

(* A record that has been handed to a thread and is not left to it is in the  *)
(* file of its day.                                                           *)
LEMMA WrittenIsRecorded ==
    ASSUME AppInv, FilesInv, NEW m \in Markets, NEW n \in 1..Begun(m), ~Left(m, n)
    PROVE  Recorded(m, n)
<1>1. FilesOf(m) /\ FileTypes /\ RecorderTypes /\ RecorderInv
  BY DEF FilesInv, AppInv
<1>2. PICK d \in Days : \E k \in 1..Len(tape[m][d]) : tape[m][d][k].n = n
  BY <1>1 DEF FilesOf, Kept, OnTape
<1>3. PICK k \in 1..Len(tape[m][d]) : tape[m][d][k].n = n
  BY <1>2
<1>4. /\ tape[m][d] \in Seq(Frames) /\ DOMAIN tape[m][d] = 1..Len(tape[m][d])
      /\ tape[m][d][k] \in Frames
  BY <1>1, <1>3, LenProperties, ElementOfSeq DEF FileTypes
<1>5. tape[m][d][k] = Frame(n) /\ tape[m][d][k].day = d
  BY <1>1, <1>3, <1>4, FrameIs DEF FilesOf, Ordered
<1>6. accepted[m][n] = Frame(n)
  <2>1. n \in 1..Len(accepted[m])
    BY <1>1, Sizes
  <2> QED BY <1>1, <2>1 DEF FilesOf, Numbered
<1> QED BY <1>4, <1>5, <1>6 DEF Recorded

(* Every file is a gapless run of its day's records in the order they were    *)
(* accepted, and everything counted as durable is in the files.               *)
THEOREM TapeAlwaysPrefix == Spec => []TapeIsPrefix
<1>1. AppInv /\ FilesInv => TapeIsPrefix
  <2> SUFFICES ASSUME AppInv, FilesInv, NEW m \in Markets
               PROVE  /\ \A d \in Days : \A k \in DOMAIN tape[m][d] :
                            LET r == tape[m][d][k] IN
                            /\ r.day = d
                            /\ r.n \in DOMAIN accepted[m] /\ accepted[m][r.n] = r
                            /\ \A j \in 1..(k - 1) : tape[m][d][j].n < r.n
                            /\ \A n \in 1..r.n : accepted[m][n].day = d => Recorded(m, n)
                      /\ \A n \in 1..durable[m] : Recorded(m, n)
    BY DEF TapeIsPrefix
  <2>0. FilesOf(m) /\ FileTypes /\ RecorderTypes /\ RecorderInv
    BY DEF FilesInv, AppInv
  <2>1. /\ durable[m] \in Nat /\ Begun(m) \in Nat /\ Len(accepted[m]) \in Nat
        /\ durable[m] <= Begun(m) /\ Begun(m) <= Len(accepted[m])
        /\ DOMAIN accepted[m] = 1..Len(accepted[m])
    <3>1. /\ Len(batch[m]) \in Nat /\ Len(queue[m]) \in Nat
          /\ durable[m] \in Nat /\ Begun(m) \in Nat /\ Len(accepted[m]) \in Nat
          /\ Len(accepted[m]) = Begun(m) + Len(queue[m])
      BY <2>0, Sizes
    <3>2. DOMAIN accepted[m] = 1..Len(accepted[m])
      BY <2>0, LenProperties DEF RecorderTypes
    <3> QED BY <3>1, <3>2 DEF Begun
  <2>2. ASSUME NEW n \in 1..durable[m] PROVE Recorded(m, n)
    <3>1. n \in 1..Begun(m)
      BY <2>1
    <3>2. ~Left(m, n)
      BY <2>0, <2>1 DEF FilesOf, Leaving, Left
    <3> QED BY <3>1, <3>2, WrittenIsRecorded
  <2>3. ASSUME NEW d \in Days, NEW k \in DOMAIN tape[m][d]
        PROVE  LET r == tape[m][d][k] IN
               /\ r.day = d
               /\ r.n \in DOMAIN accepted[m] /\ accepted[m][r.n] = r
               /\ \A j \in 1..(k - 1) : tape[m][d][j].n < r.n
               /\ \A n \in 1..r.n : accepted[m][n].day = d => Recorded(m, n)
    <3> DEFINE r == tape[m][d][k]
    <3>1. /\ k \in 1..Len(tape[m][d]) /\ r \in Frames
      BY <2>0, LenProperties, ElementOfSeq DEF FileTypes
    <3>2. /\ r.day = d /\ r.n \in 1..Begun(m)
          /\ \A j \in 1..(k - 1) : tape[m][d][j].n < r.n
      BY <2>0, <3>1 DEF FilesOf, Ordered
    <3>3. r.n \in DOMAIN accepted[m] /\ accepted[m][r.n] = r
      <4>1. r.n \in 1..Len(accepted[m])
        BY <2>1, <3>2
      <4>2. accepted[m][r.n] = Frame(r.n)
        BY <2>0, <4>1 DEF FilesOf, Numbered
      <4> QED BY <2>1, <3>1, <4>1, <4>2, FrameIs
    <3>4. ASSUME NEW n \in 1..r.n, accepted[m][n].day = d PROVE Recorded(m, n)
      <4>1. n \in 1..Begun(m) /\ n \in 1..Len(accepted[m]) /\ n <= r.n
        BY <2>1, <3>2
      <4>2. accepted[m][n] = Frame(n)
        BY <2>0, <4>1 DEF FilesOf, Numbered
      <4>3. ASSUME NEW i \in 1..Len(unwritten[m]), unwritten[m][i].n = n PROVE FALSE
        <5>1. unwritten[m][i] \in Frames
          BY <2>0, ElementOfSeq DEF FileTypes
        <5>2. unwritten[m][i].day = d
          BY <3>4, <4>2, <4>3, <5>1, FrameIs DEF Frame
        <5>3. tape[m][d][k].n < unwritten[m][i].n
          BY <2>0, <3>1, <5>2 DEF FilesOf, Leaving
        <5> QED BY <2>1, <3>2, <4>1, <4>3, <5>3
      <4>4. ~Left(m, n)
        BY <4>3 DEF Left
      <4> QED BY <4>1, <4>4, WrittenIsRecorded
    <3> QED BY <3>2, <3>3, <3>4
  <2> QED BY <2>2, <2>3
<1> QED BY <1>1, AppInvariant, FilesInvariant, PTL

(* The directory stays within its quota, whatever batches failed.             *)
THEOREM DiskAlwaysWithinQuota == Spec => []DiskWithinQuota
<1>1. AppInv /\ FilesInv => DiskWithinQuota
  BY LinesCounted DEF AppInv, FilesInv
<1> QED BY <1>1, AppInvariant, FilesInvariant, PTL

(* A process that exits without a recorder error or an overrun has written    *)
(* every record it accepted.                                                  *)
THEOREM CleanExitAlwaysComplete == Spec => []CleanExitIsComplete
<1>1. AppInv /\ FilesInv => CleanExitIsComplete
  <2> SUFFICES ASSUME AppInv, FilesInv, phase = "exited", fatal = "none", ~overrun,
                      NEW m \in Markets, NEW n \in DOMAIN accepted[m]
               PROVE  Recorded(m, n)
    BY DEF CleanExitIsComplete
  <2>0. FilesOf(m) /\ RecorderTypes /\ RecorderInv
    BY DEF FilesInv, AppInv
  <2>1. durable[m] = Len(accepted[m])
    BY DEF FilesInv, ClosedInFull, Drained
  <2>2. n \in 1..durable[m] /\ durable[m] \in Nat
    BY <2>0, <2>1, LenProperties DEF RecorderTypes
  <2>3. n \in 1..Begun(m)
    <3>1. Len(batch[m]) \in Nat
      BY <2>0, Sizes
    <3> QED BY <2>2, <3>1 DEF Begun
  <2>4. ~Left(m, n)
    BY <2>0, <2>2 DEF FilesOf, Leaving, Left
  <2> QED BY <2>3, <2>4, WrittenIsRecorded
<1> QED BY <1>1, AppInvariant, FilesInvariant, PTL
=============================================================================
