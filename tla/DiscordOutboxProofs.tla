------------------------ MODULE DiscordOutboxProofs ------------------------
(* Proofs of the safety properties of DiscordOutbox. *)
EXTENDS DiscordOutbox, Integers, FiniteSetTheorems, TLAPS

USE EventsAssumption, TimesAssumption, LimitsAssumption

(* The steps that touch the status of a row. *)
LEMMA StatusSteps ==
    ASSUME [Next]_vars
    PROVE  \/ \E p \in Procs : \/ Start(p) \/ ExpireItem(p) \/ Claim(p) \/ Mark(p)
                               \/ RetryExpire(p) \/ EnqueueCommit(p)
           \/ \E o \in Operators : ResolveMark(o)
           \/ UNCHANGED status
<1> USE DEF durable
<1>1. ASSUME NEW p \in Procs, RequestStop(p) \/ Exit(p) \/ Crash(p) \/ BatchFails(p)
      PROVE  UNCHANGED status
  BY <1>1 DEF RequestStop, StopSet, Exit, Crash, BatchFails
<1>2. ASSUME NEW p \in Procs, NEW e \in Events, Enqueue(p, e) \/ EnqueueRefused(p, e)
      PROVE  UNCHANGED status
  BY <1>2 DEF Enqueue, EnqueueRefused, StopSet
<1>7. ASSUME NEW p \in Procs, EnqueueReturns(p)
      PROVE  EnqueueCommit(p) \/ UNCHANGED status
  BY <1>7 DEF EnqueueReturns, EnqueueFails
<1>3. ASSUME NEW p \in Procs, Worker(p)
      PROVE  ExpireItem(p) \/ Claim(p) \/ Mark(p) \/ RetryExpire(p) \/ UNCHANGED status
  BY <1>3 DEF Worker, Poll, EndCycle, AuditExpired, SkipEmbargoed, TakeItem, ClaimLost,
     Answered, TransportError, Record, Wake, RetryClaim
<1>4. ASSUME NEW o \in Operators, NEW e \in Events, NEW as \in {"delivered", "dead"},
             ResolveRead(o, e, as)
      PROVE  UNCHANGED status
  BY <1>4 DEF ResolveRead
<1>5. ASSUME NEW o \in Operators, ResolveRefused(o) \/ ResolveAudit(o)
      PROVE  UNCHANGED status
  BY <1>5 DEF ResolveRefused, ResolveAudit
<1>6. ASSUME Tick \/ UNCHANGED vars \/ \E q \in net : ProcessedUnseen(q) \/ RequestLost(q)
      PROVE  UNCHANGED status
  BY <1>6 DEF Tick, vars, ProcessedUnseen, RequestLost
<1> QED BY <1>1, <1>2, <1>3, <1>4, <1>5, <1>6, <1>7 DEF Next

(* Every step keeps the rows, the workers' jobs and the operators' commands *)
(* well formed; a worker past the claim always names an event.              *)
LEMMA TypesPreserved ==
    TypeOK /\ JobsNamed /\ [Next]_vars => TypeOK' /\ JobsNamed'
<1> SUFFICES ASSUME TypeOK /\ JobsNamed, [Next]_vars PROVE TypeOK' /\ JobsNamed'
  OBVIOUS
<1> USE DEF vars, durable, memory, world, TypeOK, JobsNamed, Status, Active,
            Final, Accepted, Rejected, Replies, Locations, Job, OpState,
            NoEvent
<1>1. CASE \E p \in Procs : Start(p)
  BY <1>1 DEF Start, RecoverInflight, Goto
<1>2. CASE \E p \in Procs : RequestStop(p)
  BY <1>2 DEF RequestStop, StopSet, Fault
<1>3. CASE \E p \in Procs : Exit(p)
  BY <1>3 DEF Exit, Halted, Goto, NoJob, Item, Attempt
<1>4. CASE \E p \in Procs : Crash(p)
  BY <1>4 DEF Crash, Halted, Goto, Fault, NoJob, Item, Attempt
<1>5. CASE \E p \in Procs, e \in Events : Enqueue(p, e)
  <2> PICK p \in Procs, e \in Events : Enqueue(p, e)
    BY <1>5
  <2>1. DraftOf(e, now, IF enabled[p] THEN "pending" ELSE "disabled") \in Draft
    BY DEF Draft, DraftOf
  <2>2. saving' \in [Procs -> Draft \cup {NotSaving}]
    BY <2>1 DEF Enqueue
  <2> QED BY <2>2 DEF Enqueue
<1>6. CASE \E p \in Procs, e \in Events : EnqueueRefused(p, e)
  BY <1>6 DEF EnqueueRefused, StopSet, Fault
<1>7. CASE \E p \in Procs : Poll(p)
  BY <1>7 DEF Poll, Goto, PendingBatch, PendingRows
<1>8. CASE \E p \in Procs : EndCycle(p)
  BY <1>8 DEF EndCycle, Goto
<1>9. CASE \E p \in Procs : ExpireItem(p)
  BY <1>9 DEF ExpireItem, Expire, Goto, Item, Attempt
<1>10. CASE \E p \in Procs : AuditExpired(p)
  BY <1>10 DEF AuditExpired, AppendAlert, RowsOf, Goto, NoJob, Item, Attempt,
     Row, AlertStatus
<1>11. CASE \E p \in Procs : SkipEmbargoed(p)
  BY <1>11 DEF SkipEmbargoed
<1>12. CASE \E p \in Procs : TakeItem(p)
  BY <1>12 DEF TakeItem, Goto, Item, Attempt
<1>13. CASE \E p \in Procs : Claim(p)
  <2> PICK p \in Procs : Claim(p)
    BY <1>13
  <2>1. job[p] \in Job /\ job[p].ev \in Events
    BY DEF Claim, Goto, Attempt
  <2>2. attempts[job[p].ev] \in Nat
    BY <2>1 DEF Claim, Goto, Attempt
  <2>3. job' \in [Procs -> Job]
    BY <2>1, <2>2 DEF Claim, Goto, Attempt
  <2>4. attempts' \in [Events -> Nat]
    BY <2>1, <2>2, <2>3 DEF Claim, Goto, Attempt
  <2>5. net' \subseteq Events \X Nat
    BY <2>1, <2>2, <2>3, <2>4 DEF Claim, Goto, Attempt
  <2>6. TypeOK'
    BY <2>1, <2>2, <2>3, <2>4, <2>5 DEF Claim, Goto, Attempt
  <2>7. JobsNamed'
    BY <2>1, <2>2, <2>3, <2>4, <2>5 DEF Claim, Goto, Attempt
  <2> QED BY <2>6, <2>7
<1>14. CASE \E p \in Procs : ClaimLost(p)
  BY <1>14 DEF ClaimLost, Goto, NoJob, Item, Attempt
<1>15. CASE \E p \in Procs : Answered(p)
  <2> PICK p \in Procs : Answered(p)
    BY <1>15
  <2>1. job[p] \in Job /\ job[p].ev \in Events
    BY DEF Answered, Goto, Attempt
  <2>2. posted[job[p].ev] \in Nat
    BY <2>1 DEF Answered, Goto, Attempt
  <2>3. job' \in [Procs -> Job]
    BY <2>1, <2>2 DEF Answered, Goto, Attempt
  <2>4. posted' \in [Events -> Nat]
    BY <2>1, <2>2, <2>3 DEF Answered, Goto, Attempt
  <2>5. TypeOK'
    BY <2>1, <2>2, <2>3, <2>4 DEF Answered, Goto, Attempt
  <2>6. JobsNamed'
    BY <2>1, <2>2, <2>3, <2>4 DEF Answered, Goto, Attempt
  <2> QED BY <2>5, <2>6
<1>16. CASE \E p \in Procs : TransportError(p)
  BY <1>16 DEF TransportError, Goto, Attempt
<1>17. CASE \E p \in Procs : Mark(p)
  BY <1>17 DEF Mark, Goto, MarkOutbox, MarkOf
<1>18. CASE \E p \in Procs : Record(p)
  <2> PICK p \in Procs : Record(p)
    BY <1>18
  <2>1. job[p] \in Job /\ job[p].ev \in Events /\ job[p].n \in Nat
    BY DEF Record
  <2>2. alerts' \subseteq Row
    BY <2>1 DEF Record, RecordAlert, AlertOf, Row, AlertStatus
  <2>a. job' \in [Procs -> Job]
    BY <2>1 DEF Record, NoJob, Item, Attempt
  <2>b. embargo' \in [Procs -> Nat]
    <3>1. \A d \in 1..MaxEmbargo : now + d \in Nat
      OBVIOUS
    <3>2. embargo' = embargo \/ \E d \in 1..MaxEmbargo : embargo' = [embargo EXCEPT ![p] = now + d]
      BY Zenon DEF Record
    <3> QED BY <3>1, <3>2
  <2>c. pc' \in [Procs -> Locations]
    BY DEF Record, Goto
  <2>3. job' \in [Procs -> Job] /\ embargo' \in [Procs -> Nat] /\ pc' \in [Procs -> Locations]
    BY <2>a, <2>b, <2>c
  <2>4. TypeOK'
    BY <2>2, <2>3 DEF Record
  <2>5. JobsNamed'
    BY <2>1, <2>3 DEF Record, Goto, NoJob, Item, Attempt
  <2> QED BY <2>4, <2>5
<1>19. CASE \E p \in Procs : Wake(p)
  BY <1>19 DEF Wake, Goto
<1>20. CASE \E p \in Procs : RetryExpire(p)
  BY <1>20 DEF RetryExpire, Expire, Goto, Item, Attempt
<1>21. CASE \E p \in Procs : RetryClaim(p)
  BY <1>21 DEF RetryClaim, Goto
<1>22. CASE \E p \in Procs : BatchFails(p)
  BY <1>22 DEF BatchFails, Goto, Fault, NoJob, Item, Attempt
<1>23. CASE \E o \in Operators, e \in Events, as \in {"delivered", "dead"} :
          ResolveRead(o, e, as)
  <2> PICK o \in Operators, e \in Events, as \in {"delivered", "dead"} :
            ResolveRead(o, e, as)
    BY <1>23
  <2>1. TypeOK'
    BY DEF ResolveRead, Resolving
  <2>2. JobsNamed'
    BY DEF ResolveRead, Resolving
  <2> QED BY <2>1, <2>2
<1>24. CASE \E o \in Operators : ResolveMark(o)
  <2> PICK o \in Operators : ResolveMark(o)
    BY <1>24
  <2>1. op[o] \in OpState /\ op[o].ev \in Events
    BY DEF ResolveMark, Resolving
  <2>2. op' \in [Operators -> OpState]
    BY <2>1 DEF ResolveMark, Resolving
  <2>3. status' \in [Events -> Status] /\ manual' \in [Events -> BOOLEAN]
    BY <2>1, <2>2 DEF ResolveMark, Resolving
  <2>4. TypeOK'
    BY <2>1, <2>2, <2>3 DEF ResolveMark, Resolving
  <2>5. JobsNamed'
    BY <2>1, <2>2, <2>3 DEF ResolveMark, Resolving
  <2> QED BY <2>4, <2>5
<1>25. CASE \E o \in Operators : ResolveRefused(o)
  BY <1>25 DEF ResolveRefused, OpIdle, Resolving
<1>26. CASE \E o \in Operators : ResolveAudit(o)
  BY <1>26 DEF ResolveAudit, AppendAlert, RowsOf, OpIdle, Resolving, Row,
     AlertStatus
<1>27. CASE \E q \in net : ProcessedUnseen(q)
  <2> PICK q \in net : ProcessedUnseen(q)
    BY <1>27
  <2>1. q[1] \in Events /\ posted[q[1]] \in Nat
    BY DEF ProcessedUnseen
  <2>2. posted' \in [Events -> Nat]
    BY <2>1 DEF ProcessedUnseen
  <2>3. TypeOK'
    BY <2>1, <2>2 DEF ProcessedUnseen
  <2>4. JobsNamed'
    BY <2>1, <2>2 DEF ProcessedUnseen
  <2> QED BY <2>3, <2>4
<1>28. CASE \E q \in net : RequestLost(q)
  BY <1>28 DEF RequestLost
<1>29. CASE Tick
  BY <1>29 DEF Tick
<1>30. CASE UNCHANGED vars
  BY <1>30
<1>31. CASE \E p \in Procs : EnqueueCommit(p)
  <2> PICK p \in Procs : EnqueueCommit(p)
    BY <1>31
  <2>1. saving[p] \in Draft
    BY DEF EnqueueCommit
  <2>2. /\ saving[p].ev \in Events /\ saving[p].at \in Nat
        /\ saving[p].to \in {"pending", "disabled"}
    BY <2>1 DEF Draft
  <2>3. status' \in [Events -> Status] /\ created' \in [Events -> Nat]
    BY <2>2 DEF EnqueueCommit
  <2>4. saving' \in [Procs -> Draft \cup {NotSaving}]
    BY DEF EnqueueCommit
  <2> QED BY <2>3, <2>4 DEF EnqueueCommit
<1>32. CASE \E p \in Procs : EnqueueFails(p)
  BY <1>32 DEF EnqueueFails, Fault
<1> QED BY <1>1, <1>2, <1>3, <1>4, <1>5, <1>6, <1>7, <1>8, <1>9, <1>10,
           <1>11, <1>12, <1>13, <1>14, <1>15, <1>16, <1>17, <1>18, <1>19,
           <1>20, <1>21, <1>22, <1>23, <1>24, <1>25, <1>26, <1>27, <1>28,
           <1>29, <1>30, <1>31, <1>32
        DEF Next, Worker, EnqueueReturns

(* Every step keeps the outbox rows in line with what Discord has received: *)
(* claim_outbox is the only way to a request, and it needs a pending row.   *)
LEMMA RowsPreserved ==
    OutboxInv /\ [Next]_vars => RowsMatchDiscord'
<1> SUFFICES ASSUME OutboxInv, [Next]_vars PROVE RowsMatchDiscord'
  OBVIOUS
<1> USE DEF OutboxInv, RowsMatchDiscord, HoldersOwnAttempt, InFlight, Unsent,
            Holds, vars, durable, memory, world, TypeOK, JobsNamed, Status,
            Active, Final, Accepted, Rejected, Replies, Locations, Job,
            OpState, NoEvent
<1>1. CASE \E p \in Procs : Start(p)
  BY <1>1 DEF Start, RecoverInflight, Goto
<1>2. CASE \E p \in Procs : RequestStop(p)
  BY <1>2 DEF RequestStop, StopSet, Fault
<1>3. CASE \E p \in Procs : Exit(p)
  BY <1>3 DEF Exit, Halted, Goto, NoJob, Item, Attempt
<1>4. CASE \E p \in Procs : Crash(p)
  BY <1>4 DEF Crash, Halted, Goto, Fault, NoJob, Item, Attempt
<1>5. CASE \E p \in Procs, e \in Events : Enqueue(p, e)
  BY <1>5 DEF Enqueue
<1>6. CASE \E p \in Procs, e \in Events : EnqueueRefused(p, e)
  BY <1>6 DEF EnqueueRefused, StopSet, Fault
<1>7. CASE \E p \in Procs : Poll(p)
  BY <1>7 DEF Poll, Goto, PendingBatch, PendingRows
<1>8. CASE \E p \in Procs : EndCycle(p)
  BY <1>8 DEF EndCycle, Goto
<1>9. CASE \E p \in Procs : ExpireItem(p)
  BY <1>9 DEF ExpireItem, Expire, Goto, Item, Attempt
<1>10. CASE \E p \in Procs : AuditExpired(p)
  BY <1>10 DEF AuditExpired, AppendAlert, RowsOf, Goto, NoJob, Item, Attempt,
     Row, AlertStatus
<1>11. CASE \E p \in Procs : SkipEmbargoed(p)
  BY <1>11 DEF SkipEmbargoed
<1>12. CASE \E p \in Procs : TakeItem(p)
  BY <1>12 DEF TakeItem, Goto, Item, Attempt
<1>13. CASE \E p \in Procs : Claim(p)
  <2> PICK p \in Procs : Claim(p)
    BY <1>13
  <2> DEFINE c == job[p].ev
             new == <<c, attempts[c] + 1>>
  <2>1. c \in Events /\ status[c] = "pending" /\ attempts[c] \in Nat
    BY DEF Claim
  <2>2. posted[c] = 0 /\ ~InFlight(c)
    BY <2>1
  <2>3. /\ status' = [status EXCEPT ![c] = "sending"]
        /\ attempts' = [attempts EXCEPT ![c] = attempts[c] + 1]
        /\ net' = net \cup {new} /\ posted' = posted
    BY DEF Claim
  <2>4. \A e \in Events : posted'[e] \in {0, 1}
    BY <2>3
  <2>5. \A e \in Events : status'[e] \in Unsent => posted'[e] = 0 /\ ~InFlight(e)'
    BY <2>1, <2>3
  <2>6. \A q \in net' : q[2] = attempts'[q[1]] /\ posted'[q[1]] = 0
    <3> SUFFICES ASSUME NEW q \in net' PROVE q[2] = attempts'[q[1]] /\ posted'[q[1]] = 0
      OBVIOUS
    <3>1. CASE q = new
      BY <2>1, <2>2, <2>3, <3>1
    <3>2. CASE q \in net
      <4>1. q[1] \in Events /\ q[1] # c
        BY <2>2, <3>2
      <4> QED BY <2>3, <3>2, <4>1
    <3> QED BY <2>3, <3>1, <3>2
  <2> QED BY <2>4, <2>5, <2>6
<1>14. CASE \E p \in Procs : ClaimLost(p)
  BY <1>14 DEF ClaimLost, Goto, NoJob, Item, Attempt
<1>15. CASE \E p \in Procs : Answered(p)
  BY <1>15 DEF Answered, Goto, Attempt
<1>16. CASE \E p \in Procs : TransportError(p)
  BY <1>16 DEF TransportError, Goto, Attempt
<1>17. CASE \E p \in Procs : Mark(p)
  BY <1>17 DEF Mark, Goto, MarkOutbox, MarkOf
<1>18. CASE \E p \in Procs : Record(p)
  BY <1>18 DEF Record, Goto, RecordAlert, AlertOf, NoJob, Item, Attempt, Row,
     AlertStatus
<1>19. CASE \E p \in Procs : Wake(p)
  BY <1>19 DEF Wake, Goto
<1>20. CASE \E p \in Procs : RetryExpire(p)
  BY <1>20 DEF RetryExpire, Expire, Goto, Item, Attempt
<1>21. CASE \E p \in Procs : RetryClaim(p)
  BY <1>21 DEF RetryClaim, Goto
<1>22. CASE \E p \in Procs : BatchFails(p)
  BY <1>22 DEF BatchFails, Goto, Fault, NoJob, Item, Attempt
<1>23. CASE \E o \in Operators, e \in Events, as \in {"delivered", "dead"} :
          ResolveRead(o, e, as)
  BY <1>23 DEF ResolveRead, Resolving
<1>24. CASE \E o \in Operators : ResolveMark(o)
  <2> PICK o \in Operators : ResolveMark(o)
    BY <1>24
  <2>1. op[o] \in OpState /\ op[o].ev \in Events
    BY DEF ResolveMark, Resolving
  <2>2. op' \in [Operators -> OpState]
    BY <2>1 DEF ResolveMark, Resolving
  <2>3. status' \in [Events -> Status] /\ manual' \in [Events -> BOOLEAN]
    BY <2>1, <2>2 DEF ResolveMark, Resolving
  <2>4. RowsMatchDiscord'
    BY <2>1, <2>2, <2>3 DEF ResolveMark, Resolving
  <2> QED BY <2>4
<1>25. CASE \E o \in Operators : ResolveRefused(o)
  BY <1>25 DEF ResolveRefused, OpIdle, Resolving
<1>26. CASE \E o \in Operators : ResolveAudit(o)
  BY <1>26 DEF ResolveAudit, AppendAlert, RowsOf, OpIdle, Resolving, Row,
     AlertStatus
<1>27. CASE \E q \in net : ProcessedUnseen(q)
  <2> PICK q \in net : ProcessedUnseen(q)
    BY <1>27
  <2>1. /\ net' = net \ {q} /\ posted' = [posted EXCEPT ![q[1]] = @ + 1]
        /\ status' = status /\ attempts' = attempts
    BY DEF ProcessedUnseen
  <2>2. q[1] \in Events /\ posted[q[1]] = 0 /\ InFlight(q[1]) /\ status[q[1]] \notin Unsent
    OBVIOUS
  <2>3. \A e \in Events : posted'[e] = IF e = q[1] THEN 1 ELSE posted[e]
    BY <2>1, <2>2
  <2>4. \A r \in net' : r \in net /\ r # q /\ r \in Events \X Nat
    BY <2>1
  <2>5. \A r \in net' : r[1] # q[1]
    BY <2>1, <2>4
  <2>6. \A e \in Events : status'[e] \in Unsent => posted'[e] = 0 /\ ~InFlight(e)'
    BY <2>1, <2>2, <2>3
  <2>7. \A r \in net' : r[2] = attempts'[r[1]] /\ posted'[r[1]] = 0
    BY <2>1, <2>3, <2>5
  <2> QED BY <2>3, <2>6, <2>7
<1>28. CASE \E q \in net : RequestLost(q)
  BY <1>28 DEF RequestLost
<1>29. CASE Tick
  BY <1>29 DEF Tick
<1>30. CASE UNCHANGED vars
  BY <1>30
<1>31. CASE \E p \in Procs : EnqueueCommit(p)
  BY <1>31 DEF EnqueueCommit
<1>32. CASE \E p \in Procs : EnqueueFails(p)
  BY <1>32 DEF EnqueueFails, Fault
<1> QED BY <1>1, <1>2, <1>3, <1>4, <1>5, <1>6, <1>7, <1>8, <1>9, <1>10,
           <1>11, <1>12, <1>13, <1>14, <1>15, <1>16, <1>17, <1>18, <1>19,
           <1>20, <1>21, <1>22, <1>23, <1>24, <1>25, <1>26, <1>27, <1>28,
           <1>29, <1>30, <1>31, <1>32
        DEF Next, Worker, EnqueueReturns

(* Every step keeps a claimed attempt with one worker, and what Discord told *)
(* that worker stays true until mark_outbox.                                *)
LEMMA HoldersPreserved ==
    OutboxInv /\ [Next]_vars => HoldersOwnAttempt'
<1> SUFFICES ASSUME OutboxInv, [Next]_vars PROVE HoldersOwnAttempt'
  OBVIOUS
<1> USE DEF OutboxInv, RowsMatchDiscord, HoldersOwnAttempt, InFlight, Unsent,
            Holds, vars, durable, memory, world, TypeOK, JobsNamed, Status,
            Active, Final, Accepted, Rejected, Replies, Locations, Job,
            OpState, NoEvent
<1>1. CASE \E p \in Procs : Start(p)
  BY <1>1 DEF Start, RecoverInflight, Goto
<1>2. CASE \E p \in Procs : RequestStop(p)
  BY <1>2 DEF RequestStop, StopSet, Fault
<1>3. CASE \E p \in Procs : Exit(p)
  BY <1>3 DEF Exit, Halted, Goto, NoJob, Item, Attempt
<1>4. CASE \E p \in Procs : Crash(p)
  BY <1>4 DEF Crash, Halted, Goto, Fault, NoJob, Item, Attempt
<1>5. CASE \E p \in Procs, e \in Events : Enqueue(p, e)
  BY <1>5 DEF Enqueue
<1>6. CASE \E p \in Procs, e \in Events : EnqueueRefused(p, e)
  BY <1>6 DEF EnqueueRefused, StopSet, Fault
<1>7. CASE \E p \in Procs : Poll(p)
  BY <1>7 DEF Poll, Goto, PendingBatch, PendingRows
<1>8. CASE \E p \in Procs : EndCycle(p)
  BY <1>8 DEF EndCycle, Goto
<1>9. CASE \E p \in Procs : ExpireItem(p)
  BY <1>9 DEF ExpireItem, Expire, Goto, Item, Attempt
<1>10. CASE \E p \in Procs : AuditExpired(p)
  BY <1>10 DEF AuditExpired, AppendAlert, RowsOf, Goto, NoJob, Item, Attempt,
     Row, AlertStatus
<1>11. CASE \E p \in Procs : SkipEmbargoed(p)
  BY <1>11 DEF SkipEmbargoed
<1>12. CASE \E p \in Procs : TakeItem(p)
  BY <1>12 DEF TakeItem, Goto, Item, Attempt
<1>13. CASE \E p \in Procs : Claim(p)
  BY <1>13 DEF Claim, Goto, Attempt
<1>14. CASE \E p \in Procs : ClaimLost(p)
  BY <1>14 DEF ClaimLost, Goto, NoJob, Item, Attempt
<1>15. CASE \E p \in Procs : Answered(p)
  BY <1>15 DEF Answered, Goto, Attempt
<1>16. CASE \E p \in Procs : TransportError(p)
  BY <1>16 DEF TransportError, Goto, Attempt
<1>17. CASE \E p \in Procs : Mark(p)
  BY <1>17 DEF Mark, Goto, MarkOutbox, MarkOf
<1>18. CASE \E p \in Procs : Record(p)
  BY <1>18 DEF Record, Goto, RecordAlert, AlertOf, NoJob, Item, Attempt, Row,
     AlertStatus
<1>19. CASE \E p \in Procs : Wake(p)
  BY <1>19 DEF Wake, Goto
<1>20. CASE \E p \in Procs : RetryExpire(p)
  BY <1>20 DEF RetryExpire, Expire, Goto, Item, Attempt
<1>21. CASE \E p \in Procs : RetryClaim(p)
  BY <1>21 DEF RetryClaim, Goto
<1>22. CASE \E p \in Procs : BatchFails(p)
  BY <1>22 DEF BatchFails, Goto, Fault, NoJob, Item, Attempt
<1>23. CASE \E o \in Operators, e \in Events, as \in {"delivered", "dead"} :
          ResolveRead(o, e, as)
  BY <1>23 DEF ResolveRead, Resolving
<1>24. CASE \E o \in Operators : ResolveMark(o)
  <2> PICK o \in Operators : ResolveMark(o)
    BY <1>24
  <2>1. op[o].ev \in Events /\ op[o].as \notin Unsent
    BY DEF ResolveMark
  <2>2. \A e \in Events : status[e] \notin Unsent => status'[e] \notin Unsent
    BY <2>1 DEF ResolveMark
  <2>3. UNCHANGED <<pc, job, attempts, posted, net>>
    BY DEF ResolveMark
  <2> HIDE DEF Unsent, TypeOK, RowsMatchDiscord, Replies, Rejected
  <2> QED BY <2>2, <2>3
<1>25. CASE \E o \in Operators : ResolveRefused(o)
  BY <1>25 DEF ResolveRefused, OpIdle, Resolving
<1>26. CASE \E o \in Operators : ResolveAudit(o)
  BY <1>26 DEF ResolveAudit, AppendAlert, RowsOf, OpIdle, Resolving, Row,
     AlertStatus
<1>27. CASE \E q \in net : ProcessedUnseen(q)
  BY <1>27 DEF ProcessedUnseen
<1>28. CASE \E q \in net : RequestLost(q)
  BY <1>28 DEF RequestLost
<1>29. CASE Tick
  BY <1>29 DEF Tick
<1>30. CASE UNCHANGED vars
  BY <1>30
<1>31. CASE \E p \in Procs : EnqueueCommit(p)
  BY <1>31 DEF EnqueueCommit
<1>32. CASE \E p \in Procs : EnqueueFails(p)
  BY <1>32 DEF EnqueueFails, Fault
<1> HIDE DEF OutboxInv, RowsMatchDiscord, HoldersOwnAttempt, InFlight, Unsent
<1> QED BY <1>1, <1>2, <1>3, <1>4, <1>5, <1>6, <1>7, <1>8, <1>9, <1>10,
           <1>11, <1>12, <1>13, <1>14, <1>15, <1>16, <1>17, <1>18, <1>19,
           <1>20, <1>21, <1>22, <1>23, <1>24, <1>25, <1>26, <1>27, <1>28,
           <1>29, <1>30, <1>31, <1>32
        DEF Next, Worker, EnqueueReturns

(* Every step keeps the rows the worker settled true: mark_outbox writes    *)
(* delivered and dead only after replies that are certain.                  *)
LEMMA TruthPreserved ==
    OutboxInv /\ [Next]_vars => SettledTruthfully'
<1> SUFFICES ASSUME OutboxInv, [Next]_vars PROVE SettledTruthfully'
  OBVIOUS
<1> USE DEF OutboxInv, SettledTruthfully, vars, durable, memory, world
<1>1. CASE \E p \in Procs : Start(p)
  BY <1>1 DEF Start, RecoverInflight, Goto, TypeOK, JobsNamed, Status, Active,
     Final, Accepted, Rejected, Replies, Locations, Job, OpState, NoEvent,
     Unsent, InFlight, Holds, RowsMatchDiscord, HoldersOwnAttempt
<1>2. CASE \E p \in Procs : RequestStop(p)
  BY <1>2 DEF RequestStop, StopSet, Fault
<1>3. CASE \E p \in Procs : Exit(p)
  BY <1>3 DEF Exit, Halted, Goto, NoJob, Item, Attempt
<1>4. CASE \E p \in Procs : Crash(p)
  BY <1>4 DEF Crash, Halted, Goto, Fault, NoJob, Item, Attempt
<1>5. CASE \E p \in Procs, e \in Events : Enqueue(p, e)
  BY <1>5 DEF Enqueue
<1>6. CASE \E p \in Procs, e \in Events : EnqueueRefused(p, e)
  BY <1>6 DEF EnqueueRefused, StopSet, Fault
<1>7. CASE \E p \in Procs : Poll(p)
  BY <1>7 DEF Poll, Goto, PendingBatch, PendingRows
<1>8. CASE \E p \in Procs : EndCycle(p)
  BY <1>8 DEF EndCycle, Goto
<1>9. CASE \E p \in Procs : ExpireItem(p)
  <2> PICK p \in Procs : ExpireItem(p)
    BY <1>9
  <2> PICK e \in batch[p] : Expire(p, e)
    BY DEF ExpireItem
  <2>1. e \in Events
    BY DEF TypeOK
  <2>2. status' = [status EXCEPT ![e] = "expired"]
    BY DEF Expire
  <2>3. UNCHANGED <<manual, posted, net>>
    BY <1>9 DEF ExpireItem
  <2> QED BY <2>1, <2>2, <2>3 DEF TypeOK
<1>10. CASE \E p \in Procs : AuditExpired(p)
  BY <1>10 DEF AuditExpired, AppendAlert, RowsOf, Goto, NoJob, Item, Attempt,
     Row, AlertStatus
<1>11. CASE \E p \in Procs : SkipEmbargoed(p)
  BY <1>11 DEF SkipEmbargoed
<1>12. CASE \E p \in Procs : TakeItem(p)
  BY <1>12 DEF TakeItem, Goto, Item, Attempt
<1>13. CASE \E p \in Procs : Claim(p)
  BY <1>13 DEF Claim, Goto, Attempt, TypeOK, JobsNamed, Status, Active, Final,
     Accepted, Rejected, Replies, Locations, Job, OpState, NoEvent, Unsent,
     InFlight, Holds, RowsMatchDiscord, HoldersOwnAttempt
<1>14. CASE \E p \in Procs : ClaimLost(p)
  BY <1>14 DEF ClaimLost, Goto, NoJob, Item, Attempt
<1>15. CASE \E p \in Procs : Answered(p)
  BY <1>15 DEF Answered, Goto, Attempt, Accepted, Rejected, TypeOK, JobsNamed,
     Status, Active, Final, Replies, Locations, Job, OpState, NoEvent, Unsent,
     InFlight, Holds, RowsMatchDiscord, HoldersOwnAttempt
<1>16. CASE \E p \in Procs : TransportError(p)
  BY <1>16 DEF TransportError, Goto, Attempt
<1>17. CASE \E p \in Procs : Mark(p)
  BY <1>17 DEF Mark, Goto, MarkOutbox, MarkOf, TypeOK, JobsNamed, Status,
     Active, Final, Accepted, Rejected, Replies, Locations, Job, OpState,
     NoEvent, Unsent, InFlight, Holds, RowsMatchDiscord, HoldersOwnAttempt
<1>18. CASE \E p \in Procs : Record(p)
  BY <1>18 DEF Record, Goto, RecordAlert, AlertOf, NoJob, Item, Attempt, Row,
     AlertStatus
<1>19. CASE \E p \in Procs : Wake(p)
  BY <1>19 DEF Wake, Goto
<1>20. CASE \E p \in Procs : RetryExpire(p)
  BY <1>20 DEF RetryExpire, Expire, Goto, Item, Attempt, TypeOK, JobsNamed,
     Status, Active, Final, Accepted, Rejected, Replies, Locations, Job,
     OpState, NoEvent, Unsent, InFlight, Holds, RowsMatchDiscord,
     HoldersOwnAttempt
<1>21. CASE \E p \in Procs : RetryClaim(p)
  BY <1>21 DEF RetryClaim, Goto
<1>22. CASE \E p \in Procs : BatchFails(p)
  BY <1>22 DEF BatchFails, Goto, Fault, NoJob, Item, Attempt
<1>23. CASE \E o \in Operators, e \in Events, as \in {"delivered", "dead"} :
          ResolveRead(o, e, as)
  BY <1>23 DEF ResolveRead, Resolving
<1>24. CASE \E o \in Operators : ResolveMark(o)
  BY <1>24 DEF ResolveMark, Resolving, TypeOK, JobsNamed, Status, Active,
     Final, Accepted, Rejected, Replies, Locations, Job, OpState, NoEvent,
     Unsent, InFlight, Holds, RowsMatchDiscord, HoldersOwnAttempt
<1>25. CASE \E o \in Operators : ResolveRefused(o)
  BY <1>25 DEF ResolveRefused, OpIdle, Resolving
<1>26. CASE \E o \in Operators : ResolveAudit(o)
  BY <1>26 DEF ResolveAudit, AppendAlert, RowsOf, OpIdle, Resolving, Row,
     AlertStatus
<1>27. CASE \E q \in net : ProcessedUnseen(q)
  BY <1>27 DEF ProcessedUnseen, TypeOK, JobsNamed, Status, Active, Final,
     Accepted, Rejected, Replies, Locations, Job, OpState, NoEvent, Unsent,
     InFlight, Holds, RowsMatchDiscord, HoldersOwnAttempt
<1>28. CASE \E q \in net : RequestLost(q)
  BY <1>28 DEF RequestLost, TypeOK, JobsNamed, Status, Active, Final, Accepted,
     Rejected, Replies, Locations, Job, OpState, NoEvent, Unsent, InFlight,
     Holds, RowsMatchDiscord, HoldersOwnAttempt
<1>29. CASE Tick
  BY <1>29 DEF Tick
<1>30. CASE UNCHANGED vars
  BY <1>30
<1>31. CASE \E p \in Procs : EnqueueCommit(p)
  <2> PICK p \in Procs : EnqueueCommit(p)
    BY <1>31
  <2> DEFINE e == saving[p].ev
  <2>1. e \in Events /\ saving[p].to \in {"pending", "disabled"}
    BY DEF EnqueueCommit, TypeOK, Draft
  <2>2. status' = [status EXCEPT ![e] = saving[p].to]
    BY DEF EnqueueCommit
  <2>3. UNCHANGED <<manual, posted, net>>
    BY DEF EnqueueCommit
  <2> QED BY <2>1, <2>2, <2>3 DEF TypeOK
<1>32. CASE \E p \in Procs : EnqueueFails(p)
  BY <1>32 DEF EnqueueFails, Fault
<1> QED BY <1>1, <1>2, <1>3, <1>4, <1>5, <1>6, <1>7, <1>8, <1>9, <1>10,
           <1>11, <1>12, <1>13, <1>14, <1>15, <1>16, <1>17, <1>18, <1>19,
           <1>20, <1>21, <1>22, <1>23, <1>24, <1>25, <1>26, <1>27, <1>28,
           <1>29, <1>30, <1>31, <1>32
        DEF Next, Worker, EnqueueReturns

-----------------------------------------------------------------------------

(* With an empty outbox and no process the invariant holds. *)
LEMMA InvInitially == Init => OutboxInv
BY DEF Init, OutboxInv, TypeOK, RowsMatchDiscord, HoldersOwnAttempt, JobsNamed,
       SettledTruthfully, Holds, InFlight, Unsent, NoJob, Item, Attempt, OpIdle,
       Resolving, Status, Active, Final, Locations, Job, OpState, NoEvent, Replies,
       Accepted, Rejected

(* The outbox invariant holds in every reachable state, for any events,     *)
(* processes, operators, limits and number of faults.                       *)
THEOREM OutboxInvariant == Spec => []OutboxInv
<1>1. OutboxInv /\ [Next]_vars => OutboxInv'
  BY TypesPreserved, RowsPreserved, HoldersPreserved, TruthPreserved DEF
     OutboxInv
<1> QED BY InvInitially, <1>1, PTL DEF Spec

(* The state of the outbox is well formed in every reachable state. *)
THEOREM TypeCorrect == Spec => []TypeOK
BY OutboxInvariant, PTL DEF OutboxInv

(* deliver_event and recover_inflight never make Discord create two messages *)
(* for one event.                                                           *)
THEOREM DeliveredAtMostOnce == Spec => []AtMostOnce
<1>1. OutboxInv => AtMostOnce
  BY DEF OutboxInv, RowsMatchDiscord, AtMostOnce
<1> QED BY <1>1, OutboxInvariant, PTL

(* An alert that _expire_if_stale expired has no message and no request that *)
(* could still create one.                                                  *)
THEOREM ExpiredNeverDelivered == Spec => []ExpiredNeverSent
<1>1. OutboxInv => ExpiredNeverSent
  BY DEF OutboxInv, RowsMatchDiscord, Unsent, InFlight, ExpiredNeverSent
<1> QED BY <1>1, OutboxInvariant, PTL

(* The rows deliver_event itself settles as delivered or dead agree with    *)
(* Discord.                                                                 *)
THEOREM SettledIsTrue == Spec => []SettledTruthfully
BY OutboxInvariant, PTL DEF OutboxInv

(* No late reply, restart, claim or second process changes a settled row,   *)
(* and an uncertain row is left to resolve_uncertain_outbox: every update   *)
(* of alert_outbox is guarded by the status it expects.                     *)
THEOREM SettledStaysSettled == Spec => SettledForGood
<1> DEFINE Kept(e) ==
      /\ status[e] \in Final => status'[e] = status[e]
      /\ status[e] = "uncertain" /\ status'[e] # "uncertain"
            => manual'[e] /\ status'[e] \in {"delivered", "dead"}
<1>1. ASSUME OutboxInv, [Next]_vars PROVE [\A e \in Events : Kept(e)]_vars
  <2> SUFFICES ASSUME Next, NEW e \in Events PROVE Kept(e)
    BY <1>1
  <2> USE <1>1 DEF OutboxInv, TypeOK, JobsNamed, durable, memory, world, Final
  <2>1. CASE \E p \in Procs : Start(p)
    BY <2>1 DEF Start, RecoverInflight
  <2>2. CASE \E p \in Procs : EnqueueCommit(p)
    BY <2>2 DEF EnqueueCommit, Draft
  <2>3. CASE \E p \in Procs : ExpireItem(p)
    BY <2>3 DEF ExpireItem, Expire
  <2>4. CASE \E p \in Procs : Claim(p)
    BY <2>4 DEF Claim
  <2>5. CASE \E p \in Procs : Mark(p)
    BY <2>5 DEF Mark, MarkOutbox
  <2>6. CASE \E p \in Procs : RetryExpire(p)
    BY <2>6 DEF RetryExpire, Expire
  <2>7. CASE \E o \in Operators : ResolveMark(o)
    BY <2>7 DEF ResolveMark, OpState
  <2>8. CASE UNCHANGED status
    BY <2>8
  <2> QED BY <2>1, <2>2, <2>3, <2>4, <2>5, <2>6, <2>7, <2>8, StatusSteps
<1> QED BY <1>1, OutboxInvariant, PTL DEF Spec, SettledForGood

-----------------------------------------------------------------------------
(* The hard limit *)

\* The processes that have passed the capacity check and not yet inserted.
Savers == {p \in Procs : saving[p].to = "pending"}

(* The steps that touch what a scanner is about to insert. *)
LEMMA SavingSteps ==
    ASSUME [Next]_vars
    PROVE  \/ \E p \in Procs : \/ EnqueueCommit(p) \/ EnqueueFails(p)
                               \/ Exit(p) \/ Crash(p)
                               \/ \E e \in Events : Enqueue(p, e)
           \/ UNCHANGED saving
<1> USE DEF memory
<1>1. ASSUME NEW p \in Procs, Start(p) \/ RequestStop(p) \/ BatchFails(p)
      PROVE  UNCHANGED saving
  BY <1>1 DEF Start, RequestStop, StopSet, BatchFails
<1>2. ASSUME NEW p \in Procs, NEW e \in Events, EnqueueRefused(p, e)
      PROVE  UNCHANGED saving
  BY <1>2 DEF EnqueueRefused, StopSet
<1>3. ASSUME NEW p \in Procs, Worker(p) PROVE UNCHANGED saving
  BY <1>3 DEF Worker, Poll, EndCycle, ExpireItem, AuditExpired, SkipEmbargoed, TakeItem,
     Claim, ClaimLost, Answered, TransportError, Mark, Record, Wake, RetryExpire,
     RetryClaim
<1>4. ASSUME NEW o \in Operators, NEW e \in Events, NEW as \in {"delivered", "dead"},
             ResolveRead(o, e, as)
      PROVE  UNCHANGED saving
  BY <1>4 DEF ResolveRead
<1>5. ASSUME NEW o \in Operators, ResolveMark(o) \/ ResolveRefused(o) \/ ResolveAudit(o)
      PROVE  UNCHANGED saving
  BY <1>5 DEF ResolveMark, ResolveRefused, ResolveAudit
<1>6. ASSUME Tick \/ UNCHANGED vars \/ \E q \in net : ProcessedUnseen(q) \/ RequestLost(q)
      PROVE  UNCHANGED saving
  BY <1>6 DEF Tick, vars, ProcessedUnseen, RequestLost
<1> QED BY <1>1, <1>2, <1>3, <1>4, <1>5, <1>6 DEF Next, EnqueueReturns

(* Only the commit of save_signal_and_enqueue makes a row active, and it    *)
(* uses up a check that was passed; a check is passed below the limit.      *)
LEMMA CapacityStep ==
    ASSUME OutboxInv, [Next]_vars
    PROVE  \/ ActiveRows' \subseteq ActiveRows /\ Savers' \subseteq Savers
           \/ ActiveRows' = ActiveRows /\ Cardinality(ActiveRows) < MaxActive
           \/ \E e \in Events, p \in Savers :
                 ActiveRows' = ActiveRows \cup {e} /\ Savers' = Savers \ {p}
<1> USE DEF OutboxInv, TypeOK, JobsNamed, durable, memory, world, Active
<1> DEFINE Shrinks == ActiveRows' \subseteq ActiveRows /\ Savers' \subseteq Savers
           Checked == ActiveRows' = ActiveRows /\ Cardinality(ActiveRows) < MaxActive
           Inserted == \E e \in Events, p \in Savers :
                          ActiveRows' = ActiveRows \cup {e} /\ Savers' = Savers \ {p}
<1>1. ASSUME NEW p \in Procs, NEW e \in Events, Enqueue(p, e)
      PROVE  Shrinks \/ Checked
  <2>1. ActiveRows' = ActiveRows BY <1>1 DEF Enqueue, ActiveRows
  <2>2. CASE enabled[p]
    <3>1. Cardinality(ActiveRows) < MaxActive BY <1>1, <2>2 DEF Enqueue
    <3> QED BY <2>1, <3>1
  <2>3. CASE ~enabled[p]
    <3>1. saving' = [saving EXCEPT ![p] = DraftOf(e, now, "disabled")]
      BY <1>1, <2>3 DEF Enqueue
    <3>2. Savers' \subseteq Savers BY <3>1 DEF Savers, DraftOf
    <3> QED BY <2>1, <3>2
  <2> QED BY <2>2, <2>3
<1>2. ASSUME NEW p \in Procs, EnqueueCommit(p) PROVE Shrinks \/ Inserted
  <2> DEFINE row == saving[p]
  <2>1. row \in Draft /\ row.ev \in Events BY <1>2 DEF EnqueueCommit, Draft
  <2>2. /\ status' = [status EXCEPT ![row.ev] = row.to]
        /\ saving' = [saving EXCEPT ![p] = NotSaving] /\ status[row.ev] = "absent"
    BY <1>2 DEF EnqueueCommit
  <2>3. Savers' = Savers \ {p} BY <2>2 DEF Savers, NotSaving, DraftOf
  <2>4. CASE row.to = "pending"
    <3>1. p \in Savers BY <2>4 DEF Savers
    <3>2. ActiveRows' = ActiveRows \cup {row.ev} BY <2>1, <2>2, <2>4 DEF ActiveRows
    <3> HIDE DEF row
    <3> QED BY <2>1, <2>3, <3>1, <3>2
  <2>5. CASE row.to = "disabled"
    <3>1. ActiveRows' \subseteq ActiveRows BY <2>1, <2>2, <2>5 DEF ActiveRows
    <3> QED BY <2>3, <3>1
  <2> QED BY <2>1, <2>4, <2>5 DEF Draft
<1>3. ASSUME NEW p \in Procs, EnqueueFails(p) \/ Exit(p) \/ Crash(p) PROVE Shrinks
  <2>1. UNCHANGED status BY <1>3 DEF EnqueueFails, Exit, Crash
  <2>2. saving' = [saving EXCEPT ![p] = NotSaving]
    BY <1>3 DEF EnqueueFails, Exit, Crash, Halted
  <2> QED BY <2>1, <2>2 DEF ActiveRows, Savers, NotSaving, DraftOf
<1>4. ASSUME UNCHANGED saving, UNCHANGED status PROVE Shrinks
  BY <1>4 DEF ActiveRows, Savers
<1>5. ASSUME UNCHANGED saving PROVE Savers' = Savers BY <1>5 DEF Savers
<1>6. ASSUME NEW p \in Procs,
             Start(p) \/ ExpireItem(p) \/ Claim(p) \/ Mark(p) \/ RetryExpire(p)
      PROVE  Shrinks
  <2>1. UNCHANGED saving
    BY <1>6 DEF Start, ExpireItem, Claim, Mark, RetryExpire
  <2>2. ActiveRows' \subseteq ActiveRows
    <3> USE DEF ActiveRows
    <3>1. CASE Start(p) BY <3>1 DEF Start, RecoverInflight
    <3>2. CASE ExpireItem(p) BY <3>2 DEF ExpireItem, Expire
    <3>3. CASE Claim(p) BY <3>3 DEF Claim
    <3>4. CASE Mark(p) BY <3>4 DEF Mark, MarkOutbox
    <3>5. CASE RetryExpire(p) BY <3>5 DEF RetryExpire, Expire
    <3> QED BY <1>6, <3>1, <3>2, <3>3, <3>4, <3>5
  <2> QED BY <1>5, <2>1, <2>2
<1>7. ASSUME NEW o \in Operators, ResolveMark(o) PROVE Shrinks
  <2>1. UNCHANGED saving BY <1>7 DEF ResolveMark
  <2>2. ActiveRows' \subseteq ActiveRows
    BY <1>7 DEF ResolveMark, OpState, ActiveRows
  <2> QED BY <1>5, <2>1, <2>2
<1> HIDE DEF OutboxInv, TypeOK, JobsNamed, Shrinks, Checked, Inserted
<1>8. Shrinks \/ Checked \/ Inserted
  <2>1. CASE UNCHANGED status
    <3>1. ASSUME UNCHANGED saving PROVE Shrinks BY <1>4, <2>1, <3>1
    <3> QED BY <1>1, <1>2, <1>3, <3>1, SavingSteps
  <2> QED BY <1>2, <1>6, <1>7, <2>1, StatusSteps
<1> QED BY <1>8 DEF Shrinks, Checked, Inserted

(* The rows that are pending, sending or uncertain exceed                   *)
(* outbox_max_active_items by at most one row per process beyond the first: *)
(* save_signal_and_enqueue counts and inserts without a lock, so each       *)
(* process that has passed the check may still add one row, and nothing     *)
(* else adds any.                                                           *)
THEOREM CapacityHolds == Spec => []CapacityRespected
<1> DEFINE Bounded == Cardinality(ActiveRows) + Cardinality(Savers)
                         <= MaxActive + (Cardinality(Procs) - 1)
<1>1. ASSUME NEW S \in SUBSET Events
      PROVE  IsFiniteSet(S) /\ Cardinality(S) \in Nat
  BY EventsAssumption, FS_Subset, FS_CardinalityType
<1>2. ASSUME NEW S \in SUBSET Procs
      PROVE  /\ IsFiniteSet(S) /\ Cardinality(S) \in Nat
             /\ Cardinality(S) <= Cardinality(Procs)
  BY ProcsAssumption, FS_Subset, FS_CardinalityType
<1>3. MaxActive \in Nat \ {0} /\ Cardinality(Procs) \in Nat
  BY LimitsAssumption, ProcsAssumption, FS_CardinalityType
<1>4. Init => Bounded
  <2> SUFFICES ASSUME Init PROVE Bounded OBVIOUS
  <2>1. ActiveRows = {} BY DEF Init, ActiveRows, Active
  <2>2. Savers = {} BY DEF Init, Savers, NotSaving, DraftOf
  <2> QED BY <1>3, <2>1, <2>2, FS_EmptySet
<1>5. ASSUME OutboxInv, Bounded, [Next]_vars PROVE Bounded'
  <2> DEFINE a == Cardinality(ActiveRows)
             b == Cardinality(Savers)
             P == Cardinality(Procs)
  <2>1. /\ ActiveRows \in SUBSET Events /\ ActiveRows' \in SUBSET Events
        /\ Savers \in SUBSET Procs /\ Savers' \in SUBSET Procs
    BY DEF ActiveRows, Savers
  <2>2. /\ IsFiniteSet(ActiveRows) /\ a \in Nat /\ a' \in Nat
        /\ IsFiniteSet(Savers) /\ b \in Nat /\ b' \in Nat
        /\ b' <= P /\ P \in Nat
    BY <1>1, <1>2, <1>3, <2>1
  <2>3. CASE ActiveRows' \subseteq ActiveRows /\ Savers' \subseteq Savers
    <3>1. a' <= a /\ b' <= b
      BY <2>2, <2>3, FS_Subset
    <3> HIDE DEF a, b, P
    <3> QED BY <1>3, <1>5, <2>2, <3>1 DEF a, b, P
  <2>4. CASE ActiveRows' = ActiveRows /\ Cardinality(ActiveRows) < MaxActive
    <3>1. \A x, y, n, m \in Nat : x < m /\ y <= n => x + y <= m + (n - 1)
      OBVIOUS
    <3>2. Cardinality(ActiveRows)' < MaxActive /\ MaxActive \in Nat BY <1>3, <2>4
    <3> HIDE DEF ActiveRows, Savers
    <3> QED BY <2>2, <3>1, <3>2
  <2>5. CASE \E e \in Events, p \in Savers :
                ActiveRows' = ActiveRows \cup {e} /\ Savers' = Savers \ {p}
    <3>0. PICK e \in Events, p \in Savers :
                ActiveRows' = ActiveRows \cup {e} /\ Savers' = Savers \ {p}
      BY <2>5
    <3>1. Cardinality(ActiveRows \cup {e}) = IF e \in ActiveRows THEN a ELSE a + 1
      BY <2>2, FS_AddElement
    <3>2. Cardinality(Savers \ {p}) = b - 1
      BY <2>2, FS_RemoveElement
    <3>3. a' = Cardinality(ActiveRows \cup {e}) /\ b' = Cardinality(Savers \ {p})
      BY <3>0
    <3>4. a + b <= MaxActive + (P - 1) BY <1>5
    <3>5. a' + b' <= MaxActive + (P - 1)
      <4> HIDE DEF a, b, P
      <4> QED BY <1>3, <2>2, <3>1, <3>2, <3>3, <3>4
    <3> QED BY <3>5
  <2> QED BY <1>5, <2>3, <2>4, <2>5, CapacityStep
<1>6. OutboxInv /\ Bounded => CapacityRespected
  <2> SUFFICES ASSUME Bounded PROVE Cardinality(ActiveRows) <= MaxActive + (Cardinality(Procs) - 1)
    BY DEF ActiveRows, CapacityRespected
  <2>1. Cardinality(ActiveRows) \in Nat /\ Cardinality(Savers) \in Nat
    BY <1>1, <1>2 DEF ActiveRows, Savers
  <2> QED BY <1>3, <2>1
<1> QED BY <1>4, <1>5, <1>6, OutboxInvariant, PTL DEF Spec

-----------------------------------------------------------------------------
(* The retry budget of one process *)

\* The embargo is memory of a process, so the budget is one of a single process.
OneProcess == \E p \in Procs : Procs = {p}

\* A stop that has been asked for and not yet been carried out costs nothing.
Spent(p) == IF stopping[p] THEN faults - 1 ELSE faults

\* The earliest instant at which the next attempt of an event can be made.
Due(p, e) == EventTime[e] + attempts[e] + 1 - MaxAttempts - Spent(p)

\* A row appears at the time of its event and is claimed after that.
RowsDated ==
    \A e \in Events :
        IF status[e] = "absent" THEN attempts[e] = 0 ELSE EventTime[e] <= now

\* No other process inserts the row that is being saved, and no stop or claim
\* comes in between: the event loop waits for the call.
SavedAlone ==
    \A p \in Procs : saving[p] # NotSaving =>
        /\ ~stopping[p] /\ pc[p] # "claim"
        /\ status[saving[p].ev] = "absent" /\ EventTime[saving[p].ev] <= now

\* Where the worker of p stands in its attempts.
Worked(p) ==
    /\ stopping[p] => faults > 0
    /\ pc[p] = "record" => job[p].n = attempts[job[p].ev]
    /\ pc[p] \in {"sleep", "retry"} => attempts[job[p].ev] < MaxAttempts
    /\ pc[p] = "claim" /\ status[job[p].ev] = "pending" =>
          /\ Due(p, job[p].ev) <= now
          /\ Due(p, job[p].ev) <= EventTime[job[p].ev] + DeliveryLimit(job[p].ev)

\* Every attempt was due when it was made; the next one waits for an embargo
\* that the worker has set or is about to set.
Paid(p, e) ==
    /\ Due(p, e) <= EventTime[e] + DeliveryLimit(e) + 1
    /\ status[e] # "absent" => Due(p, e) <= now + 1
    /\ status[e] = "pending" =>
          \/ Due(p, e) <= now \/ Due(p, e) <= embargo[p]
          \/ pc[p] = "record" /\ job[p].ev = e /\ job[p].reply = "rateLimited"

RetryInv ==
    /\ RowsDated
    /\ \A p \in Procs : Worked(p) /\ \A e \in Events : Paid(p, e)

(* A delivery limit is a number. *)
LEMMA LimitType == \A e \in Events : DeliveryLimit(e) \in Nat
BY DEF DeliveryLimit

(* With one process a row that save_signal_and_enqueue found missing stays  *)
(* missing until its commit.                                                *)
LEMMA SavedAloneStep ==
    ASSUME OneProcess, OutboxInv, SavedAlone, [Next]_vars
    PROVE  SavedAlone'
<1> PICK u \in Procs : Procs = {u}
  BY DEF OneProcess
<1> USE DEF durable, memory, world
<1>0. /\ saving \in [Procs -> Draft \cup {NotSaving}] /\ status \in [Events -> Status]
      /\ stopping \in [Procs -> BOOLEAN] /\ now \in Nat
      /\ pc \in [Procs -> Locations]
  BY DEF OutboxInv, TypeOK
<1>1. ASSUME NEW p \in Procs, saving'[p] = NotSaving PROVE SavedAlone'
  BY <1>1 DEF SavedAlone
<1>2. CASE UNCHANGED <<saving, stopping, pc, status, now>>
  BY <1>2 DEF SavedAlone
<1>3. ASSUME NEW p \in Procs, Start(p) PROVE SavedAlone'
  <2>1. UNCHANGED <<saving, stopping, now>> BY <1>3 DEF Start
  <2>2. CASE saving[u] = NotSaving BY <1>1, <2>1, <2>2
  <2>3. CASE saving[u] \in Draft
    <3>1. status[saving[u].ev] = "absent" \/ saving[u] = NotSaving
      BY DEF SavedAlone
    <3>2. saving[u].ev \in Events BY <2>3 DEF Draft
    <3>3. CASE status[saving[u].ev] = "absent"
      <4>1. status'[saving[u].ev] = "absent" /\ pc'[u] # "claim"
        BY <1>0, <1>3, <3>2, <3>3 DEF Start, RecoverInflight, Goto
      <4> QED BY <2>1, <4>1 DEF SavedAlone
    <3>4. CASE saving[u] = NotSaving BY <1>1, <2>1, <3>4
    <3> QED BY <3>1, <3>3, <3>4
  <2> QED BY <1>0, <2>2, <2>3
<1>4. ASSUME NEW p \in Procs, Exit(p) \/ Crash(p) \/ EnqueueReturns(p) PROVE SavedAlone'
  BY <1>0, <1>1, <1>4 DEF Exit, Crash, Halted, EnqueueReturns, EnqueueCommit, EnqueueFails
<1>5. ASSUME NEW p \in Procs, NEW e \in Events, Enqueue(p, e) PROVE SavedAlone'
  <2>1. /\ UNCHANGED <<stopping, pc, status, now>> /\ ~stopping[p] /\ pc[p] # "claim"
        /\ status[e] = "absent" /\ now >= EventTime[e]
        /\ saving'[p] = DraftOf(e, now, IF enabled[p] THEN "pending" ELSE "disabled")
    BY <1>0, <1>5 DEF Enqueue, AtAwait
  <2>2. saving'[p].ev = e BY <2>1 DEF DraftOf
  <2>3. EventTime[e] \in Nat BY TimesAssumption
  <2> QED BY <1>0, <2>1, <2>2, <2>3 DEF SavedAlone
<1>6. ASSUME NEW p \in Procs,
             RequestStop(p) \/ \E e \in Events : EnqueueRefused(p, e)
      PROVE  SavedAlone'
  BY <1>1, <1>6 DEF RequestStop, EnqueueRefused, AtAwait, StopSet
<1>7. ASSUME NEW p \in Procs, Worker(p) PROVE SavedAlone'
  <2>1. saving[p] = NotSaving BY <1>7 DEF Worker
  <2>2. UNCHANGED saving
    BY <1>7 DEF Worker, Poll, EndCycle, ExpireItem, AuditExpired, SkipEmbargoed, TakeItem,
       Claim, ClaimLost, Answered, TransportError, Mark, Record, Wake, RetryExpire,
       RetryClaim
  <2> QED BY <1>1, <2>1, <2>2
<1>8. ASSUME NEW p \in Procs, BatchFails(p) PROVE SavedAlone'
  BY <1>0, <1>8 DEF BatchFails, Goto, SavedAlone
<1>9. ASSUME NEW o \in Operators,
             \/ \E e \in Events, as \in {"delivered", "dead"} : ResolveRead(o, e, as)
             \/ ResolveRefused(o) \/ ResolveAudit(o)
      PROVE  SavedAlone'
  BY <1>2, <1>9 DEF ResolveRead, ResolveRefused, ResolveAudit
<1>10. ASSUME NEW o \in Operators, ResolveMark(o) PROVE SavedAlone'
  <2>1. /\ UNCHANGED <<saving, stopping, pc, now>> /\ status[op[o].ev] = "uncertain"
        /\ status' = [status EXCEPT ![op[o].ev] = op[o].as]
    BY <1>10 DEF ResolveMark
  <2>2. ASSUME NEW e \in Events, status[e] = "absent" PROVE status'[e] = "absent"
    BY <1>0, <2>1, <2>2
  <2>3. ASSUME NEW p \in Procs, saving[p] # NotSaving PROVE saving[p].ev \in Events
    BY <1>0, <2>3 DEF Draft
  <2> QED BY <2>1, <2>2, <2>3 DEF SavedAlone
<1>11. ASSUME NEW q \in net, ProcessedUnseen(q) \/ RequestLost(q) PROVE SavedAlone'
  BY <1>2, <1>11 DEF ProcessedUnseen, RequestLost
<1>12. CASE Tick
  <2>1. UNCHANGED <<saving, stopping, pc, status>> /\ now' = now + 1 BY <1>12 DEF Tick
  <2>2. ASSUME NEW p \in Procs, saving[p] # NotSaving PROVE EventTime[saving[p].ev] \in Nat
    BY <1>0, <2>2, TimesAssumption DEF Draft
  <2> QED BY <1>0, <2>1, <2>2 DEF SavedAlone
<1>13. CASE UNCHANGED vars BY <1>2, <1>13 DEF vars
<1> QED BY <1>3, <1>4, <1>5, <1>6, <1>7, <1>8, <1>9, <1>10, <1>11, <1>12, <1>13 DEF Next

(* The budget is kept by every step of one process, its operators and the   *)
(* network: only a 429 makes a row pending again, and the worker that was   *)
(* told so pays for the next attempt with an embargo or is lost.            *)
LEMMA RetryStep ==
    ASSUME OneProcess, OutboxInv, SavedAlone, RetryInv, [Next]_vars
    PROVE  RetryInv'
<1> USE LimitType DEF OutboxInv, TypeOK, JobsNamed, HoldersOwnAttempt, vars, durable, memory, world,
       RetryInv, RowsDated, Worked, Paid, Due, Spent, OneProcess
<1>1. CASE \E p \in Procs : Start(p)
  BY <1>1 DEF Start, RecoverInflight, Goto
<1>2. CASE \E p \in Procs : RequestStop(p)
  BY <1>2 DEF RequestStop, StopSet, Fault
<1>3. CASE \E p \in Procs : Exit(p)
  BY <1>3 DEF Exit, Halted, Goto, NoJob, Item, Attempt
<1>4. CASE \E p \in Procs : Crash(p)
  BY <1>4 DEF Crash, Halted, Goto, Fault, NoJob, Item, Attempt
<1>5. CASE \E p \in Procs, e \in Events : Enqueue(p, e)
  BY <1>5 DEF Enqueue, AtAwait, DraftOf
<1>6. CASE \E p \in Procs, e \in Events : EnqueueRefused(p, e)
  <2>1. PICK p \in Procs : StopSet(p) /\ ~stopping[p]
    BY <1>6 DEF EnqueueRefused
  <2> QED BY <2>1 DEF StopSet, Fault
<1>7. CASE \E p \in Procs : Poll(p)
  BY <1>7 DEF Poll, Goto
<1>8. CASE \E p \in Procs : EndCycle(p)
  BY <1>8 DEF EndCycle, Goto
<1>9. CASE \E p \in Procs : ExpireItem(p)
  BY <1>9 DEF ExpireItem, Expire, Goto, Item, Attempt
<1>10. CASE \E p \in Procs : AuditExpired(p)
  BY <1>10 DEF AuditExpired, Goto, NoJob, Item, Attempt
<1>11. CASE \E p \in Procs : SkipEmbargoed(p)
  BY <1>11 DEF SkipEmbargoed
<1>12. CASE \E p \in Procs : TakeItem(p)
  BY <1>12 DEF TakeItem, Goto, Item, Attempt, Stale
<1>13. CASE \E p \in Procs : Claim(p)
  BY <1>13 DEF Claim, Goto, Attempt
<1>14. CASE \E p \in Procs : ClaimLost(p)
  BY <1>14 DEF ClaimLost, Goto, NoJob, Item, Attempt
<1>15. CASE \E p \in Procs : Answered(p)
  BY <1>15 DEF Answered, Goto, Attempt
<1>16. CASE \E p \in Procs : TransportError(p)
  BY <1>16 DEF TransportError, Goto, Attempt
<1>17. CASE \E p \in Procs : Mark(p)
  BY <1>17 DEF Mark, Goto, MarkOutbox, MarkOf, Holds, Unsent
<1>18. CASE \E p \in Procs : Record(p)
  BY <1>18 DEF Record, Goto, NoJob, Item, Attempt
<1>19. CASE \E p \in Procs : Wake(p)
  BY <1>19 DEF Wake, Goto
<1>20. CASE \E p \in Procs : RetryExpire(p)
  BY <1>20 DEF RetryExpire, Expire, Goto, Item, Attempt
<1>21. CASE \E p \in Procs : RetryClaim(p)
  <2> PICK p \in Procs : RetryClaim(p) BY <1>21
  <2>1. job[p].ev \in Events /\ attempts[job[p].ev] < MaxAttempts
    BY DEF RetryClaim
  <2>2. status[job[p].ev] = "pending" => EventTime[job[p].ev] <= now
    BY <2>1
  <2>3. Spent(p) \in Nat
    BY <2>1
  <2>4. status[job[p].ev] = "pending" =>
           /\ Due(p, job[p].ev) <= now
           /\ Due(p, job[p].ev) <= EventTime[job[p].ev] + DeliveryLimit(job[p].ev)
    <3>1. /\ EventTime[job[p].ev] \in Nat /\ attempts[job[p].ev] \in Nat
          /\ DeliveryLimit(job[p].ev) \in Nat /\ now \in Nat
      <4>1. attempts \in [Events -> Nat] /\ now \in Nat
        OBVIOUS
      <4> HIDE DEF RetryInv, OutboxInv
      <4> QED BY <2>1, <4>1
    <3>2. Due(p, job[p].ev) = EventTime[job[p].ev] + attempts[job[p].ev] + 1 - MaxAttempts - Spent(p)
      BY DEF Due
    <3>3. Due(p, job[p].ev) <= EventTime[job[p].ev]
      <4> HIDE DEF Spent, Due, RetryInv, OutboxInv
      <4> QED BY <2>1, <2>3, <3>1, <3>2
    <3>4. Due(p, job[p].ev) \in Int
      <4> HIDE DEF Spent, Due, RetryInv, OutboxInv
      <4> QED BY <2>3, <3>1, <3>2
    <3> HIDE DEF Spent, Due, RetryInv, OutboxInv
    <3> QED BY <2>2, <3>1, <3>3, <3>4
  <2>5. /\ UNCHANGED <<status, attempts, stopping, job, embargo, now, faults>>
        /\ pc' = [pc EXCEPT ![p] = "claim"] /\ pc[p] = "retry"
    BY DEF RetryClaim, Goto
  <2>6. RowsDated'
    BY <2>5
  <2>7. Spent(p)' = Spent(p) /\ \A e \in Events : Due(p, e)' = Due(p, e)
    BY <2>5
  <2>8. Worked(p)'
    <3>1. stopping'[p] => faults' > 0
      BY <2>5
    <3>2. pc'[p] = "claim"
      BY <2>5
    <3>3. Due(p, job[p].ev)' = Due(p, job[p].ev)
      BY <2>1, <2>5
    <3> HIDE DEF Due, Spent, RetryInv, OutboxInv
    <3> QED BY <2>4, <2>5, <3>1, <3>2, <3>3
  <2>9. ASSUME NEW e \in Events PROVE Paid(p, e)'
    <3>1. Paid(p, e)
      OBVIOUS
    <3>2. Due(p, e)' = Due(p, e)
      BY <2>7
    <3> HIDE DEF Due, Spent, RetryInv, OutboxInv
    <3> QED BY <2>5, <3>1, <3>2
  <2> HIDE DEF RowsDated, Worked, Paid
  <2> QED BY <2>6, <2>8, <2>9
<1>22. CASE \E p \in Procs : BatchFails(p)
  BY <1>22 DEF BatchFails, Goto, Fault, NoJob, Item, Attempt
<1>23. CASE \E o \in Operators : ResolveMark(o)
  BY <1>23 DEF ResolveMark, OpState
<1>24. CASE UNCHANGED <<status, attempts, memory, now, faults>>
  BY <1>24
<1>26. CASE \E p \in Procs : EnqueueCommit(p)
  <2> PICK p \in Procs : EnqueueCommit(p) BY <1>26
  <2>1. /\ saving[p].ev \in Events /\ saving[p].to \in {"pending", "disabled"}
        /\ status[saving[p].ev] = "absent" /\ EventTime[saving[p].ev] <= now
        /\ status' = [status EXCEPT ![saving[p].ev] = saving[p].to]
        /\ pc[p] # "claim"
        /\ UNCHANGED <<attempts, pc, stopping, job, embargo, now, faults>>
    BY DEF EnqueueCommit, SavedAlone, Draft
  <2>2. RowsDated'
    BY <2>1
  <2>3. Worked(p)'
    BY <2>1
  <2>4. ASSUME NEW e \in Events PROVE Paid(p, e)'
    BY <2>1
  <2> HIDE DEF RowsDated, Worked, Paid
  <2> QED BY <2>2, <2>3, <2>4
<1>27. CASE \E p \in Procs : EnqueueFails(p)
  <2> PICK p \in Procs : EnqueueFails(p) BY <1>27
  <2>1. /\ ~stopping[p] /\ faults' = faults + 1
        /\ stopping' = [stopping EXCEPT ![p] = TRUE]
        /\ UNCHANGED <<status, attempts, pc, job, embargo, now>>
    BY DEF EnqueueFails, Fault, SavedAlone
  <2> QED BY <2>1
<1>25. CASE Tick
  <2>1. /\ UNCHANGED <<status, attempts, pc, stopping, job, embargo, faults>>
        /\ now \in Nat /\ now' = now + 1
    BY <1>25 DEF Tick
  <2>2. RowsDated'
    BY <2>1
  <2>3. ASSUME NEW p \in Procs PROVE Worked(p)'
    BY <2>1
  <2>4. ASSUME NEW p \in Procs, NEW e \in Events PROVE Paid(p, e)'
    BY <2>1
  <2> HIDE DEF RowsDated, Worked, Paid
  <2> QED BY <2>2, <2>3, <2>4
<1> QED
  BY <1>1, <1>2, <1>3, <1>4, <1>5, <1>6, <1>7, <1>8, <1>9, <1>10, <1>11, <1>12,
     <1>13, <1>14, <1>15, <1>16, <1>17, <1>18, <1>19, <1>20, <1>21, <1>22, <1>23,
     <1>24, <1>25, <1>26, <1>27
  DEF Next, Worker, EnqueueReturns, ResolveRead, ResolveRefused, ResolveAudit, ProcessedUnseen,
      RequestLost

(* With one process an event is attempted at most max_attempts times and    *)
(* once more for every instant of its delivery limit and every fault, since *)
(* an embargo follows each 429 past max_attempts and dispatch_pending hands *)
(* out no event that is too old.                                            *)
THEOREM RetriesWithinBudget == OneProcess => (Spec => []RetryBudget)
<1> SUFFICES ASSUME OneProcess PROVE Spec => []RetryBudget
  OBVIOUS
<1>1. Init => RetryInv
  BY LimitType DEF Init, RetryInv, RowsDated, Worked, Paid, Due, Spent
<1>2. OutboxInv /\ SavedAlone /\ RetryInv /\ [Next]_vars => RetryInv'
  BY RetryStep
<1>4. Init => SavedAlone
  BY DEF Init, SavedAlone
<1>5. OutboxInv /\ SavedAlone /\ [Next]_vars => SavedAlone'
  BY SavedAloneStep
<1>3. OutboxInv /\ RetryInv => RetryBudget
  <2> SUFFICES ASSUME OutboxInv, RetryInv, NEW e \in Events
               PROVE  attempts[e] <= MaxAttempts + DeliveryLimit(e) + faults
    BY DEF RetryBudget
  <2>1. PICK p \in Procs : Paid(p, e)
    BY DEF OneProcess, RetryInv
  <2>2. /\ EventTime[e] \in Nat /\ attempts[e] \in Nat /\ DeliveryLimit(e) \in Nat
        /\ faults \in Nat
    BY LimitType DEF OutboxInv, TypeOK
  <2>3. Spent(p) \in Int /\ Spent(p) <= faults
    BY <2>2 DEF Spent
  <2>4. EventTime[e] + attempts[e] + 1 - MaxAttempts - Spent(p) <= EventTime[e] + DeliveryLimit(e) + 1
    BY <2>1 DEF Paid, Due
  <2> QED BY <2>2, <2>3, <2>4
<1> QED BY <1>1, <1>2, <1>3, <1>4, <1>5, OutboxInvariant, PTL DEF Spec

-----------------------------------------------------------------------------
(* The refinement of MessageFate *)

(* The fates in terms of rows, messages and requests. *)
LEMMA FateCases ==
    ASSUME NEW e \in Events
    PROVE  /\ FateOf(e) \in {"none", "sent", "open", "never"}
           /\ FateOf(e) = "none" <=> status[e] = "absent"
           /\ FateOf(e) = "sent" <=> status[e] # "absent" /\ posted[e] > 0
           /\ FateOf(e) = "never" <=>
                /\ status[e] \notin {"absent", "pending"} /\ ~(posted[e] > 0)
                /\ ~InFlight(e) /\ ~ToBeRetried(e)
BY DEF FateOf

(* A message stays, and so does the row of an alert. *)
LEMMA SentStays ==
    ASSUME OutboxInv, [Next]_vars, NEW e \in Events, status[e] # "absent"
    PROVE  status'[e] # "absent" /\ (posted[e] > 0 => posted'[e] > 0)
<1> USE DEF OutboxInv, TypeOK, JobsNamed, durable, memory, world
<1>1. CASE \E p \in Procs : Start(p) BY <1>1 DEF Start, RecoverInflight
<1>2. CASE \E p \in Procs : EnqueueCommit(p) BY <1>2 DEF EnqueueCommit, Draft
<1>3. CASE \E p \in Procs : ExpireItem(p) BY <1>3 DEF ExpireItem, Expire
<1>4. CASE \E p \in Procs : Claim(p) BY <1>4 DEF Claim
<1>5. CASE \E p \in Procs : Mark(p) BY <1>5 DEF Mark, MarkOutbox, MarkOf
<1>6. CASE \E p \in Procs : RetryExpire(p) BY <1>6 DEF RetryExpire, Expire
<1>7. CASE \E o \in Operators : ResolveMark(o) BY <1>7 DEF ResolveMark, OpState
<1>8. CASE \E p \in Procs : Answered(p) BY <1>8 DEF Answered
<1>9. CASE \E q \in net : ProcessedUnseen(q) BY <1>9 DEF ProcessedUnseen
<1>10. CASE UNCHANGED <<status, posted>> BY <1>10
<1> QED
  BY <1>1, <1>2, <1>3, <1>4, <1>5, <1>6, <1>7, <1>8, <1>9, <1>10
  DEF Next, vars, Worker, EnqueueReturns, Enqueue, EnqueueFails, RequestStop, Exit,
      Crash, EnqueueRefused, StopSet, Poll,
      EndCycle, AuditExpired, SkipEmbargoed, TakeItem, ClaimLost, TransportError,
      Record, Wake, RetryClaim, BatchFails, ResolveRead, ResolveRefused,
      ResolveAudit, RequestLost, Tick

(* An alert that enters the outbox has no message yet. *)
LEMMA EntersUnsent ==
    ASSUME OutboxInv, [Next]_vars, NEW e \in Events, status[e] = "absent",
           status'[e] # "absent"
    PROVE  ~(posted'[e] > 0)
<1> USE DEF OutboxInv, TypeOK, JobsNamed, durable, memory, world
<1>0. posted[e] = 0 BY DEF RowsMatchDiscord, Unsent
<1>1. CASE \E p \in Procs : Start(p) BY <1>1 DEF Start, RecoverInflight
<1>2. CASE \E p \in Procs : EnqueueCommit(p) BY <1>0, <1>2 DEF EnqueueCommit
<1>3. CASE \E p \in Procs : ExpireItem(p) BY <1>3 DEF ExpireItem, Expire
<1>4. CASE \E p \in Procs : Claim(p) BY <1>4 DEF Claim
<1>5. CASE \E p \in Procs : Mark(p) BY <1>5 DEF Mark, MarkOutbox
<1>6. CASE \E p \in Procs : RetryExpire(p) BY <1>6 DEF RetryExpire, Expire
<1>7. CASE \E o \in Operators : ResolveMark(o) BY <1>7 DEF ResolveMark
<1>8. CASE UNCHANGED status BY <1>8
<1> QED BY <1>1, <1>2, <1>3, <1>4, <1>5, <1>6, <1>7, <1>8, StatusSteps

(* A given-up alert stays given up: no request leaves for it, none is under *)
(* way, and no 429 returns its row to pending.                              *)
LEMMA NeverStays ==
    ASSUME OutboxInv, [Next]_vars, NEW e \in Events,
           status[e] \notin {"absent", "pending"}, posted[e] = 0,
           ~InFlight(e), ~ToBeRetried(e)
    PROVE  /\ status'[e] \notin {"absent", "pending"} /\ posted'[e] = 0
           /\ ~InFlight(e)' /\ ~ToBeRetried(e)'
<1> USE DEF OutboxInv, TypeOK, JobsNamed, durable, memory, world, InFlight, ToBeRetried
<1> DEFINE Never == /\ status'[e] \notin {"absent", "pending"} /\ posted'[e] = 0
                    /\ ~InFlight(e)' /\ ~ToBeRetried(e)'
<1>1. ASSUME NEW p \in Procs, Start(p) PROVE Never
  BY <1>1 DEF Start, RecoverInflight, Goto
<1>2. ASSUME NEW p \in Procs, EnqueueCommit(p) PROVE Never
  BY <1>2 DEF EnqueueCommit, Draft
<1>3. ASSUME NEW p \in Procs, ExpireItem(p) PROVE Never
  BY <1>3 DEF ExpireItem, Expire, Goto
<1>4. ASSUME NEW p \in Procs, RetryExpire(p) PROVE Never
  BY <1>4 DEF RetryExpire, Expire, Goto
<1>5. ASSUME NEW p \in Procs, Claim(p) PROVE Never
  BY <1>5 DEF Claim, Goto
<1>6. ASSUME NEW p \in Procs, Mark(p) PROVE Never
  <2>1. /\ pc[p] = "mark" /\ UNCHANGED <<posted, net, job>>
        /\ pc' = [pc EXCEPT ![p] = "record"]
        /\ status' = IF status[job[p].ev] = "sending"
                     THEN [status EXCEPT ![job[p].ev] = MarkOf(job[p].reply)] ELSE status
    BY <1>6 DEF Mark, MarkOutbox, Goto
  <2>2. MarkOf(job[p].reply) = "pending" => job[p].reply = "rateLimited"
    BY DEF MarkOf
  <2>3. MarkOf(job[p].reply) \notin {"absent", "sending"}
    BY DEF MarkOf
  <2>4. status'[e] \notin {"absent", "pending"} /\ (status'[e] = "sending" => status[e] = "sending")
    BY <2>1, <2>2, <2>3
  <2>5. ~ToBeRetried(e)' BY <2>1, <2>4
  <2> QED BY <2>1, <2>4, <2>5
<1>7. ASSUME NEW p \in Procs, Answered(p) PROVE Never
  <2>1. PICK r \in Replies \ {"transport"}, k \in {0, 1} :
          /\ posted' = [posted EXCEPT ![job[p].ev] = @ + k]
          /\ job' = [job EXCEPT ![p] = Attempt(@.ev, @.n, r)]
    BY <1>7 DEF Answered
  <2>2. /\ pc[p] = "posting" /\ <<job[p].ev, job[p].n>> \in net /\ net' \subseteq net
        /\ pc' = [pc EXCEPT ![p] = "mark"] /\ UNCHANGED status
    BY <1>7 DEF Answered, Goto
  <2>3. job[p].ev # e BY <2>2
  <2>4. \A x \in Procs : job'[x].ev = e => x # p /\ job'[x] = job[x] /\ pc'[x] = pc[x]
    BY <2>1, <2>2, <2>3 DEF Attempt
  <2>5. ~ToBeRetried(e)' BY <2>2, <2>4
  <2>6. posted'[e] = 0 BY <2>1, <2>3
  <2> QED BY <2>2, <2>5, <2>6
<1>8. ASSUME NEW p \in Procs, TransportError(p) PROVE Never
  BY <1>8 DEF TransportError, Goto, Attempt
<1>9. ASSUME NEW q \in net, ProcessedUnseen(q) \/ RequestLost(q) PROVE Never
  BY <1>9 DEF ProcessedUnseen, RequestLost
<1>10. ASSUME NEW o \in Operators, ResolveMark(o) PROVE Never
  BY <1>10 DEF ResolveMark, OpState
<1>11. ASSUME NEW p \in Procs, Exit(p) \/ Crash(p) PROVE Never
  BY <1>11 DEF Exit, Crash, Halted, Goto
<1>12. ASSUME NEW p \in Procs,
              \/ Poll(p) \/ EndCycle(p) \/ AuditExpired(p) \/ TakeItem(p)
              \/ ClaimLost(p) \/ Record(p) \/ Wake(p) \/ RetryClaim(p) \/ BatchFails(p)
       PROVE  Never
  <2>1. /\ UNCHANGED <<status, posted, net>>
        /\ \A x \in Procs : pc'[x] = "mark" => pc[x] = "mark" /\ job'[x] = job[x]
    BY <1>12 DEF Poll, EndCycle, AuditExpired, TakeItem, ClaimLost, Record, Wake,
                 RetryClaim, BatchFails, Goto
  <2> QED BY <2>1
<1>13. CASE UNCHANGED <<status, posted, net, pc, job>> BY <1>13
<1>14. ASSUME NEW p \in Procs,
              \/ RequestStop(p) \/ SkipEmbargoed(p) \/ EnqueueFails(p)
              \/ \E f \in Events : Enqueue(p, f) \/ EnqueueRefused(p, f)
       PROVE  Never
  BY <1>13, <1>14 DEF RequestStop, SkipEmbargoed, Enqueue, EnqueueFails,
     EnqueueRefused, StopSet
<1>15. ASSUME NEW o \in Operators,
              \/ \E f \in Events, as \in {"delivered", "dead"} : ResolveRead(o, f, as)
              \/ ResolveRefused(o) \/ ResolveAudit(o)
       PROVE  Never
  BY <1>13, <1>15 DEF ResolveRead, ResolveRefused, ResolveAudit
<1>16. CASE Tick \/ UNCHANGED vars BY <1>13, <1>16 DEF Tick, vars
<1> HIDE DEF Never, OutboxInv, TypeOK, JobsNamed, InFlight, ToBeRetried
<1>17. ASSUME NEW p \in Procs, Worker(p) PROVE Never
  BY <1>3, <1>4, <1>5, <1>6, <1>7, <1>8, <1>12, <1>14, <1>17 DEF Worker
<1>18. ASSUME NEW p \in Procs,
              \/ Start(p) \/ RequestStop(p) \/ Exit(p) \/ Crash(p)
              \/ \E f \in Events : Enqueue(p, f) \/ EnqueueRefused(p, f)
              \/ EnqueueReturns(p) \/ Worker(p) \/ BatchFails(p)
       PROVE  Never
  BY <1>1, <1>2, <1>11, <1>12, <1>14, <1>17, <1>18 DEF EnqueueReturns
<1>19. ASSUME NEW o \in Operators,
              \/ \E f \in Events, as \in {"delivered", "dead"} : ResolveRead(o, f, as)
              \/ ResolveMark(o) \/ ResolveRefused(o) \/ ResolveAudit(o)
       PROVE  Never
  BY <1>10, <1>15, <1>19
<1> HIDE DEF durable, memory, world
<1>20. CASE Next
  <2>1. CASE \E p \in Procs :
               \/ Start(p) \/ RequestStop(p) \/ Exit(p) \/ Crash(p)
               \/ \E f \in Events : Enqueue(p, f) \/ EnqueueRefused(p, f)
               \/ EnqueueReturns(p) \/ Worker(p) \/ BatchFails(p)
    <3>1. Never BY ONLY <1>18, <2>1
    <3> QED BY <3>1 DEF Never
  <2>2. CASE \E o \in Operators :
               \/ \E f \in Events, as \in {"delivered", "dead"} : ResolveRead(o, f, as)
               \/ ResolveMark(o) \/ ResolveRefused(o) \/ ResolveAudit(o)
    <3>1. Never BY ONLY <1>19, <2>2
    <3> QED BY <3>1 DEF Never
  <2>3. CASE \E q \in net : ProcessedUnseen(q) \/ RequestLost(q)
    <3>1. Never BY ONLY <1>9, <2>3
    <3> QED BY <3>1 DEF Never
  <2>4. CASE Tick BY ONLY <1>16, <2>4
  <2> QED BY ONLY <1>20, <2>1, <2>2, <2>3, <2>4 DEF Next
<1>21. CASE UNCHANGED vars BY ONLY <1>16, <1>21
<1> QED BY <1>20, <1>21

(* Every step of the outbox decides fates as MessageFate allows, or none. *)
LEMMA StepDecides ==
    ASSUME OutboxInv, [Next]_vars
    PROVE  [Channel!Decide]_([e \in Events |-> FateOf(e)])
<1> DEFINE F == [e \in Events |-> FateOf(e)]
<1>1. ASSUME NEW e \in Events
      PROVE  FateOf(e)' = FateOf(e) \/ <<FateOf(e), FateOf(e)'>> \in Channel!Turns
  <2>1. /\ FateOf(e)' \in {"none", "sent", "open", "never"}
        /\ FateOf(e)' = "none" <=> status'[e] = "absent"
        /\ FateOf(e)' = "sent" <=> status'[e] # "absent" /\ posted'[e] > 0
        /\ FateOf(e)' = "never" <=>
             /\ status'[e] \notin {"absent", "pending"} /\ ~(posted'[e] > 0)
             /\ ~InFlight(e)' /\ ~ToBeRetried(e)'
    BY DEF FateOf, InFlight, ToBeRetried
  <2>2. CASE FateOf(e) = "none"
    <3>1. status[e] = "absent" BY <2>2, FateCases
    <3>2. FateOf(e)' # "sent" BY <2>1, <3>1, EntersUnsent
    <3> HIDE DEF FateOf
    <3> QED BY <2>1, <2>2, <3>2 DEF Channel!Turns
  <2>3. CASE FateOf(e) = "sent"
    <3>1. status[e] # "absent" /\ posted[e] > 0 BY <2>3, FateCases
    <3>2. FateOf(e)' = "sent" BY <2>1, <3>1, SentStays
    <3> QED BY <2>3, <3>2
  <2>4. CASE FateOf(e) = "open"
    <3>1. status[e] # "absent" BY <2>4, FateCases
    <3>2. FateOf(e)' # "none" BY <2>1, <3>1, SentStays
    <3> QED BY <2>1, <2>4, <3>2 DEF Channel!Turns
  <2>5. CASE FateOf(e) = "never"
    <3>1. /\ status[e] \notin {"absent", "pending"} /\ ~(posted[e] > 0)
          /\ ~InFlight(e) /\ ~ToBeRetried(e)
      BY <2>5, FateCases
    <3>2. posted[e] = 0 BY <3>1 DEF OutboxInv, TypeOK
    <3>3. /\ status'[e] \notin {"absent", "pending"} /\ posted'[e] = 0
          /\ ~InFlight(e)' /\ ~ToBeRetried(e)'
      BY <3>1, <3>2, NeverStays
    <3>4. FateOf(e)' = "never" BY <2>1, <3>3
    <3> QED BY <2>5, <3>4
  <2> QED BY <2>2, <2>3, <2>4, <2>5, FateCases
<1>2. \A e \in Events : FateOf(e)' \in Channel!Fates
  BY DEF FateOf, Channel!Fates
<1>3. F' = [e \in Events |-> FateOf(e)'] OBVIOUS
<1>4. Channel!Decide
  BY <1>1, <1>2, <1>3 DEF Channel!Decide
<1> QED BY <1>4

(* The outbox implements MessageFate: once sent, an alert is never sent     *)
(* again, and once given up never at all, for any events, processes,        *)
(* operators, faults and limits (deliver_event, recover_inflight,           *)
(* resolve_uncertain_outbox).                                               *)
THEOREM OutboxImplementsMessageFate == Spec => ImplementsMessageFate
<1>1. Init => Channel!Init
  BY DEF Init, Channel!Init, FateOf
<1>2. OutboxInv /\ [Next]_vars => [Channel!Decide]_([e \in Events |-> FateOf(e)])
  BY StepDecides
<1> QED BY <1>1, <1>2, OutboxInvariant, PTL DEF Spec, ImplementsMessageFate, Channel!Spec
=============================================================================
