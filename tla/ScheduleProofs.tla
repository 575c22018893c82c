---------------------------- MODULE ScheduleProofs ----------------------------
(***************************************************************************)
(* ScheduleWorker proved for every number of schedules, workers, pooled    *)
(* connections, faults and clock values; then Scheduler, which puts the    *)
(* rows into the table those workers read, for every set of callers,       *)
(* writers and schedules.                                                  *)
(***************************************************************************)
EXTENDS ScheduleWorker, Scheduler, FiniteSetTheorems, TLAPS

(* The date that scheduleTask writes is a date or never. *)
LEMMA NextExecutionType ==
    ASSUME TypeOK, NEW s \in Schedules
    PROVE  NextExecution(s) \in Nat \cup {NULL, ABSENT}
<1>1. now \div Period \in Nat
  BY PeriodAssumption DEF TypeOK
<1>2. (now \div Period + 1) * Period \in Nat
  BY <1>1, PeriodAssumption
<1>3. QED
  BY <1>2 DEF NextExecution

(* A fault stays within the bound. *)
LEMMA FaultType == TypeOK /\ Fault => faults' \in 0..MaxFaults
BY BoundsAssumption DEF TypeOK, Fault

(* The row lock lets one worker at a time execute a schedule. *)
LEMMA OneExecutes ==
    ASSUME PickInv, NEW v \in Workers, NEW w \in Workers, NEW s \in Schedules,
           s \in picked[v], s \in picked[w]
    PROVE  v = w
BY DEF PickInv, PickedIsStillDue

(* When the process dies a schedule has at most one execution to undo. *)
LEMMA UndoneByDeath ==
    ASSUME PickInv, NEW s \in Schedules
    PROVE  Cardinality({w \in Workers : pc[w] = "advance" /\ s \in picked[w]})
             = IF Unrecorded(s) THEN 1 ELSE 0
<1> DEFINE Recording == {w \in Workers : pc[w] = "advance" /\ s \in picked[w]}
<1>1. CASE Unrecorded(s)
  <2>1. PICK w \in Workers : pc[w] = "advance" /\ s \in picked[w]
    BY <1>1 DEF Unrecorded
  <2>2. Recording = {w}
    BY <2>1, OneExecutes
  <2>3. QED
    BY <1>1, <2>2, FS_Singleton
<1>2. CASE ~Unrecorded(s)
  <2>1. Recording = {}
    BY <1>2 DEF Unrecorded
  <2>2. QED
    BY <1>2, <2>1, FS_EmptySet
<1>3. QED
  BY <1>1, <1>2

(* Workers that check their context execute nothing yet. *)
LEMMA InitInv == Init => PickInv
<1> SUFFICES ASSUME Init PROVE PickInv
  OBVIOUS
<1>1. TypeOK
  <2>1. ctxDone \in BOOLEAN
    BY Zenon DEF Init
  <2>2. QED
    BY <2>1, BoundsAssumption DEF Init, TypeOK
<1>2. PickedIsStillDue /\ LockedIsPicked /\ SurplusIsUnrecorded
  BY WorkersAssumption DEF Init, PickedIsStillDue, LockedIsPicked, SurplusIsUnrecorded, Unrecorded
<1>3. QED
  BY <1>1, <1>2 DEF PickInv

(* A panic or a kill rolls every open execution back and counts it. *)
LEMMA ProcessDiesInv ==
    ASSUME PickInv, ProcessDies, faults' \in 0..MaxFaults
    PROVE  PickInv'
<1> USE DEF PickInv
<1>1. \A s \in Schedules : undone'[s] = undone[s] + IF Unrecorded(s) THEN 1 ELSE 0
  BY UndoneByDeath DEF ProcessDies
<1>2. undone' \in [Schedules -> Nat]
  BY <1>1 DEF ProcessDies, TypeOK
<1>3. TypeOK'
  BY <1>2 DEF ProcessDies, TypeOK
<1>4. PickedIsStillDue' /\ LockedIsPicked'
  BY WorkersAssumption DEF ProcessDies, PickedIsStillDue, LockedIsPicked
<1>5. SurplusIsUnrecorded'
  BY <1>1 DEF ProcessDies, SurplusIsUnrecorded, Unrecorded, TypeOK
<1>6. QED
  BY <1>3, <1>4, <1>5

(* The end of a transaction, committed or not: the locks of the others and *)
(* what they execute stay.                                                 *)
LEMMA EndTxInv ==
    ASSUME PickInv, NEW w \in Workers,
           NEW stage \in {"wait", "check"}, EndTx(w, stage), now' = now,
           next' \in [Schedules -> Nat \cup {NULL, ABSENT}],
           \A s \in Schedules : s \notin picked[w] => next'[s] = next[s],
           ctxDone' \in BOOLEAN, faults' \in 0..MaxFaults,
           surplus' \in [Schedules -> Int], undone' \in [Schedules -> Nat],
           \A s \in Schedules :
              surplus'[s] - undone'[s]
                = surplus[s] - undone[s] - (IF pc[w] = "advance" THEN Executing(w, s) ELSE 0)
    PROVE  PickInv'
<1> USE DEF PickInv
<1>1. TypeOK'
  BY DEF EndTx, TypeOK
<1>2. PickedIsStillDue' /\ LockedIsPicked'
  BY WorkersAssumption DEF EndTx, TypeOK, PickedIsStillDue, LockedIsPicked, Due
<1>3. ASSUME NEW s \in Schedules
      PROVE  Unrecorded(s)' <=> Unrecorded(s) /\ ~(pc[w] = "advance" /\ s \in picked[w])
  <2>1. \A v \in Workers \ {w} : pc'[v] = pc[v] /\ picked'[v] = picked[v]
    BY DEF EndTx, TypeOK
  <2>2. picked'[w] = {}
    BY DEF EndTx, TypeOK
  <2>3. QED
    BY <2>1, <2>2, OneExecutes DEF Unrecorded
<1>4. SurplusIsUnrecorded'
  <2> SUFFICES ASSUME NEW s \in Schedules
               PROVE  surplus'[s] - undone'[s] = IF Unrecorded(s)' THEN 1 ELSE 0
    BY DEF SurplusIsUnrecorded
  <2>1. surplus[s] - undone[s] = IF Unrecorded(s) THEN 1 ELSE 0
    BY DEF SurplusIsUnrecorded
  <2>2. surplus'[s] - undone'[s]
          = surplus[s] - undone[s] - (IF pc[w] = "advance" THEN Executing(w, s) ELSE 0)
    OBVIOUS
  <2>3. CASE pc[w] = "advance" /\ s \in picked[w]
    <3>1. Unrecorded(s) /\ ~Unrecorded(s)'
      BY <1>3, <2>3 DEF Unrecorded
    <3>2. QED
      BY <2>1, <2>2, <2>3, <3>1 DEF Executing
  <2>4. CASE ~(pc[w] = "advance" /\ s \in picked[w])
    <3>1. Unrecorded(s)' <=> Unrecorded(s)
      BY <1>3, <2>4
    <3>2. (IF pc[w] = "advance" THEN Executing(w, s) ELSE 0) = 0
      BY <2>4 DEF Executing
    <3>3. surplus[s] - undone[s] \in Int
      BY DEF TypeOK
    <3>4. QED
      BY <2>1, <2>2, <3>1, <3>2, <3>3
  <2>5. QED
    BY <2>3, <2>4
<1>5. QED
  BY <1>1, <1>2, <1>4

(* A worker moves on without touching locks, rows and counters. *)
LEMMA MoveInv ==
    ASSUME PickInv, NEW w \in Workers, pc[w] \notin {"enqueue", "advance"},
           NEW stage \in {"wait", "check", "begin", "stopped", "pick"},
           pc' = [pc EXCEPT ![w] = stage],
           UNCHANGED <<now, next, lock, picked, surplus, undone, ctxDone, faults>>
    PROVE  PickInv'
<1> USE DEF PickInv
<1>1. TypeOK'
  BY DEF TypeOK, InTx
<1>2. PickedIsStillDue' /\ LockedIsPicked'
  BY DEF TypeOK, PickedIsStillDue, LockedIsPicked, Due
<1>3. \A s \in Schedules : Unrecorded(s)' <=> Unrecorded(s)
  BY DEF Unrecorded, TypeOK
<1>4. QED
  BY <1>1, <1>2, <1>3 DEF SurplusIsUnrecorded

(* Every step of a worker keeps the invariant. *)
LEMMA WorkerStepInv ==
    ASSUME PickInv, NEW w \in Workers, Step(w)
    PROVE  PickInv'
<1> USE DEF PickInv
<1>1. CASE StartIteration(w) \/ ReturnFromWork(w) \/ CheckContext(w) \/ Begin(w)
  BY <1>1, MoveInv DEF StartIteration, ReturnFromWork, CheckContext, Begin
<1>2. CASE BeginFails(w)
  BY <1>2, FaultType, ProcessDiesInv DEF BeginFails, TypeOK
<1>3. ASSUME NEW s \in Schedules, Pick(w, s) PROVE PickInv'
  <2>1. lock[s] = NoWorker /\ Due(s) /\ picked[w] = {}
    BY <1>3 DEF Pick, MostOverdue, Visible, LockedIsPicked
  <2>2. \A v \in Workers : s \notin picked[v]
    BY <2>1, WorkersAssumption DEF PickedIsStillDue
  <2>3. TypeOK'
    BY <1>3 DEF Pick, TypeOK, InTx
  <2>4. PickedIsStillDue'
    BY <1>3, <2>1, <2>2 DEF Pick, TypeOK, PickedIsStillDue, Due
  <2>5. LockedIsPicked'
    BY <1>3, <2>1, <2>2, WorkersAssumption DEF Pick, TypeOK, LockedIsPicked
  <2>6. \A r \in Schedules : Unrecorded(r)' <=> Unrecorded(r)
    BY <1>3 DEF Pick, Unrecorded, TypeOK
  <2>7. SurplusIsUnrecorded'
    BY <1>3, <2>6 DEF Pick, SurplusIsUnrecorded
  <2>8. QED
    BY <2>3, <2>4, <2>5, <2>7
<1>4. CASE NothingDue(w)
  BY <1>4, EndTxInv DEF NothingDue, TypeOK
<1>5. CASE Enqueue(w)
  <2>1. TypeOK'
    BY <1>5 DEF Enqueue, Executing, TypeOK, InTx
  <2>2. PickedIsStillDue' /\ LockedIsPicked'
    BY <1>5 DEF Enqueue, TypeOK, PickedIsStillDue, LockedIsPicked, Due
  <2>3. \A s \in Schedules : Unrecorded(s)' <=> Unrecorded(s) \/ s \in picked[w]
    BY <1>5 DEF Enqueue, TypeOK, Unrecorded
  <2>4. \A s \in picked[w] : ~Unrecorded(s)
    BY <1>5, OneExecutes DEF Enqueue, TypeOK, Unrecorded
  <2>5. SurplusIsUnrecorded'
    BY <1>5, <2>3, <2>4 DEF Enqueue, Executing, TypeOK, SurplusIsUnrecorded
  <2>6. QED
    BY <2>1, <2>2, <2>5
<1>6. CASE EnqueueUnanswered(w)
  <2>1. surplus' \in [Schedules -> Int] /\ undone' \in [Schedules -> Nat]
    BY <1>6 DEF EnqueueUnanswered, Executing, TypeOK
  <2>2. \A s \in Schedules : surplus'[s] - undone'[s] = surplus[s] - undone[s]
    BY <1>6 DEF EnqueueUnanswered, Executing, TypeOK
  <2>3. QED
    BY <1>6, <2>1, <2>2, FaultType, EndTxInv DEF EnqueueUnanswered, TypeOK
<1>7. ASSUME NEW answered \in BOOLEAN, Advance(w, answered) PROVE PickInv'
  <2>1. next' \in [Schedules -> Nat \cup {NULL, ABSENT}]
    BY <1>7, NextExecutionType DEF Advance, TypeOK
  <2>2. surplus' \in [Schedules -> Int]
    BY <1>7 DEF Advance, Executing, TypeOK
  <2>3. \A s \in Schedules :
           surplus'[s] - undone'[s] = surplus[s] - undone[s] - Executing(w, s)
    BY <1>7 DEF Advance, Executing, TypeOK
  <2>4. faults' \in 0..MaxFaults
    BY <1>7, FaultType DEF Advance, TypeOK
  <2>5. QED
    BY <1>7, <2>1, <2>2, <2>3, <2>4, EndTxInv DEF Advance, TypeOK
<1>8. CASE Fail(w)
  <2>1. undone' \in [Schedules -> Nat]
    BY <1>8 DEF Fail, Executing, TypeOK
  <2>2. \A s \in Schedules :
           surplus'[s] - undone'[s]
             = surplus[s] - undone[s] - (IF pc[w] = "advance" THEN Executing(w, s) ELSE 0)
    BY <1>8 DEF Fail, Executing, TypeOK
  <2>3. faults' \in 0..MaxFaults
    BY <1>8, FaultType DEF Fail, TypeOK
  <2>4. QED
    BY <1>8, <2>1, <2>2, <2>3, EndTxInv DEF Fail, TypeOK
<1>9. QED
  BY <1>1, <1>2, <1>3, <1>4, <1>5, <1>6, <1>7, <1>8 DEF Step

(* Every step keeps the invariant. *)
LEMMA StepInv == PickInv /\ [Next]_vars => PickInv'
<1> SUFFICES ASSUME PickInv, [Next]_vars PROVE PickInv'
  OBVIOUS
<1> USE DEF PickInv
<1>1. CASE Tick
  BY <1>1 DEF Tick, TypeOK, PickedIsStillDue, LockedIsPicked, SurplusIsUnrecorded, Unrecorded, Due
<1>2. ASSUME NEW s \in Schedules, Insert(s) PROVE PickInv'
  <2>1. \A w \in Workers : s \notin picked[w]
    BY <1>2 DEF Insert, PickedIsStillDue, Due, ABSENT
  <2>2. QED
    BY <1>2, <2>1
    DEF Insert, TypeOK, PickedIsStillDue, LockedIsPicked, SurplusIsUnrecorded, Unrecorded, Due
<1>3. ASSUME NEW s \in Schedules, Upsert(s) PROVE PickInv'
  <2>1. \A w \in Workers : s \notin picked[w]
    BY <1>3, WorkersAssumption DEF Upsert, PickedIsStillDue
  <2>2. QED
    BY <1>3, <2>1
    DEF Upsert, TypeOK, PickedIsStillDue, LockedIsPicked, SurplusIsUnrecorded, Unrecorded, Due
<1>4. ASSUME NEW w \in Workers, Step(w) PROVE PickInv'
  BY <1>4, WorkerStepInv
<1>5. CASE Kill
  BY <1>5, FaultType, ProcessDiesInv DEF Kill
<1>6. CASE Restart
  <2>1. ctxDone' \in BOOLEAN
    BY <1>6, Zenon DEF Restart
  <2>2. TypeOK'
    BY <1>6, <2>1, FaultType DEF Restart, TypeOK
  <2>3. QED
    BY <1>6, <2>2
    DEF Restart, PickedIsStillDue, LockedIsPicked, SurplusIsUnrecorded, Unrecorded, Due
<1>7. CASE CancelContext
  <2>1. ctxDone' \in BOOLEAN
    BY <1>7, Zenon DEF CancelContext
  <2>2. QED
    BY <1>7, <2>1 DEF CancelContext, TypeOK, PickedIsStillDue, LockedIsPicked,
       SurplusIsUnrecorded, Unrecorded, Due
<1>8. CASE UNCHANGED vars
  BY <1>8 DEF vars, TypeOK, PickedIsStillDue, LockedIsPicked, SurplusIsUnrecorded, Unrecorded, Due
<1>9. QED
  BY <1>1, <1>2, <1>3, <1>4, <1>5, <1>6, <1>7, <1>8 DEF Next

(* The schedule a worker executes stays locked by it and due, and every    *)
(* task that is not recorded belongs to such a worker.                     *)
THEOREM PickedSafe == Spec => []PickInv
<1>1. QED
  BY InitInv, StepInv, PTL DEF Spec

(* Exactly one task per due date, except for the executions that were      *)
(* rolled back after their Enqueue: for any number of workers, schedules   *)
(* and faults.                                                             *)
THEOREM DueDateOnce == Spec => []OneTaskPerDueDate
<1>1. PickInv => OneTaskPerDueDate
  BY DEF PickInv, SurplusIsUnrecorded, OneTaskPerDueDate
<1>2. QED
  BY <1>1, PickedSafe, PTL

-----------------------------------------------------------------------------
(* Scheduler *)

(* The empty table without transactions satisfies the invariant. *)
LEMMA AssertInitInv == AssertInit => SchedulerInv
BY ActorsAssumption, FailuresAssumption
   DEF AssertInit, SchedulerInv, AssertTypeOK, LockInv, SeenInv, OneRowPerKey

(* Ending a transaction gives up its locks and disturbs no other one, if   *)
(* the rows did not change.                                                *)
LEMMA EndAssertInv ==
    ASSUME SchedulerInv, NEW a \in Callers \cup Writers, EndAssert(a),
           UNCHANGED <<rows, key>>, failures' \in 0..MaxFailures
    PROVE  SchedulerInv'
<1> USE ActorsAssumption, FailuresAssumption DEF SchedulerInv
<1>1. AssertTypeOK'
  BY DEF EndAssert, AssertTypeOK
<1>2. LockInv'
  BY DEF EndAssert, AssertTypeOK, LockInv
<1>3. SeenInv' /\ OneRowPerKey'
  BY DEF EndAssert, AssertTypeOK, SeenInv, OneRowPerKey
<1>4. QED
  BY <1>1, <1>2, <1>3

(* Every step keeps the invariant. *)
LEMMA AssertStepInv == SchedulerInv /\ [AssertNext]_avars => SchedulerInv'
<1> SUFFICES ASSUME SchedulerInv, [AssertNext]_avars PROVE SchedulerInv'
  OBVIOUS
<1> USE ActorsAssumption, FailuresAssumption DEF SchedulerInv
<1>1. ASSUME NEW c \in Callers, NEW k \in Keys, AssertSchedule(c, k)
      PROVE  SchedulerInv'
  BY <1>1 DEF AssertSchedule, AssertTypeOK, LockInv, SeenInv, OneRowPerKey
<1>2. ASSUME NEW c \in Callers, LockTable(c) PROVE SchedulerInv'
  BY <1>2 DEF LockTable, ShareGranted, AssertTypeOK, LockInv, SeenInv, OneRowPerKey
<1>3. ASSUME NEW c \in Callers, EnsureSchedule(c) PROVE SchedulerInv'
  BY <1>3 DEF EnsureSchedule, AssertTypeOK, LockInv, SeenInv, OneRowPerKey
<1>4. ASSUME NEW c \in Callers, Schedule(c) PROVE SchedulerInv'
  BY <1>4 DEF Schedule, RowExclGranted, AssertTypeOK, LockInv, SeenInv, OneRowPerKey
<1>5. ASSUME NEW c \in Callers, Commit(c) PROVE SchedulerInv'
  <2>1. CASE apc[c] = "existed"
    <3>1. rows' = rows
      BY <1>5, <2>1 DEF Commit, AssertTypeOK
    <3>2. QED
      BY <1>5, <3>1, EndAssertInv DEF Commit, AssertTypeOK
  <2>2. CASE apc[c] = "inserted"
    \* Nobody else has seen the table: the SHARE lock is the caller's alone.
    <3>1. \A d \in Callers : d # c => apc[d] \in {"idle", "lock"}
      BY <2>2 DEF LockInv, AssertTypeOK
    <3>2. /\ rows' = [rows EXCEPT ![key[c]] = 1]
          /\ apc' = [apc EXCEPT ![c] = "idle"]
      <4>1. rows[key[c]] + (IF apc[c] = "inserted" THEN 1 ELSE 0) = 1
        BY <2>2 DEF SeenInv, AssertTypeOK
      <4>2. QED
        BY <1>5, <4>1 DEF Commit, EndAssert
    <3>3. AssertTypeOK'
      BY <1>5, <3>2 DEF Commit, EndAssert, AssertTypeOK
    <3>4. LockInv'
      BY <1>5 DEF Commit, EndAssert, AssertTypeOK, LockInv
    <3>5. SeenInv' /\ OneRowPerKey'
      BY <1>5, <3>1, <3>2 DEF Commit, AssertTypeOK, SeenInv, OneRowPerKey
    <3>6. QED
      BY <3>3, <3>4, <3>5
  <2>3. QED
    BY <1>5, <2>1, <2>2 DEF Commit
<1>6. ASSUME NEW c \in Callers, DeadlockAbort(c) PROVE SchedulerInv'
  BY <1>6, EndAssertInv DEF DeadlockAbort, AssertTypeOK
<1>7. ASSUME NEW c \in Callers, AssertFails(c) PROVE SchedulerInv'
  <2>1. failures' \in 0..MaxFailures
    BY <1>7 DEF AssertFails, AssertTypeOK
  <2>2. QED
    BY <1>7, <2>1, EndAssertInv DEF AssertFails
<1>8. ASSUME NEW x \in Writers, Write(x) PROVE SchedulerInv'
  BY <1>8 DEF Write, RowExclGranted, AssertTypeOK, LockInv, SeenInv, OneRowPerKey
<1>9. ASSUME NEW x \in Writers, EndWrite(x) PROVE SchedulerInv'
  \* Nobody has seen the table: the writer excludes the SHARE lock.
  <2>1. \A c \in Callers : apc[c] \in {"idle", "lock"}
    BY <1>9 DEF EndWrite, LockInv, AssertTypeOK
  <2>2. rows' \in [Keys -> Nat] /\ OneRowPerKey'
    BY <1>9 DEF EndWrite, AssertTypeOK, OneRowPerKey
  <2>3. AssertTypeOK'
    BY <1>9, <2>2 DEF EndWrite, EndAssert, AssertTypeOK
  <2>4. LockInv'
    BY <1>9 DEF EndWrite, EndAssert, AssertTypeOK, LockInv
  <2>5. SeenInv'
    BY <1>9, <2>1 DEF EndWrite, EndAssert, AssertTypeOK, SeenInv
  <2>6. QED
    BY <2>2, <2>3, <2>4, <2>5
<1>10. CASE UNCHANGED avars
  BY <1>10 DEF avars, AssertTypeOK, LockInv, SeenInv, OneRowPerKey, ShareGranted, RowExclGranted
<1>11. QED
  BY <1>1, <1>2, <1>3, <1>4, <1>5, <1>6, <1>7, <1>8, <1>9, <1>10 DEF AssertNext, CallerStep

(* The locks of AssertSchedule protect what it has seen, so no schedule is *)
(* ever created twice: for any number of callers, writers and schedules.   *)
THEOREM ScheduledOnce == AssertSpec => []SchedulerInv
<1>1. QED
  BY AssertInitInv, AssertStepInv, PTL DEF AssertSpec

(* A call of AssertSchedule that returns nil leaves the row in the table,  *)
(* whatever other callers and writers do meanwhile.                        *)
THEOREM AssertSound == AssertSpec => AssertedExists
<1>1. ASSUME SchedulerInv, [AssertNext]_avars
      PROVE  [\A c \in Callers :
                apc[c] \in {"existed", "inserted"} /\ apc'[c] = "idle" /\ UNCHANGED failures
                  => rows'[key[c]] > 0]_avars
  <2> SUFFICES ASSUME NEW c \in Callers, apc[c] \in {"existed", "inserted"}, apc'[c] = "idle",
                      UNCHANGED failures
               PROVE  rows'[key[c]] > 0
    OBVIOUS
  <2> USE <1>1 DEF SchedulerInv
  <2>1. Commit(c)
    BY DEF AssertNext, CallerStep, avars, AssertTypeOK, AssertSchedule, LockTable,
           EnsureSchedule, Schedule, Commit, AssertFails, DeadlockAbort, Write, EndWrite,
           EndAssert
  <2>2. QED
    BY <2>1 DEF Commit, AssertTypeOK, SeenInv
<1>2. QED
  BY <1>1, ScheduledOnce, PTL DEF AssertSpec, AssertedExists
=============================================================================
