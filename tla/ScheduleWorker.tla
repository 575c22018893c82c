---------------------------- MODULE ScheduleWorker ----------------------------
(***************************************************************************)
(* The schedule workers of pkg/queue/workers/schedule_worker.go on the     *)
(* `schedules` table.  An iteration takes the due schedules one by one: in *)
(* a transaction it locks the most overdue row, enqueues its task, moves   *)
(* next_execution_time and commits.  Enqueue runs on another connection of *)
(* the pool and commits on its own.                                        *)
(*                                                                         *)
(* Instead of counting tasks and executions, which grow for ever, the      *)
(* model keeps for each schedule how many tasks were enqueued beyond the   *)
(* executions that are recorded in the table.                              *)
(***************************************************************************)
EXTENDS Integers, FiniteSets

CONSTANTS
    Schedules,    \* rows of the table schedules
    Cron,         \* those with a cron_schedule; the others are one-time jobs
    Impossible,   \* those of Cron whose expression never matches a date
    Workers,      \* schedule workers of a process
    PoolSize,     \* config.Database.PoolSize, the connections they share
    Period,       \* clock units between two dates of a cron expression
    MaxTime,      \* bound: last value of the clock
    MaxFaults,    \* bound: failed statements, lost answers, kills and restarts
    NoWorker      \* the holder of a row lock nobody holds

ASSUME CronAssumption == Impossible \subseteq Cron /\ Cron \subseteq Schedules
ASSUME PoolAssumption == PoolSize \in Nat \ {0}
ASSUME PeriodAssumption == Period \in Nat \ {0}
ASSUME BoundsAssumption == MaxTime \in Nat /\ MaxFaults \in Nat
ASSUME WorkersAssumption == NoWorker \notin Workers /\ IsFiniteSet(Workers)

VARIABLES
    now,      \* the clock that time.Now() reads
    next,     \* next_execution_time of each schedule
    lock,     \* the worker whose transaction holds the row lock
    pc,       \* what each worker does next
    picked,   \* the schedule each worker is executing, a set of at most one
    surplus,  \* of each schedule: tasks enqueued minus executions recorded
    undone,   \* of each schedule: executions rolled back after their Enqueue
    ctxDone,  \* the context of the workers is cancelled
    faults    \* faults so far

vars == <<now, next, lock, pc, picked, surplus, undone, ctxDone, faults>>

NULL   == -1   \* never again; not true in any SQL comparison
ABSENT == -2   \* the row is not in the table yet

(* scheduleTask has an open transaction. *)
InTx == {"pick", "enqueue", "advance"}

TypeOK ==
    /\ now \in Nat
    /\ next \in [Schedules -> Nat \cup {NULL, ABSENT}]
    /\ lock \in [Schedules -> Workers \cup {NoWorker}]
    /\ pc \in [Workers -> {"wait", "check", "begin", "stopped", "dead"} \cup InTx]
    /\ picked \in [Workers -> SUBSET Schedules]
    /\ surplus \in [Schedules -> Int]
    /\ undone \in [Schedules -> Nat]
    /\ ctxDone \in BOOLEAN
    /\ faults \in 0..MaxFaults

Init ==
    /\ now = 1
    /\ next = [s \in Schedules |-> ABSENT]
    /\ lock = [s \in Schedules |-> NoWorker]
    /\ pc = [w \in Workers |-> "check"]
    /\ picked = [w \in Workers |-> {}]
    /\ surplus = [s \in Schedules |-> 0]
    /\ undone = [s \in Schedules |-> 0]
    /\ ctxDone = FALSE
    /\ faults = 0

Fault == faults < MaxFaults /\ faults' = faults + 1

(* The connections that open transactions hold. *)
FreeConnection == Cardinality({w \in Workers : pc[w] \in InTx}) < PoolSize

Tick ==
    /\ now < MaxTime
    /\ now' = now + 1
    /\ UNCHANGED <<next, lock, pc, picked, surplus, undone, ctxDone, faults>>

-----------------------------------------------------------------------------
(* The table's other writers *)

(* scheduler.Schedule, the INSERT of the retention schedule: execute now. *)
Insert(s) ==
    /\ now < MaxTime
    /\ next[s] = ABSENT
    /\ next' = [next EXCEPT ![s] = now]
    /\ UNCHANGED <<now, lock, pc, picked, surplus, undone, ctxDone, faults>>

(* AssertRetentionScheduleWithSpec finds the row: ON CONFLICT DO UPDATE    *)
(* waits for the row lock and makes the schedule due again.                *)
Upsert(s) ==
    /\ now < MaxTime
    /\ s \in Cron
    /\ next[s] # ABSENT
    /\ lock[s] = NoWorker
    /\ next' = [next EXCEPT ![s] = now]
    /\ UNCHANGED <<now, lock, pc, picked, surplus, undone, ctxDone, faults>>

-----------------------------------------------------------------------------
(* Work and iteration *)

(* case <-ticker.C *)
StartIteration(w) ==
    /\ pc[w] = "wait"
    /\ pc' = [pc EXCEPT ![w] = "check"]
    /\ UNCHANGED <<now, next, lock, picked, surplus, undone, ctxDone, faults>>

(* Mutant: the cancellation starts another iteration. *)
ReturnFromWorkNever(w) ==
    /\ pc[w] = "wait"
    /\ ctxDone
    /\ pc' = [pc EXCEPT ![w] = "check"]
    /\ UNCHANGED <<now, next, lock, picked, surplus, undone, ctxDone, faults>>

(* case <-ctx.Done() *)
ReturnFromWork(w) ==
    /\ pc[w] = "wait"
    /\ ctxDone
    /\ pc' = [pc EXCEPT ![w] = "stopped"]
    /\ UNCHANGED <<now, next, lock, picked, surplus, undone, ctxDone, faults>>

(* The loop of iteration looks at the context before each scheduleTask. *)
CheckContext(w) ==
    /\ pc[w] = "check"
    /\ pc' = [pc EXCEPT ![w] = IF ctxDone THEN "wait" ELSE "begin"]
    /\ UNCHANGED <<now, next, lock, picked, surplus, undone, ctxDone, faults>>

(* A panic that nobody recovers, or a kill: the database rolls back. *)
ProcessDies ==
    /\ pc' = [w \in Workers |-> "dead"]
    /\ lock' = [s \in Schedules |-> NoWorker]
    /\ picked' = [w \in Workers |-> {}]
    /\ undone' = [s \in Schedules |->
                    undone[s] + Cardinality({w \in Workers : pc[w] = "advance" /\ s \in picked[w]})]
    /\ UNCHANGED <<now, next, surplus, ctxDone>>

Kill ==
    /\ Fault
    /\ \E w \in Workers : pc[w] # "dead"
    /\ ProcessDies

Restart ==
    /\ Fault
    /\ \A w \in Workers : pc[w] = "dead"
    /\ pc' = [w \in Workers |-> "check"]
    /\ ctxDone' = FALSE
    /\ UNCHANGED <<now, next, lock, picked, surplus, undone>>

CancelContext ==
    /\ ~ctxDone
    /\ ctxDone' = TRUE
    /\ UNCHANGED <<now, next, lock, pc, picked, surplus, undone, faults>>

-----------------------------------------------------------------------------
(* scheduleTask *)

(* BeginTx waits for a connection. *)
Begin(w) ==
    /\ pc[w] = "begin"
    /\ ~ctxDone
    /\ FreeConnection
    /\ pc' = [pc EXCEPT ![w] = "pick"]
    /\ UNCHANGED <<now, next, lock, picked, surplus, undone, ctxDone, faults>>

(* BeginTx fails; its error is not looked at and the nil transaction is    *)
(* used: a panic.                                                          *)
BeginFails(w) ==
    /\ pc[w] = "begin"
    /\ \/ ctxDone /\ UNCHANGED faults
       \/ Fault
    /\ ProcessDies

(* Commit or roll back: lock and connection are released.  Without an      *)
(* error the iteration goes on, else Work waits for the next tick.         *)
EndTx(w, stage) ==
    /\ pc' = [pc EXCEPT ![w] = stage]
    /\ lock' = [s \in Schedules |-> IF lock[s] = w THEN NoWorker ELSE lock[s]]
    /\ picked' = [picked EXCEPT ![w] = {}]

(* WHERE next_execution_time <= now *)
Due(s) == next[s] \in Nat /\ next[s] <= now

(* Mutant: rows that another worker has locked are not skipped. *)
VisibleLocked(s) == Due(s)

(* SKIP LOCKED *)
Visible(s) == Due(s) /\ lock[s] = NoWorker

(* ORDER BY next_execution_time LIMIT 1 *)
MostOverdue(s) ==
    Visible(s) /\ \A r \in Schedules : Visible(r) => next[s] <= next[r]

(* Mutant: the SELECT takes no row lock. *)
PickUnlocked(w, s) ==
    /\ pc[w] = "pick"
    /\ ~ctxDone
    /\ MostOverdue(s)
    /\ picked' = [picked EXCEPT ![w] = {s}]
    /\ pc' = [pc EXCEPT ![w] = "enqueue"]
    /\ UNCHANGED <<now, next, lock, surplus, undone, ctxDone, faults>>

Pick(w, s) ==
    /\ pc[w] = "pick"
    /\ ~ctxDone
    /\ MostOverdue(s)
    /\ lock' = [lock EXCEPT ![s] = w]
    /\ picked' = [picked EXCEPT ![w] = {s}]
    /\ pc' = [pc EXCEPT ![w] = "enqueue"]
    /\ UNCHANGED <<now, next, surplus, undone, ctxDone, faults>>

(* ErrScheduleQueueIsEmpty: roll back and take a break. *)
NothingDue(w) ==
    /\ pc[w] = "pick"
    /\ ~ctxDone
    /\ \A s \in Schedules : ~Visible(s)
    /\ EndTx(w, "wait")
    /\ UNCHANGED <<now, next, surplus, undone, ctxDone, faults>>

(* Mutant: FOR UPDATE *)
LockModeUpdate == "update"

(* FOR NO KEY UPDATE *)
LockMode == "no key update"

(* The foreign key of tasks.schedule_id needs FOR KEY SHARE on the row of  *)
(* the schedule, which the lock of this worker's own transaction admits.   *)
KeyShareGranted(s) == lock[s] = NoWorker \/ LockMode = "no key update"

Executing(w, s) == IF s \in picked[w] THEN 1 ELSE 0

(* queue.Enqueue: the INSERT takes a second connection. *)
Enqueue(w) ==
    /\ pc[w] = "enqueue"
    /\ ~ctxDone
    /\ FreeConnection
    /\ \A s \in picked[w] : KeyShareGranted(s)
    /\ surplus' = [s \in Schedules |-> surplus[s] + Executing(w, s)]
    /\ pc' = [pc EXCEPT ![w] = "advance"]
    /\ UNCHANGED <<now, next, lock, picked, undone, ctxDone, faults>>

(* The task is inserted but the answer is lost: roll back. *)
EnqueueUnanswered(w) ==
    /\ pc[w] = "enqueue"
    /\ ~ctxDone
    /\ FreeConnection
    /\ \A s \in picked[w] : KeyShareGranted(s)
    /\ Fault
    /\ surplus' = [s \in Schedules |-> surplus[s] + Executing(w, s)]
    /\ undone' = [s \in Schedules |-> undone[s] + Executing(w, s)]
    /\ EndTx(w, "wait")
    /\ UNCHANGED <<now, next, ctxDone>>

(* Mutant: the date may be the current one. *)
NextExecutionInclusive(s) ==
    IF s \notin Cron THEN NULL ELSE (now \div Period) * Period

(* cron Next is strictly later than now, and the zero time if there is no  *)
(* such date in the next five years; a one-time job is never due again.    *)
NextExecution(s) ==
    IF s \notin Cron THEN NULL
    ELSE IF s \in Impossible THEN 0
    ELSE (now \div Period + 1) * Period

(* UPDATE and COMMIT.  Work waits if the answer to the COMMIT is lost. *)
Advance(w, answered) ==
    /\ pc[w] = "advance"
    /\ ~ctxDone
    /\ next' = [s \in Schedules |-> IF s \in picked[w] THEN NextExecution(s) ELSE next[s]]
    /\ surplus' = [s \in Schedules |-> surplus[s] - Executing(w, s)]
    /\ \/ answered /\ EndTx(w, "check") /\ UNCHANGED faults
       \/ ~answered /\ EndTx(w, "wait") /\ Fault
    /\ UNCHANGED <<now, undone, ctxDone>>

(* A statement fails, always so with a cancelled context: roll back. *)
Fail(w) ==
    /\ pc[w] \in InTx
    /\ \/ ctxDone /\ UNCHANGED faults
       \/ Fault
    /\ undone' = [s \in Schedules |->
                    undone[s] + (IF pc[w] = "advance" THEN Executing(w, s) ELSE 0)]
    /\ EndTx(w, "wait")
    /\ UNCHANGED <<now, next, surplus, ctxDone>>

-----------------------------------------------------------------------------
Step(w) ==
    \/ StartIteration(w) \/ ReturnFromWork(w) \/ CheckContext(w)
    \/ Begin(w) \/ BeginFails(w)
    \/ \E s \in Schedules : Pick(w, s)
    \/ NothingDue(w)
    \/ Enqueue(w) \/ EnqueueUnanswered(w)
    \/ \E answered \in BOOLEAN : Advance(w, answered)
    \/ Fail(w)

Next ==
    \/ Tick
    \/ \E s \in Schedules : Insert(s) \/ Upsert(s)
    \/ \E w \in Workers : Step(w)
    \/ Kill \/ Restart \/ CancelContext

Spec == Init /\ [][Next]_vars

(* The clock and the workers' goroutines run, and the calls of a worker    *)
(* return.  A cancelled worker returns: a select that finds both the tick  *)
(* and the cancellation ready chooses at random.                           *)
FairSpec ==
    /\ Spec
    /\ WF_vars(Tick)
    /\ \A w \in Workers : WF_vars(Step(w)) /\ SF_vars(ReturnFromWork(w))

-----------------------------------------------------------------------------
(* Properties *)

(* Every due date of a schedule gives exactly one task: a date is never    *)
(* skipped (next_execution_time moves only after the task is in the queue) *)
(* and, whatever the workers and AssertRetentionSchedule do at the same    *)
(* time, a second task appears only when an execution was rolled back      *)
(* after its Enqueue had been committed on the other connection.           *)
OneTaskPerDueDate ==
    \A s \in Schedules : surplus[s] - undone[s] \in {0, 1}

(* The row a worker has picked stays locked and due until it records the   *)
(* execution: no other worker executed it and no upsert came between.      *)
PickedIsStillDue ==
    \A w \in Workers : \A s \in picked[w] : lock[s] = w /\ Due(s)

Down == \A w \in Workers : pc[w] = "dead"

(* A due schedule is executed, unless the workers are stopped: they do not *)
(* wait on each other, on the pool or on their own row lock for ever.      *)
DueIsExecuted ==
    \A s \in Schedules : Due(s) ~> (~Due(s) \/ ctxDone \/ Down)

(* An iteration ends: it schedules "until there is no task to schedule     *)
(* anymore, than it makes a break until the next tick".                    *)
IterationEnds ==
    \A w \in Workers : pc[w] = "check" ~> pc[w] \in {"wait", "stopped", "dead"}

(* When the context is cancelled every worker returns from Work or dies. *)
WorkersStop ==
    \A w \in Workers : ctxDone ~> (pc[w] \in {"stopped", "dead"} \/ ~ctxDone)

(* A row lock belongs to the transaction that executes the schedule, and   *)
(* only scheduleTask between its SELECT and its COMMIT executes one.       *)
LockedIsPicked ==
    /\ \A w \in Workers : pc[w] \notin {"enqueue", "advance"} => picked[w] = {}
    /\ \A w \in Workers, s \in Schedules : lock[s] = w => s \in picked[w]

(* The task of schedule s is in the queue and its execution not recorded. *)
Unrecorded(s) == \E w \in Workers : pc[w] = "advance" /\ s \in picked[w]

(* A task too many is one that a worker is about to record, or one whose   *)
(* execution was rolled back.                                              *)
SurplusIsUnrecorded ==
    \A s \in Schedules : surplus[s] - undone[s] = IF Unrecorded(s) THEN 1 ELSE 0

(* What scheduleTask keeps true at every step: the row it is executing is  *)
(* locked by it alone and still due, and only such a row can have a task   *)
(* that is not recorded yet.                                               *)
PickInv ==
    /\ TypeOK
    /\ PickedIsStillDue
    /\ LockedIsPicked
    /\ SurplusIsUnrecorded
=============================================================================
