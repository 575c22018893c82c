------------------------------ MODULE TaskQueue ------------------------------
(***************************************************************************)
(* The PostgreSQL task queue of pkg/queue/postgres: the `tasks` table, the *)
(* queuer that inserts rows, and the dequeuers that workers use to claim,  *)
(* heartbeat, finish and fail tasks.                                       *)
(*                                                                         *)
(* Every dequeuer call is a READ COMMITTED transaction of several SQL      *)
(* statements, and each statement is a step of its own: a statement sees   *)
(* the rows committed when it starts, and only a row lock (FOR UPDATE)     *)
(* keeps what it saw true until the commit.  The queue lists of            *)
(* attemptDequeue are read outside the transaction and without a lock.     *)
(*                                                                         *)
(* Task identifiers are given out in the order of created_at.  The spec,   *)
(* type, progress and reference columns do not influence any decision and  *)
(* are left out.                                                           *)
(***************************************************************************)
EXTENDS Integers

CONSTANTS
    Queues,        \* queue names
    Requests,      \* queue lists that callers pass to Dequeue, {} for "any queue"
    Workers,       \* processes that each drive one dequeuer
    HeartbeatTTL,  \* config.Queue.HeartbeatTTL, in clock units
    RetentionAge,  \* the age of the retention schedule, in clock units
    MaxTasks,      \* bound: rows ever inserted
    MaxTime,       \* bound: last value of the clock
    NoWorker       \* the holder of a row lock nobody holds

ASSUME TTLAssumption == HeartbeatTTL \in Nat \ {0}
ASSUME RetentionAssumption == RetentionAge \in Nat
ASSUME BoundsAssumption == MaxTasks \in Nat /\ MaxTime \in Nat
ASSUME QueuesAssumption == Queues # {}
ASSUME RequestsAssumption == Requests \subseteq SUBSET Queues
ASSUME WorkersAssumption == NoWorker \notin Workers

VARIABLES
    now,      \* the clock that time.Now() and SQL now() read
    created,  \* number of rows inserted so far, the largest task id
    present,  \* ids of the rows that are in the table
    tasks,    \* the columns of each row
    lock,     \* the worker whose transaction holds the row lock of each row
    pc,       \* what each worker does next
    at,       \* the local `now` of each worker's current call
    queues,   \* the queue list of each worker's attemptDequeue
    found,    \* rows its SELECT ... FOR UPDATE has found and not yet locked
    task,     \* the task each worker claims or works on, 0 for none
    op        \* the progress update each worker is executing

vars == <<now, created, present, tasks, lock, pc, at, queues, found, task, op>>

Ids == 1..MaxTasks

(* A NULL timestamp.  Every SQL comparison with NULL is not true. *)
NULL == -1
Time == Nat \cup {NULL}

(* task.go: TaskStatus *)
Status == {"waiting", "running", "cancelled", "finished", "failed"}

Row == [queue    : Queues,
        status   : Status,
        started  : Time,     \* started_at
        finished : Time,     \* finished_at
        beat     : Time]     \* last_heartbeat_at

Dequeuing == {"unfinished", "inflight", "select", "lock", "claim"}
Updating  == {"status", "write"}
Holding   == {"work", "drain"}
Ops       == {"heartbeat", "finish", "fail"}

TypeOK ==
    /\ now \in Nat
    /\ created \in 0..MaxTasks
    /\ present \subseteq 1..created
    /\ tasks \in [Ids -> Row]
    /\ lock \in [Ids -> Workers \cup {NoWorker}]
    /\ pc \in [Workers -> {"idle"} \cup Dequeuing \cup Updating \cup Holding]
    /\ at \in [Workers -> Nat]
    /\ queues \in [Workers -> SUBSET Queues]
    /\ found \in [Workers -> SUBSET Ids]
    /\ task \in [Workers -> Ids \cup {0}]
    /\ op \in [Workers -> Ops]

-----------------------------------------------------------------------------
(* The SQL conditions *)

(* assume a task has failed if there's no heartbeat after twice the ttl *)
DoubleTTL(t0) == t0 - 2 * HeartbeatTTL

Unfinished(row) == row.finished = NULL

Inflight(row, cutoff) ==
    row.beat # NULL /\ row.beat > cutoff /\ row.finished = NULL

(* The WHERE clause of attemptDequeue's SELECT, without the queue name. *)
Claimable(row, cutoff) ==
    \/ row.started = NULL
    \/ row.finished = NULL /\ row.beat # NULL /\ row.beat < cutoff

QueuesOf(Rows) == {tasks[t].queue : t \in Rows}

(* Mutant: the queues with a task inflight are not excluded. *)
ProcessableQueuesAll(inflight, potential) == inflight \cup potential

(* processableQueues *)
ProcessableQueues(inflight, potential) == potential \ inflight

(* Mutant: the status finished is not refused. *)
UpdatableFinished(status) == status \notin {"waiting", "cancelled"}

(* updateProgress goes on to write the row in these states. *)
Updatable(status) == status \notin {"waiting", "cancelled", "finished"}

NewRow(q) ==
    [queue |-> q, status |-> "waiting", started |-> NULL, finished |-> NULL, beat |-> NULL]

(* The queue column of the ids that are not in the table yet. *)
SomeQueue == CHOOSE q \in Queues : TRUE

-----------------------------------------------------------------------------
Init ==
    /\ now = 0
    /\ created = 0
    /\ present = {}
    /\ tasks = [t \in Ids |-> NewRow(SomeQueue)]
    /\ lock = [t \in Ids |-> NoWorker]
    /\ pc = [w \in Workers |-> "idle"]
    /\ at = [w \in Workers |-> 0]
    /\ queues = [w \in Workers |-> {}]
    /\ found = [w \in Workers |-> {}]
    /\ task = [w \in Workers |-> 0]
    /\ op = [w \in Workers |-> "heartbeat"]

Tick ==
    /\ now < MaxTime
    /\ now' = now + 1
    /\ UNCHANGED <<created, present, tasks, lock, pc, at, queues, found, task, op>>

(* queuer.Enqueue: one INSERT, committed on its own. *)
Enqueue(q) ==
    /\ created < MaxTasks
    /\ created' = created + 1
    /\ present' = present \cup {created + 1}
    /\ tasks' = [tasks EXCEPT ![created + 1] = NewRow(q)]
    /\ UNCHANGED <<now, lock, pc, at, queues, found, task, op>>

-----------------------------------------------------------------------------
(* attemptDequeue *)

BackToIdle(w) ==
    /\ pc' = [pc EXCEPT ![w] = "idle"]
    /\ found' = [found EXCEPT ![w] = {}]
    /\ queues' = [queues EXCEPT ![w] = {}]
    /\ task' = [task EXCEPT ![w] = 0]
    /\ at' = [at EXCEPT ![w] = 0]
    /\ op' = [op EXCEPT ![w] = "heartbeat"]

(* Read the clock and begin the transaction. *)
BeginDequeue(w, request) ==
    /\ pc[w] = "idle"
    /\ at' = [at EXCEPT ![w] = now]
    /\ queues' = [queues EXCEPT ![w] = request]
    /\ pc' = [pc EXCEPT ![w] = IF request = {} THEN "unfinished" ELSE "inflight"]
    /\ UNCHANGED <<now, created, present, tasks, lock, found, task, op>>

(* generateUnfinishedQueueList, on another connection *)
ListUnfinished(w) ==
    /\ pc[w] = "unfinished"
    /\ queues' = [queues EXCEPT ![w] = QueuesOf({t \in present : Unfinished(tasks[t])})]
    /\ pc' = [pc EXCEPT ![w] = "inflight"]
    /\ UNCHANGED <<now, created, present, tasks, lock, at, found, task, op>>

(* generateInflightQueueList, on another connection, and processableQueues *)
ListInflight(w) ==
    /\ pc[w] = "inflight"
    /\ LET inflight == QueuesOf({t \in present : Inflight(tasks[t], DoubleTTL(at[w]))})
       IN  queues' = [queues EXCEPT ![w] = ProcessableQueues(inflight, @)]
    /\ pc' = [pc EXCEPT ![w] = "select"]
    /\ UNCHANGED <<now, created, present, tasks, lock, at, found, task, op>>

(* No processable queue: commit and return no task. *)
NothingProcessable(w) ==
    /\ pc[w] = "select"
    /\ queues[w] = {}
    /\ BackToIdle(w)
    /\ UNCHANGED <<now, created, present, tasks, lock>>

(* The SELECT on a random queue finds the rows of its snapshot. *)
SelectCandidates(w, q) ==
    /\ pc[w] = "select"
    /\ q \in queues[w]
    /\ found' = [found EXCEPT ![w] =
                   {t \in present : tasks[t].queue = q /\ Claimable(tasks[t], DoubleTTL(at[w]))}]
    /\ pc' = [pc EXCEPT ![w] = "lock"]
    /\ UNCHANGED <<now, created, present, tasks, lock, at, queues, task, op>>

(* ORDER BY created_at DESC: the first row is the newest one. *)
FirstFound(w, t) ==
    t \in found[w] /\ \A u \in found[w] : u <= t

(* Mutant: the row is claimed as it was when the SELECT found it. *)
StillClaimableUnchecked(w, t) == t \in present /\ t \in found[w]

(* FOR UPDATE evaluates the WHERE clause again on the locked version. *)
StillClaimable(w, t) ==
    t \in present /\ Claimable(tasks[t], DoubleTTL(at[w]))

LockCandidate(w, t) ==
    /\ pc[w] = "lock"
    /\ FirstFound(w, t)
    /\ lock[t] = NoWorker
    /\ StillClaimable(w, t)
    /\ lock' = [lock EXCEPT ![t] = w]
    /\ task' = [task EXCEPT ![w] = t]
    /\ pc' = [pc EXCEPT ![w] = "claim"]
    /\ UNCHANGED <<now, created, present, tasks, at, queues, found, op>>

(* The row was claimed, updated or deleted while the SELECT waited for it. *)
SkipCandidate(w, t) ==
    /\ pc[w] = "lock"
    /\ FirstFound(w, t)
    /\ lock[t] = NoWorker
    /\ ~StillClaimable(w, t)
    /\ found' = [found EXCEPT ![w] = @ \ {t}]
    /\ UNCHANGED <<now, created, present, tasks, lock, pc, at, queues, task, op>>

(* sql.ErrNoRows: commit and return no task. *)
NoCandidate(w) ==
    /\ pc[w] = "lock"
    /\ found[w] = {}
    /\ BackToIdle(w)
    /\ UNCHANGED <<now, created, present, tasks, lock>>

(* Mutant: the claim sets no first heartbeat. *)
ClaimedRowSilent(row, t0) ==
    [row EXCEPT !.started = t0, !.status = "running"]

ClaimedRow(row, t0) ==
    [row EXCEPT !.started = t0, !.beat = t0, !.status = "running"]

(* UPDATE and COMMIT.  If the answer to the COMMIT is lost the row is      *)
(* claimed and Dequeue returns an error: nobody works on the task.         *)
Claim(w, acknowledged) ==
    /\ pc[w] = "claim"
    /\ tasks' = [tasks EXCEPT ![task[w]] = ClaimedRow(@, at[w])]
    /\ lock' = [lock EXCEPT ![task[w]] = NoWorker]
    /\ IF acknowledged
         THEN /\ pc' = [pc EXCEPT ![w] = "work"]
              /\ found' = [found EXCEPT ![w] = {}]
              /\ queues' = [queues EXCEPT ![w] = {}]
              /\ UNCHANGED <<at, task, op>>
         ELSE BackToIdle(w)
    /\ UNCHANGED <<now, created, present>>

-----------------------------------------------------------------------------
(* Heartbeat, Finish and Fail: updateProgress *)

(* Begin the transaction, then read the clock.  A worker whose heartbeat   *)
(* was refused waits for its handler and then only calls Finish or Fail.   *)
BeginUpdate(w, o) ==
    /\ pc[w] \in Holding
    /\ pc[w] = "drain" => o # "heartbeat"
    /\ op' = [op EXCEPT ![w] = o]
    /\ at' = [at EXCEPT ![w] = now]
    /\ pc' = [pc EXCEPT ![w] = "status"]
    /\ UNCHANGED <<now, created, present, tasks, lock, queues, found, task>>

(* SELECT status FOR UPDATE finds the row in a state it may write. *)
LockForUpdate(w) ==
    /\ pc[w] = "status"
    /\ task[w] \in present
    /\ lock[task[w]] = NoWorker
    /\ Updatable(tasks[task[w]].status)
    /\ lock' = [lock EXCEPT ![task[w]] = w]
    /\ pc' = [pc EXCEPT ![w] = "write"]
    /\ UNCHANGED <<now, created, present, tasks, at, queues, found, task, op>>

(* ErrTaskNotFound, ErrTaskNotRunning, ErrTaskCancelled, ErrTaskFinished *)
RefuseUpdate(w) ==
    /\ pc[w] = "status"
    /\ \/ task[w] \notin present
       \/ lock[task[w]] = NoWorker /\ ~Updatable(tasks[task[w]].status)
    /\ IF op[w] = "heartbeat"
         THEN pc' = [pc EXCEPT ![w] = "drain"] /\ UNCHANGED <<at, queues, found, task, op>>
         ELSE BackToIdle(w)
    /\ UNCHANGED <<now, created, present, tasks, lock>>

(* Mutant: Fail does not set finished_at. *)
UpdatedRowOpen(row, o, t0) ==
    CASE o = "heartbeat" -> [row EXCEPT !.beat = t0, !.status = "running"]
      [] o = "finish"    -> [row EXCEPT !.beat = t0, !.status = "finished", !.finished = t0]
      [] o = "fail"      -> [row EXCEPT !.beat = t0, !.status = "failed"]

UpdatedRow(row, o, t0) ==
    CASE o = "heartbeat" -> [row EXCEPT !.beat = t0, !.status = "running"]
      [] o = "finish"    -> [row EXCEPT !.beat = t0, !.status = "finished", !.finished = t0]
      [] o = "fail"      -> [row EXCEPT !.beat = t0, !.status = "failed", !.finished = t0]

(* UPDATE and COMMIT; Finish and Fail end the work on the task. *)
WriteUpdate(w) ==
    /\ pc[w] = "write"
    /\ tasks' = [tasks EXCEPT ![task[w]] = UpdatedRow(@, op[w], at[w])]
    /\ lock' = [lock EXCEPT ![task[w]] = NoWorker]
    /\ IF op[w] = "heartbeat"
         THEN pc' = [pc EXCEPT ![w] = "work"] /\ UNCHANGED <<at, queues, found, task, op>>
         ELSE BackToIdle(w)
    /\ UNCHANGED <<now, created, present>>

(* A statement fails, the context is cancelled or the process dies: the    *)
(* transaction is rolled back, its row lock is released and the worker     *)
(* starts over.  A task it was working on stays as it is.                  *)
Abort(w) ==
    /\ pc[w] # "idle"
    /\ lock' = [t \in Ids |-> IF lock[t] = w THEN NoWorker ELSE lock[t]]
    /\ BackToIdle(w)
    /\ UNCHANGED <<now, created, present, tasks>>

-----------------------------------------------------------------------------
(* The table's other writers *)

(* External: the user cancels a task; the library only reads the status.   *)
Cancel(t) ==
    /\ t \in present
    /\ lock[t] = NoWorker
    /\ tasks[t].status \in {"waiting", "running"}
    /\ tasks' = [tasks EXCEPT ![t].status = "cancelled"]
    /\ UNCHANGED <<now, created, present, lock, pc, at, queues, found, task, op>>

(* Mutant: the age of a task counts from created_at. *)
ExpiredByCreation(row, s) == row.status = s /\ RetentionAge <= now

(* createRetentionSpec: the DELETE of the retention task of one status. *)
Expired(row, s) ==
    row.status = s /\ row.finished # NULL /\ row.finished <= now - RetentionAge

Retention(s) ==
    LET expired == {t \in present : Expired(tasks[t], s)}
    IN  /\ expired # {}
        /\ \A t \in expired : lock[t] = NoWorker
        /\ present' = present \ expired
        /\ UNCHANGED <<now, created, tasks, lock, pc, at, queues, found, task, op>>

-----------------------------------------------------------------------------
Step(w) ==
    \/ \E request \in Requests : BeginDequeue(w, request)
    \/ ListUnfinished(w)
    \/ ListInflight(w)
    \/ NothingProcessable(w)
    \/ \E q \in Queues : SelectCandidates(w, q)
    \/ \E t \in Ids : LockCandidate(w, t) \/ SkipCandidate(w, t)
    \/ NoCandidate(w)
    \/ \E acknowledged \in BOOLEAN : Claim(w, acknowledged)
    \/ \E o \in Ops : BeginUpdate(w, o)
    \/ LockForUpdate(w)
    \/ RefuseUpdate(w)
    \/ WriteUpdate(w)
    \/ Abort(w)

Next ==
    \/ Tick
    \/ \E q \in Queues : Enqueue(q)
    \/ \E w \in Workers : Step(w)
    \/ \E t \in Ids : Cancel(t)
    \/ \E s \in Status : Retention(s)

Spec == Init /\ [][Next]_vars

(* The steps of an attemptDequeue that has begun and does not fail *)
Attempt(w) ==
    \/ ListUnfinished(w) \/ ListInflight(w)
    \/ NothingProcessable(w) \/ NoCandidate(w)
    \/ \E q \in Queues : SelectCandidates(w, q)
    \/ \E t \in Ids : LockCandidate(w, t) \/ SkipCandidate(w, t)
    \/ \E acknowledged \in BOOLEAN : Claim(w, acknowledged)

(* A worker without a task asks for any queue again and again, as the loop *)
(* of TaskWorker.Work does, and its calls return; the random choice takes  *)
(* no queue for ever at the expense of another; failures and crashes come  *)
(* to an end.  Nothing is assumed of the handlers and of the clock.        *)
FairSpec ==
    /\ Spec
    /\ \A w \in Workers :
         /\ SF_vars(BeginDequeue(w, {}))
         /\ WF_vars(Attempt(w))
         /\ \A q \in Queues : SF_vars(SelectCandidates(w, q))
         /\ <>[][Abort(w) => Attempt(w) \/ RefuseUpdate(w)]_vars

-----------------------------------------------------------------------------
(* Properties *)

(* The inductive invariant behind them.  A row lock belongs to the one     *)
(* transaction that is about to write the row; until it writes, the row    *)
(* stays in the table and stays what the transaction saw under the lock.   *)
LockOf(w) ==
    /\ \A t \in Ids : lock[t] = w <=> (pc[w] \in {"claim", "write"} /\ task[w] = t)
    /\ pc[w] \in {"claim", "write"} => task[w] \in present
    /\ pc[w] = "claim" => Claimable(tasks[task[w]], DoubleTTL(at[w]))
    /\ pc[w] = "write" => Updatable(tasks[task[w]].status)
    /\ at[w] <= now

LockInv == \A w \in Workers : LockOf(w)

(* How the timestamps of a row and its status depend on each other. *)
RowOK(row) ==
    /\ row.started = NULL <=> row.beat = NULL
    /\ row.status \in {"running", "finished", "failed"} => row.started # NULL
    /\ row.status \in {"finished", "failed"} => row.finished # NULL
    /\ row.finished # NULL => row.started # NULL
    /\ row.status = "waiting" => row.started = NULL

RowInv == \A t \in Ids : RowOK(tasks[t])

IndInv == TypeOK /\ LockInv /\ RowInv

(* A dequeuer that is about to write its claim holds the row lock, and the *)
(* row still is what its WHERE clause asked for: not started, or silent    *)
(* for longer than 2 * HeartbeatTTL.  Nobody claimed, updated or deleted   *)
(* it between the SELECT ... FOR UPDATE and the UPDATE of attemptDequeue.  *)
ClaimIsStillValid ==
    \A w \in Workers : pc[w] = "claim" =>
        /\ task[w] \in present
        /\ lock[task[w]] = w
        /\ Claimable(tasks[task[w]], DoubleTTL(at[w]))

(* A running task is taken over only when its row has had no heartbeat for *)
(* more than 2 * HeartbeatTTL, measured at the moment of the takeover and  *)
(* not at the moment the dequeuer looked: a heartbeat that arrives between *)
(* the SELECT and the row lock saves the task from a second worker.        *)
TakeoverOnlyWhenSilent ==
    [][\A t \in present :
         (tasks[t].started # NULL /\ tasks'[t].started # tasks[t].started)
            => tasks[t].beat < DoubleTTL(now)]_vars

(* Finished is final: once updateProgress has stored the status finished,  *)
(* no heartbeat, Finish, Fail, claim or cancellation of any worker changes *)
(* the row again; only retention removes it.                               *)
FinishedIsFinal ==
    [][\A t \in present : tasks[t].status = "finished" =>
         tasks'[t] = tasks[t]]_vars

(* The state of a task as a reader of the table sees it. *)
Life(t) ==
    IF t > created THEN "none" ELSE IF t \in present THEN tasks[t].status ELSE "deleted"

Lifecycle == INSTANCE TaskLifecycle WITH Tasks <- Ids, life <- [t \in Ids |-> Life(t)]

(* The queue implements the life cycle of TaskLifecycle. *)
ImplementsLifecycle == Lifecycle!Spec

(* The tasks of q that look alive to the other dequeuers. *)
Alive(q) == {t \in present : tasks[t].queue = q /\ Inflight(tasks[t], DoubleTTL(now))}

(* The unfinished tasks of q that were never started, or whose last        *)
(* heartbeat is more than 2 * HeartbeatTTL ago.                            *)
Neglected(q) ==
    {t \in present : /\ tasks[t].queue = q
                     /\ Unfinished(tasks[t])
                     /\ tasks[t].beat # NULL => tasks[t].beat < DoubleTTL(now)}

(* A task is never left behind: a queue with a task that nobody started,   *)
(* or whose worker died or never learned of its claim, does not stay like  *)
(* that while a dequeuer looks for work, unless another task of the queue  *)
(* is alive.  The two lists of attemptDequeue, the random choice and the   *)
(* WHERE clause must agree on who is silent: a row that is exactly at the  *)
(* boundary of the strict comparisons, neither inflight nor claimable, may *)
(* hold up an attempt but neither its queue nor another one for ever.      *)
NeglectedTasksAreTaken ==
    \A q \in Queues :
        Neglected(q) # {} ~>
            \/ Neglected(q) = {}
            \/ Alive(q) # {}
            \/ \A w \in Workers : pc[w] \in Holding \cup Updating

(* Dequeue "allows only one task per queue to be worked on at once".       *)
OneTaskPerQueue ==
    \A q \in Queues : \A t, u \in Alive(q) : t = u
=============================================================================
