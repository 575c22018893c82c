--------------------------- MODULE TaskQueueProofs ---------------------------
(***************************************************************************)
(* TaskQueue proved for every number of queues, workers, tasks and clock   *)
(* values.                                                                 *)
(***************************************************************************)
EXTENDS TaskQueue, TLAPS

(* A queue name exists for the rows that are not inserted yet. *)
LEMMA NewRowType ==
    /\ NewRow(SomeQueue) \in Row
    /\ \A q \in Queues : NewRow(q) \in Row
<1>1. SomeQueue \in Queues
  BY QueuesAssumption DEF SomeQueue
<1>2. QED
  BY <1>1 DEF NewRow, Row, Status, Time, NULL

(* What attemptDequeue and updateProgress write is a row again. *)
LEMMA WrittenRowType ==
    ASSUME NEW row \in Row, NEW t0 \in Nat, NEW o \in Ops
    PROVE  /\ ClaimedRow(row, t0) \in Row
           /\ UpdatedRow(row, o, t0) \in Row
BY DEF ClaimedRow, UpdatedRow, Row, Status, Time, NULL, Ops

(* The initial state satisfies the inductive invariant. *)
LEMMA InitIndInv == Init => IndInv
<1> SUFFICES ASSUME Init PROVE IndInv
  OBVIOUS
<1>1. TypeOK
  <2>1. tasks \in [Ids -> Row]
    BY NewRowType DEF Init
  <2>2. now \in Nat /\ created \in 0..MaxTasks /\ present \subseteq 1..created
    BY BoundsAssumption DEF Init
  <2>3. QED
    BY <2>1, <2>2 DEF Init, TypeOK, Ops
<1>2. LockInv
  <2> SUFFICES ASSUME NEW w \in Workers
               PROVE  /\ \A t \in Ids : lock[t] # w
                      /\ pc[w] \notin {"claim", "write"}
                      /\ at[w] <= now
    BY DEF LockInv, LockOf
  <2> QED
    BY WorkersAssumption DEF Init
<1>3. RowInv
  BY DEF Init, RowInv, RowOK, NewRow, NULL
<1>4. QED
  BY <1>1, <1>2, <1>3 DEF IndInv


(* A claim, a progress update and a cancellation leave the row consistent. *)
LEMMA WrittenRowOK ==
    ASSUME NEW row \in Row, RowOK(row), NEW t0 \in Nat, NEW o \in Ops
    PROVE  /\ Claimable(row, DoubleTTL(t0)) => RowOK(ClaimedRow(row, t0))
           /\ Updatable(row.status) => RowOK(UpdatedRow(row, o, t0))
           /\ RowOK([row EXCEPT !.status = "cancelled"])
BY DEF RowOK, Claimable, Updatable, ClaimedRow, UpdatedRow, Row, Status, Time, NULL, Ops

(* The type invariant survives every step; the lock invariant is needed to *)
(* know that a claimed or updated task id is a row of the table.           *)
LEMMA TypeStep == IndInv /\ [Next]_vars => TypeOK'
<1> SUFFICES ASSUME IndInv, [Next]_vars PROVE TypeOK'
  OBVIOUS
<1> USE DEF IndInv
<1>0. /\ 0 \in Nat /\ "idle" \in {"idle"} \cup Dequeuing \cup Updating \cup Holding
      /\ "heartbeat" \in Ops
  BY DEF Ops
<1>1. CASE Tick
  BY <1>1 DEF Tick, TypeOK
<1>2. ASSUME NEW q \in Queues, Enqueue(q) PROVE TypeOK'
  <2>1. created + 1 \in Ids /\ NewRow(q) \in Row
    BY <1>2, NewRowType, BoundsAssumption DEF Enqueue, TypeOK, Ids
  <2>2. present' \subseteq 1..created'
    BY <1>2, <2>1 DEF Enqueue, TypeOK
  <2>3. QED
    BY <1>2, <2>1, <2>2, BoundsAssumption DEF Enqueue, TypeOK, Ids
<1>3. ASSUME NEW w \in Workers, Step(w) PROVE TypeOK'
  <2>1. ASSUME NEW r \in Requests, BeginDequeue(w, r) PROVE TypeOK'
    BY <2>1, RequestsAssumption DEF BeginDequeue, TypeOK, Dequeuing
  <2>2. CASE ListUnfinished(w)
    <3>1. QueuesOf({t \in present : Unfinished(tasks[t])}) \subseteq Queues
      BY BoundsAssumption DEF QueuesOf, TypeOK, Ids, Row
    <3>2. QED
      BY <2>2, <3>1 DEF ListUnfinished, TypeOK, Dequeuing
  <2>3. CASE ListInflight(w)
    BY <2>3 DEF ListInflight, ProcessableQueues, TypeOK, Dequeuing
  <2>4. CASE NothingProcessable(w)
    BY <1>0, <2>4 DEF NothingProcessable, BackToIdle, TypeOK
  <2>5. ASSUME NEW q \in Queues, SelectCandidates(w, q) PROVE TypeOK'
    <3>1. present \subseteq Ids
      BY BoundsAssumption DEF TypeOK, Ids
    <3>2. found' \in [Workers -> SUBSET Ids]
      BY <2>5, <3>1 DEF SelectCandidates, TypeOK
    <3>3. QED
      BY <2>5, <3>2 DEF SelectCandidates, TypeOK, Dequeuing
  <2>6. ASSUME NEW t \in Ids, LockCandidate(w, t) PROVE TypeOK'
    BY <2>6 DEF LockCandidate, TypeOK, Dequeuing
  <2>7. ASSUME NEW t \in Ids, SkipCandidate(w, t) PROVE TypeOK'
    BY <2>7 DEF SkipCandidate, TypeOK
  <2>8. CASE NoCandidate(w)
    BY <1>0, <2>8 DEF NoCandidate, BackToIdle, TypeOK
  <2>9. ASSUME NEW a \in BOOLEAN, Claim(w, a) PROVE TypeOK'
    <3>1. task[w] \in Ids /\ ClaimedRow(tasks[task[w]], at[w]) \in Row
      BY <2>9, WrittenRowType, BoundsAssumption DEF Claim, LockInv, LockOf, TypeOK, Ids, Ops
    <3>2. /\ tasks' \in [Ids -> Row]
          /\ lock' \in [Ids -> Workers \cup {NoWorker}]
      BY <2>9, <3>1 DEF Claim, TypeOK
    <3>3. QED
      BY <1>0, <2>9, <3>2 DEF Claim, BackToIdle, TypeOK, Holding
  <2>10. ASSUME NEW o \in Ops, BeginUpdate(w, o) PROVE TypeOK'
    BY <2>10 DEF BeginUpdate, TypeOK, Updating
  <2>11. CASE LockForUpdate(w)
    BY <2>11 DEF LockForUpdate, TypeOK, Updating
  <2>12. CASE RefuseUpdate(w)
    BY <1>0, <2>12 DEF RefuseUpdate, BackToIdle, TypeOK, Holding
  <2>13. CASE WriteUpdate(w)
    <3>1. task[w] \in Ids /\ UpdatedRow(tasks[task[w]], op[w], at[w]) \in Row
      BY <2>13, WrittenRowType, BoundsAssumption DEF WriteUpdate, LockInv, LockOf, TypeOK, Ids
    <3>2. /\ tasks' \in [Ids -> Row]
          /\ lock' \in [Ids -> Workers \cup {NoWorker}]
      BY <2>13, <3>1 DEF WriteUpdate, TypeOK
    <3>3. QED
      BY <1>0, <2>13, <3>2 DEF WriteUpdate, BackToIdle, TypeOK, Holding
  <2>14. CASE Abort(w)
    BY <1>0, <2>14 DEF Abort, BackToIdle, TypeOK
  <2>15. QED
    BY <1>3, <2>1, <2>2, <2>3, <2>4, <2>5, <2>6, <2>7, <2>8, <2>9, <2>10, <2>11, <2>12,
       <2>13, <2>14 DEF Step
<1>4. ASSUME NEW t \in Ids, Cancel(t) PROVE TypeOK'
  BY <1>4 DEF Cancel, TypeOK, Row, Status
<1>5. ASSUME NEW s \in Status, Retention(s) PROVE TypeOK'
  BY <1>5 DEF Retention, TypeOK
<1>6. CASE UNCHANGED vars
  BY <1>6 DEF vars, TypeOK
<1>7. QED
  BY <1>1, <1>2, <1>3, <1>4, <1>5, <1>6 DEF Next


(* A step that leaves the clock going and a worker's own state alone, and  *)
(* does not touch the row this worker has locked, keeps its lock valid.    *)
LEMMA OtherLock ==
    ASSUME TypeOK, NEW v \in Workers, LockOf(v),
           now <= now', now' \in Nat,
           pc'[v] = pc[v], task'[v] = task[v], at'[v] = at[v],
           \A t \in Ids : lock'[t] = v <=> lock[t] = v,
           \A t \in Ids : lock[t] = v => t \in present' /\ tasks'[t] = tasks[t]
    PROVE  LockOf(v)'
<1>1. pc[v] \in {"claim", "write"} =>
        task[v] \in Ids /\ task[v] \in present' /\ tasks'[task[v]] = tasks[task[v]]
  BY BoundsAssumption DEF LockOf, TypeOK, Ids
<1>2. at[v] <= now'
  BY DEF LockOf, TypeOK
<1>3. QED
  BY <1>1, <1>2 DEF LockOf

(* Every transaction that is about to write keeps its row lock, and what   *)
(* it saw under the lock stays true.                                       *)
LEMMA LockStep == IndInv /\ [Next]_vars => LockInv'
<1> SUFFICES ASSUME IndInv, [Next]_vars, NEW v \in Workers PROVE LockOf(v)'
  BY DEF LockInv
<1>a. TypeOK /\ TypeOK' /\ LockOf(v)
  BY TypeStep DEF IndInv, LockInv
<1>b. present \subseteq Ids /\ NoWorker # v
  BY <1>a, BoundsAssumption, WorkersAssumption DEF TypeOK, Ids
<1>1. CASE Tick
  BY <1>1, <1>a, <1>b, OtherLock DEF Tick, TypeOK, LockOf
<1>2. ASSUME NEW q \in Queues, Enqueue(q) PROVE LockOf(v)'
  <2>1. created + 1 \notin present
    BY <1>a DEF TypeOK
  <2>2. \A t \in Ids : lock[t] = v => t \in present
    BY <1>a DEF LockOf
  <2>3. \A t \in Ids : lock[t] = v => t \in present' /\ tasks'[t] = tasks[t]
    BY <1>2, <1>a, <2>1, <2>2 DEF Enqueue, TypeOK
  <2>4. QED
    BY <1>2, <1>a, <2>3, OtherLock DEF Enqueue, TypeOK
<1>3. ASSUME NEW w \in Workers, Step(w) PROVE LockOf(v)'
  <2>a. ASSUME w # v PROVE LockOf(v)'
    <3>1. now' = now /\ present' = present
      BY <1>3 DEF Step, BeginDequeue, ListUnfinished, ListInflight, NothingProcessable,
           SelectCandidates, LockCandidate, SkipCandidate, NoCandidate, Claim, BeginUpdate,
           LockForUpdate, RefuseUpdate, WriteUpdate, Abort
    <3>2. pc'[v] = pc[v] /\ task'[v] = task[v] /\ at'[v] = at[v]
      BY <1>3, <1>a, <2>a DEF Step, BeginDequeue, ListUnfinished, ListInflight,
           NothingProcessable, SelectCandidates, LockCandidate, SkipCandidate, NoCandidate,
           Claim, BeginUpdate, LockForUpdate, RefuseUpdate, WriteUpdate, Abort, BackToIdle, TypeOK
    <3>3. LockOf(w)
      BY DEF IndInv, LockInv
    <3>4. /\ \A t \in Ids : lock'[t] = v <=> lock[t] = v
          /\ \A t \in Ids : lock[t] = v => tasks'[t] = tasks[t]
      <4>1. CASE \E t \in Ids : LockCandidate(w, t)
        BY <4>1, <1>a, <1>b, <2>a DEF LockCandidate, TypeOK
      <4>2. CASE LockForUpdate(w)
        BY <4>2, <1>a, <1>b, <2>a DEF LockForUpdate, TypeOK
      <4>3. CASE \E a \in BOOLEAN : Claim(w, a)
        BY <4>3, <1>a, <1>b, <2>a, <3>3 DEF Claim, TypeOK, LockOf
      <4>4. CASE WriteUpdate(w)
        BY <4>4, <1>a, <1>b, <2>a, <3>3 DEF WriteUpdate, TypeOK, LockOf
      <4>5. CASE Abort(w)
        BY <4>5, <1>a, <1>b, <2>a DEF Abort, TypeOK
      <4>6. CASE UNCHANGED <<lock, tasks>>
        BY <4>6
      <4>7. QED
        BY <1>3, <4>1, <4>2, <4>3, <4>4, <4>5, <4>6 DEF Step, BeginDequeue, ListUnfinished,
           ListInflight, NothingProcessable, SelectCandidates, SkipCandidate, NoCandidate,
           BeginUpdate, RefuseUpdate
    <3>5. \A t \in Ids : lock[t] = v => t \in present
      BY <1>a DEF LockOf
    <3>6. QED
      BY <1>a, <3>1, <3>2, <3>4, <3>5, OtherLock DEF TypeOK
  <2>b. ASSUME w = v PROVE LockOf(v)'
    <3>0. (\A t \in Ids : lock[t] # v) <=> pc[v] \notin {"claim", "write"}
      BY <1>a, <1>b DEF LockOf, TypeOK
    <3>1. CASE pc'[v] \notin {"claim", "write"} /\ at'[v] \in {at[v], now, 0} /\ now' = now
                /\ \A t \in Ids : lock'[t] # v
      BY <1>a, <3>1 DEF LockOf, TypeOK
    <3>2. CASE \E t \in Ids : LockCandidate(v, t)
      BY <3>2, <3>0, <1>a, <1>b DEF LockCandidate, StillClaimable, LockOf, TypeOK
    <3>3. CASE LockForUpdate(v)
      BY <3>3, <3>0, <1>a, <1>b DEF LockForUpdate, LockOf, TypeOK
    <3>4. CASE \E a \in BOOLEAN : Claim(v, a)
      BY <3>4, <1>a, <1>b, <3>1 DEF Claim, BackToIdle, LockOf, TypeOK
    <3>5. CASE WriteUpdate(v)
      BY <3>5, <1>a, <1>b, <3>1 DEF WriteUpdate, BackToIdle, LockOf, TypeOK
    <3>6. CASE Abort(v)
      BY <3>6, <1>a, <1>b, <3>1 DEF Abort, BackToIdle, LockOf, TypeOK
    <3>7. CASE RefuseUpdate(v) \/ \E o \in Ops : BeginUpdate(v, o)
      BY <3>7, <1>a, <1>b, <3>0, <3>1 DEF RefuseUpdate, BeginUpdate, BackToIdle, TypeOK, Holding
    <3>8. CASE \/ \E r \in Requests : BeginDequeue(v, r)
               \/ ListUnfinished(v) \/ ListInflight(v)
               \/ \E q \in Queues : SelectCandidates(v, q)
               \/ \E t \in Ids : SkipCandidate(v, t)
      BY <3>8, <1>a, <1>b, <3>0, <3>1 DEF BeginDequeue, ListUnfinished, ListInflight,
           SelectCandidates, SkipCandidate, TypeOK
    <3>9. CASE NothingProcessable(v) \/ NoCandidate(v)
      BY <3>9, <1>a, <1>b, <3>0, <3>1 DEF NothingProcessable, NoCandidate, BackToIdle, TypeOK
    <3>10. QED
      BY <1>3, <2>b, <3>2, <3>3, <3>4, <3>5, <3>6, <3>7, <3>8, <3>9 DEF Step
  <2>c. QED
    BY <2>a, <2>b
<1>4. ASSUME NEW t \in Ids, Cancel(t) PROVE LockOf(v)'
  <2>1. \A u \in Ids : lock[u] = v => u \in present' /\ tasks'[u] = tasks[u]
    BY <1>4, <1>a, <1>b DEF Cancel, LockOf, TypeOK
  <2>2. QED
    BY <1>4, <1>a, <2>1, OtherLock DEF Cancel, TypeOK
<1>5. ASSUME NEW s \in Status, Retention(s) PROVE LockOf(v)'
  <2>1. \A u \in Ids : lock[u] = v => u \in present' /\ tasks'[u] = tasks[u]
    BY <1>5, <1>a, <1>b DEF Retention, LockOf
  <2>2. QED
    BY <1>5, <1>a, <2>1, OtherLock DEF Retention, TypeOK
<1>6. CASE UNCHANGED vars
  BY <1>6, <1>a DEF vars, LockOf
<1>7. QED
  BY <1>1, <1>2, <1>3, <1>4, <1>5, <1>6 DEF Next

(* The only ways a row changes: it is inserted, claimed while its claim is *)
(* valid, updated by updateProgress, or cancelled.                         *)
RowChanges(u) ==
    \/ tasks'[u] = tasks[u]
    \/ u \notin present /\ u = created + 1 /\ \E q \in Queues : tasks'[u] = NewRow(q)
    \/ \E w \in Workers :
         /\ u \in present /\ Claimable(tasks[u], DoubleTTL(at[w]))
         /\ tasks'[u] = ClaimedRow(tasks[u], at[w])
    \/ \E w \in Workers :
         /\ u \in present /\ Updatable(tasks[u].status)
         /\ tasks'[u] = UpdatedRow(tasks[u], op[w], at[w])
    \/ /\ u \in present /\ tasks[u].status \in {"waiting", "running"}
       /\ tasks'[u] = [tasks[u] EXCEPT !.status = "cancelled"]

(* Every step changes every row in one of these ways. *)
LEMMA RowStepCases ==
    ASSUME IndInv, [Next]_vars, NEW u \in Ids
    PROVE  RowChanges(u)
<1>a. TypeOK /\ created + 1 \notin present
  BY DEF IndInv, TypeOK
<1>1. ASSUME NEW q \in Queues, Enqueue(q) PROVE RowChanges(u)
  BY <1>1, <1>a DEF Enqueue, TypeOK, RowChanges
<1>2. ASSUME NEW w \in Workers, NEW a \in BOOLEAN, Claim(w, a) PROVE RowChanges(u)
  <2>1. task[w] \in present /\ Claimable(tasks[task[w]], DoubleTTL(at[w]))
    BY <1>2 DEF Claim, IndInv, LockInv, LockOf
  <2>2. tasks'[u] = IF u = task[w] THEN ClaimedRow(tasks[u], at[w]) ELSE tasks[u]
    BY <1>2, <1>a DEF Claim, TypeOK
  <2>3. QED
    BY <2>1, <2>2 DEF RowChanges
<1>3. ASSUME NEW w \in Workers, WriteUpdate(w) PROVE RowChanges(u)
  <2>1. task[w] \in present /\ Updatable(tasks[task[w]].status)
    BY <1>3 DEF WriteUpdate, IndInv, LockInv, LockOf
  <2>2. tasks'[u] = IF u = task[w] THEN UpdatedRow(tasks[u], op[w], at[w]) ELSE tasks[u]
    BY <1>3, <1>a DEF WriteUpdate, TypeOK
  <2>3. QED
    BY <2>1, <2>2 DEF RowChanges
<1>4. ASSUME NEW t \in Ids, Cancel(t) PROVE RowChanges(u)
  BY <1>4, <1>a DEF Cancel, TypeOK, RowChanges
<1>5. CASE UNCHANGED tasks
  BY <1>5 DEF RowChanges
<1>6. QED
  BY <1>1, <1>2, <1>3, <1>4, <1>5 DEF Next, Step, vars, Tick, BeginDequeue, ListUnfinished,
     ListInflight, NothingProcessable, SelectCandidates, LockCandidate, SkipCandidate,
     NoCandidate, BeginUpdate, LockForUpdate, RefuseUpdate, Abort, Retention

(* Every written row stays consistent. *)
LEMMA RowStep == IndInv /\ [Next]_vars => RowInv'
<1> SUFFICES ASSUME IndInv, [Next]_vars, NEW u \in Ids PROVE RowOK(tasks'[u])
  BY DEF RowInv
<1>1. RowOK(tasks[u]) /\ tasks[u] \in Row /\ at \in [Workers -> Nat] /\ op \in [Workers -> Ops]
  BY DEF IndInv, RowInv, TypeOK
<1>2. \A q \in Queues : RowOK(NewRow(q))
  BY DEF RowOK, NewRow, NULL
<1>3. RowChanges(u)
  BY RowStepCases
<1>4. QED
  BY <1>1, <1>2, <1>3, WrittenRowOK DEF RowChanges, Ops

(* The inductive invariant holds in every reachable state. *)
THEOREM Invariance == Spec => []IndInv
<1>1. Init => IndInv
  BY InitIndInv
<1>2. IndInv /\ [Next]_vars => IndInv'
  BY TypeStep, LockStep, RowStep DEF IndInv
<1>3. QED
  BY <1>1, <1>2, PTL DEF Spec

(* Type correctness: every column, lock and local variable of the queue    *)
(* keeps its type.                                                         *)
THEOREM TypeCorrect == Spec => []TypeOK
<1>1. IndInv => TypeOK
  BY DEF IndInv
<1>2. QED
  BY <1>1, Invariance, PTL

(* The claim a dequeuer writes is still valid when it writes it, however   *)
(* many workers race for the row.                                          *)
THEOREM ClaimSafe == Spec => []ClaimIsStillValid
<1>1. IndInv => ClaimIsStillValid
  <2> SUFFICES ASSUME IndInv, NEW w \in Workers, pc[w] = "claim"
               PROVE  /\ task[w] \in present
                      /\ lock[task[w]] = w
                      /\ Claimable(tasks[task[w]], DoubleTTL(at[w]))
    BY DEF ClaimIsStillValid
  <2>1. LockOf(w) /\ TypeOK
    BY DEF IndInv, LockInv
  <2>2. task[w] \in Ids
    BY <2>1, BoundsAssumption DEF LockOf, TypeOK, Ids
  <2>3. QED
    BY <2>1, <2>2 DEF LockOf
<1>2. QED
  BY <1>1, Invariance, PTL

(* No heartbeat lies in the future, and no unfinished row is beyond the    *)
(* reach of attemptDequeue for longer than 2 * HeartbeatTTL: the SELECT of *)
(* a dequeuer that reads the clock right after that matches it, unless a   *)
(* worker has renewed the heartbeat or finished the task by then.          *)
BeatsArePast == \A t \in Ids : tasks[t].beat <= now

ClaimableInTime ==
    \A t \in Ids : Unfinished(tasks[t]) =>
        Claimable(tasks[t], DoubleTTL(now + 2 * HeartbeatTTL + 1))

(* Heartbeats are written with the time that the call has read. *)
LEMMA BeatStep == IndInv /\ BeatsArePast /\ [Next]_vars => BeatsArePast'
<1> SUFFICES ASSUME IndInv, BeatsArePast, [Next]_vars, NEW u \in Ids
             PROVE  tasks'[u].beat <= now'
  BY DEF BeatsArePast
<1>1. now \in Nat /\ now' \in Nat /\ now <= now'
  <2>1. now \in Nat
    BY DEF IndInv, TypeOK
  <2>2. Tick \/ now' = now
    BY DEF Next, Step, vars, Enqueue, BeginDequeue, ListUnfinished,
       ListInflight, NothingProcessable, SelectCandidates, LockCandidate, SkipCandidate,
       NoCandidate, Claim, BeginUpdate, LockForUpdate, RefuseUpdate, WriteUpdate, Abort,
       Cancel, Retention
  <2>3. QED
    BY <2>1, <2>2 DEF Tick
<1>2. tasks[u] \in Row /\ tasks[u].beat \in Int /\ tasks[u].beat <= now
  BY DEF IndInv, TypeOK, BeatsArePast, Row, Time, NULL
<1>3. \A w \in Workers : op[w] \in Ops /\ at[w] \in Nat /\ at[w] <= now
  BY DEF IndInv, TypeOK, LockInv, LockOf
<1>4. \/ tasks'[u].beat = tasks[u].beat
      \/ tasks'[u].beat = NULL
      \/ \E w \in Workers : tasks'[u].beat = at[w]
  <2>1. \A q \in Queues : NewRow(q).beat = NULL
    BY DEF NewRow
  <2>2. \A w \in Workers : ClaimedRow(tasks[u], at[w]).beat = at[w]
    BY <1>2 DEF ClaimedRow, Row
  <2>3. \A w \in Workers : UpdatedRow(tasks[u], op[w], at[w]).beat = at[w]
    BY <1>2, <1>3 DEF UpdatedRow, Row, Ops
  <2>4. [tasks[u] EXCEPT !.status = "cancelled"].beat = tasks[u].beat
    BY <1>2 DEF Row
  <2>5. RowChanges(u)
    BY RowStepCases
  <2>6. CASE \E w \in Workers : \/ tasks'[u] = ClaimedRow(tasks[u], at[w])
                                \/ tasks'[u] = UpdatedRow(tasks[u], op[w], at[w])
    BY <2>2, <2>3, <2>6
  <2>7. CASE \E q \in Queues : tasks'[u] = NewRow(q)
    BY <2>1, <2>7
  <2>8. QED
    BY <2>4, <2>5, <2>6, <2>7 DEF RowChanges
<1>5. QED
  BY <1>1, <1>2, <1>3, <1>4 DEF NULL

(* A task whose worker died, or that was claimed without an answer, is     *)
(* claimable again 2 * HeartbeatTTL after now at the latest.               *)
THEOREM RecoveredInTime == Spec => []ClaimableInTime
<1>1. Init => BeatsArePast
  BY DEF Init, BeatsArePast, NewRow, NULL
<1>2. IndInv /\ BeatsArePast => ClaimableInTime
  <2> SUFFICES ASSUME IndInv, BeatsArePast, NEW t \in Ids, Unfinished(tasks[t])
               PROVE  Claimable(tasks[t], DoubleTTL(now + 2 * HeartbeatTTL + 1))
    BY DEF ClaimableInTime
  <2>1. RowOK(tasks[t]) /\ tasks[t].beat \in Int /\ tasks[t].beat <= now /\ now \in Nat
    BY DEF IndInv, RowInv, TypeOK, Row, Time, NULL, BeatsArePast
  <2>2. tasks[t].beat < DoubleTTL(now + 2 * HeartbeatTTL + 1)
    BY <2>1, TTLAssumption DEF DoubleTTL
  <2>3. QED
    BY <2>1, <2>2 DEF RowOK, Claimable, Unfinished
<1>3. QED
  BY <1>1, <1>2, Invariance, BeatStep, PTL DEF Spec

(* A finished task is never written again. *)
THEOREM FinishedFinal == Spec => FinishedIsFinal
<1>1. IndInv /\ [Next]_vars =>
        [\A t \in present : tasks[t].status = "finished" => tasks'[t] = tasks[t]]_vars
  <2> SUFFICES ASSUME IndInv, [Next]_vars, NEW t \in present, tasks[t].status = "finished"
               PROVE  tasks'[t] = tasks[t]
    OBVIOUS
  <2>1. t \in Ids
    BY BoundsAssumption DEF IndInv, TypeOK, Ids
  <2>2. RowOK(tasks[t]) /\ RowChanges(t)
    BY <2>1, RowStepCases DEF IndInv, RowInv
  <2>3. QED
    BY <2>2 DEF RowChanges, RowOK, Claimable, Updatable
<1>2. QED
  BY <1>1, Invariance, PTL DEF Spec, FinishedIsFinal

(* A started task changes hands only after 2 * HeartbeatTTL of silence. *)
THEOREM TakeoverSafe == Spec => TakeoverOnlyWhenSilent
<1>1. IndInv /\ [Next]_vars =>
        [\A t \in present :
           (tasks[t].started # NULL /\ tasks'[t].started # tasks[t].started)
             => tasks[t].beat < DoubleTTL(now)]_vars
  <2> SUFFICES ASSUME IndInv, [Next]_vars, NEW t \in present,
                      tasks[t].started # NULL, tasks'[t].started # tasks[t].started
               PROVE  tasks[t].beat < DoubleTTL(now)
    OBVIOUS
  <2>1. t \in Ids /\ tasks[t] \in Row
    BY BoundsAssumption DEF IndInv, TypeOK, Ids
  <2>2. \A w \in Workers : op[w] \in Ops /\ at[w] \in Nat /\ at[w] <= now /\ now \in Nat
    BY DEF IndInv, TypeOK, LockInv, LockOf
  <2>3. \A w \in Workers : UpdatedRow(tasks[t], op[w], at[w]).started = tasks[t].started
    BY <2>1, <2>2 DEF UpdatedRow, Row, Ops
  <2>4. [tasks[t] EXCEPT !.status = "cancelled"].started = tasks[t].started
    BY <2>1 DEF Row
  <2>5. PICK w \in Workers : Claimable(tasks[t], DoubleTTL(at[w]))
    BY <2>1, <2>3, <2>4, RowStepCases DEF RowChanges
  <2>6. tasks[t].beat \in Nat /\ tasks[t].beat < DoubleTTL(at[w])
    BY <2>1, <2>5 DEF Claimable, Row, Time
  <2>7. QED
    BY <2>2, <2>6, TTLAssumption DEF DoubleTTL
<1>2. QED
  BY <1>1, Invariance, PTL DEF Spec, TakeoverOnlyWhenSilent

(* The status of a task moves as RowChanges allows while the row stays in  *)
(* the table.                                                              *)
LEMMA LifeOfChange ==
    ASSUME IndInv, NEW u \in Ids, u \in present, u \in present', created' >= created,
           created' \in Nat, RowChanges(u)
    PROVE  \/ Life(u)' = Life(u)
           \/ Life(u) \in {"waiting", "running", "cancelled"} /\ Life(u)' = "running"
           \/ Life(u) \in {"running", "failed"} /\ Life(u)' \in {"running", "finished", "failed"}
           \/ Life(u) \in {"waiting", "running"} /\ Life(u)' = "cancelled"
<1>1. Life(u) = tasks[u].status /\ Life(u)' = tasks'[u].status
  BY DEF Life, IndInv, TypeOK, Ids
<1>2. tasks[u] \in Row /\ RowOK(tasks[u]) /\ \A w \in Workers : op[w] \in Ops
  BY DEF IndInv, TypeOK, RowInv
<1>3. tasks[u].status \in Status
  BY <1>2 DEF Row
<1>4. CASE tasks'[u] = tasks[u]
  BY <1>1, <1>4
<1>5. ASSUME NEW w \in Workers, Claimable(tasks[u], DoubleTTL(at[w])),
             tasks'[u] = ClaimedRow(tasks[u], at[w])
      PROVE  Life(u) \in {"waiting", "running", "cancelled"} /\ Life(u)' = "running"
  <2>1. tasks[u].status \notin {"finished", "failed"}
    BY <1>2, <1>5 DEF RowOK, Claimable
  <2>2. tasks'[u].status = "running"
    BY <1>2, <1>5 DEF ClaimedRow, Row
  <2>3. QED
    BY <1>1, <1>3, <2>1, <2>2 DEF Status
<1>6. ASSUME NEW w \in Workers, Updatable(tasks[u].status),
             tasks'[u] = UpdatedRow(tasks[u], op[w], at[w])
      PROVE  Life(u) \in {"running", "failed"} /\ Life(u)' \in {"running", "finished", "failed"}
  <2>1. tasks'[u].status \in {"running", "finished", "failed"}
    BY <1>2, <1>6 DEF UpdatedRow, Row, Ops
  <2>2. QED
    BY <1>1, <1>3, <1>6, <2>1 DEF Updatable, Status
<1>7. ASSUME tasks[u].status \in {"waiting", "running"},
             tasks'[u] = [tasks[u] EXCEPT !.status = "cancelled"]
      PROVE  Life(u) \in {"waiting", "running"} /\ Life(u)' = "cancelled"
  BY <1>1, <1>2, <1>7 DEF Row
<1>8. QED
  BY <1>4, <1>5, <1>6, <1>7 DEF RowChanges

(* The queue implements the abstract life cycle: initial states map to     *)
(* initial states and every step of every worker, queuer, user and         *)
(* retention task maps to one abstract step or to none.                    *)
THEOREM LifecycleRefinement == Spec => ImplementsLifecycle
<1> DEFINE life == [t \in Ids |-> Life(t)]
<1>1. Init => Lifecycle!Init
  BY BoundsAssumption DEF Init, Lifecycle!Init, Life, Ids
<1>2. IndInv /\ [Next]_vars => [Lifecycle!Next]_life
  <2> SUFFICES ASSUME IndInv, [Next]_vars PROVE Lifecycle!Next \/ life' = life
    OBVIOUS
  <2>a. TypeOK /\ TypeOK' /\ present \subseteq Ids /\ created \in Nat /\ Ids \subseteq Nat
    BY TypeStep, BoundsAssumption DEF IndInv, TypeOK, Ids
  <2>b. life' = [t \in Ids |-> Life(t)'] /\ \A t \in Ids : life[t] = Life(t)
    OBVIOUS
  <2>1. ASSUME NEW q \in Queues, Enqueue(q) PROVE Lifecycle!Next
    <3>1. PICK n \in Ids : n = created + 1
      BY <2>1, <2>a, BoundsAssumption DEF Enqueue, TypeOK, Ids
    <3>2. Life(n) = "none" /\ Life(n)' = "waiting"
      BY <2>1, <2>a, <3>1 DEF Enqueue, Life, NewRow, TypeOK
    <3>3. \A t \in Ids : t # n => Life(t)' = Life(t)
      BY <2>1, <2>a, <3>1 DEF Enqueue, Life, TypeOK
    <3>4. life' = [life EXCEPT ![n] = "waiting"]
      BY <2>b, <3>2, <3>3
    <3>5. Lifecycle!Enqueue(n)
      BY <3>2, <3>4 DEF Lifecycle!Enqueue, Lifecycle!Move
    <3>6. QED
      BY <3>5 DEF Lifecycle!Next
  <2>2. ASSUME NEW u \in Ids, u \in present, UNCHANGED <<created, present>>,
               \A t \in Ids : t # u => tasks'[t] = tasks[t]
        PROVE  Lifecycle!Next \/ life' = life
    <3>1. RowChanges(u)
      BY RowStepCases
    <3>2. life' = [life EXCEPT ![u] = Life(u)']
      <4>1. \A t \in Ids : t # u => Life(t)' = Life(t)
        BY <2>2 DEF Life
      <4>2. QED
        BY <2>b, <4>1
    <3>3. \/ Life(u)' = Life(u)
          \/ Life(u) \in {"waiting", "running", "cancelled"} /\ Life(u)' = "running"
          \/ Life(u) \in {"running", "failed"} /\ Life(u)' \in {"running", "finished", "failed"}
          \/ Life(u) \in {"waiting", "running"} /\ Life(u)' = "cancelled"
      BY <2>2, <2>a, <3>1, LifeOfChange
    <3>4. CASE Life(u)' = Life(u)
      BY <2>b, <3>2, <3>4
    <3>5. CASE Life(u) \in {"waiting", "running", "cancelled"} /\ Life(u)' = "running"
      <4>1. Lifecycle!Start(u)
        BY <2>b, <3>2, <3>5 DEF Lifecycle!Start, Lifecycle!Move
      <4>2. QED
        BY <4>1 DEF Lifecycle!Next
    <3>6. CASE Life(u) \in {"running", "failed"} /\ Life(u)' \in {"running", "finished", "failed"}
      <4>1. Lifecycle!Heartbeat(u) \/ Lifecycle!Finish(u) \/ Lifecycle!Fail(u)
        BY <2>b, <3>2, <3>6
           DEF Lifecycle!Heartbeat, Lifecycle!Finish, Lifecycle!Fail, Lifecycle!Move
      <4>2. QED
        BY <4>1 DEF Lifecycle!Next
    <3>7. CASE Life(u) \in {"waiting", "running"} /\ Life(u)' = "cancelled"
      <4>1. Lifecycle!Cancel(u)
        BY <2>b, <3>2, <3>7 DEF Lifecycle!Cancel, Lifecycle!Move
      <4>2. QED
        BY <4>1 DEF Lifecycle!Next
    <3>8. QED
      BY <3>3, <3>4, <3>5, <3>6, <3>7
  <2>3. ASSUME NEW w \in Workers, NEW a \in BOOLEAN, Claim(w, a)
        PROVE  Lifecycle!Next \/ life' = life
    <3>1. task[w] \in Ids /\ task[w] \in present
      BY <2>3, <2>a DEF Claim, IndInv, LockInv, LockOf
    <3>2. UNCHANGED <<created, present>> /\ \A t \in Ids : t # task[w] => tasks'[t] = tasks[t]
      BY <2>3, <2>a DEF Claim, TypeOK
    <3>3. QED
      BY <2>2, <3>1, <3>2
  <2>4. ASSUME NEW w \in Workers, WriteUpdate(w) PROVE Lifecycle!Next \/ life' = life
    <3>1. task[w] \in Ids /\ task[w] \in present
      BY <2>4, <2>a DEF WriteUpdate, IndInv, LockInv, LockOf
    <3>2. UNCHANGED <<created, present>> /\ \A t \in Ids : t # task[w] => tasks'[t] = tasks[t]
      BY <2>4, <2>a DEF WriteUpdate, TypeOK
    <3>3. QED
      BY <2>2, <3>1, <3>2
  <2>5. ASSUME NEW t \in Ids, Cancel(t) PROVE Lifecycle!Next \/ life' = life
    BY <2>2, <2>5, <2>a DEF Cancel, TypeOK
  <2>6. ASSUME NEW s \in Status, Retention(s) PROVE Lifecycle!Next
    <3> DEFINE expired == {t \in present : Expired(tasks[t], s)}
    <3>1. expired \in SUBSET Ids
      BY <2>a
    <3>2. \A t \in expired : Life(t) \in {"running", "cancelled", "finished", "failed"}
      <4> SUFFICES ASSUME NEW t \in expired
                   PROVE  Life(t) \in {"running", "cancelled", "finished", "failed"}
        OBVIOUS
      <4>1. Life(t) = tasks[t].status /\ tasks[t].status \in Status
        BY <2>a DEF Life, TypeOK, Row
      <4>2. tasks[t].status # "waiting"
        BY <2>a DEF Expired, IndInv, RowInv, RowOK
      <4>3. QED
        BY <4>1, <4>2 DEF Status
    <3>3. \A t \in Ids : Life(t)' = IF t \in expired THEN "deleted" ELSE Life(t)
      BY <2>6, <2>a DEF Retention, Life, TypeOK
    <3>4. Lifecycle!Remove(expired)
      BY <2>b, <3>1, <3>2, <3>3 DEF Lifecycle!Remove
    <3>5. QED
      BY <3>1, <3>4 DEF Lifecycle!Next
  <2>7. CASE UNCHANGED <<created, present, tasks>>
    BY <2>7, <2>b DEF Life
  <2>8. QED
    BY <2>1, <2>3, <2>4, <2>5, <2>6, <2>7 DEF Next, Step, vars, Tick, BeginDequeue,
       ListUnfinished, ListInflight, NothingProcessable, SelectCandidates, LockCandidate,
       SkipCandidate, NoCandidate, BeginUpdate, LockForUpdate, RefuseUpdate, Abort
<1>3. QED
  BY <1>1, <1>2, Invariance, PTL DEF Spec, ImplementsLifecycle, Lifecycle!Spec

(***************************************************************************)
(* One task per queue, for the only dequeuer of a database.                *)
(***************************************************************************)
(* No row of the queue but t looks alive at time t0. *)
QuietBut(q, t, t0) ==
    \A u \in present : u # t /\ tasks[u].queue = q => ~Inflight(tasks[u], DoubleTTL(t0))

(* The queues of the list that attemptDequeue has read stay quiet until it *)
(* writes its claim, and the queue of a task in work has no other live     *)
(* task.  Both are false with a second dequeuer, which claims in between.  *)
SoleOf(w) ==
    /\ task[w] <= created /\ \A t \in found[w] : t <= created
    /\ pc[w] \in {"select", "lock", "claim"} => \A q \in queues[w] : QuietBut(q, 0, at[w])
    /\ pc[w] = "lock" => \A t \in found[w] : tasks[t].queue \in queues[w]
    /\ pc[w] = "claim" => tasks[task[w]].queue \in queues[w]
    /\ pc[w] \in Updating \cup Holding =>
         task[w] # 0 /\ QuietBut(tasks[task[w]].queue, task[w], now)

SoleInv == OneTaskPerQueue /\ \A w \in Workers : SoleOf(w)

(* A row that does not look alive does not do so later either. *)
LEMMA InflightLater ==
    ASSUME NEW row \in Row, NEW t0 \in Nat, NEW t1 \in Nat, t0 <= t1,
           Inflight(row, DoubleTTL(t1))
    PROVE  Inflight(row, DoubleTTL(t0))
<1>1. row.beat \in Int
  BY DEF Row, Time, NULL
<1>2. HeartbeatTTL \in Nat
  BY TTLAssumption
<1>3. QED
  BY <1>1, <1>2 DEF Inflight, DoubleTTL

(* Steps that write no heartbeat: rows appear without one, are cancelled   *)
(* or removed.                                                             *)
Calm ==
    \A u \in present' :
        \/ tasks'[u].beat = NULL
        \/ /\ u \in present
           /\ tasks'[u].queue = tasks[u].queue /\ tasks'[u].beat = tasks[u].beat
           /\ tasks'[u].finished = tasks[u].finished

(* After a calm step quiet queues are quiet, and there is no second task. *)
LEMMA CalmStep ==
    ASSUME IndInv, Calm, now' \in Nat, now <= now'
    PROVE  /\ \A q \in Queues, t \in Nat, t0 \in Nat, t1 \in Nat :
                t0 <= t1 /\ QuietBut(q, t, t0) =>
                  \A u \in present' : u # t /\ tasks'[u].queue = q => ~Inflight(tasks'[u], DoubleTTL(t1))
           /\ OneTaskPerQueue => OneTaskPerQueue'
<1>1. present \subseteq Ids /\ tasks \in [Ids -> Row] /\ now \in Nat
  BY BoundsAssumption DEF IndInv, TypeOK, Ids
<1>2. ASSUME NEW u \in present', NEW t1 \in Nat, Inflight(tasks'[u], DoubleTTL(t1))
      PROVE  /\ u \in present /\ tasks'[u].queue = tasks[u].queue
             /\ Inflight(tasks[u], DoubleTTL(t1))
  BY <1>2 DEF Calm, Inflight
<1>3. ASSUME NEW q \in Queues, NEW t \in Nat, NEW t0 \in Nat, NEW t1 \in Nat, t0 <= t1,
             QuietBut(q, t, t0), NEW u \in present', u # t, tasks'[u].queue = q,
             Inflight(tasks'[u], DoubleTTL(t1))
      PROVE  FALSE
  <2>1. u \in present /\ tasks[u].queue = q /\ Inflight(tasks[u], DoubleTTL(t1)) /\ tasks[u] \in Row
    BY <1>1, <1>2, <1>3
  <2>2. Inflight(tasks[u], DoubleTTL(t0))
    BY <1>3, <2>1, InflightLater
  <2>3. QED
    BY <1>3, <2>1, <2>2 DEF QuietBut
<1>4. ASSUME OneTaskPerQueue, NEW q \in Queues, NEW t \in Alive(q)', NEW u \in Alive(q)' PROVE t = u
  <2>1. ASSUME NEW x \in Alive(q)' PROVE x \in Alive(q)
    <3>1. x \in present' /\ tasks'[x].queue = q /\ Inflight(tasks'[x], DoubleTTL(now'))
      BY DEF Alive
    <3>2. x \in present /\ tasks[x].queue = q /\ Inflight(tasks[x], DoubleTTL(now')) /\ tasks[x] \in Row
      BY <1>1, <1>2, <3>1
    <3>3. Inflight(tasks[x], DoubleTTL(now))
      BY <1>1, <3>2, InflightLater
    <3>4. QED
      BY <3>2, <3>3 DEF Alive
  <2>2. QED
    BY <1>4, <2>1 DEF OneTaskPerQueue
<1>5. QED
  BY <1>3, <1>4 DEF OneTaskPerQueue

(* A write to the row of a task in a queue that is quiet but for this task *)
(* leaves it quiet but for it, and makes at most this one look alive.      *)
LEMMA WriteStep ==
    ASSUME IndInv, IndInv', OneTaskPerQueue, NEW x \in Ids, NEW t0 \in Nat, t0 <= now,
           QuietBut(tasks[x].queue, x, t0), UNCHANGED <<now, present>>,
           tasks'[x].queue = tasks[x].queue, \A u \in Ids : u # x => tasks'[u] = tasks[u]
    PROVE  /\ OneTaskPerQueue'
           /\ \A u \in present' : u # x /\ tasks'[u].queue = tasks'[x].queue =>
                ~Inflight(tasks'[u], DoubleTTL(now'))
<1>1. present \subseteq Ids /\ tasks \in [Ids -> Row] /\ now \in Nat
  BY BoundsAssumption DEF IndInv, TypeOK, Ids
<1>2. ASSUME NEW u \in present, u # x, tasks[u].queue = tasks[x].queue
      PROVE  ~Inflight(tasks[u], DoubleTTL(now))
  <2>1. ~Inflight(tasks[u], DoubleTTL(t0)) /\ tasks[u] \in Row
    BY <1>1, <1>2 DEF QuietBut
  <2>2. QED
    BY <1>1, <2>1, InflightLater
<1>3. ASSUME NEW q \in Queues, NEW t \in Alive(q)', NEW u \in Alive(q)' PROVE t = u
  <2>1. ASSUME NEW v \in Alive(q)', v # x PROVE v \in Alive(q) /\ tasks[x].queue # q
    <3>1. v \in present /\ tasks[v].queue = q /\ Inflight(tasks[v], DoubleTTL(now))
      BY <1>1, <2>1 DEF Alive
    <3>2. QED
      BY <1>2, <2>1, <3>1 DEF Alive
  <2>2. x \in Alive(q)' => tasks[x].queue = q
    BY DEF Alive
  <2>3. QED
    BY <2>1, <2>2 DEF OneTaskPerQueue
<1>4. QED
  BY <1>1, <1>2, <1>3 DEF OneTaskPerQueue

(* The clock, the queuer, users and retention. *)
LEMMA EnvironmentStep ==
    ASSUME IndInv, SoleInv, Calm, now' \in Nat, now <= now', created' \in Nat, created <= created',
           \A t \in Ids : t <= created => tasks'[t].queue = tasks[t].queue,
           UNCHANGED <<pc, at, queues, found, task>>
    PROVE  SoleInv'
<1>1. OneTaskPerQueue'
  BY CalmStep DEF SoleInv
<1>2. ASSUME NEW w \in Workers PROVE SoleOf(w)'
  <2>1. /\ SoleOf(w) /\ task[w] \in Ids \cup {0} /\ found[w] \subseteq Ids /\ queues[w] \subseteq Queues
        /\ at[w] \in Nat /\ now \in Nat /\ created \in Nat /\ Ids \subseteq Nat
    BY BoundsAssumption DEF SoleInv, IndInv, TypeOK, Ids
  <2>2. /\ task'[w] <= created' /\ \A t \in found'[w] : t <= created'
    <3>1. ASSUME NEW t \in Nat, t <= created PROVE t <= created'
      BY <2>1, <3>1
    <3>2. task[w] \in Nat
      BY <2>1, BoundsAssumption DEF Ids
    <3>a. task[w] <= created /\ task' = task /\ found' = found
      BY <2>1 DEF SoleOf
    <3>3. \A t \in found[w] : t \in Nat /\ t <= created
      BY <2>1 DEF SoleOf
    <3>4. QED
      BY <3>1, <3>2, <3>a, <3>3
  <2>3. ASSUME pc'[w] \in {"select", "lock", "claim"}, NEW q \in queues'[w], NEW u \in present',
               u # 0, tasks'[u].queue = q
        PROVE  ~Inflight(tasks'[u], DoubleTTL(at'[w]))
    <3>1. QuietBut(q, 0, at[w]) /\ q \in Queues
      BY <2>1, <2>3 DEF SoleOf
    <3>2. QED
      BY <2>1, <2>3, <3>1, CalmStep
  <2>4. /\ pc'[w] = "lock" => \A t \in found'[w] : tasks'[t].queue \in queues'[w]
        /\ pc'[w] = "claim" => tasks'[task'[w]].queue \in queues'[w]
    <3>1. \A t \in found[w] : tasks'[t].queue = tasks[t].queue
      BY <2>1 DEF SoleOf
    <3>2. pc[w] = "claim" => task[w] \in Ids /\ tasks'[task[w]].queue = tasks[task[w]].queue
      <4>1. pc[w] = "claim" => task[w] \in present
        BY DEF IndInv, LockInv, LockOf
      <4>2. present \subseteq Ids
        BY BoundsAssumption DEF IndInv, TypeOK, Ids
      <4>3. QED
        BY <2>1, <4>1, <4>2 DEF SoleOf
    <3>3. QED
      BY <2>1, <3>1, <3>2 DEF SoleOf
  <2>5. pc'[w] \in Updating \cup Holding => task'[w] # 0
    BY <2>1 DEF SoleOf
  <2>6. ASSUME pc'[w] \in Updating \cup Holding, NEW u \in present',
               u # task'[w], tasks'[u].queue = tasks'[task'[w]].queue
        PROVE  ~Inflight(tasks'[u], DoubleTTL(now'))
    <3>1. QuietBut(tasks[task[w]].queue, task[w], now)
      BY <2>1, <2>6 DEF SoleOf
    <3>2. task[w] \in Ids
      BY <2>1, <2>6 DEF SoleOf
    <3>3. tasks'[task[w]].queue = tasks[task[w]].queue /\ tasks[task[w]].queue \in Queues
      BY <2>1, <3>2 DEF SoleOf, IndInv, TypeOK, Row
    <3>4. task[w] \in Nat /\ u # task[w] /\ tasks'[u].queue = tasks[task[w]].queue
      BY <2>1, <2>6, <3>2, <3>3
    <3>5. \A x \in present' : x # task[w] /\ tasks'[x].queue = tasks[task[w]].queue =>
             ~Inflight(tasks'[x], DoubleTTL(now'))
      BY <2>1, <3>1, <3>3, <3>4, CalmStep
    <3>6. QED
      BY <2>6, <3>4, <3>5
  <2>7. QED
    BY <2>2, <2>3, <2>4, <2>5, <2>6 DEF SoleOf, QuietBut
<1>3. QED
  BY <1>1, <1>2 DEF SoleInv

LEMMA SoleInit == Init => SoleInv
  BY DEF Init, SoleInv, OneTaskPerQueue, Alive, SoleOf, Updating, Holding

(* The steps of a worker that write the table, and the ones that do not. *)
Writes(w) == WriteUpdate(w) \/ \E acknowledged \in BOOLEAN : Claim(w, acknowledged)

LEMMA ReadStep ==
    ASSUME IndInv, SoleInv, NEW w \in Workers, Step(w), ~Writes(w)
    PROVE  OneTaskPerQueue' /\ SoleOf(w)'
<1>0. UNCHANGED <<now, created, present, tasks>>
  BY DEF Writes, Step, BeginDequeue, ListUnfinished, ListInflight, NothingProcessable,
     SelectCandidates, LockCandidate, SkipCandidate, NoCandidate, BeginUpdate, LockForUpdate,
     RefuseUpdate, Abort
<1>1. OneTaskPerQueue' /\ SoleOf(w)
  BY <1>0 DEF SoleInv, OneTaskPerQueue, Alive
<1>2. /\ pc \in [Workers -> {"idle"} \cup Dequeuing \cup Updating \cup Holding]
      /\ at \in [Workers -> Nat] /\ queues \in [Workers -> SUBSET Queues]
      /\ found \in [Workers -> SUBSET Ids] /\ task \in [Workers -> Ids \cup {0}]
      /\ created \in Nat /\ \A t \in present : t \in Nat /\ t <= created /\ t # 0
  BY BoundsAssumption DEF IndInv, TypeOK
<1>3. ASSUME BackToIdle(w) PROVE SoleOf(w)'
  <2>1. pc'[w] = "idle" /\ task'[w] = 0 /\ found'[w] = {}
    BY <1>2, <1>3 DEF BackToIdle
  <2>2. QED
    BY <1>0, <1>2, <2>1 DEF SoleOf, Updating, Holding
<1>4. ASSUME NEW request \in Requests, BeginDequeue(w, request) PROVE SoleOf(w)'
  BY <1>0, <1>1, <1>2, <1>4 DEF BeginDequeue, SoleOf, Updating, Holding
<1>5. CASE ListUnfinished(w)
  BY <1>0, <1>1, <1>2, <1>5 DEF ListUnfinished, SoleOf, Updating, Holding
<1>6. CASE ListInflight(w)
  <2>1. pc'[w] = "select" /\ task' = task /\ found' = found /\ at' = at
    BY <1>2, <1>6 DEF ListInflight
  <2>2. ASSUME NEW q \in queues'[w], NEW u \in present, tasks[u].queue = q
        PROVE  ~Inflight(tasks[u], DoubleTTL(at[w]))
    BY <1>2, <1>6, <2>2 DEF ListInflight, ProcessableQueues, QueuesOf
  <2>3. QED
    BY <1>0, <1>1, <2>1, <2>2 DEF SoleOf, QuietBut, Updating, Holding
<1>7. ASSUME NEW q \in Queues, SelectCandidates(w, q) PROVE SoleOf(w)'
  <2>1. /\ pc[w] = "select" /\ pc'[w] = "lock" /\ task' = task /\ queues' = queues /\ at' = at
        /\ q \in queues[w] /\ \A t \in found'[w] : t \in present /\ tasks[t].queue = q
    BY <1>2, <1>7 DEF SelectCandidates
  <2>2. QED
    BY <1>0, <1>1, <1>2, <2>1 DEF SoleOf, QuietBut, Updating, Holding
<1>8. ASSUME NEW t \in Ids, LockCandidate(w, t) PROVE SoleOf(w)'
  <2>1. /\ pc[w] = "lock" /\ pc'[w] = "claim" /\ task'[w] = t /\ queues' = queues /\ at' = at
        /\ found' = found /\ t \in found[w]
    BY <1>2, <1>8 DEF LockCandidate, FirstFound
  <2>2. QED
    BY <1>0, <1>1, <1>2, <2>1 DEF SoleOf, QuietBut, Updating, Holding
<1>9. ASSUME NEW t \in Ids, SkipCandidate(w, t) PROVE SoleOf(w)'
  <2>1. /\ pc' = pc /\ pc[w] = "lock" /\ task' = task /\ queues' = queues /\ at' = at
        /\ found'[w] \subseteq found[w]
    BY <1>2, <1>9 DEF SkipCandidate
  <2>2. QED
    BY <1>0, <1>1, <1>2, <2>1 DEF SoleOf, QuietBut, Updating, Holding
<1>10. ASSUME NEW o \in Ops, BeginUpdate(w, o) PROVE SoleOf(w)'
  <2>1. pc[w] \in Holding /\ pc'[w] = "status" /\ task' = task /\ found' = found
    BY <1>2, <1>10 DEF BeginUpdate
  <2>2. QED
    BY <1>0, <1>1, <2>1 DEF SoleOf, QuietBut, Updating, Holding
<1>11. CASE LockForUpdate(w)
  <2>1. pc[w] = "status" /\ pc'[w] = "write" /\ task' = task /\ found' = found
    BY <1>2, <1>11 DEF LockForUpdate
  <2>2. QED
    BY <1>0, <1>1, <2>1 DEF SoleOf, QuietBut, Updating, Holding
<1>12. CASE RefuseUpdate(w)
  <2>1. CASE op[w] = "heartbeat"
    <3>1. pc[w] = "status" /\ pc'[w] = "drain" /\ task' = task /\ found' = found
      BY <1>2, <1>12, <2>1 DEF RefuseUpdate
    <3>2. QED
      BY <1>0, <1>1, <3>1 DEF SoleOf, QuietBut, Updating, Holding
  <2>2. CASE op[w] # "heartbeat"
    <3>1. BackToIdle(w)
      BY <1>12, <2>2, Zenon DEF RefuseUpdate
    <3>2. QED
      BY <1>1, <1>3, <3>1
  <2>3. QED
    BY <2>1, <2>2
<1>13. QED
  BY <1>1, <1>3, <1>4, <1>5, <1>6, <1>7, <1>8, <1>9, <1>10, <1>11, <1>12
     DEF Writes, Step, NothingProcessable, NoCandidate, Abort

(* The claim of attemptDequeue: its queue was quiet when it read the list. *)
LEMMA SoleClaim ==
    ASSUME IndInv, IndInv', SoleInv, NEW w \in Workers, NEW a \in BOOLEAN, Claim(w, a)
    PROVE  OneTaskPerQueue' /\ SoleOf(w)'
<1>1. /\ pc[w] = "claim" /\ SoleOf(w) /\ OneTaskPerQueue /\ UNCHANGED <<now, created, present>>
      /\ task[w] \in present /\ present \subseteq Ids /\ at[w] \in Nat /\ at[w] <= now
      /\ created \in Nat
  <2>1. pc[w] = "claim" /\ UNCHANGED <<now, created, present>> /\ SoleOf(w) /\ OneTaskPerQueue
    BY DEF Claim, SoleInv
  <2>2. present \subseteq Ids /\ at[w] \in Nat /\ created \in Nat
    BY BoundsAssumption DEF IndInv, TypeOK, Ids
  <2>3. task[w] \in present /\ at[w] <= now
    BY <2>1 DEF IndInv, LockInv, LockOf
  <2>4. QED
    BY <2>1, <2>2, <2>3
<1>2. task[w] \in Ids /\ task[w] # 0
  <2>1. 0 \notin Ids
    BY BoundsAssumption DEF Ids
  <2>2. QED
    BY <1>1, <2>1
<1>3. QuietBut(tasks[task[w]].queue, task[w], at[w])
  <2>1. QuietBut(tasks[task[w]].queue, 0, at[w])
    BY <1>1 DEF SoleOf
  <2>2. \A u \in present : u # 0
    BY <1>1, BoundsAssumption DEF Ids
  <2>3. QED
    BY <2>1, <2>2 DEF QuietBut
<1>4. /\ tasks'[task[w]].queue = tasks[task[w]].queue
      /\ \A u \in Ids : u # task[w] => tasks'[u] = tasks[u]
  BY <1>2 DEF Claim, ClaimedRow, IndInv, TypeOK, Row
<1>5. /\ OneTaskPerQueue'
      /\ \A u \in present' : u # task[w] /\ tasks'[u].queue = tasks'[task[w]].queue =>
           ~Inflight(tasks'[u], DoubleTTL(now'))
  BY <1>1, <1>2, <1>3, <1>4, WriteStep
<1>6. CASE a
  <2>1. pc'[w] = "work" /\ found'[w] = {} /\ task' = task
    BY <1>6 DEF Claim, IndInv, TypeOK
  <2>2. QED
    BY <1>1, <1>2, <1>5, <2>1 DEF SoleOf, QuietBut, Updating, Holding
<1>7. CASE ~a
  <2>1. pc'[w] = "idle" /\ found'[w] = {} /\ task'[w] = 0
    BY <1>7 DEF Claim, BackToIdle, IndInv, TypeOK
  <2>2. QED
    BY <1>1, <1>5, <2>1 DEF SoleOf, Updating, Holding
<1>8. QED
  BY <1>6, <1>7

(* The UPDATE of updateProgress, on the one live task of its queue. *)
LEMMA SoleUpdate ==
    ASSUME IndInv, IndInv', SoleInv, NEW w \in Workers, WriteUpdate(w)
    PROVE  OneTaskPerQueue' /\ SoleOf(w)'
<1>1. /\ pc[w] = "write" /\ SoleOf(w) /\ OneTaskPerQueue /\ UNCHANGED <<now, created, present>>
      /\ task[w] \in present /\ present \subseteq Ids /\ now \in Nat /\ created \in Nat
      /\ op[w] \in Ops
  <2>1. pc[w] = "write" /\ UNCHANGED <<now, created, present>> /\ SoleOf(w) /\ OneTaskPerQueue
    BY DEF WriteUpdate, SoleInv
  <2>2. present \subseteq Ids /\ now \in Nat /\ created \in Nat /\ op[w] \in Ops
    BY BoundsAssumption DEF IndInv, TypeOK, Ids
  <2>3. task[w] \in present
    BY <2>1 DEF IndInv, LockInv, LockOf
  <2>4. QED
    BY <2>1, <2>2, <2>3
<1>2. task[w] \in Ids /\ task[w] # 0
  <2>1. 0 \notin Ids
    BY BoundsAssumption DEF Ids
  <2>2. QED
    BY <1>1, <2>1
<1>3. QuietBut(tasks[task[w]].queue, task[w], now)
  BY <1>1 DEF SoleOf, Updating
<1>4. /\ tasks'[task[w]].queue = tasks[task[w]].queue
      /\ \A u \in Ids : u # task[w] => tasks'[u] = tasks[u]
  BY <1>1, <1>2 DEF WriteUpdate, UpdatedRow, Ops, IndInv, TypeOK, Row
<1>5. /\ OneTaskPerQueue'
      /\ \A u \in present' : u # task[w] /\ tasks'[u].queue = tasks'[task[w]].queue =>
           ~Inflight(tasks'[u], DoubleTTL(now'))
  BY <1>1, <1>2, <1>3, <1>4, WriteStep
<1>6. CASE op[w] = "heartbeat"
  <2>1. pc'[w] = "work" /\ found' = found /\ task' = task
    BY <1>6 DEF WriteUpdate, IndInv, TypeOK
  <2>2. QED
    BY <1>1, <1>2, <1>5, <2>1 DEF SoleOf, QuietBut, Updating, Holding
<1>7. CASE op[w] # "heartbeat"
  <2>1. pc'[w] = "idle" /\ found'[w] = {} /\ task'[w] = 0
    BY <1>7 DEF WriteUpdate, BackToIdle, IndInv, TypeOK
  <2>2. QED
    BY <1>1, <1>5, <2>1 DEF SoleOf, Updating, Holding
<1>8. QED
  BY <1>6, <1>7

LEMMA SoleStep ==
    ASSUME \A v, w \in Workers : v = w, IndInv, IndInv', SoleInv, [Next]_vars
    PROVE  SoleInv'
<1>1. /\ now \in Nat /\ now' \in Nat /\ created \in Nat /\ created' \in Nat
      /\ tasks \in [Ids -> Row] /\ present \subseteq Ids /\ \A t \in present : t <= created
  BY BoundsAssumption DEF IndInv, TypeOK, Ids
<1>2. CASE Tick
  BY <1>1, <1>2, EnvironmentStep DEF Tick, Calm
<1>3. ASSUME NEW q \in Queues, Enqueue(q) PROVE SoleInv'
  <2>1. created + 1 \in Ids
    BY <1>1, <1>3, BoundsAssumption DEF Enqueue, Ids
  <2>2. Calm
    BY <1>1, <1>3, <2>1 DEF Enqueue, Calm, NewRow
  <2>3. \A t \in Ids : t <= created => tasks'[t].queue = tasks[t].queue
    BY <1>1, <1>3, <2>1 DEF Enqueue, Ids
  <2>4. QED
    BY <1>1, <1>3, <2>2, <2>3, EnvironmentStep DEF Enqueue
<1>4. ASSUME NEW t \in Ids, Cancel(t) PROVE SoleInv'
  <2>1. \A u \in Ids : /\ tasks'[u].queue = tasks[u].queue /\ tasks'[u].beat = tasks[u].beat
                       /\ tasks'[u].finished = tasks[u].finished
    BY <1>1, <1>4 DEF Cancel, Row
  <2>2. Calm
    BY <1>1, <1>4, <2>1 DEF Cancel, Calm
  <2>3. QED
    BY <1>1, <1>4, <2>1, <2>2, EnvironmentStep DEF Cancel
<1>5. ASSUME NEW s \in Status, Retention(s) PROVE SoleInv'
  BY <1>1, <1>5, EnvironmentStep DEF Retention, Calm
<1>6. CASE UNCHANGED vars
  BY <1>1, <1>6, EnvironmentStep DEF vars, Calm
<1>7. ASSUME NEW w \in Workers, Step(w) PROVE SoleInv'
  <2>1. OneTaskPerQueue' /\ SoleOf(w)'
    BY <1>7, ReadStep, SoleClaim, SoleUpdate DEF Writes
  <2>2. ASSUME NEW v \in Workers PROVE SoleOf(v)'
    <3>1. v = w
      OBVIOUS
    <3>2. QED
      BY <2>1, <3>1
  <2>3. QED
    BY <2>1, <2>2 DEF SoleInv
<1>8. QED
  BY <1>2, <1>3, <1>4, <1>5, <1>6, <1>7 DEF Next

(* Dequeue "allows only one task per queue to be worked on at once": true  *)
(* of a database with one dequeuer, whatever the clock, the queuer, users  *)
(* that cancel, retention, lost answers and aborted transactions do.       *)
THEOREM OneAtATime ==
    ASSUME \A v, w \in Workers : v = w
    PROVE  Spec => []OneTaskPerQueue
<1>1. Init => SoleInv
  BY SoleInit
<1>2. IndInv /\ IndInv' /\ SoleInv /\ [Next]_vars => SoleInv'
  BY SoleStep
<1>3. SoleInv => OneTaskPerQueue
  BY DEF SoleInv
<1>4. QED
  BY <1>1, <1>2, <1>3, Invariance, PTL DEF Spec
=============================================================================
