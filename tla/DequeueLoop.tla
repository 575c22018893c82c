----------------------------- MODULE DequeueLoop -----------------------------
(***************************************************************************)
(* The blocking Dequeue of pkg/queue/postgres/dequeuer.go: workers that    *)
(* share one dequeuer, and so one pq.Listener, wait for work.  Dequeue     *)
(* first tries without listening, then listens to the notifications that   *)
(* the trigger of setup.go sends on INSERT, and polls with a ticker.       *)
(*                                                                         *)
(* attemptDequeue is one step here; its transaction is modelled in         *)
(* TaskQueue.  A worker is anything that calls Dequeue, works on the task  *)
(* and calls Dequeue again.                                                *)
(***************************************************************************)
EXTENDS Naturals

CONSTANTS
    Tasks,      \* tasks that will be enqueued
    QueueOf,    \* the queue of each task
    Workers,    \* workers that share the dequeuer
    NoWorker,   \* nobody has opened the notification channel
    MaxFaults   \* bound: lost connections, failed statements and dead workers

ASSUME WorkersAssumption == NoWorker \notin Workers
ASSUME FaultsAssumption == MaxFaults \in Nat

VARIABLES
    state,     \* of each task: "new", "waiting", "running", "silent", "done"
    holds,     \* the task each worker works on, {} for none
    pc,        \* what each worker does next
    listener,  \* the worker that has opened the channel "task_update"
    refused,   \* the server has answered an UNLISTEN with an error
    up,        \* the listener's connection is up
    notify,    \* a notification waits in listener.Notify
    stopping,  \* the workers' context is cancelled
    faults     \* faults so far

lvars == <<state, holds, pc, listener, refused, up, notify, stopping, faults>>

Waiting == {"reconnect", "select", "attempt", "ping"}

LoopTypeOK ==
    /\ state \in [Tasks -> {"new", "waiting", "running", "silent", "done"}]
    /\ holds \in [Workers -> SUBSET Tasks]
    /\ pc \in [Workers -> {"first", "listen", "work", "stopped"} \cup Waiting]
    /\ listener \in Workers \cup {NoWorker}
    /\ refused \in BOOLEAN
    /\ up \in BOOLEAN
    /\ notify \in BOOLEAN
    /\ stopping \in BOOLEAN
    /\ faults \in 0..MaxFaults

LoopInit ==
    /\ state = [t \in Tasks |-> "new"]
    /\ holds = [w \in Workers |-> {}]
    /\ pc = [w \in Workers |-> "first"]
    /\ listener = NoWorker
    /\ refused = FALSE
    /\ up = TRUE
    /\ notify = FALSE
    /\ stopping = FALSE
    /\ faults = 0

(* attemptDequeue finds a task: not started or silent, in a queue with no  *)
(* task inflight.                                                          *)
Available(t) ==
    /\ state[t] \in {"waiting", "silent"}
    /\ \A u \in Tasks : QueueOf[u] = QueueOf[t] => state[u] # "running"

Fault == faults < MaxFaults /\ faults' = faults + 1

-----------------------------------------------------------------------------
(* The table *)

(* INSERT; the notification reaches the listener if it listens right now. *)
Enqueue(t) ==
    /\ state[t] = "new"
    /\ state' = [state EXCEPT ![t] = "waiting"]
    /\ notify' = (notify \/ (up /\ listener # NoWorker /\ pc[listener] # "reconnect"))
    /\ UNCHANGED <<holds, pc, listener, refused, up, stopping, faults>>

(* Twice the heartbeat TTL passes without a heartbeat: the worker died, or *)
(* it lives and is slow.  Nobody is notified.                              *)
Expire(t) ==
    /\ state[t] = "running"
    /\ state' = [state EXCEPT ![t] = "silent"]
    /\ UNCHANGED <<holds, pc, listener, refused, up, notify, stopping, faults>>

-----------------------------------------------------------------------------
(* Dequeue *)

(* The deferred Unlisten, set up once Listen has returned.  pq.Listener    *)
(* forgets the channel unless the server answers with an error: then the   *)
(* channel stays open, and no later Listen of any worker succeeds.         *)
Unlisten(w) ==
    IF pc[w] \in Waiting
      THEN \/ listener' = NoWorker /\ UNCHANGED refused
           \/ up /\ refused' = TRUE /\ UNCHANGED listener
      ELSE UNCHANGED <<listener, refused>>

(* The attempt succeeds and so does Unlisten: Dequeue returns the task. *)
Take(w, t) ==
    /\ pc[w] \in {"first", "attempt"}
    /\ ~stopping
    /\ Available(t)
    /\ state' = [state EXCEPT ![t] = "running"]
    /\ holds' = [holds EXCEPT ![w] = {t}]
    /\ pc' = [pc EXCEPT ![w] = "work"]
    /\ listener' = IF pc[w] = "attempt" THEN NoWorker ELSE listener
    /\ UNCHANGED <<refused, up, notify, stopping, faults>>

(* The attempt finds nothing. *)
FindNothing(w) ==
    /\ pc[w] \in {"first", "attempt"}
    /\ ~stopping
    /\ \A t \in Tasks : ~Available(t)
    /\ pc' = [pc EXCEPT ![w] = IF pc[w] = "first" THEN "listen" ELSE "ping"]
    /\ UNCHANGED <<state, holds, listener, refused, up, notify, stopping, faults>>

(* Mutants: Unlisten is not called, or the cancellation is not seen. *)
ReturnErrorListening(w) ==
    /\ pc' = [pc EXCEPT ![w] = IF stopping THEN "stopped" ELSE "first"]
    /\ UNCHANGED <<listener, refused>>

ReturnErrorForever(w) ==
    /\ pc' = [pc EXCEPT ![w] = "first"]
    /\ Unlisten(w)

(* Dequeue returns an error after the deferred Unlisten; Work logs it and  *)
(* starts over, or stops if the context is cancelled.                      *)
ReturnError(w) ==
    /\ pc' = [pc EXCEPT ![w] = IF stopping THEN "stopped" ELSE "first"]
    /\ Unlisten(w)

(* The claim is committed but Dequeue returns an error, because the answer *)
(* to the COMMIT is lost or because Unlisten fails: Work drops the task.   *)
TakeUnanswered(w, t) ==
    /\ pc[w] \in {"first", "attempt"}
    /\ ~stopping
    /\ Available(t)
    /\ ReturnError(w)
    /\ \/ Fault
       \/ refused' # refused /\ UNCHANGED faults
    /\ state' = [state EXCEPT ![t] = "running"]
    /\ UNCHANGED <<holds, up, notify, stopping>>

(* A statement of the attempt fails, always so with a cancelled context. *)
AttemptFails(w) ==
    /\ pc[w] \in {"first", "attempt"}
    /\ \/ stopping /\ UNCHANGED faults
       \/ Fault
    /\ ReturnError(w)
    /\ UNCHANGED <<state, holds, up, notify, stopping>>

(* listener.Listen waits for the connection to come back; it does not      *)
(* watch the context.                                                      *)
Listen(w) ==
    /\ pc[w] = "listen"
    /\ listener = NoWorker
    /\ listener' = w
    /\ pc' = [pc EXCEPT ![w] = IF up THEN "select" ELSE "reconnect"]
    /\ UNCHANGED <<state, holds, refused, up, notify, stopping, faults>>

(* pq.ErrChannelAlreadyOpen: another worker listens on the same listener,  *)
(* or the channel was never closed.                                        *)
ListenTwice(w) ==
    /\ pc[w] = "listen"
    /\ listener # NoWorker
    /\ ReturnError(w)
    /\ UNCHANGED <<state, holds, up, notify, stopping, faults>>

(* The server answers the LISTEN with an error. *)
ListenRefused(w) ==
    /\ pc[w] = "listen"
    /\ listener = NoWorker
    /\ up
    /\ Fault
    /\ ReturnError(w)
    /\ UNCHANGED <<state, holds, up, notify, stopping>>

ListenReturns(w) ==
    /\ pc[w] = "reconnect"
    /\ up
    /\ pc' = [pc EXCEPT ![w] = "select"]
    /\ UNCHANGED <<state, holds, listener, refused, up, notify, stopping, faults>>

(* The three cases of the select: cancelled, ticker, notification. *)
SeeCancelled(w) ==
    /\ pc[w] = "select"
    /\ stopping
    /\ ReturnError(w)
    /\ UNCHANGED <<state, holds, up, notify, stopping, faults>>

(* Mutant: the ticker only pings, attempts wait for a notification. *)
SeeTickIdle(w) ==
    /\ pc[w] = "select"
    /\ pc' = [pc EXCEPT ![w] = "ping"]
    /\ UNCHANGED <<state, holds, listener, refused, up, notify, stopping, faults>>

SeeTick(w) ==
    /\ pc[w] = "select"
    /\ pc' = [pc EXCEPT ![w] = "attempt"]
    /\ UNCHANGED <<state, holds, listener, refused, up, notify, stopping, faults>>

SeeNotification(w) ==
    /\ pc[w] = "select"
    /\ notify
    /\ notify' = FALSE
    /\ pc' = [pc EXCEPT ![w] = "attempt"]
    /\ UNCHANGED <<state, holds, listener, refused, up, stopping, faults>>

(* listener.Ping after an attempt that found nothing *)
PingOK(w) ==
    /\ pc[w] = "ping"
    /\ up
    /\ pc' = [pc EXCEPT ![w] = "select"]
    /\ UNCHANGED <<state, holds, listener, refused, up, notify, stopping, faults>>

PingFails(w) ==
    /\ pc[w] = "ping"
    /\ ~up
    /\ ReturnError(w)
    /\ UNCHANGED <<state, holds, up, notify, stopping, faults>>

-----------------------------------------------------------------------------
(* A heartbeat of a slow worker makes its silent task live again. *)
Revive(w, t) ==
    /\ pc[w] = "work"
    /\ ~stopping
    /\ t \in holds[w]
    /\ state[t] = "silent"
    /\ state' = [state EXCEPT ![t] = "running"]
    /\ UNCHANGED <<holds, pc, listener, refused, up, notify, stopping, faults>>

(* Finish or Fail, also of a task that another worker has taken over; with *)
(* a cancelled context the call fails and leaves the row as it is.         *)
Finish(w) ==
    /\ pc[w] = "work"
    /\ state' = [t \in Tasks |-> IF t \in holds[w] /\ ~stopping THEN "done" ELSE state[t]]
    /\ holds' = [holds EXCEPT ![w] = {}]
    /\ pc' = [pc EXCEPT ![w] = IF stopping THEN "stopped" ELSE "first"]
    /\ UNCHANGED <<listener, refused, up, notify, stopping, faults>>

(* The worker dies and restarts, or its update of the row fails. *)
GiveUp(w) ==
    /\ pc[w] = "work"
    /\ Fault
    /\ holds' = [holds EXCEPT ![w] = {}]
    /\ pc' = [pc EXCEPT ![w] = IF stopping THEN "stopped" ELSE "first"]
    /\ UNCHANGED <<state, listener, refused, up, notify, stopping>>

(* External: the connection of the pq.Listener.  A reconnect sends a nil   *)
(* notification.                                                           *)
Disconnect ==
    /\ up
    /\ Fault
    /\ up' = FALSE
    /\ UNCHANGED <<state, holds, pc, listener, refused, notify, stopping>>

Reconnect ==
    /\ ~up
    /\ up' = TRUE
    /\ notify' = TRUE
    /\ UNCHANGED <<state, holds, pc, listener, refused, stopping, faults>>

StopWorkers ==
    /\ ~stopping
    /\ stopping' = TRUE
    /\ UNCHANGED <<state, holds, pc, listener, refused, up, notify, faults>>

-----------------------------------------------------------------------------
Step(w) ==
    \/ \E t \in Tasks : Take(w, t)
    \/ FindNothing(w) \/ AttemptFails(w)
    \/ Listen(w) \/ ListenTwice(w) \/ ListenRefused(w) \/ ListenReturns(w)
    \/ SeeCancelled(w) \/ SeeTick(w) \/ SeeNotification(w)
    \/ PingOK(w) \/ PingFails(w)

LoopNext ==
    \/ \E t \in Tasks : Enqueue(t) \/ Expire(t)
    \/ \E w \in Workers : Step(w) \/ Finish(w) \/ GiveUp(w)
    \/ \E w \in Workers, t \in Tasks : TakeUnanswered(w, t) \/ Revive(w, t)
    \/ Disconnect \/ Reconnect \/ StopWorkers

LoopSpec == LoopInit /\ [][LoopNext]_lvars

(* The goroutines of the workers run and the calls of Dequeue return;      *)
(* pq.Listener reconnects.  A handler may work on its task for ever,       *)
(* unless its context is cancelled.                                        *)
FairLoopSpec ==
    /\ LoopSpec
    /\ \A w \in Workers : WF_lvars(Step(w)) /\ WF_lvars(stopping /\ Finish(w))
    /\ WF_lvars(Reconnect)

-----------------------------------------------------------------------------
(* Properties *)

(* A worker that waits in Dequeue has opened the channel, and every way    *)
(* out of Dequeue closes it: only when the server has refused an UNLISTEN  *)
(* is it open for nobody, and then no worker waits for notifications any   *)
(* more, each call of Dequeue is one attempt.                              *)
ListenerIsReleased ==
    /\ \A w \in Workers :
         /\ pc[w] \in Waiting => listener = w /\ refused = FALSE
         /\ listener = w => pc[w] \in Waiting \/ refused = TRUE
    /\ refused = TRUE => listener # NoWorker

(* Dequeue is "expected to block until work is available": one worker that *)
(* is not at work is enough for a task to be taken, although notifications *)
(* are sent for inserts only, one that is sent between the first attempt   *)
(* and Listen is lost, and none is sent for a task whose worker died.      *)
TasksAreStarted ==
    \A t \in Tasks :
        Available(t) ~> (~Available(t) \/ stopping \/ \A w \in Workers : pc[w] = "work")

(* When the context is cancelled every worker returns from Dequeue. *)
WorkersStop == \A w \in Workers : stopping ~> pc[w] = "stopped"

(* What Dequeue keeps true at every step: who has opened the channel of    *)
(* the shared listener, and that workers stop only when cancelled.         *)
ListenerInv ==
    /\ LoopTypeOK
    /\ ListenerIsReleased
    /\ \A w \in Workers : pc[w] = "stopped" => stopping
=============================================================================
