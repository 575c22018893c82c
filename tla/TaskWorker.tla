------------------------------ MODULE TaskWorker ------------------------------
(***************************************************************************)
(* The task worker of pkg/queue/workers/task_worker.go: Work dequeues a    *)
(* task, handleTask runs its handler in a goroutine (TaskHandlers) and     *)
(* processHeartbeats stores the progress the handler sends, until the      *)
(* handler ends, a heartbeat is late or refused, or the context is         *)
(* cancelled.  The rest of the system appears as the row of the task, which *)
(* users, retention and other workers may change at any time.              *)
(***************************************************************************)
EXTENDS TaskHandlers

CONSTANTS
    Interference,  \* states into which others may put the row meanwhile
    MaxOrphans     \* bound: handlers that outlive their handleTask

ASSUME InterferenceAssumption == Interference \subseteq {"cancelled", "finished", "deleted"}
ASSUME OrphansAssumption == MaxOrphans \in Nat

VARIABLES
    wpc,       \* what the worker goroutine does next
    ctxDone,   \* the context of Work is cancelled
    fired,     \* the heartbeat timer of processHeartbeats has fired
    progress,  \* "empty", or "latest" for the last progress received
    row,       \* the row of the task: running, finished, failed, cancelled, deleted
    orphans    \* handlers abandoned so far that did not exit before the next task

wvars == <<wpc, ctxDone, fired, progress, row, orphans>>
vars == <<wvars, hvars>>

TypeOK ==
    /\ HandlerTypeOK
    /\ wpc \in {"loop", "beats", "heartbeat", "await", "timeout", "fail", "finish", "returned"}
    /\ ctxDone \in BOOLEAN
    /\ fired \in BOOLEAN
    /\ progress \in {"empty", "latest"}
    /\ row \in {"running", "finished", "failed", "cancelled", "deleted"}
    /\ orphans \in 0..MaxOrphans

Init ==
    /\ wpc = "loop" /\ ctxDone = FALSE /\ fired = FALSE /\ progress = "empty"
    /\ row = "finished" /\ orphans = 0
    /\ kind \in Kinds /\ hpc = "exited" /\ herr = FALSE /\ chunks = 0
    /\ sendq = <<>> /\ sent = FALSE /\ closed = TRUE /\ done = "nil"
    /\ hcancel = FALSE /\ tpc = "off" /\ tick = FALSE /\ crashed = FALSE

(* The context of the current task: handleTask cancels it when it returns. *)
TaskCtxDone == ctxDone \/ wpc \in {"loop", "returned"}

-----------------------------------------------------------------------------
(* The worker goroutine is at one of the stages and the process is alive. *)
WorkerAt(stages) == wpc \in stages /\ ~crashed

(* Work and iteration *)

(* Dequeue returns a task, or an error: then Work just tries again. *)
Dequeue(k) ==
    /\ WorkerAt({"loop"})
    /\ ~ctxDone
    /\ orphans' = IF hpc = "exited" /\ tpc \in {"off", "gone"} THEN orphans ELSE orphans + 1
    /\ orphans' <= MaxOrphans
    /\ wpc' = "beats"
    /\ fired' = FALSE
    /\ progress' = "empty"
    /\ row' = "running"
    /\ StartHandler(k)
    /\ UNCHANGED ctxDone

(* The loop of Work sees that the context is cancelled. *)
ReturnFromWork ==
    /\ WorkerAt({"loop"})
    /\ ctxDone
    /\ wpc' = "returned"
    /\ UNCHANGED <<ctxDone, fired, progress, row, orphans, hvars>>

-----------------------------------------------------------------------------
(* processHeartbeats *)

(* The four cases of its select.  A cancelled context makes it return      *)
(* ctx.Err(), with which handleTask returns at once.                       *)
SeeCancelledContext ==
    /\ WorkerAt({"beats"})
    /\ ctxDone
    /\ wpc' = "loop"
    /\ UNCHANGED <<ctxDone, fired, progress, row, orphans, hvars>>

SeeTimeout ==
    /\ WorkerAt({"beats"})
    /\ fired
    /\ wpc' = "timeout"
    /\ UNCHANGED <<ctxDone, fired, progress, row, orphans, hvars>>

ReceiveProgress ==
    /\ WorkerAt({"beats"})
    /\ Receive
    /\ progress' = "latest"
    /\ wpc' = "heartbeat"
    /\ UNCHANGED <<ctxDone, fired, row, orphans>>

(* Mutant: a closed channel is taken for success. *)
SeeClosedAsSuccess ==
    /\ WorkerAt({"beats"})
    /\ closed /\ sendq = <<>>
    /\ wpc' = "finish"
    /\ UNCHANGED <<ctxDone, fired, progress, row, orphans, hvars>>

(* The progress is kept when the channel closes. *)
SeeClosed ==
    /\ WorkerAt({"beats"})
    /\ closed /\ sendq = <<>>
    /\ wpc' = "await"
    /\ UNCHANGED <<ctxDone, fired, progress, row, orphans, hvars>>

(* dequeuer.Heartbeat: stored, refused, or failed.  The timer is stopped,  *)
(* drained and reset after a stored heartbeat only.                        *)
Refused == row \in {"cancelled", "finished", "deleted"}

HeartbeatStored ==
    /\ WorkerAt({"heartbeat"})
    /\ ~ctxDone /\ ~Refused
    /\ row' = "running"
    /\ fired' = FALSE
    /\ wpc' = "beats"
    /\ UNCHANGED <<ctxDone, progress, orphans, hvars>>

(* ErrTaskCancelled, ErrTaskFinished, ErrTaskNotFound: processHeartbeats   *)
(* returns no error and handleTask waits for the handler.                  *)
HeartbeatRefused ==
    /\ WorkerAt({"heartbeat"})
    /\ ~ctxDone /\ Refused
    /\ wpc' = "await"
    /\ UNCHANGED <<ctxDone, fired, progress, row, orphans, hvars>>

(* Any other error ends handleTask. *)
HeartbeatFails ==
    /\ WorkerAt({"heartbeat"})
    /\ wpc' = "loop"
    /\ UNCHANGED <<ctxDone, fired, progress, row, orphans, hvars>>

(* The heartbeat timer runs while processHeartbeats does. *)
TimerFires ==
    /\ WorkerAt({"beats", "heartbeat"})
    /\ ~fired
    /\ fired' = TRUE
    /\ UNCHANGED <<wpc, ctxDone, progress, row, orphans, hvars>>

-----------------------------------------------------------------------------
(* handleTask, after processHeartbeats *)

(* workErr := <-processDone; a closed channel yields nil. *)
ReceiveResult ==
    /\ WorkerAt({"await"})
    /\ done # "empty"
    /\ wpc' = IF done = "err" THEN "fail" ELSE "finish"
    /\ UNCHANGED <<ctxDone, fired, progress, row, orphans, hvars>>

(* dequeuer.Finish or dequeuer.Fail, also after a timeout; handleTask then *)
(* returns whatever they return.                                           *)
StoreOutcome(status) ==
    /\ WorkerAt(IF status = "finished" THEN {"finish"} ELSE {"fail", "timeout"})
    /\ \/ ~ctxDone /\ ~Refused /\ row' = status
       \/ UNCHANGED row
    /\ wpc' = "loop"
    /\ UNCHANGED <<ctxDone, fired, progress, orphans, hvars>>

-----------------------------------------------------------------------------
(* The environment *)

CancelContext ==
    /\ ~ctxDone /\ ~crashed
    /\ ctxDone' = TRUE
    /\ UNCHANGED <<wpc, fired, progress, row, orphans, hvars>>

(* A user cancels the task, a cascade deletes it, or another worker took   *)
(* it over and finished it.                                                *)
Interfere(status) ==
    /\ row = "running" /\ ~crashed
    /\ row' = status
    /\ UNCHANGED <<wpc, ctxDone, fired, progress, orphans, hvars>>

-----------------------------------------------------------------------------
WorkerStep ==
    \/ \E k \in Kinds : Dequeue(k)
    \/ ReturnFromWork
    \/ SeeCancelledContext \/ SeeTimeout \/ ReceiveProgress \/ SeeClosed
    \/ HeartbeatStored \/ HeartbeatRefused \/ HeartbeatFails
    \/ ReceiveResult
    \/ StoreOutcome("finished") \/ StoreOutcome("failed")

Next ==
    \/ WorkerStep
    \/ HandlerStep(TaskCtxDone) /\ UNCHANGED wvars
    \/ TickerStep(TaskCtxDone) /\ UNCHANGED wvars
    \/ TickerFires /\ UNCHANGED wvars
    \/ TimerFires
    \/ CancelContext
    \/ \E status \in Interference : Interfere(status)

Spec == Init /\ [][Next]_vars

(* Goroutines are scheduled, the calls of the handlers and of the dequeuer *)
(* return, and the heartbeat timer fires.                                  *)
FairSpec ==
    /\ Spec
    /\ WF_vars(WorkerStep)
    /\ WF_vars(HandlerStep(TaskCtxDone) /\ UNCHANGED wvars)
    /\ WF_vars(TickerStep(TaskCtxDone) /\ UNCHANGED wvars)
    /\ WF_vars(TimerFires)

-----------------------------------------------------------------------------
(* Properties *)

(* "Finished task is successfully finished": Finish is called only after   *)
(* the handler has ended, also when a heartbeat was refused and handleTask *)
(* went on to wait for it, and never for one that returned an error; only  *)
(* a handler that panicked is stored as finished.                          *)
ErrorsAreNotFinished ==
    wpc = "finish" => hpc = "exited" /\ (herr => done = "closed")

(* The outcome of a task is stored with the last progress its handler      *)
(* sent, although the close of heartbeats also delivers an (empty) value.  *)
OutcomeKeepsProgress ==
    wpc \in {"finish", "fail", "timeout"} /\ sent => progress = "latest"

(* Only the ticker goroutine of an API handler can end the process:        *)
(* every other panic, the application's handlers included, is recovered.   *)
OnlyTickersCrash == crashed => kind = "api" /\ tpc \in {"wait", "send"}

(* The worker waits for the result of a handler that waits for the worker  *)
(* to receive its next progress.                                           *)
Stuck == wpc = "await" /\ Contains(sendq, "main")

(* Every task that is handed to a handler gets out of handleTask again,    *)
(* whatever the handler does; the only thing that can keep it there is a   *)
(* handler that sends another progress after one was refused.              *)
TaskIsReleased ==
    wpc = "beats" ~> (wpc \in {"loop", "returned"} \/ crashed \/ Stuck)

(* Work runs "until the context is canceled": after the cancellation it    *)
(* returns, if it is not stuck with such a handler.                        *)
WorkReturnsUnlessStuck == ctxDone ~> (wpc = "returned" \/ crashed \/ Stuck)

(* What handleTask and the handlers keep true at every step: what is       *)
(* stored for a task is what its handler did, with its last progress, and  *)
(* only a ticker can end the process.  The goroutines keep HandlerInv, and *)
(* the worker has kept what it received.                                   *)
WorkerInv ==
    /\ TypeOK
    /\ HandlerInv
    /\ sent => progress = "latest"
    /\ ErrorsAreNotFinished
    /\ OutcomeKeepsProgress
    /\ OnlyTickersCrash
=============================================================================
