--------------------------- MODULE TaskWorkerProofs ---------------------------
(***************************************************************************)
(* TaskWorker and TaskHandlers proved for every set of handlers and every  *)
(* bound; then DequeueLoop, which gives the workers their tasks, for every *)
(* number of workers, tasks and queues.                                    *)
(***************************************************************************)
EXTENDS TaskWorker, DequeueLoop, SequenceTheorems, TLAPS

-----------------------------------------------------------------------------
(* The queue of the senders *)

(* What the five queues contain. *)
LEMMA QueueContents ==
    /\ \A e : ~Contains(<<>>, e)
    /\ \A d, e : Contains(<<d>>, e) <=> d = e
    /\ \A c, d, e : Contains(<<c, d>>, e) <=> (c = e \/ d = e)
<1>1. \A e : ~Contains(<<>>, e)
  BY DEF Contains
<1>2. \A d, e : Contains(<<d>>, e) <=> d = e
  BY DEF Contains
<1>3. ASSUME NEW c, NEW d, NEW e
      PROVE  Contains(<<c, d>>, e) <=> (c = e \/ d = e)
  <2>1. Len(<<c, d>>) = 2 /\ <<c, d>>[1] = c /\ <<c, d>>[2] = d
    OBVIOUS
  <2>2. 1..2 = {1, 2}
    OBVIOUS
  <2>3. QED
    BY <2>1, <2>2 DEF Contains
<1>4. QED
  BY <1>1, <1>2, <1>3

(* A queue of one becomes a queue of two. *)
LEMMA AppendSecond ==
    ASSUME NEW S, NEW f \in S, NEW e \in S
    PROVE  Append(<<f>>, e) = <<f, e>>
<1>1. /\ <<f>> \in Seq(S) /\ Len(<<f>>) = 1 /\ <<f>>[1] = f
      /\ <<f, e>> \in Seq(S) /\ Len(<<f, e>>) = 2 /\ <<f, e>>[1] = f /\ <<f, e>>[2] = e
  OBVIOUS
<1>2. Append(<<f>>, e) \in Seq(S) /\ Len(Append(<<f>>, e)) = 2
  BY <1>1, AppendProperties
<1>3. \A i \in 1..2 : Append(<<f>>, e)[i] = <<f, e>>[i]
  BY <1>1, AppendProperties
<1>4. QED
  BY <1>1, <1>2, <1>3, SeqEqual

(* A goroutine that queues up joins those that wait already. *)
LEMMA JoinQueue ==
    ASSUME NEW q \in SenderQueues, NEW e \in {"main", "tick"}, ~Contains(q, e)
    PROVE  /\ Append(q, e) \in SenderQueues
           /\ \A d : Contains(Append(q, e), d) <=> (Contains(q, d) \/ d = e)
<1>1. CASE q = <<>>
  <2>1. Append(q, e) = <<e>>
    BY <1>1
  <2>2. QED
    BY <1>1, <2>1, QueueContents DEF SenderQueues
<1>2. CASE q # <<>>
  <2>1. Contains(<<"main", "tick">>, e) /\ Contains(<<"tick", "main">>, e)
    BY QueueContents
  <2>2. q \in {<<"main">>, <<"tick">>}
    BY <1>2, <2>1 DEF SenderQueues
  <2>3. PICK f \in {"main", "tick"} : q = <<f>>
    BY <2>2
  <2>4. f # e
    BY <2>3, QueueContents
  <2>5. Append(q, e) = <<f, e>>
    BY <2>3, AppendSecond
  <2>6. <<f, e>> \in SenderQueues
    BY <2>4 DEF SenderQueues
  <2>7. \A d : Contains(<<f, e>>, d) <=> (Contains(<<f>>, d) \/ d = e)
    BY QueueContents
  <2>8. QED
    BY <2>3, <2>5, <2>6, <2>7
<1>3. QED
  BY <1>1, <1>2

(* The one that is served leaves the others behind. *)
LEMMA LeaveQueue ==
    ASSUME NEW q \in SenderQueues, q # <<>>
    PROVE  /\ Head(q) \in {"main", "tick"}
           /\ Tail(q) \in SenderQueues
           /\ Contains(q, Head(q))
           /\ \A d : Contains(Tail(q), d) <=> (Contains(q, d) /\ d # Head(q))
<1>1. CASE q \in {<<"main">>, <<"tick">>}
  <2>1. PICK f \in {"main", "tick"} : q = <<f>>
    BY <1>1
  <2>2. Head(q) = f /\ Tail(q) = <<>>
    BY <2>1
  <2>3. QED
    BY <2>1, <2>2, QueueContents DEF SenderQueues
<1>2. CASE q \in {<<"main", "tick">>, <<"tick", "main">>}
  <2>1. PICK f \in {"main", "tick"}, g \in {"main", "tick"} : q = <<f, g>> /\ f # g
    BY <1>2
  <2>2. Head(q) = f /\ Tail(q) = <<g>>
    BY <2>1
  <2>3. QED
    BY <2>1, <2>2, QueueContents DEF SenderQueues
<1>3. QED
  BY <1>1, <1>2 DEF SenderQueues

(* Somebody waits in a queue that is not empty. *)
LEMMA WaitingQueue ==
    ASSUME NEW q \in SenderQueues, q # <<>>
    PROVE  Contains(q, "main") \/ Contains(q, "tick")
BY LeaveQueue

-----------------------------------------------------------------------------
(* WorkerInv *)

(* No task was dequeued yet. *)
LEMMA WorkerInit == Init => WorkerInv
<1> SUFFICES ASSUME Init PROVE WorkerInv
  OBVIOUS
<1>1. /\ herr \in BOOLEAN /\ sent \in BOOLEAN /\ closed \in BOOLEAN /\ hcancel \in BOOLEAN
      /\ tick \in BOOLEAN /\ crashed \in BOOLEAN /\ ctxDone \in BOOLEAN /\ fired \in BOOLEAN
  BY Zenon DEF Init
<1>2. TypeOK
  BY <1>1, ChunksAssumption, OrphansAssumption
     DEF Init, TypeOK, HandlerTypeOK, Stages, SendStages, SenderQueues
<1>3. HandlerInv
  BY QueueContents
     DEF Init, HandlerInv, SendersWait, StagesOfKind, TickerRuns, ResultIsFinal, APIStages
<1>4. QED
  BY <1>2, <1>3 DEF Init, WorkerInv, ErrorsAreNotFinished, OutcomeKeepsProgress, OnlyTickersCrash

(* A step of the worker that leaves the handler alone keeps what the       *)
(* goroutines keep; what it calls next must fit to the result.             *)
LEMMA WorkerMoves ==
    ASSUME WorkerInv, UNCHANGED <<hvars, progress>>, TypeOK', ErrorsAreNotFinished'
    PROVE  WorkerInv'
<1>1. HandlerInv'
  BY DEF WorkerInv, HandlerInv, SendersWait, StagesOfKind, TickerRuns, ResultIsFinal, hvars
<1>2. QED
  BY <1>1 DEF WorkerInv, OutcomeKeepsProgress, OnlyTickersCrash, hvars

(* The steps of Work, processHeartbeats and handleTask other than the      *)
(* start of a handler and a received progress.                             *)
LEMMA WorkerOnly ==
    ASSUME WorkerInv,
           \/ ReturnFromWork \/ SeeCancelledContext \/ SeeTimeout \/ SeeClosed
           \/ HeartbeatStored \/ HeartbeatRefused \/ HeartbeatFails \/ TimerFires
           \/ ReceiveResult \/ StoreOutcome("finished") \/ StoreOutcome("failed")
           \/ CancelContext \/ \E status \in Interference : Interfere(status)
    PROVE  WorkerInv'
<1> DEFINE Moves ==
      /\ UNCHANGED <<hvars, progress, orphans>>
      /\ wpc' \in {"loop", "beats", "heartbeat", "await", "timeout", "fail", "finish", "returned"}
      /\ ctxDone' \in BOOLEAN /\ fired' \in BOOLEAN
      /\ row' \in {"running", "finished", "failed", "cancelled", "deleted"}
      /\ wpc' = "finish" => wpc = "finish" \/ done \in {"nil", "closed"}
<1>1. ASSUME \/ ReturnFromWork \/ SeeCancelledContext \/ SeeTimeout \/ SeeClosed
             \/ HeartbeatRefused \/ HeartbeatFails
      PROVE  Moves
  BY <1>1 DEF WorkerInv, TypeOK, ReturnFromWork, SeeCancelledContext, SeeTimeout, SeeClosed,
     HeartbeatRefused, HeartbeatFails
<1>2. ASSUME HeartbeatStored \/ TimerFires
      PROVE  Moves
  BY <1>2 DEF WorkerInv, TypeOK, HeartbeatStored, TimerFires
<1>3. ASSUME ReceiveResult
      PROVE  Moves
  BY <1>3 DEF WorkerInv, TypeOK, HandlerTypeOK, ReceiveResult
<1>4. ASSUME StoreOutcome("finished") \/ StoreOutcome("failed")
      PROVE  Moves
  BY <1>4 DEF WorkerInv, TypeOK, StoreOutcome
<1>5. ASSUME CancelContext
      PROVE  Moves
  BY <1>5 DEF WorkerInv, TypeOK, CancelContext
<1>6. ASSUME \E status \in Interference : Interfere(status)
      PROVE  Moves
  BY <1>6, InterferenceAssumption DEF WorkerInv, TypeOK, Interfere
<1>7. Moves
  BY <1>1, <1>2, <1>3, <1>4, <1>5, <1>6
<1>8. TypeOK'
  BY <1>7 DEF WorkerInv, TypeOK, HandlerTypeOK, hvars
<1>9. ErrorsAreNotFinished'
  BY <1>7 DEF WorkerInv, ErrorsAreNotFinished, HandlerInv, ResultIsFinal, hvars
<1>10. QED
  BY <1>7, <1>8, <1>9, WorkerMoves

(* Dequeue starts the next handler with channels of its own. *)
LEMMA DequeueStep ==
    ASSUME WorkerInv, NEW k \in Kinds, Dequeue(k)
    PROVE  WorkerInv'
<1> USE DEF WorkerInv
<1>1. FirstStage(k) = IF k = "sql" THEN "initial" ELSE IF k = "api" THEN "parse"
                      ELSE IF k = "func" THEN "run" ELSE "close"
  BY KindsAssumption DEF FirstStage
<1>2. /\ herr' \in BOOLEAN /\ sent' \in BOOLEAN /\ closed' \in BOOLEAN /\ hcancel' \in BOOLEAN
      /\ tick' \in BOOLEAN /\ fired' \in BOOLEAN
  BY Zenon DEF Dequeue, StartHandler
<1>3. TypeOK'
  <2>1. orphans' \in 0..MaxOrphans
    BY OrphansAssumption DEF TypeOK, Dequeue
  <2>2. QED
    BY <1>1, <1>2, <2>1, ChunksAssumption
       DEF Dequeue, StartHandler, TypeOK, HandlerTypeOK, Stages, SendStages, SenderQueues
<1>4. HandlerInv'
  <2>1. SendersWait'
    BY QueueContents DEF Dequeue, StartHandler, SendersWait
  <2>2. StagesOfKind' /\ TickerRuns' /\ ResultIsFinal'
    BY <1>1 DEF Dequeue, StartHandler, StagesOfKind, TickerRuns, ResultIsFinal, APIStages
  <2>3. QED
    BY <2>1, <2>2 DEF HandlerInv
<1>5. QED
  BY <1>3, <1>4 DEF Dequeue, WorkerAt, StartHandler, ErrorsAreNotFinished, OutcomeKeepsProgress,
     OnlyTickersCrash

(* Where Process goes on after a send is one of its stages, and not one    *)
(* with a progress before the response was reported.                       *)
LEMMA AfterSendStage ==
    ASSUME hpc \in SendStages
    PROVE  /\ AfterSend \in {"parse", "prepare", "request", "stream", "run", "message", "close"}
           /\ AfterSend = "parse" => hpc = "initial"
           /\ AfterSend = "prepare" => hpc = "preparing"
           /\ AfterSend = "request" => hpc = "pending"
           /\ AfterSend = "stream" => hpc \in {"response", "chunk"}
           /\ AfterSend = "run" => hpc = "beat"
           /\ hpc = "response" => AfterSend = "stream"
BY DEF SendStages, AfterSend

(* The worker receives the progress of the goroutine that waits longest. *)
LEMMA ReceiveStep ==
    ASSUME WorkerInv, ReceiveProgress
    PROVE  WorkerInv'
<1> USE DEF WorkerInv
<1>1. /\ sendq \in SenderQueues /\ sendq # <<>> /\ sendq' = Tail(sendq)
      /\ sent' \in BOOLEAN
  BY Zenon DEF ReceiveProgress, Receive, TypeOK, HandlerTypeOK
<1>2. /\ Head(sendq) \in {"main", "tick"} /\ sendq' \in SenderQueues
      /\ Contains(sendq, Head(sendq))
      /\ \A d : Contains(sendq', d) <=> (Contains(sendq, d) /\ d # Head(sendq))
  BY <1>1, LeaveQueue
<1>3. CASE Head(sendq) = "main"
  <2>1. hpc \in SendStages
    BY <1>2, <1>3 DEF HandlerInv, SendersWait
  <2>2. hpc' = AfterSend /\ tpc' = IF hpc = "response" THEN "wait" ELSE tpc
    BY <1>3 DEF ReceiveProgress, Receive
  <2>3. tpc # "off" => hpc \in {"chunk", "duration", "message"}
    BY <2>1 DEF HandlerInv, TickerRuns, SendStages
  <2>4. done = "empty"
    BY <2>1 DEF HandlerInv, ResultIsFinal, SendStages
  <2>5. TypeOK'
    BY <1>1, <1>2, <2>1, <2>2, AfterSendStage
       DEF ReceiveProgress, Receive, TypeOK, HandlerTypeOK, Stages, SendStages
  <2>6. SendersWait'
    BY <1>2, <1>3, <2>2, <2>3 DEF HandlerInv, SendersWait
  <2>7. StagesOfKind'
    BY <2>1, <2>2, AfterSendStage
       DEF ReceiveProgress, Receive, HandlerInv, StagesOfKind, APIStages
  <2>8. TickerRuns'
    <3>1. hpc \in {"chunk", "duration", "message"} =>
            AfterSend \in {"stream", "message", "close"}
      BY DEF AfterSend
    <3>2. QED
      BY <2>1, <2>2, <2>3, <3>1, AfterSendStage
         DEF ReceiveProgress, Receive, HandlerInv, TickerRuns, StagesOfKind, APIStages
  <2>9. ResultIsFinal'
    BY <2>4 DEF ReceiveProgress, Receive, ResultIsFinal
  <2>10. QED
    BY <2>5, <2>6, <2>7, <2>8, <2>9
       DEF ReceiveProgress, Receive, WorkerAt, HandlerInv, ErrorsAreNotFinished,
           OutcomeKeepsProgress, OnlyTickersCrash
<1>4. CASE Head(sendq) = "tick"
  <2>1. tpc = "send" /\ tpc' = "wait" /\ hpc' = hpc
    BY <1>2, <1>4 DEF ReceiveProgress, Receive, HandlerInv, SendersWait
  <2>2. TypeOK'
    BY <1>1, <1>2, <2>1 DEF ReceiveProgress, Receive, TypeOK, HandlerTypeOK
  <2>3. SendersWait'
    BY <1>2, <1>4, <2>1 DEF HandlerInv, SendersWait
  <2>4. StagesOfKind' /\ TickerRuns' /\ ResultIsFinal'
    BY <2>1 DEF ReceiveProgress, Receive, HandlerInv, StagesOfKind, TickerRuns, ResultIsFinal
  <2>5. QED
    BY <2>2, <2>3, <2>4
       DEF ReceiveProgress, Receive, WorkerAt, HandlerInv, ErrorsAreNotFinished,
           OutcomeKeepsProgress, OnlyTickersCrash
<1>5. QED
  BY <1>2, <1>3, <1>4

(* A step of the handler that is not in a send and has not exited: nobody  *)
(* waits in its name, and the worker has no result to store.               *)
LEMMA StageMoves ==
    ASSUME WorkerInv, UNCHANGED wvars,
           hpc \notin SendStages, hpc # "exited", hpc' \in Stages \ {"exited"},
           herr' \in BOOLEAN, chunks' \in 0..MaxChunks,
           UNCHANGED <<kind, sendq, sent, closed, done, hcancel, tpc, tick, crashed>>,
           StagesOfKind', TickerRuns'
    PROVE  WorkerInv'
<1> USE DEF WorkerInv
<1>1. TypeOK'
  BY DEF TypeOK, HandlerTypeOK, wvars
<1>2. SendersWait' /\ ResultIsFinal'
  BY DEF HandlerInv, SendersWait, ResultIsFinal
<1>3. ErrorsAreNotFinished' /\ OutcomeKeepsProgress' /\ OnlyTickersCrash'
  BY DEF ErrorsAreNotFinished, OutcomeKeepsProgress, OnlyTickersCrash, wvars
<1>4. QED
  BY <1>1, <1>2, <1>3 DEF HandlerInv, wvars

(* The same for a step that only changes the stage and the error. *)
LEMMA GotoMoves ==
    ASSUME WorkerInv, UNCHANGED wvars, NEW stage, NEW fails, Goto(stage, fails),
           hpc \notin SendStages, hpc # "exited", stage \in Stages \ {"exited"},
           StagesOfKind', TickerRuns'
    PROVE  WorkerInv'
<1>1. herr' \in BOOLEAN
  BY Zenon DEF Goto
<1>2. QED
  BY <1>1, StageMoves DEF Goto, WorkerInv, TypeOK, HandlerTypeOK

(* A blocked send. *)
LEMMA BlockStep ==
    ASSUME WorkerInv, BlockOnSend, UNCHANGED wvars
    PROVE  WorkerInv'
<1> USE DEF WorkerInv
<1>1. /\ sendq' \in SenderQueues
      /\ \A d : Contains(sendq', d) <=> (Contains(sendq, d) \/ d = "main")
  BY JoinQueue DEF BlockOnSend, TypeOK, HandlerTypeOK
<1>2. TypeOK'
  BY <1>1 DEF BlockOnSend, TypeOK, HandlerTypeOK, wvars
<1>3. HandlerInv'
  BY <1>1 DEF BlockOnSend, HandlerInv, SendersWait, StagesOfKind, TickerRuns, ResultIsFinal
<1>4. QED
  BY <1>2, <1>3
     DEF BlockOnSend, wvars, ErrorsAreNotFinished, OutcomeKeepsProgress, OnlyTickersCrash

(* The close of heartbeats ends the process only if the ticker goroutine   *)
(* waits in a send: the handler itself does not.                           *)
LEMMA CloseStep ==
    ASSUME WorkerInv, CloseHeartbeats, UNCHANGED wvars
    PROVE  WorkerInv'
<1> USE DEF WorkerInv
<1>1. closed' \in BOOLEAN /\ hcancel' \in BOOLEAN /\ crashed' \in BOOLEAN
  BY Zenon DEF CloseHeartbeats
<1>2. crashed' => sendq # <<>>
  BY Zenon DEF CloseHeartbeats, At
<1>3. sendq # <<>> => tpc = "send"
  BY WaitingQueue
     DEF CloseHeartbeats, At, TypeOK, HandlerTypeOK, HandlerInv, SendersWait, SendStages
<1>4. TypeOK'
  BY <1>1 DEF CloseHeartbeats, TypeOK, HandlerTypeOK, Stages, wvars
<1>5. HandlerInv'
  BY DEF CloseHeartbeats, At, HandlerInv, SendersWait, StagesOfKind, TickerRuns, ResultIsFinal,
     APIStages, SendStages
<1>6. QED
  BY <1>2, <1>3, <1>4, <1>5
     DEF CloseHeartbeats, At, wvars, HandlerInv, TickerRuns, ErrorsAreNotFinished,
         OutcomeKeepsProgress, OnlyTickersCrash

(* The end of the handler goroutine, with a result or with a panic. *)
LEMMA ExitStep ==
    ASSUME WorkerInv, ReturnFromProcess \/ PanicInProcess, UNCHANGED wvars
    PROVE  WorkerInv'
<1> USE DEF WorkerInv
<1>1. closed' \in BOOLEAN
  BY Zenon DEF ReturnFromProcess, PanicInProcess
<1>2. TypeOK'
  BY <1>1 DEF ReturnFromProcess, PanicInProcess, TypeOK, HandlerTypeOK, Stages, wvars
<1>3. HandlerInv'
  BY DEF ReturnFromProcess, PanicInProcess, At, HandlerInv, SendersWait, StagesOfKind, TickerRuns,
     ResultIsFinal, APIStages, SendStages
<1>4. QED
  BY <1>2, <1>3
     DEF ReturnFromProcess, PanicInProcess, At, wvars, ErrorsAreNotFinished,
         OutcomeKeepsProgress, OnlyTickersCrash

(* Every step of the handler goroutine. *)
LEMMA HandlerSteps ==
    ASSUME WorkerInv, HandlerStep(TaskCtxDone), UNCHANGED wvars
    PROVE  WorkerInv'
<1> USE DEF WorkerInv
<1> USE DEF Stages, SendStages, StagesOfKind, TickerRuns, APIStages, HandlerInv
<1>1. ASSUME NEW fails, Parse(fails) \/ PrepareRequest(fails) PROVE WorkerInv'
  BY <1>1, GotoMoves DEF Parse, PrepareRequest, Goto, At
<1>2. ASSUME NEW fails, ExecSQL(fails) \/ DoRequest(fails) \/ EndStream(fails) PROVE WorkerInv'
  BY <1>2, GotoMoves DEF ExecSQL, DoRequest, EndStream, Goto, At
<1>3. CASE FuncEnds
  BY <1>3, GotoMoves DEF FuncEnds, Goto, At
<1>4. CASE DecodeChunk \/ FuncBeat
  <2>1. chunks' \in 0..MaxChunks
    BY <1>4, ChunksAssumption DEF DecodeChunk, FuncBeat, TypeOK, HandlerTypeOK
  <2>2. QED
    BY <1>4, <2>1, StageMoves DEF DecodeChunk, FuncBeat, At, TypeOK, HandlerTypeOK
<1>5. QED
  BY <1>1, <1>2, <1>3, <1>4, BlockStep, CloseStep, ExitStep DEF HandlerStep

(* The ticker goroutine joins the queue, stops, or ends the process. *)
LEMMA TickerSteps ==
    ASSUME WorkerInv, TickerStep(TaskCtxDone) \/ TickerFires, UNCHANGED wvars
    PROVE  WorkerInv'
<1> USE DEF WorkerInv
<1>1. CASE TickerSends
  <2>1. tick' \in BOOLEAN
    BY <1>1, Zenon DEF TickerSends
  <2>2. CASE closed
    <3>1. crashed' = TRUE /\ sendq' = sendq /\ tpc' = tpc /\ tpc = "wait"
      BY <1>1, <2>2 DEF TickerSends
    <3>2. TypeOK'
      BY <1>1, <2>1, <3>1 DEF TickerSends, TypeOK, HandlerTypeOK, wvars
    <3>3. HandlerInv'
      BY <1>1, <3>1
         DEF TickerSends, HandlerInv, SendersWait, StagesOfKind, TickerRuns, ResultIsFinal
    <3>4. QED
      BY <1>1, <3>1, <3>2, <3>3
         DEF TickerSends, wvars, HandlerInv, TickerRuns, ErrorsAreNotFinished,
             OutcomeKeepsProgress, OnlyTickersCrash
  <2>3. CASE ~closed
    <3>1. crashed' = crashed /\ sendq' = Append(sendq, "tick") /\ tpc' = "send" /\ tpc = "wait"
      BY <1>1, <2>3 DEF TickerSends
    <3>2. /\ sendq' \in SenderQueues
          /\ \A d : Contains(sendq', d) <=> (Contains(sendq, d) \/ d = "tick")
      BY <3>1, JoinQueue DEF TypeOK, HandlerTypeOK, HandlerInv, SendersWait
    <3>3. TypeOK'
      BY <1>1, <2>1, <3>1, <3>2 DEF TickerSends, TypeOK, HandlerTypeOK, wvars
    <3>4. HandlerInv'
      BY <1>1, <3>1, <3>2
         DEF TickerSends, HandlerInv, SendersWait, StagesOfKind, TickerRuns, ResultIsFinal
    <3>5. QED
      BY <1>1, <3>1, <3>3, <3>4
         DEF TickerSends, wvars, ErrorsAreNotFinished, OutcomeKeepsProgress, OnlyTickersCrash
  <2>4. QED
    BY <2>2, <2>3
<1>2. CASE TickerStops(TaskCtxDone)
  <2>1. TypeOK'
    BY <1>2 DEF TickerStops, TypeOK, HandlerTypeOK, wvars
  <2>2. HandlerInv'
    BY <1>2 DEF TickerStops, HandlerInv, SendersWait, StagesOfKind, TickerRuns, ResultIsFinal
  <2>3. QED
    BY <1>2, <2>1, <2>2
       DEF TickerStops, wvars, ErrorsAreNotFinished, OutcomeKeepsProgress, OnlyTickersCrash
<1>3. CASE TickerFires
  <2>1. tick' \in BOOLEAN
    BY <1>3, Zenon DEF TickerFires
  <2>2. TypeOK'
    BY <1>3, <2>1 DEF TickerFires, TypeOK, HandlerTypeOK, wvars
  <2>3. HandlerInv'
    BY <1>3 DEF TickerFires, HandlerInv, SendersWait, StagesOfKind, TickerRuns, ResultIsFinal
  <2>4. QED
    BY <1>3, <2>2, <2>3
       DEF TickerFires, wvars, ErrorsAreNotFinished, OutcomeKeepsProgress, OnlyTickersCrash
<1>4. QED
  BY <1>1, <1>2, <1>3 DEF TickerStep

(* Every step keeps the invariant. *)
LEMMA WorkerInvStep == WorkerInv /\ [Next]_vars => WorkerInv'
<1> SUFFICES ASSUME WorkerInv, [Next]_vars PROVE WorkerInv'
  OBVIOUS
<1>1. CASE UNCHANGED vars
  <2>1. UNCHANGED <<wvars, hvars>>
    BY <1>1 DEF vars
  <2>2. TypeOK' /\ ErrorsAreNotFinished'
    BY <2>1 DEF WorkerInv, TypeOK, HandlerTypeOK, ErrorsAreNotFinished, wvars, hvars
  <2>3. QED
    BY <2>1, <2>2, WorkerMoves DEF wvars
<1>2. QED
  BY <1>1, DequeueStep, ReceiveStep, WorkerOnly, HandlerSteps, TickerSteps DEF Next, WorkerStep

(* What a worker stores for a task is what its handler did, with the last  *)
(* progress it received, and only the ticker goroutine of an API handler   *)
(* can end the process: for every mix of handlers, any number of           *)
(* heartbeats and documents, and whatever others do to the row.            *)
THEOREM OutcomeIsTheHandlers == Spec => []WorkerInv
<1>1. QED
  BY WorkerInit, WorkerInvStep, PTL DEF Spec

-----------------------------------------------------------------------------
(* DequeueLoop *)

(* Before the first call of Dequeue the channel is closed. *)
LEMMA LoopInitInv == LoopInit => ListenerInv
<1> SUFFICES ASSUME LoopInit PROVE ListenerInv
  OBVIOUS
<1>1. LoopTypeOK
  <2>1. /\ refused \in BOOLEAN /\ up \in BOOLEAN
        /\ notify \in BOOLEAN /\ stopping \in BOOLEAN
    BY Zenon DEF LoopInit
  <2>2. QED
    BY <2>1, FaultsAssumption DEF LoopInit, LoopTypeOK
<1>2. ListenerIsReleased
  BY WorkersAssumption DEF LoopInit, ListenerIsReleased, Waiting
<1>3. QED
  BY <1>1, <1>2 DEF LoopInit, ListenerInv

(* Every return of Dequeue with an error closes the channel if it was the  *)
(* caller's, unless the server refuses the UNLISTEN: nobody waits then,    *)
(* because only the caller did.                                            *)
LEMMA DequeueReturns ==
    ASSUME ListenerInv, NEW w \in Workers,
           ReturnError(w), UNCHANGED <<holds, up, notify, stopping>>, faults' \in 0..MaxFaults,
           state' \in [Tasks -> {"new", "waiting", "running", "silent", "done"}]
    PROVE  ListenerInv'
<1> USE WorkersAssumption, FaultsAssumption DEF ListenerInv
<1>1. refused' \in BOOLEAN
  BY Zenon DEF ReturnError, Unlisten, LoopTypeOK
<1>2. listener' \in Workers \cup {NoWorker}
  BY DEF ReturnError, Unlisten, LoopTypeOK
<1>3. LoopTypeOK'
  BY <1>1, <1>2 DEF ReturnError, LoopTypeOK
<1>4. ListenerIsReleased'
  <2>1. CASE pc[w] \in Waiting /\ listener' = NoWorker /\ refused' = refused
    BY <2>1 DEF ReturnError, LoopTypeOK, ListenerIsReleased, Waiting
  <2>2. CASE pc[w] \in Waiting /\ refused' = TRUE /\ listener' = listener
    BY <2>2 DEF ReturnError, LoopTypeOK, ListenerIsReleased, Waiting
  <2>3. CASE pc[w] \notin Waiting /\ listener' = listener /\ refused' = refused
    BY <2>3 DEF ReturnError, LoopTypeOK, ListenerIsReleased, Waiting
  <2>4. QED
    BY <2>1, <2>2, <2>3 DEF ReturnError, Unlisten
<1>5. QED
  BY <1>3, <1>4 DEF ReturnError, LoopTypeOK

(* A fault stays within the bound. *)
LEMMA LoopFault == ListenerInv /\ Fault => faults' \in 0..MaxFaults
BY FaultsAssumption DEF ListenerInv, LoopTypeOK, Fault

(* Every step keeps the invariant. *)
LEMMA LoopStepInv == ListenerInv /\ [LoopNext]_lvars => ListenerInv'
<1> SUFFICES ASSUME ListenerInv, [LoopNext]_lvars PROVE ListenerInv'
  OBVIOUS
<1> USE WorkersAssumption, FaultsAssumption DEF ListenerInv
<1>1. ASSUME NEW t \in Tasks, Enqueue(t) PROVE ListenerInv'
  BY <1>1 DEF Enqueue, LoopTypeOK, ListenerIsReleased
<1>2. ASSUME NEW t \in Tasks, Expire(t) PROVE ListenerInv'
  BY <1>2 DEF Expire, LoopTypeOK, ListenerIsReleased
<1>3. ASSUME NEW w \in Workers, Step(w) PROVE ListenerInv'
  <2>1. ASSUME NEW t \in Tasks, Take(w, t) PROVE ListenerInv'
    <3>1. LoopTypeOK'
      BY <2>1 DEF Take, LoopTypeOK
    <3>2. ListenerIsReleased'
      BY <2>1 DEF Take, LoopTypeOK, ListenerIsReleased, Waiting
    <3>3. QED
      BY <2>1, <3>1, <3>2 DEF Take, LoopTypeOK
  <2>2. CASE FindNothing(w)
    BY <2>2 DEF FindNothing, LoopTypeOK, ListenerIsReleased, Waiting
  <2>3. CASE AttemptFails(w)
    BY <2>3, DequeueReturns, LoopFault DEF AttemptFails, LoopTypeOK
  <2>4. CASE Listen(w)
    BY <2>4 DEF Listen, LoopTypeOK, ListenerIsReleased, Waiting
  <2>5. CASE ListenTwice(w)
    BY <2>5, DequeueReturns DEF ListenTwice, LoopTypeOK
  <2>6. CASE ListenReturns(w)
    BY <2>6 DEF ListenReturns, LoopTypeOK, ListenerIsReleased, Waiting
  <2>7. CASE SeeCancelled(w)
    BY <2>7, DequeueReturns DEF SeeCancelled, LoopTypeOK
  <2>8. CASE SeeTick(w)
    BY <2>8 DEF SeeTick, LoopTypeOK, ListenerIsReleased, Waiting
  <2>9. CASE SeeNotification(w)
    BY <2>9 DEF SeeNotification, LoopTypeOK, ListenerIsReleased, Waiting
  <2>10. CASE PingOK(w)
    BY <2>10 DEF PingOK, LoopTypeOK, ListenerIsReleased, Waiting
  <2>11. CASE PingFails(w)
    BY <2>11, DequeueReturns DEF PingFails, LoopTypeOK
  <2>12. CASE ListenRefused(w)
    BY <2>12, DequeueReturns, LoopFault DEF ListenRefused, LoopTypeOK
  <2>13. QED
    BY <1>3, <2>1, <2>2, <2>3, <2>4, <2>5, <2>6, <2>7, <2>8, <2>9, <2>10, <2>11, <2>12 DEF Step
<1>4. ASSUME NEW w \in Workers, Finish(w) PROVE ListenerInv'
  <2>1. LoopTypeOK'
    BY <1>4 DEF Finish, LoopTypeOK
  <2>2. ListenerIsReleased'
    BY <1>4 DEF Finish, LoopTypeOK, ListenerIsReleased, Waiting
  <2>3. QED
    BY <1>4, <2>1, <2>2 DEF Finish, LoopTypeOK
<1>5. ASSUME NEW w \in Workers, GiveUp(w) PROVE ListenerInv'
  BY <1>5, LoopFault DEF GiveUp, LoopTypeOK, ListenerIsReleased, Waiting
<1>6. ASSUME NEW w \in Workers, NEW t \in Tasks, TakeUnanswered(w, t) PROVE ListenerInv'
  BY <1>6, DequeueReturns, LoopFault DEF TakeUnanswered, LoopTypeOK
<1>7. CASE Disconnect
  BY <1>7, LoopFault DEF Disconnect, LoopTypeOK, ListenerIsReleased
<1>8. CASE Reconnect
  BY <1>8 DEF Reconnect, LoopTypeOK, ListenerIsReleased
<1>9. CASE StopWorkers
  BY <1>9 DEF StopWorkers, LoopTypeOK, ListenerIsReleased
<1>10. CASE UNCHANGED lvars
  BY <1>10 DEF lvars, LoopTypeOK, ListenerIsReleased
<1>11. ASSUME NEW w \in Workers, NEW t \in Tasks, Revive(w, t) PROVE ListenerInv'
  BY <1>11 DEF Revive, LoopTypeOK, ListenerIsReleased
<1>12. QED
  BY <1>1, <1>2, <1>3, <1>4, <1>5, <1>6, <1>7, <1>8, <1>9, <1>10, <1>11 DEF LoopNext

(* A worker waits in Dequeue only with the channel of the shared listener  *)
(* open for it, and every way out of Dequeue closes the channel unless the *)
(* server refuses, after which no worker waits for notifications: for any  *)
(* number of workers and tasks, whatever fails.                            *)
THEOREM ListenerReleased == LoopSpec => []ListenerInv
<1>1. QED
  BY LoopInitInv, LoopStepInv, PTL DEF LoopSpec
=============================================================================
