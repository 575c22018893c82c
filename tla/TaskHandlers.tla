----------------------------- MODULE TaskHandlers -----------------------------
(***************************************************************************)
(* The task handlers of pkg/queue/handlers and the goroutine of the task   *)
(* worker they run in: the goroutine that calls handler.Process, the       *)
(* ticker goroutine of the API handlers, the unbuffered heartbeats channel *)
(* they send on and the buffered processDone channel.                      *)
(*                                                                         *)
(* A send on heartbeats queues the goroutine until the worker receives;    *)
(* senders are served first come, first served, as the Go runtime does.    *)
(***************************************************************************)
EXTENDS Naturals, Sequences, SequencesExt

CONSTANTS
    Kinds,      \* which handlers run: "sql", "api", "unknown" (no handler
                \* registered with the dispatcher), "func" (any TaskHandlerFunc)
    MaxChunks   \* bound: documents in a response body, or heartbeats of a "func"

ASSUME KindsAssumption == Kinds \subseteq {"sql", "api", "unknown", "func"}
ASSUME ChunksAssumption == MaxChunks \in Nat

VARIABLES
    kind,     \* the handler of the current task
    hpc,      \* what the handler goroutine does next, "exited" at its end
    herr,     \* Process fails: its result err is not nil, or it panics
    chunks,   \* documents decoded (or heartbeats of a "func") so far
    sendq,    \* goroutines blocked in a send on heartbeats, in order
    sent,     \* the worker has received a progress value
    closed,   \* heartbeats is closed
    done,     \* what processDone holds: "empty", "nil", "err", or "closed"
    hcancel,  \* the handler has cancelled its own context
    tpc,      \* the ticker goroutine: "off", "wait", "send", "gone"
    tick,     \* a tick waits in ticker.C
    crashed   \* a panic that nobody recovers has ended the process

hvars == <<kind, hpc, herr, chunks, sendq, sent, closed, done, hcancel, tpc, tick, crashed>>

(* Stages in which Process sends its progress. *)
SendStages == {"initial", "result", "preparing", "pending", "response", "chunk",
               "duration", "message", "beat"}
Stages == SendStages \cup {"parse", "exec", "prepare", "request", "stream", "run",
                           "close", "return", "panic", "exited"}

(* A goroutine waits in one send at a time. *)
SenderQueues == {<<>>, <<"main">>, <<"tick">>, <<"main", "tick">>, <<"tick", "main">>}

HandlerTypeOK ==
    /\ kind \in Kinds
    /\ hpc \in Stages
    /\ herr \in BOOLEAN
    /\ chunks \in 0..MaxChunks
    /\ sendq \in SenderQueues
    /\ sent \in BOOLEAN
    /\ closed \in BOOLEAN
    /\ done \in {"empty", "nil", "err", "closed"}
    /\ hcancel \in BOOLEAN
    /\ tpc \in {"off", "wait", "send", "gone"}
    /\ tick \in BOOLEAN
    /\ crashed \in BOOLEAN

FirstStage(k) ==
    CASE k = "sql" -> "initial" [] k = "api" -> "parse" [] k = "func" -> "run"
      [] k = "unknown" -> "close"

(* handleTask makes the channels and starts the handler goroutine.  A      *)
(* dispatcher without a handler for the type fails with ErrNoHandlerFound. *)
StartHandler(k) ==
    /\ kind' = k
    /\ hpc' = FirstStage(k)
    /\ herr' = (k = "unknown")
    /\ chunks' = 0
    /\ sendq' = <<>>
    /\ sent' = FALSE
    /\ closed' = FALSE
    /\ done' = "empty"
    /\ hcancel' = FALSE
    /\ tpc' = "off"
    /\ tick' = FALSE
    /\ UNCHANGED crashed

-----------------------------------------------------------------------------
(* Process *)

(* The handler goroutine is at a stage and the process is alive. *)
At(stage) == hpc = stage /\ ~crashed

(* Move to another stage; with fails the error result is set. *)
Goto(stage, fails) ==
    /\ hpc' = stage
    /\ herr' = (herr \/ fails)
    /\ UNCHANGED <<kind, chunks, sendq, sent, closed, done, hcancel, tpc, tick, crashed>>

(* heartbeats <- bytes: the goroutine queues up. *)
BlockOnSend ==
    /\ hpc \in SendStages /\ ~crashed
    /\ ~Contains(sendq, "main")
    /\ sendq' = Append(sendq, "main")
    /\ UNCHANGED <<kind, hpc, herr, chunks, sent, closed, done, hcancel, tpc, tick, crashed>>

(* Where Process goes on when its progress was received: the deferred      *)
(* sends of the duration and of the error message come last.               *)
AfterSend ==
    CASE hpc = "initial"   -> "parse"
      [] hpc = "preparing" -> "prepare"
      [] hpc = "pending"   -> "request"
      [] hpc = "response"  -> "stream"
      [] hpc = "chunk"     -> "stream"
      [] hpc = "beat"      -> "run"
      [] hpc = "duration"  -> IF herr THEN "message" ELSE "close"
      [] hpc \in {"result", "message"} -> "close"

(* The task spec is parsed. *)
Parse(fails) ==
    /\ At("parse")
    /\ Goto(IF fails THEN "message" ELSE IF kind = "sql" THEN "exec" ELSE "preparing", fails)

(* sqlTaskHandler: ExecContext and RowsAffected *)
ExecSQL(fails) ==
    /\ At("exec")
    /\ Goto(IF fails THEN "message" ELSE "result", fails)

(* apiRequestHandler: build and authorize the request *)
PrepareRequest(fails) ==
    /\ At("prepare")
    /\ Goto(IF fails THEN "message" ELSE "pending", fails)

(* Send the request; the content type must be JSON. *)
DoRequest(fails) ==
    /\ At("request")
    /\ Goto(IF fails THEN "duration" ELSE "response", fails)

(* A pass of the loop decodes a document and reports it. *)
DecodeChunk ==
    /\ At("stream")
    /\ chunks < MaxChunks
    /\ chunks' = chunks + 1
    /\ hpc' = "chunk"
    /\ UNCHANGED <<kind, herr, sendq, sent, closed, done, hcancel, tpc, tick, crashed>>

(* End of the body, a decoding error, an error status, an unexpected       *)
(* status code or a cancelled context; the deferred ticker.Stop runs.      *)
EndStream(fails) ==
    /\ At("stream")
    /\ Goto("duration", fails)

(* The deferred cancel and close(heartbeats).  A goroutine that is blocked *)
(* in a send panics; the ticker goroutine has no recover.                  *)
CloseHeartbeats ==
    /\ At("close")
    /\ closed' = TRUE
    /\ hcancel' = TRUE
    /\ crashed' = (crashed \/ sendq # <<>>)
    /\ hpc' = "return"
    /\ UNCHANGED <<kind, herr, chunks, sendq, sent, done, tpc, tick>>

(* External: any TaskHandlerFunc may heartbeat, may forget to close the    *)
(* channel, and may panic.                                                 *)
FuncBeat ==
    /\ At("run")
    /\ chunks < MaxChunks
    /\ chunks' = chunks + 1
    /\ hpc' = "beat"
    /\ UNCHANGED <<kind, herr, sendq, sent, closed, done, hcancel, tpc, tick, crashed>>

FuncEnds ==
    /\ At("run")
    /\ \/ Goto("panic", TRUE)
       \/ \E stage \in {"close", "return"}, fails \in BOOLEAN : Goto(stage, fails)

(* Mutants: processDone gets no result; it is not closed after a panic.    *)
ReturnWithoutResult ==
    /\ At("return")
    /\ closed' = TRUE
    /\ hpc' = "exited"
    /\ UNCHANGED <<kind, herr, chunks, sendq, sent, done, hcancel, tpc, tick, crashed>>

PanicWithoutClose ==
    /\ At("panic")
    /\ closed' = TRUE
    /\ hpc' = "exited"
    /\ UNCHANGED <<kind, herr, chunks, sendq, sent, done, hcancel, tpc, tick, crashed>>

(* processDone <- Process(...), then the deferred close of processDone and *)
(* of heartbeats; closing heartbeats twice panics and is recovered.        *)
ReturnFromProcess ==
    /\ At("return")
    /\ done' = IF herr THEN "err" ELSE "nil"
    /\ closed' = TRUE
    /\ hpc' = "exited"
    /\ UNCHANGED <<kind, herr, chunks, sendq, sent, hcancel, tpc, tick, crashed>>

(* A panic in Process skips the send on processDone; the deferred closes   *)
(* and the recover run.                                                    *)
PanicInProcess ==
    /\ At("panic")
    /\ done' = "closed"
    /\ closed' = TRUE
    /\ hpc' = "exited"
    /\ UNCHANGED <<kind, herr, chunks, sendq, sent, hcancel, tpc, tick, crashed>>

-----------------------------------------------------------------------------
(* The ticker goroutine of the API handlers *)

(* ticker.C has room for one tick; ticker.Stop does not drain it. *)
TickerFires ==
    /\ hpc \in {"stream", "chunk"} /\ ~crashed
    /\ tpc # "off"
    /\ ~tick
    /\ tick' = TRUE
    /\ UNCHANGED <<kind, hpc, herr, chunks, sendq, sent, closed, done, hcancel, tpc, crashed>>

(* case <-ticker.C: a send on a closed channel panics. *)
TickerSends ==
    /\ tpc = "wait" /\ ~crashed
    /\ tick
    /\ tick' = FALSE
    /\ IF closed
         THEN crashed' = TRUE /\ UNCHANGED <<sendq, tpc>>
         ELSE sendq' = Append(sendq, "tick") /\ tpc' = "send" /\ UNCHANGED crashed
    /\ UNCHANGED <<kind, hpc, herr, chunks, sent, closed, done, hcancel>>

(* case <-ctx.Done() *)
TickerStops(ctxDone) ==
    /\ tpc = "wait" /\ ~crashed
    /\ ctxDone \/ hcancel
    /\ tpc' = "gone"
    /\ UNCHANGED <<kind, hpc, herr, chunks, sendq, sent, closed, done, hcancel, tick, crashed>>

-----------------------------------------------------------------------------
(* The worker receives from heartbeats.  The API handlers start their      *)
(* ticker goroutine once the response was reported.                        *)
Receive ==
    /\ sendq # <<>>
    /\ sendq' = Tail(sendq)
    /\ sent' = TRUE
    /\ IF Head(sendq) = "main"
         THEN hpc' = AfterSend /\ tpc' = IF hpc = "response" THEN "wait" ELSE tpc
         ELSE tpc' = "wait" /\ UNCHANGED hpc
    /\ UNCHANGED <<kind, herr, chunks, closed, done, hcancel, tick, crashed>>

(* A step of the handler goroutine.  Calls that were given a cancelled     *)
(* context fail.                                                           *)
HandlerStep(ctxDone) ==
    \/ BlockOnSend
    \/ \E fails \in BOOLEAN : Parse(fails) \/ PrepareRequest(fails)
    \/ \E fails \in {TRUE} \cup {ctxDone} :
         ExecSQL(fails) \/ DoRequest(fails) \/ EndStream(fails)
    \/ ~ctxDone /\ DecodeChunk
    \/ CloseHeartbeats
    \/ FuncBeat
    \/ FuncEnds
    \/ ReturnFromProcess
    \/ PanicInProcess

TickerStep(ctxDone) == TickerSends \/ TickerStops(ctxDone)

-----------------------------------------------------------------------------
(* What holds between the goroutines *)

(* Who queues up is in a send, and the ticker goroutine in no other way.   *)
SendersWait ==
    /\ Contains(sendq, "main") => hpc \in SendStages
    /\ Contains(sendq, "tick") <=> tpc = "send"

(* A handler stays within its own stages. *)
APIStages == {"preparing", "prepare", "pending", "request", "response", "stream", "chunk"}

StagesOfKind ==
    /\ hpc = "initial" => kind = "sql"
    /\ hpc = "parse" => kind \in {"sql", "api"}
    /\ hpc \in APIStages => kind = "api"

(* The ticker goroutine is started by an API handler with a response, and  *)
(* may outlive it.                                                         *)
TickerRuns ==
    tpc # "off" =>
        /\ kind = "api"
        /\ hpc \in {"stream", "chunk", "duration", "message", "close", "return", "exited"}

(* processDone gets the result of Process when nothing can change it. *)
ResultIsFinal ==
    /\ done # "empty" => hpc = "exited"
    /\ done = "nil" => ~herr

HandlerInv == SendersWait /\ StagesOfKind /\ TickerRuns /\ ResultIsFinal
=============================================================================
