------------------------------ MODULE APIClient ------------------------------
(***************************************************************************)
(* A call of BaseAPIClient.DoRequest (pkg/http/clients) to a service whose *)
(* handler stands behind the authorization middleware and answers errors   *)
(* through Handler.Error (pkg/http/handlers).                              *)
(*                                                                         *)
(* The caller and every attempt it has sent are processes of their own: an *)
(* attempt the caller has given up on, because the connection broke, the   *)
(* context ended or a gateway answered instead, is still served.           *)
(* The backoff plan of a client is shared by all its requests without a    *)
(* lock, so its answer (wait or stop) is arbitrary here.                   *)
(***************************************************************************)
EXTENDS Claims, FiniteSets

CONSTANTS
    Configs,         \* clients and services, as ConfigRecords
    HandlerErrors,   \* what the handler may return, a subset of Errors
    GatewayStatuses, \* what a gateway may answer in place of the service
    Relayed,         \* the source token of TokenProviderFromClaims
    Start,           \* times at which the call begins
    MaxTime,         \* bound: last tick of the clock
    MaxAttempts      \* bound: the largest maxAttempts of a configuration

ConfigRecords ==
    [ maxAttempts : 0..MaxAttempts, planned : BOOLEAN, provider : {"creator", "claims", "noop", "failing"},
      lifetime : Nat, behind : Nat, ahead : Nat, payload : {"none", "valid", "invalid"},
      badURL : BOOLEAN, protected : BOOLEAN, hangs : BOOLEAN ]

ASSUME ConfigsAssumption == Configs \subseteq ConfigRecords
ASSUME TimesAssumption == /\ MaxTime \in Nat /\ MaxAttempts \in Nat \ {0}
                          /\ Start \subseteq (maxSkew + Second)..MaxTime
ASSUME RelayedAssumption == Relayed \in Tokens
(* A gateway that answers in place of the service reports an error. *)
ASSUME GatewayAssumption == GatewayStatuses \subseteq 400..599

VARIABLES
    config,    \* the configuration of this call
    now,       \* clock of the caller
    pc,        \* where DoRequest is
    attempts,  \* attempts made
    sent,      \* what became of each attempt that was sent
    err,       \* error of the last attempt, or of the call once pc = "done"
    answer,    \* the last answer the caller has read, and who gave it
    cancelled, \* the context has ended
    gateways,  \* answers that came from a gateway
    successes, \* runs of the handler that returned no error
    held       \* response bodies and encoding goroutines not yet released

vars == <<config, now, pc, attempts, sent, err, answer, cancelled, gateways, successes, held>>

(***************************************************************************)
(* Errors and statuses.                                                    *)
(***************************************************************************)
(* DefaultErrorParser.  A wrapped sentinel is not recognised: "other". *)
StatusTable ==
    [ nil |-> 200, ErrPermission |-> 403, ErrAuthorization |-> 401, ErrInternal |-> 500,
      ErrInvalidParameters |-> 400, ErrUnmarshalling |-> 422, ErrForm |-> 422,
      ErrNoRows |-> 404, ErrNotFound |-> 404, ErrNotImplemented |-> 501,
      ErrUnsupportedMediaType |-> 415, parseError |-> 422, UserError |-> 400,
      ValidationErrors |-> 422, other |-> 500 ]
Errors == DOMAIN StatusTable
ASSUME HandlerErrorsAssumption == HandlerErrors \subseteq Errors
DefaultErrorParser(e) == StatusTable[e]

Error(kind, status) == [kind |-> kind, status |-> status]
NoError == Error("nil", 0)
Failure(kind) == Error(kind, 0)

Sentinel == [s \in {401, 403, 404, 501} |->
                CASE s = 401 -> "ErrAuthorization"
                  [] s = 403 -> "ErrPermission"
                  [] s = 404 -> "ErrNotFound"
                  [] s = 501 -> "ErrNotImplemented"]

(* The status of an answer as an error of do *)
ErrorOf(s) ==
    CASE s \in 200..299         -> NoError
      [] s \in DOMAIN Sentinel  -> Failure(Sentinel[s])
      [] OTHER                  -> Error("APIError", s)

GetStatusCode(e) ==
    CASE e.kind = "nil" -> 200
      [] e.kind = "APIError" -> e.status
      [] \E s \in DOMAIN Sentinel : Sentinel[s] = e.kind ->
            CHOOSE s \in DOMAIN Sentinel : Sentinel[s] = e.kind
      [] OTHER -> 0

Retryable == {400, 408, 444, 499, 500, 502, 503, 504, 599}
AlsoNetwork(e) == e.kind = "do" \/ (e.kind = "APIError" /\ e.status \in Retryable) \* Mutant: a broken connection is retried
IsRetryable(e) == e.kind = "APIError" /\ e.status \in Retryable

CallerErrors ==
    {NoError} \cup {Failure(Sentinel[s]) : s \in DOMAIN Sentinel}
    \cup {Failure(k) : k \in {"token", "request", "do", "body", "decode", "context"}}
    \cup {Error("APIError", s) : s \in GatewayStatuses \cup {StatusTable[e] : e \in Errors}}

(***************************************************************************)
(* The caller.                                                             *)
(***************************************************************************)
NoToken == [sub |-> Nobody, iss |-> Nobody, azp |-> Nobody, iat |-> NoTime, nbf |-> NoTime, exp |-> NoTime]
NotSent == [step |-> "none", token |-> NoToken, made |-> NoTime, result |-> "nil"]

NoAnswer == [from |-> "nobody", status |-> 0]

Attempts == 1..MaxAttempts

(* The attempts counter of the plan is 0 based. *)
MaxRetries == IF config.maxAttempts > 0 THEN config.maxAttempts - 1 ELSE 0

Init ==
    /\ config \in Configs
    /\ now \in Start
    /\ pc = "attempt"
    /\ attempts = 0
    /\ sent = [a \in Attempts |-> NotSent]
    /\ err = NoError
    /\ answer = NoAnswer
    /\ cancelled = FALSE
    /\ gateways = 0
    /\ successes = 0
    /\ held = {}

(* The token of the provider: made for the attempt, relayed, or none. *)
FirstToken == \* Mutant: the token of the first attempt is used again
    IF attempts = 0 \/ config.provider # "creator"
    THEN CASE config.provider = "creator" -> Create(now, config.lifetime)
           [] config.provider = "claims"  -> Relayed
           [] OTHER                       -> NoToken
    ELSE sent[1].token
Token ==
    CASE config.provider = "creator" -> Create(now, config.lifetime)
      [] config.provider = "claims"  -> Relayed
      [] OTHER                       -> NoToken

Return(e) == err' = e /\ pc' = "done"

(* What the retried operation returns: a retryable error goes to the plan. *)
Finish(e) == IF IsRetryable(e) THEN err' = e /\ pc' = "backoff" ELSE Return(e)

(* do ends in an error before anything is sent.  The goroutine that         *)
(* encodes the payload has been started when the request cannot be made.   *)
AttemptFails ==
    /\ pc = "attempt"
    /\ attempts' = attempts + 1
    /\ \/ /\ config.provider = "failing"
          /\ Finish(Failure("token"))
          /\ UNCHANGED held
       \/ /\ config.provider # "failing"
          /\ config.badURL
          /\ Finish(Failure("request"))
          /\ held' = IF config.payload = "none" THEN held ELSE held \cup {<<"encoder", attempts + 1>>}
       \/ /\ config.provider # "failing"
          /\ ~config.badURL
          /\ cancelled
          /\ Finish(Failure("do"))
          /\ UNCHANGED held
    /\ UNCHANGED <<config, now, sent, answer, cancelled, gateways, successes>>

Send ==
    /\ pc = "attempt"
    /\ config.provider # "failing"
    /\ ~config.badURL
    /\ ~cancelled
    /\ attempts' = attempts + 1
    /\ sent' = [sent EXCEPT ![attempts + 1] =
                  [step |-> "sent", token |-> Token, made |-> now, result |-> "nil"]]
    /\ held' = IF config.payload = "none" THEN held ELSE held \cup {<<"encoder", attempts + 1>>}
    /\ pc' = "flight"
    /\ UNCHANGED <<config, now, err, answer, cancelled, gateways, successes>>

(* client.Do closes the request body whatever happens, which ends the      *)
(* encoder.                                                                *)
Encoder == {<<"encoder", attempts>>}

(* client.Do fails: the connection breaks (before or after the service got *)
(* the request), the context ends, or the encoder closes the pipe with an  *)
(* error.                                                                  *)
PipeLeftOpen == FALSE \* Mutant: the pipe is closed only after a successful Encode
EncodeFails == config.payload = "invalid"
DoFails ==
    /\ pc = "flight"
    /\ cancelled \/ EncodeFails
    /\ held' = held \ Encoder
    /\ Finish(Failure("do"))
    /\ UNCHANGED <<config, now, attempts, sent, answer, cancelled, gateways, successes>>

BreakConnection ==
    /\ pc = "flight"
    /\ \/ UNCHANGED sent
       \/ sent[attempts].step = "sent" /\ sent' = [sent EXCEPT ![attempts] = NotSent]
    /\ held' = held \ Encoder
    /\ Finish(Failure("do"))
    /\ UNCHANGED <<config, now, attempts, answer, cancelled, gateways, successes>>

(* do and DoRequest read an answer of status s.  The body of an error is   *)
(* read into the APIError, the one of a success into out; either may fail. *)
KeepBody == held' = (held \ Encoder) \cup {<<"body", attempts>>} \* Mutant: the body of an error is not closed
CloseBody == held' = held \ Encoder
Read(from, s) ==
    /\ answer' = [from |-> from, status |-> s]
    /\ CloseBody
    /\ \/ Finish(ErrorOf(s))
       \/ s \in 200..299 /\ Finish(Failure("decode"))
       \/ s \notin 200..299 /\ s \notin DOMAIN Sentinel /\ Finish(Failure("body"))

Status(a) == IF sent[a].step = "refused" THEN 401 ELSE DefaultErrorParser(sent[a].result)

Answer ==
    /\ pc = "flight"
    /\ sent[attempts].step \in {"refused", "served"}
    /\ Read("service", Status(attempts))
    /\ UNCHANGED <<config, now, attempts, sent, cancelled, gateways, successes>>

GatewayAnswer ==
    /\ pc = "flight"
    /\ \E s \in GatewayStatuses : Read("gateway", s)
    /\ \/ UNCHANGED sent
       \/ sent[attempts].step = "sent" /\ sent' = [sent EXCEPT ![attempts] = NotSent]
    /\ gateways' = gateways + 1
    /\ UNCHANGED <<config, now, attempts, cancelled, successes>>

(* backoff.Retry asks the plan for the next wait: the attempts and the     *)
(* context are looked at before the plan of the client.                    *)
AttemptsLeft == attempts <= MaxRetries
NextBackOff ==
    /\ pc = "backoff"
    /\ AttemptsLeft /\ config.planned /\ ~cancelled
    /\ pc' = "wait"
    /\ UNCHANGED <<config, now, attempts, sent, err, answer, cancelled, gateways, successes, held>>

Stop ==
    /\ pc = "backoff"
    /\ Return(IF cancelled THEN Failure("context") ELSE err)
    /\ UNCHANGED <<config, now, attempts, sent, answer, cancelled, gateways, successes, held>>

(* The timer and the context are in one select: either may win. *)
Wait ==
    /\ pc = "wait"
    /\ \/ pc' = "attempt" /\ UNCHANGED err
       \/ cancelled /\ Return(Failure("context"))
    /\ UNCHANGED <<config, now, attempts, sent, answer, cancelled, gateways, successes, held>>

(***************************************************************************)
(* The service.  Its clock is ahead of the caller's, or behind it.         *)
(***************************************************************************)
Clock == now + config.ahead - config.behind

Step(a, step) == sent' = [sent EXCEPT ![a].step = step]

(* The first half of the middleware: a missing header, and jwt.Parser. *)
Parse(a) ==
    /\ sent[a].step = "sent"
    /\ \/ /\ ~config.protected
          /\ Step(a, "accepted")
       \/ /\ config.protected
          /\ sent[a].token # NoToken /\ ParserAccepts(sent[a].token, Clock)
          /\ Step(a, "parsed")
       \/ /\ config.protected
          /\ ~(sent[a].token # NoToken /\ ParserAccepts(sent[a].token, Clock))
          /\ Step(a, "refused")
    /\ UNCHANGED <<config, now, pc, attempts, err, answer, cancelled, gateways, successes, held>>

(* The second half: Validate reads the clock again. *)
ValidateClaims(a) ==
    /\ sent[a].step = "parsed"
    /\ Step(a, IF Validate(sent[a].token, Clock) THEN "accepted" ELSE "refused")
    /\ UNCHANGED <<config, now, pc, attempts, err, answer, cancelled, gateways, successes, held>>

(* The handler reads the body first: a payload that could not be encoded   *)
(* never ends while the caller holds the request, and is a parse error     *)
(* once the caller lets go.                                                *)
Handle(a) ==
    /\ sent[a].step = "accepted"
    /\ ~config.hangs
    /\ config.payload = "invalid" => ~(pc = "flight" /\ attempts = a)
    /\ \E e \in IF config.payload = "invalid" THEN {"parseError"} ELSE HandlerErrors :
          /\ sent' = [sent EXCEPT ![a].step = "served", ![a].result = e]
          /\ successes' = IF e = "nil" THEN successes + 1 ELSE successes
    /\ UNCHANGED <<config, now, pc, attempts, err, answer, cancelled, gateways, held>>

(***************************************************************************)
(* The environment.                                                        *)
(***************************************************************************)
Cancel ==
    /\ ~cancelled
    /\ cancelled' = TRUE
    /\ UNCHANGED <<config, now, pc, attempts, sent, err, answer, gateways, successes, held>>

Tick ==
    /\ now < MaxTime
    /\ now' = now + 1
    /\ UNCHANGED <<config, pc, attempts, sent, err, answer, cancelled, gateways, successes, held>>

Caller == AttemptFails \/ Send \/ DoFails \/ Answer \/ NextBackOff \/ Stop \/ Wait
Service(a) == Parse(a) \/ ValidateClaims(a) \/ Handle(a)

Next ==
    \/ Caller
    \/ BreakConnection
    \/ GatewayAnswer
    \/ \E a \in Attempts : Service(a)
    \/ Cancel
    \/ Tick

Spec == Init /\ [][Next]_vars
FairSpec == /\ Spec
            /\ WF_vars(Caller)
            /\ \A a \in Attempts : WF_vars(Service(a))

(***************************************************************************)
(* Properties.                                                             *)
(***************************************************************************)
Steps == {"none", "sent", "parsed", "accepted", "refused", "served"}

(* Every error the caller holds is one that do can produce, with the status *)
(* of an answer in an APIError; the rest of the state has its type.         *)
TypeOK ==
    /\ config \in Configs
    /\ now \in 0..MaxTime
    /\ pc \in {"attempt", "flight", "backoff", "wait", "done"}
    /\ attempts \in 0..MaxAttempts
    /\ sent \in [Attempts -> [step : Steps, token : Tokens, made : 0..MaxTime, result : Errors]]
    /\ err \in CallerErrors
    /\ answer \in [from : {"nobody", "service", "gateway"}, status : 0..599]
    /\ cancelled \in BOOLEAN
    /\ gateways \in 0..MaxAttempts
    /\ successes \in 0..MaxAttempts
    /\ held \subseteq {"encoder", "body"} \X Attempts

(* WithRetry: maxAttempts bounds the attempts of a call, and 0 means 1.     *)
(* This holds whatever the plan, which other requests use and reset at the  *)
(* same time, answers.                                                      *)
AttemptsBounded ==
    attempts <= IF config.maxAttempts = 0 THEN 1 ELSE config.maxAttempts

(* A request has its effect once: DoRequest sends it again only after an    *)
(* answer that says it failed, never after a connection that broke or a     *)
(* context that ended, when the handler may have succeeded unseen.  Only a  *)
(* gateway that answers in place of the service can make it happen again.   *)
(* And a call without an error had its effect.  (Sends are DoRequest's own: *)
(* net/http may repeat an idempotent request without a body by itself.)     *)
OnceUnlessGateway ==
    /\ successes <= 1 + gateways
    /\ pc = "done" /\ err = NoError => successes >= 1

SentinelKinds == {Sentinel[s] : s \in DOMAIN Sentinel}

(* When the answer of the service decides the call, the four sentinel       *)
(* errors a handler may return come out of DoRequest as the same error,     *)
(* sql.ErrNoRows as ErrNotFound, a refused token as ErrAuthorization, and   *)
(* GetStatusCode of the error is the status the service sent.               *)
ErrorsSurvive ==
    pc = "done" /\ answer.from = "service" /\ err.kind \in SentinelKinds \cup {"nil", "APIError"} =>
        LET last == sent[attempts]
        IN  /\ GetStatusCode(err) = answer.status
            /\ last.step = "refused" => err.kind = "ErrAuthorization"
            /\ last.step = "served" /\ last.result \in SentinelKinds => err.kind = last.result
            /\ last.step = "served" /\ last.result = "ErrNoRows" => err.kind = "ErrNotFound"
            /\ last.step = "served" => (err = NoError <=> last.result = "nil")

(* When DoRequest returns, every response body it has been given is closed  *)
(* and every goroutine that encodes the payload has ended, over all         *)
(* attempts.  A request that cannot be made (http.NewRequest fails) is      *)
(* left out: its encoder waits for a reader that never comes.               *)
NothingHeld == pc = "done" /\ ~config.badURL => held = {}

(* Every attempt brings a token of its own: the service refuses the token   *)
(* of a creator only when its clock is behind, or when the attempt itself,  *)
(* not the ones before it nor the waits between, took the lifetime less     *)
(* the part of a second that the encoding cuts off.                         *)
FreshTokens ==
    [][\A a \in Attempts :
          /\ config.provider = "creator"
          /\ sent[a].step # "refused" /\ sent'[a].step = "refused"
          => \/ config.behind > 0
             \/ Clock - sent[a].made >= Lifetime(config.lifetime) - (Second - 1)]_vars

(* The handler behind the middleware is reached only with a token that is   *)
(* complete and alive on the clock of the service: its lifetime, which the  *)
(* encoding may shorten, is never made longer by it.                        *)
AcceptedWhileAlive ==
    [][\A a \in Attempts :
          /\ config.protected
          /\ sent[a].step # "accepted" /\ sent'[a].step = "accepted"
          => /\ sent[a].token # NoToken
             /\ config.provider = "creator" => Clock < sent[a].made + Lifetime(config.lifetime)
             /\ config.provider = "claims" => Clock < Relayed.exp /\ Relayed.nbf # NoTime]_vars

(* DoRequest returns, however often it retries, when the handler does; and  *)
(* when the context ends it returns even though the handler never does.     *)
RequestsReturn == (~config.hangs \/ cancelled) ~> pc = "done"

(* Attempts are counted before they are sent, an attempt is made only while *)
(* one is left, and a gateway answers an attempt at most once.              *)
BoundInv ==
    /\ pc \in {"attempt", "wait"} => attempts <= MaxRetries
    /\ attempts <= MaxRetries + 1
    /\ pc \in {"flight", "backoff"} => attempts >= 1
    /\ gateways <= IF pc = "flight" THEN attempts - 1 ELSE attempts
    /\ \A a \in Attempts : a > attempts => sent[a] = NotSent

(* An attempt carries the token that was made when it was sent. *)
TokenInv ==
    /\ now >= maxSkew + Second
    /\ \A a \in Attempts : sent[a].step # "none" =>
         /\ sent[a].made \in (maxSkew + Second)..now
         /\ sent[a].token = CASE config.provider = "creator" -> Create(sent[a].made, config.lifetime)
                              [] config.provider = "claims"  -> Relayed
                              [] OTHER                       -> NoToken

(* Only the encoder of the attempt in flight is not released. *)
HeldInv ==
    /\ pc = "flight" => ~config.badURL
    /\ ~config.badURL => held \subseteq IF pc = "flight" THEN Encoder ELSE {}

(* An error that tells of the service's answer is the one of the last       *)
(* attempt, whose answer does not change any more.                          *)
AnswerInv ==
    /\ pc = "backoff" => IsRetryable(err)
    /\ pc \in {"backoff", "done"} =>
         /\ err.kind = "nil" => answer.from = "service"
         /\ answer.from = "service" /\ err.kind \in SentinelKinds \cup {"nil", "APIError"} =>
              /\ attempts \in Attempts
              /\ sent[attempts].step \in {"refused", "served"}
              /\ answer.status = Status(attempts)
              /\ err = ErrorOf(answer.status)

(* The attempts that had their effect, those that had it or still may, and *)
(* the latter without the one DoRequest waits for or returned from.        *)
Effective == {a \in Attempts : sent[a].step = "served" /\ sent[a].result = "nil"}
Open == {a \in Attempts : sent[a].step \in {"sent", "parsed", "accepted"}} \cup Effective
LeftBehind == IF pc \in {"flight", "done"} THEN Open \ {attempts} ELSE Open

(* An attempt is left behind with its effect possible only when a gateway   *)
(* has answered it; the others have failed before the next one is sent.     *)
OnceInv ==
    /\ successes = Cardinality(Effective)
    /\ Cardinality(LeftBehind) <= gateways

(* What DoRequest keeps true at every step: its attempts stay within their *)
(* bound and, when it returns, its error is the one of the service and it  *)
(* holds nothing.                                                          *)
ClientInv ==
    /\ TypeOK
    /\ BoundInv
    /\ TokenInv
    /\ HeldInv
    /\ AnswerInv
    /\ OnceInv
    /\ AttemptsBounded
    /\ ErrorsSurvive
    /\ NothingHeld
=============================================================================
