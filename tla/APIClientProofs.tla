---------------------------- MODULE APIClientProofs ----------------------------
(***************************************************************************)
(* APIClient proved for every set of configurations, errors of the handler *)
(* and answers of gateways, and every number of attempts.                  *)
(***************************************************************************)
EXTENDS APIClient, Integers, FiniteSetTheorems, TLAPS

(* What MarshalJSON cuts off is less than a second, and it keeps the order. *)
LEMMA TimestampFacts ==
    /\ \A t \in Int : /\ Timestamp(t) \in Int
                      /\ Timestamp(t) <= t
                      /\ Timestamp(t) >= t - (Second - 1)
    /\ \A t, u \in Int : t <= u => Timestamp(t) <= Timestamp(u)
    /\ \A t \in Nat : Timestamp(t) \in Nat
    /\ \A t \in Int : t >= Second => Timestamp(t) >= Second
BY DEF Timestamp, Second

(* A configuration is a record of the client and its service. *)
LEMMA ConfigType ==
    ASSUME TypeOK
    PROVE  /\ config.maxAttempts \in 0..MaxAttempts
           /\ config.lifetime \in Nat /\ config.behind \in Nat /\ config.ahead \in Nat
           /\ config.payload \in {"none", "valid", "invalid"}
           /\ config.provider \in {"creator", "claims", "noop", "failing"}
           /\ MaxRetries \in Nat /\ MaxRetries + 1 <= MaxAttempts
           /\ Lifetime(config.lifetime) \in Nat
<1>1. config \in ConfigRecords
  BY ConfigsAssumption DEF TypeOK
<1>2. config.maxAttempts \in 0..MaxAttempts
  BY <1>1 DEF ConfigRecords
<1>3. MaxAttempts \in Nat /\ MaxAttempts >= 1
  BY TimesAssumption
<1>4. MaxRetries \in Nat /\ MaxRetries + 1 <= MaxAttempts
  BY <1>2, <1>3 DEF MaxRetries
<1>5. QED
  BY <1>1, <1>2, <1>4 DEF ConfigRecords, Lifetime, Second

(* The status of every error of a handler: success is only for nil, and    *)
(* the sentinel errors have a status of their own.                         *)
LEMMA StatusFacts ==
    ASSUME NEW e \in Errors
    PROVE  /\ StatusTable[e] \in {200, 400, 401, 403, 404, 415, 422, 500, 501}
           /\ StatusTable[e] = 200 <=> e = "nil"
           /\ e = "ErrPermission" => StatusTable[e] = 403
           /\ e = "ErrAuthorization" => StatusTable[e] = 401
           /\ e = "ErrNotFound" => StatusTable[e] = 404
           /\ e = "ErrNoRows" => StatusTable[e] = 404
           /\ e = "ErrNotImplemented" => StatusTable[e] = 501
BY DEF Errors, StatusTable

(* The sentinel errors of the client. *)
LEMMA SentinelFacts ==
    /\ DOMAIN Sentinel = {401, 403, 404, 501}
    /\ Sentinel[401] = "ErrAuthorization" /\ Sentinel[403] = "ErrPermission"
    /\ Sentinel[404] = "ErrNotFound" /\ Sentinel[501] = "ErrNotImplemented"
    /\ SentinelKinds = {"ErrAuthorization", "ErrPermission", "ErrNotFound", "ErrNotImplemented"}
<1>1. DOMAIN Sentinel = {401, 403, 404, 501}
  BY DEF Sentinel
<1>2. /\ Sentinel[401] = "ErrAuthorization" /\ Sentinel[403] = "ErrPermission"
      /\ Sentinel[404] = "ErrNotFound" /\ Sentinel[501] = "ErrNotImplemented"
  BY DEF Sentinel
<1>3. QED
  BY <1>1, <1>2 DEF SentinelKinds

(* What do makes of a status: of a success, of one that has an error of    *)
(* its own, and of the others.                                             *)
LEMMA ErrorOfSuccess ==
    ASSUME NEW s, s \in 200..299
    PROVE  ErrorOf(s) = NoError
<1>1. s \notin DOMAIN Sentinel
  BY SentinelFacts
<1>2. QED
  BY <1>1, Zenon DEF ErrorOf

LEMMA ErrorOfSentinel ==
    ASSUME NEW s, s \in DOMAIN Sentinel
    PROVE  ErrorOf(s) = Failure(Sentinel[s])
<1>1. s \notin 200..299
  BY SentinelFacts
<1>2. QED
  BY <1>1, Zenon DEF ErrorOf

LEMMA ErrorOfOther ==
    ASSUME NEW s, s \notin 200..299, s \notin DOMAIN Sentinel
    PROVE  ErrorOf(s) = Error("APIError", s)
BY Zenon DEF ErrorOf

(* GetStatusCode of the three forms of an error. *)
LEMMA CodeOfNil ==
    ASSUME NEW e, e.kind = "nil"
    PROVE  GetStatusCode(e) = 200
<1>1. ~(\E s \in DOMAIN Sentinel : Sentinel[s] = e.kind)
  BY SentinelFacts
<1>2. QED
  BY <1>1, Zenon DEF GetStatusCode

LEMMA CodeOfAPIError ==
    ASSUME NEW e, e.kind = "APIError"
    PROVE  GetStatusCode(e) = e.status
<1>1. ~(\E s \in DOMAIN Sentinel : Sentinel[s] = e.kind)
  BY SentinelFacts
<1>2. QED
  BY <1>1, Zenon DEF GetStatusCode

LEMMA CodeOfSentinel ==
    ASSUME NEW e, NEW s \in DOMAIN Sentinel, e.kind = Sentinel[s]
    PROVE  GetStatusCode(e) = s
<1>1. /\ e.kind # "nil" /\ e.kind # "APIError"
      /\ \A r \in DOMAIN Sentinel : Sentinel[r] = e.kind => r = s
  BY SentinelFacts
<1>2. (CHOOSE r \in DOMAIN Sentinel : Sentinel[r] = e.kind) = s
  BY <1>1
<1>3. GetStatusCode(e) = CHOOSE r \in DOMAIN Sentinel : Sentinel[r] = e.kind
  BY <1>1, Zenon DEF GetStatusCode
<1>4. QED
  BY <1>2, <1>3

(* GetStatusCode finds the status of the answer in the error again. *)
LEMMA StatusCodeOfError ==
    ASSUME NEW s \in 0..599, s \in 200..299 => s = 200
    PROVE  GetStatusCode(ErrorOf(s)) = s
<1>1. CASE s \in 200..299
  <2>1. ErrorOf(s) = [kind |-> "nil", status |-> 0]
    <3>1. ErrorOf(s) = NoError
      BY <1>1, ErrorOfSuccess
    <3>2. QED
      BY <3>1 DEF NoError, Error
  <2>2. ErrorOf(s).kind = "nil"
    BY <2>1
  <2>3. QED
    BY <1>1, <2>2, CodeOfNil
<1>2. CASE s \in DOMAIN Sentinel
  <2>1. ErrorOf(s) = [kind |-> Sentinel[s], status |-> 0]
    <3>1. ErrorOf(s) = Failure(Sentinel[s])
      BY <1>2, ErrorOfSentinel
    <3>2. QED
      BY <3>1 DEF Failure, Error
  <2>2. ErrorOf(s).kind = Sentinel[s]
    BY <2>1
  <2>3. QED
    BY <1>2, <2>2, CodeOfSentinel
<1>3. CASE s \notin 200..299 /\ s \notin DOMAIN Sentinel
  <2>1. ErrorOf(s) = [kind |-> "APIError", status |-> s]
    <3>1. ErrorOf(s) = Error("APIError", s)
      BY <1>3, ErrorOfOther
    <3>2. QED
      BY <3>1 DEF Error
  <2>2. ErrorOf(s).kind = "APIError" /\ ErrorOf(s).status = s
    BY <2>1
  <2>3. QED
    BY <2>2, CodeOfAPIError
<1>4. QED
  BY <1>1, <1>2, <1>3

(* The errors the operation of DoRequest may return. *)
LEMMA ErrorTypes ==
    /\ NoError \in CallerErrors
    /\ \A k \in {"token", "request", "do", "body", "decode", "context"} :
         Failure(k) \in CallerErrors /\ ~IsRetryable(Failure(k))
    /\ \A s \in GatewayStatuses \cup {401} \cup {StatusTable[e] : e \in Errors} :
         ErrorOf(s) \in CallerErrors
<1>1. NoError \in CallerErrors
  BY DEF CallerErrors
<1>2. \A k \in {"token", "request", "do", "body", "decode", "context"} :
         Failure(k) \in CallerErrors /\ ~IsRetryable(Failure(k))
  BY DEF CallerErrors, IsRetryable, Failure, Error
<1>3. ASSUME NEW s \in GatewayStatuses \cup {401} \cup {StatusTable[e] : e \in Errors}
      PROVE  ErrorOf(s) \in CallerErrors
  <2>1. s \in 0..599
    BY GatewayAssumption, StatusFacts
  <2>2. CASE s \in 200..299
    BY <1>1, <2>2, ErrorOfSuccess
  <2>3. CASE s \in DOMAIN Sentinel
    <3>1. ErrorOf(s) = Failure(Sentinel[s])
      BY <2>3, ErrorOfSentinel
    <3>2. Failure(Sentinel[s]) \in CallerErrors
      BY <2>3, Zenon DEF CallerErrors
    <3>3. QED
      BY <3>1, <3>2
  <2>4. CASE s \notin 200..299 /\ s \notin DOMAIN Sentinel
    <3>1. s # 401
      BY <2>4, SentinelFacts
    <3>2. s \in GatewayStatuses \cup {StatusTable[e] : e \in Errors}
      BY <3>1
    <3>3. Error("APIError", s) \in CallerErrors
      BY <3>2, Zenon DEF CallerErrors
    <3>4. QED
      BY <2>4, <3>3, ErrorOfOther
  <2>5. QED
    BY <2>2, <2>3, <2>4
<1>4. QED
  BY <1>1, <1>2, <1>3

(* The service answers with a status of its table, or refuses. *)
LEMMA StatusType ==
    ASSUME TypeOK, NEW a \in Attempts
    PROVE  /\ Status(a) \in {401} \cup {StatusTable[e] : e \in Errors}
           /\ Status(a) \in 0..599
           /\ Status(a) \in 200..299 => Status(a) = 200
           /\ Status(a) = 200 => sent[a].step # "refused" /\ sent[a].result = "nil"
<1>1. sent[a].result \in Errors
  BY DEF TypeOK
<1>2. \/ sent[a].step = "refused" /\ Status(a) = 401
      \/ sent[a].step # "refused" /\ Status(a) = StatusTable[sent[a].result]
  BY DEF Status, DefaultErrorParser
<1>3. QED
  BY <1>1, <1>2, StatusFacts

(* The parts of the invariant that are about what has happened give what   *)
(* DoRequest promises when it returns.                                     *)
LEMMA Promises ==
    ASSUME TypeOK, BoundInv, HeldInv, AnswerInv
    PROVE  AttemptsBounded /\ ErrorsSurvive /\ NothingHeld
<1>1. AttemptsBounded
  <2>1. config.maxAttempts \in Nat
    BY ConfigType, TimesAssumption
  <2>2. QED
    BY <2>1 DEF BoundInv, AttemptsBounded, MaxRetries
<1>2. NothingHeld
  BY DEF HeldInv, NothingHeld
<1>3. ErrorsSurvive
  <2> SUFFICES ASSUME pc = "done", answer.from = "service",
                      err.kind \in SentinelKinds \cup {"nil", "APIError"}
               PROVE  LET last == sent[attempts]
                      IN  /\ GetStatusCode(err) = answer.status
                          /\ last.step = "refused" => err.kind = "ErrAuthorization"
                          /\ last.step = "served" /\ last.result \in SentinelKinds => err.kind = last.result
                          /\ last.step = "served" /\ last.result = "ErrNoRows" => err.kind = "ErrNotFound"
                          /\ last.step = "served" => (err = NoError <=> last.result = "nil")
    BY DEF ErrorsSurvive
  <2>1. /\ attempts \in Attempts /\ sent[attempts].step \in {"refused", "served"}
        /\ answer.status = Status(attempts) /\ err = ErrorOf(Status(attempts))
        /\ sent[attempts].result \in Errors
    BY DEF AnswerInv, TypeOK
  <2>2. Status(attempts) \in 0..599 /\ (Status(attempts) \in 200..299 => Status(attempts) = 200)
    BY <2>1, StatusType
  <2>3. GetStatusCode(err) = answer.status
    BY <2>1, <2>2, StatusCodeOfError
  <2>4. sent[attempts].step = "refused" => err.kind = "ErrAuthorization"
    <3>1. ErrorOf(401) = Failure("ErrAuthorization")
      BY ErrorOfSentinel, SentinelFacts
    <3>2. QED
      BY <2>1, <3>1 DEF Status, Failure, Error
  <2>5. ASSUME sent[attempts].step = "served"
        PROVE  /\ sent[attempts].result \in SentinelKinds => err.kind = sent[attempts].result
               /\ sent[attempts].result = "ErrNoRows" => err.kind = "ErrNotFound"
               /\ err = NoError <=> sent[attempts].result = "nil"
    <3>1. Status(attempts) = StatusTable[sent[attempts].result]
      BY <2>5 DEF Status, DefaultErrorParser
    <3>2. /\ ErrorOf(401) = Failure("ErrAuthorization") /\ ErrorOf(403) = Failure("ErrPermission")
          /\ ErrorOf(404) = Failure("ErrNotFound") /\ ErrorOf(501) = Failure("ErrNotImplemented")
      BY ErrorOfSentinel, SentinelFacts
    <3>3. sent[attempts].result \in SentinelKinds => err.kind = sent[attempts].result
      BY <2>1, <3>1, <3>2, StatusFacts, SentinelFacts DEF Failure, Error
    <3>4. sent[attempts].result = "ErrNoRows" => err.kind = "ErrNotFound"
      BY <2>1, <3>1, <3>2, StatusFacts DEF Failure, Error
    <3>5. sent[attempts].result = "nil" => err = NoError
      <4>1. 200 \in 200..299
        OBVIOUS
      <4>2. ErrorOf(200) = NoError
        BY <4>1, ErrorOfSuccess
      <4>3. QED
        BY <2>1, <3>1, <4>2, StatusFacts
    <3>6. ASSUME sent[attempts].result # "nil" PROVE err # NoError
      <4>1. Status(attempts) \notin 200..299
        <5>1. StatusTable[sent[attempts].result] # 200
          BY <2>1, <3>6, StatusFacts
        <5>2. QED
          BY <2>2, <3>1, <5>1
      <4>2. err.kind \in SentinelKinds \cup {"APIError"}
        <5>1. CASE Status(attempts) \in DOMAIN Sentinel
          <6>1. err = [kind |-> Sentinel[Status(attempts)], status |-> 0]
            BY <2>1, <5>1, ErrorOfSentinel DEF Failure, Error
          <6>2. QED
            BY <5>1, <6>1 DEF SentinelKinds
        <5>2. CASE Status(attempts) \notin DOMAIN Sentinel
          <6>1. err = Error("APIError", Status(attempts))
            BY <2>1, <4>1, <5>2, ErrorOfOther
          <6>2. QED
            BY <6>1 DEF Error
        <5>3. QED
          BY <5>1, <5>2
      <4>3. QED
        BY <4>2, SentinelFacts DEF NoError, Error
    <3>7. QED
      BY <3>3, <3>4, <3>5, <3>6
  <2>6. QED
    BY <2>1, <2>3, <2>4, <2>5
<1>4. QED
  BY <1>1, <1>2, <1>3

(***************************************************************************)
(* The inductive invariant.                                                *)
(***************************************************************************)
Inv == TypeOK /\ BoundInv /\ TokenInv /\ HeldInv /\ AnswerInv /\ OnceInv

AttemptRecords == [step : Steps, token : Tokens, made : 0..MaxTime, result : Errors]

Telling == SentinelKinds \cup {"nil", "APIError"}

(* Sets of attempts are finite, and a part of one is not larger. *)
LEMMA AttemptSets ==
    ASSUME NEW T, T \subseteq Attempts
    PROVE  /\ IsFiniteSet(T)
           /\ Cardinality(T) \in 0..MaxAttempts
           /\ \A S \in SUBSET T : IsFiniteSet(S) /\ Cardinality(S) \in Nat /\ Cardinality(S) <= Cardinality(T)
<1>1. IsFiniteSet(Attempts) /\ Cardinality(Attempts) = MaxAttempts
  BY FS_Interval, TimesAssumption DEF Attempts
<1>2. IsFiniteSet(T) /\ Cardinality(T) <= MaxAttempts
  BY <1>1, FS_Subset
<1>3. Cardinality(T) \in Nat
  BY <1>2, FS_CardinalityType
<1>4. ASSUME NEW S \in SUBSET T
      PROVE  IsFiniteSet(S) /\ Cardinality(S) \in Nat /\ Cardinality(S) <= Cardinality(T)
  BY <1>2, FS_Subset, FS_CardinalityType
<1>5. QED
  BY <1>2, <1>3, <1>4, TimesAssumption

(* One attempt more makes a set of attempts larger by at most one. *)
LEMMA OneMore ==
    ASSUME NEW T, T \subseteq Attempts, NEW a
    PROVE  Cardinality(T) <= Cardinality(T \ {a}) + 1
<1>1. IsFiniteSet(T) /\ Cardinality(T) \in Nat
  BY AttemptSets
<1>2. CASE a \in T
  <2>1. Cardinality(T \ {a}) = Cardinality(T) - 1
    BY <1>1, <1>2, FS_RemoveElement, Zenon
  <2>2. QED
    BY <1>1, <2>1
<1>3. CASE a \notin T
  <2>1. T \ {a} = T
    BY <1>3
  <2>2. QED
    BY <1>1, <2>1
<1>4. QED
  BY <1>2, <1>3

(* An attempt that was not sent is a record of the table of attempts, and  *)
(* so is one with a token of the provider.                                 *)
LEMMA TokenTypes ==
    /\ NoToken \in Tokens
    /\ NotSent \in AttemptRecords
    /\ \A t \in Nat, l \in Nat : t >= maxSkew + Second => Create(t, l) \in Tokens
<1>1. NoToken \in Tokens
  BY DEF NoToken, Tokens, Names, NoTime
<1>2. NotSent \in AttemptRecords
  <2>1. "nil" \in Errors
    BY DEF Errors, StatusTable
  <2>2. NoTime \in 0..MaxTime
    BY TimesAssumption DEF NoTime
  <2>3. QED
    BY <1>1, <2>1, <2>2 DEF NotSent, AttemptRecords, Steps
<1>3. ASSUME NEW t \in Nat, NEW l \in Nat, t >= maxSkew + Second
      PROVE  Create(t, l) \in Tokens
  <2>1. /\ t - maxSkew \in Nat
        /\ t + Lifetime(l) \in Nat
    BY <1>3 DEF maxSkew, Second, Lifetime
  <2>2. /\ Timestamp(t) \in Nat /\ Timestamp(t - maxSkew) \in Nat
        /\ Timestamp(t + Lifetime(l)) \in Nat
    BY <2>1, TimestampFacts
  <2>3. QED
    BY <2>2 DEF Create, Tokens, Names
<1>4. QED
  BY <1>1, <1>2, <1>3

(* An error of the client's own ends the call and tells nothing of an      *)
(* answer.                                                                 *)
LEMMA FailureFacts ==
    ASSUME NEW k \in {"token", "request", "do", "body", "decode", "context"}
    PROVE  /\ Failure(k) \in CallerErrors
           /\ Failure(k).kind \notin Telling
           /\ Finish(Failure(k)) => err' = Failure(k) /\ pc' = "done"
<1>1. Failure(k) \in CallerErrors /\ ~IsRetryable(Failure(k))
  BY ErrorTypes
<1>2. Failure(k).kind \notin Telling
  BY SentinelFacts DEF Failure, Error, Telling
<1>3. Finish(Failure(k)) => err' = Failure(k) /\ pc' = "done"
  BY <1>1 DEF Finish, Return
<1>4. QED
  BY <1>1, <1>2, <1>3

(* The sets of attempts the invariant counts. *)
LEMMA OpenType ==
    /\ Effective \subseteq Open /\ Open \subseteq Attempts
    /\ LeftBehind \subseteq Open /\ Open \ {attempts} \subseteq LeftBehind
BY DEF Effective, Open, LeftBehind

LEMMA InitInv == Init => Inv
<1> SUFFICES ASSUME Init PROVE Inv
  OBVIOUS
<1>1. \A a \in Attempts : sent[a] = NotSent
  BY DEF Init
<1>2. TypeOK
  <2>1. now \in 0..MaxTime
    BY TimesAssumption DEF Init, maxSkew, Second
  <2>2. sent \in [Attempts -> AttemptRecords]
    BY TokenTypes DEF Init
  <2>3. err \in CallerErrors
    BY ErrorTypes DEF Init
  <2>4. attempts \in 0..MaxAttempts /\ gateways \in 0..MaxAttempts /\ successes \in 0..MaxAttempts
    BY TimesAssumption DEF Init
  <2>5. cancelled \in BOOLEAN
    BY Zenon DEF Init
  <2>6. answer \in [from : {"nobody", "service", "gateway"}, status : 0..599]
    BY DEF Init, NoAnswer
  <2>7. QED
    BY <2>1, <2>2, <2>3, <2>4, <2>5, <2>6 DEF Init, TypeOK, AttemptRecords
<1>3. BoundInv
  BY <1>1, <1>2, ConfigType DEF Init, BoundInv
<1>4. TokenInv
  <2>1. now >= maxSkew + Second
    BY TimesAssumption DEF Init, maxSkew, Second
  <2>2. QED
    BY <1>1, <2>1 DEF TokenInv, NotSent
<1>5. HeldInv
  BY DEF Init, HeldInv
<1>6. AnswerInv
  BY DEF Init, AnswerInv
<1>7. OnceInv
  <2>1. Effective = {} /\ LeftBehind = {}
    BY <1>1 DEF Effective, Open, LeftBehind, NotSent
  <2>2. QED
    BY <2>1, FS_EmptySet DEF Init, OnceInv
<1>8. QED
  BY <1>2, <1>3, <1>4, <1>5, <1>6, <1>7 DEF Inv

(* Attempts left behind do not become more. *)
LEMMA FewerLeft ==
    ASSUME Inv, gateways' \in Nat, gateways' >= gateways, LeftBehind' \subseteq LeftBehind
    PROVE  Cardinality(LeftBehind') <= gateways'
<1>1. LeftBehind \subseteq Attempts
  BY OpenType
<1>2. /\ Cardinality(LeftBehind) \in Nat /\ Cardinality(LeftBehind') \in Nat
      /\ Cardinality(LeftBehind') <= Cardinality(LeftBehind)
  BY <1>1, AttemptSets, TimesAssumption
<1>3. gateways \in Nat /\ Cardinality(LeftBehind) <= gateways
  BY TimesAssumption DEF Inv, TypeOK, OnceInv
<1>4. QED
  BY <1>2, <1>3

(* The attempt of the next number has not been sent. *)
LEMMA NextAttempt ==
    ASSUME Inv, pc = "attempt"
    PROVE  /\ attempts + 1 \in Attempts
           /\ attempts + 1 <= MaxRetries + 1
           /\ sent[attempts + 1] = NotSent
           /\ attempts + 1 \notin Open
           /\ gateways <= attempts
<1>1. attempts \in 0..MaxAttempts /\ MaxAttempts \in Nat
  BY TimesAssumption DEF Inv, TypeOK
<1>2. attempts <= MaxRetries /\ MaxRetries \in Nat /\ MaxRetries + 1 <= MaxAttempts
  BY ConfigType DEF Inv, BoundInv
<1>3. attempts + 1 \in Attempts /\ attempts + 1 > attempts
  BY <1>1, <1>2 DEF Attempts
<1>4. sent[attempts + 1] = NotSent
  BY <1>3 DEF Inv, BoundInv
<1>5. attempts + 1 \notin Open
  BY <1>4 DEF Open, Effective, NotSent
<1>6. QED
  BY <1>1, <1>2, <1>3, <1>4, <1>5 DEF Inv, BoundInv

LEMMA AttemptFailsStep ==
    ASSUME Inv, AttemptFails
    PROVE  Inv'
<1>1. /\ pc = "attempt" /\ attempts' = attempts + 1
      /\ UNCHANGED <<config, now, sent, answer, cancelled, gateways, successes>>
  BY DEF AttemptFails
<1>2. /\ attempts + 1 \in Attempts /\ attempts + 1 <= MaxRetries + 1 /\ sent[attempts + 1] = NotSent
      /\ attempts + 1 \notin Open /\ gateways <= attempts
  BY <1>1, NextAttempt
<1>3. PICK k \in {"token", "request", "do"} : Finish(Failure(k))
  BY DEF AttemptFails
<1>4. err' = Failure(k) /\ pc' = "done" /\ Failure(k) \in CallerErrors /\ Failure(k).kind \notin Telling
  BY <1>3, FailureFacts
<1>5. /\ config.badURL => held' \subseteq held \cup {<<"encoder", attempts + 1>>}
      /\ ~config.badURL => held' = held
  BY DEF AttemptFails
<1>6. attempts \in 0..MaxAttempts /\ MaxAttempts \in Nat /\ gateways \in 0..MaxAttempts /\ MaxRetries \in Nat
  BY TimesAssumption, ConfigType DEF Inv, TypeOK
<1>7. TypeOK'
  <2>1. held' \subseteq {"encoder", "body"} \X Attempts
    BY <1>2, <1>5 DEF Inv, TypeOK
  <2>2. attempts' \in 0..MaxAttempts
    BY <1>1, <1>2, <1>6 DEF Attempts
  <2>3. cancelled' \in BOOLEAN
    BY <1>1, Zenon DEF Inv, TypeOK
  <2>4. QED
    BY <1>1, <1>4, <2>1, <2>2, <2>3 DEF Inv, TypeOK
<1>8. BoundInv'
  <2>1. /\ attempts' <= MaxRetries' + 1
        /\ gateways' <= attempts'
    BY <1>1, <1>2, <1>6 DEF MaxRetries
  <2>2. ASSUME NEW a \in Attempts, a > attempts' PROVE sent'[a] = NotSent
    BY <1>1, <1>6, <2>2 DEF Inv, BoundInv, Attempts
  <2>3. QED
    BY <1>4, <2>1, <2>2 DEF BoundInv
<1>9. TokenInv'
  BY <1>1 DEF Inv, TokenInv
<1>10. HeldInv'
  BY <1>1, <1>4, <1>5 DEF Inv, HeldInv
<1>11. AnswerInv'
  BY <1>4 DEF AnswerInv, Telling
<1>12. OnceInv'
  <2>1. Effective' = Effective /\ Open' = Open
    BY <1>1 DEF Effective, Open
  <2>2. LeftBehind' \subseteq LeftBehind
    BY <1>1, <2>1 DEF LeftBehind
  <2>3. Cardinality(LeftBehind') <= gateways'
    BY <1>1, <1>6, <2>2, FewerLeft
  <2>4. QED
    BY <1>1, <2>1, <2>3 DEF Inv, OnceInv
<1>13. QED
  BY <1>7, <1>8, <1>9, <1>10, <1>11, <1>12 DEF Inv

(* A token of the provider, made at this moment, is a token. *)
LEMMA TokenType ==
    ASSUME Inv
    PROVE  /\ Token \in Tokens
           /\ Token = CASE config.provider = "creator" -> Create(now, config.lifetime)
                        [] config.provider = "claims"  -> Relayed
                        [] OTHER                       -> NoToken
<1>1. now \in Nat /\ now >= maxSkew + Second /\ config.lifetime \in Nat
  BY TimesAssumption, ConfigType DEF Inv, TypeOK, TokenInv
<1>2. Create(now, config.lifetime) \in Tokens
  BY <1>1, TokenTypes
<1>3. QED
  BY <1>2, TokenTypes, RelayedAssumption DEF Token

LEMMA SendStep ==
    ASSUME Inv, Send
    PROVE  Inv'
<1> DEFINE r == [step |-> "sent", token |-> Token, made |-> now, result |-> "nil"]
<1>1. /\ pc = "attempt" /\ attempts' = attempts + 1 /\ pc' = "flight" /\ ~config.badURL
      /\ sent' = [sent EXCEPT ![attempts + 1] = r]
      /\ held' \subseteq held \cup {<<"encoder", attempts + 1>>}
      /\ UNCHANGED <<config, now, err, answer, cancelled, gateways, successes>>
  BY DEF Send
<1>2. /\ attempts + 1 \in Attempts /\ attempts + 1 <= MaxRetries + 1 /\ sent[attempts + 1] = NotSent
      /\ attempts + 1 \notin Open /\ gateways <= attempts
  BY <1>1, NextAttempt
<1>3. attempts \in 0..MaxAttempts /\ MaxAttempts \in Nat /\ gateways \in 0..MaxAttempts /\ MaxRetries \in Nat
  BY TimesAssumption, ConfigType DEF Inv, TypeOK
<1>4. sent \in [Attempts -> AttemptRecords]
  BY DEF Inv, TypeOK, AttemptRecords
<1>5. r \in AttemptRecords
  <2>1. "nil" \in Errors
    BY DEF Errors, StatusTable
  <2>2. QED
    BY <2>1, TokenType DEF AttemptRecords, Steps, Inv, TypeOK
<1>6. /\ sent'[attempts + 1] = r
      /\ \A a \in Attempts : a # attempts + 1 => sent'[a] = sent[a]
  BY <1>1, <1>2, <1>4
<1>7. r.step = "sent" /\ r.token = Token /\ r.made = now
  OBVIOUS
<1> HIDE DEF r
<1>8. TypeOK'
  <2>1. held' \subseteq {"encoder", "body"} \X Attempts
    BY <1>1, <1>2 DEF Inv, TypeOK
  <2>2. attempts' \in 0..MaxAttempts
    BY <1>1, <1>2, <1>3 DEF Attempts
  <2>3. cancelled' \in BOOLEAN
    BY <1>1, Zenon DEF Inv, TypeOK
  <2>4. sent' \in [Attempts -> AttemptRecords]
    BY <1>1, <1>4, <1>5
  <2>5. QED
    BY <1>1, <2>1, <2>2, <2>3, <2>4 DEF Inv, TypeOK, AttemptRecords
<1>9. BoundInv'
  <2>1. /\ attempts' <= MaxRetries' + 1 /\ attempts' >= 1
        /\ gateways' <= attempts' - 1
    BY <1>1, <1>2, <1>3 DEF MaxRetries
  <2>2. ASSUME NEW a \in Attempts, a > attempts' PROVE sent'[a] = NotSent
    <3>1. a # attempts + 1 /\ a > attempts
      BY <1>1, <1>3, <2>2 DEF Attempts
    <3>2. QED
      BY <1>6, <3>1 DEF Inv, BoundInv
  <2>3. QED
    BY <1>1, <2>1, <2>2 DEF BoundInv
<1>10. TokenInv'
  <2>1. now >= maxSkew + Second /\ now \in Nat
    BY TimesAssumption DEF Inv, TokenInv, TypeOK
  <2>2. ASSUME NEW a \in Attempts, sent'[a].step # "none"
        PROVE  /\ sent'[a].made \in (maxSkew + Second)..now
               /\ sent'[a].token = CASE config.provider = "creator" -> Create(sent'[a].made, config.lifetime)
                                     [] config.provider = "claims"  -> Relayed
                                     [] OTHER                       -> NoToken
    <3>1. CASE a = attempts + 1
      <4>1. sent'[a].made = now /\ sent'[a].token = Token
        BY <1>6, <1>7, <3>1
      <4>2. now \in (maxSkew + Second)..now
        BY <2>1 DEF maxSkew, Second
      <4>3. QED
        BY <4>1, <4>2, TokenType
    <3>2. CASE a # attempts + 1
      BY <1>6, <2>2, <3>2 DEF Inv, TokenInv
    <3>3. QED
      BY <3>1, <3>2
  <2>3. QED
    BY <1>1, <2>1, <2>2 DEF TokenInv
<1>11. HeldInv'
  <2>1. held = {}
    BY <1>1 DEF Inv, HeldInv
  <2>2. QED
    BY <1>1, <2>1 DEF HeldInv, Encoder
<1>12. AnswerInv'
  BY <1>1 DEF AnswerInv
<1>13. OnceInv'
  <2>1. Effective' = Effective
    <3>1. ASSUME NEW a \in Attempts PROVE a \in Effective' <=> a \in Effective
      <4>1. CASE a = attempts + 1
        BY <1>2, <1>6, <1>7, <4>1 DEF Effective, NotSent
      <4>2. CASE a # attempts + 1
        BY <1>6, <4>2 DEF Effective
      <4>3. QED
        BY <4>1, <4>2
    <3>2. QED
      BY <3>1 DEF Effective
  <2>2. Open' \subseteq Open \cup {attempts + 1}
    BY <1>6, <2>1 DEF Open
  <2>3. LeftBehind' \subseteq LeftBehind
    BY <1>1, <2>2 DEF LeftBehind
  <2>4. Cardinality(LeftBehind') <= gateways'
    BY <1>1, <1>3, <2>3, FewerLeft
  <2>5. QED
    BY <1>1, <2>1, <2>4 DEF Inv, OnceInv
<1>14. QED
  BY <1>8, <1>9, <1>10, <1>11, <1>12, <1>13 DEF Inv

(* The end of an attempt in flight, whichever way: the encoder is released, *)
(* the attempt is as it was or was not received, and an attempt left behind *)
(* with its effect possible has been answered by a gateway.                 *)
LEMMA FlightEnds ==
    ASSUME Inv, pc = "flight", pc' \in {"backoff", "done"},
           \/ sent' = sent
           \/ sent[attempts].step = "sent" /\ sent' = [sent EXCEPT ![attempts] = NotSent],
           held' = held \ Encoder,
           err' \in CallerErrors,
           answer' \in [from : {"nobody", "service", "gateway"}, status : 0..599],
           AnswerInv',
           gateways' \in {gateways, gateways + 1},
           pc' = "backoff" => attempts \notin Open' \/ gateways' = gateways + 1,
           UNCHANGED <<config, now, attempts, cancelled, successes>>
    PROVE  Inv'
<1>1. /\ attempts \in Attempts /\ MaxAttempts \in Nat /\ gateways \in Nat /\ MaxRetries \in Nat
      /\ gateways <= attempts - 1 /\ attempts <= MaxAttempts
  BY TimesAssumption, ConfigType DEF Inv, TypeOK, BoundInv, Attempts
<1>2. sent \in [Attempts -> AttemptRecords]
  BY DEF Inv, TypeOK, AttemptRecords
<1>3. \A a \in Attempts : sent'[a] = sent[a] \/ (a = attempts /\ sent[a].step = "sent" /\ sent'[a] = NotSent)
  BY <1>1, <1>2
<1>4. gateways' \in 0..MaxAttempts /\ gateways' <= attempts
  BY <1>1 DEF Attempts
<1>5. TypeOK'
  <2>1. cancelled' \in BOOLEAN
    BY Zenon DEF Inv, TypeOK
  <2>2. sent' \in [Attempts -> AttemptRecords]
    BY <1>1, <1>2, TokenTypes
  <2>3. held' \subseteq {"encoder", "body"} \X Attempts
    BY DEF Inv, TypeOK
  <2>4. QED
    BY <1>4, <2>1, <2>2, <2>3 DEF Inv, TypeOK, AttemptRecords
<1>6. BoundInv'
  <2>1. attempts' <= MaxRetries' + 1 /\ attempts' >= 1
    BY <1>1 DEF Inv, BoundInv, MaxRetries, Attempts
  <2>2. ASSUME NEW a \in Attempts, a > attempts' PROVE sent'[a] = NotSent
    BY <1>3, <2>2 DEF Inv, BoundInv
  <2>3. QED
    BY <1>4, <2>1, <2>2 DEF BoundInv
<1>7. TokenInv'
  <2>1. ASSUME NEW a \in Attempts, sent'[a].step # "none" PROVE sent'[a] = sent[a]
    BY <1>3, <2>1 DEF NotSent
  <2>2. QED
    BY <2>1 DEF Inv, TokenInv
<1>8. HeldInv'
  BY DEF Inv, HeldInv
<1>9. OnceInv'
  <2>1. Effective' = Effective
    <3>1. ASSUME NEW a \in Attempts PROVE a \in Effective' <=> a \in Effective
      BY <1>3 DEF Effective, NotSent
    <3>2. QED
      BY <3>1 DEF Effective
  <2>2. Open' \subseteq Open
    BY <1>3, <2>1 DEF Open, NotSent
  <2>3. Cardinality(LeftBehind') <= gateways'
    <3>1. CASE LeftBehind' \subseteq LeftBehind
      BY <1>1, <1>4, <3>1, FewerLeft
    <3>2. CASE ~(LeftBehind' \subseteq LeftBehind)
      <4>1. LeftBehind = Open \ {attempts}
        BY DEF LeftBehind
      <4>2. pc' = "backoff" /\ attempts \in Open'
        BY <2>2, <3>2, <4>1 DEF LeftBehind
      <4>3. gateways' = gateways + 1
        BY <4>2
      <4>4. Open \subseteq Attempts /\ LeftBehind' \subseteq Open
        BY <2>2, OpenType DEF LeftBehind
      <4>5. Cardinality(Open) <= Cardinality(LeftBehind) + 1
        BY <4>1, <4>4, OneMore
      <4>6. /\ Cardinality(LeftBehind') \in Nat /\ Cardinality(LeftBehind') <= Cardinality(Open)
            /\ Cardinality(LeftBehind) \in Nat /\ Cardinality(Open) \in Nat
        BY <4>1, <4>4, AttemptSets, TimesAssumption
      <4>7. Cardinality(LeftBehind) <= gateways
        BY DEF Inv, OnceInv
      <4>8. QED
        BY <1>1, <4>3, <4>5, <4>6, <4>7
    <3>3. QED
      BY <3>1, <3>2
  <2>4. QED
    BY <2>1, <2>3 DEF Inv, OnceInv
<1>10. QED
  BY <1>5, <1>6, <1>7, <1>8, <1>9 DEF Inv

(* client.Do fails, in either of the two actions. *)
LEMMA DoStep ==
    ASSUME Inv, DoFails \/ BreakConnection
    PROVE  Inv'
<1>1. /\ pc = "flight" /\ held' = held \ Encoder /\ Finish(Failure("do"))
      /\ \/ sent' = sent
         \/ sent[attempts].step = "sent" /\ sent' = [sent EXCEPT ![attempts] = NotSent]
      /\ UNCHANGED <<config, now, attempts, answer, cancelled, gateways, successes>>
  BY DEF DoFails, BreakConnection
<1>2. /\ err' = Failure("do") /\ pc' = "done"
      /\ Failure("do") \in CallerErrors /\ Failure("do").kind \notin Telling
  BY <1>1, FailureFacts
<1>3. AnswerInv'
  BY <1>2 DEF AnswerInv, Telling
<1>4. answer' \in [from : {"nobody", "service", "gateway"}, status : 0..599]
  BY <1>1 DEF Inv, TypeOK
<1>5. QED
  BY <1>1, <1>2, <1>3, <1>4, FlightEnds

(* An answer that is read ends the attempt with the error of its status or *)
(* with one of reading it, and only the former is retried.                 *)
LEMMA ReadFacts ==
    ASSUME NEW from, NEW s \in GatewayStatuses \cup {401} \cup {StatusTable[e] : e \in Errors},
           Read(from, s)
    PROVE  /\ answer' = [from |-> from, status |-> s]
           /\ held' = held \ Encoder
           /\ err' \in CallerErrors
           /\ pc' \in {"backoff", "done"}
           /\ pc' = "backoff" => IsRetryable(err')
           /\ err'.kind \in Telling => err' = ErrorOf(s)
<1>1. answer' = [from |-> from, status |-> s] /\ held' = held \ Encoder
  BY DEF Read, CloseBody
<1>2. Finish(ErrorOf(s)) \/ Finish(Failure("decode")) \/ Finish(Failure("body"))
  BY DEF Read
<1>3. CASE Finish(ErrorOf(s))
  BY <1>1, <1>3, ErrorTypes DEF Finish, Return
<1>4. CASE Finish(Failure("decode"))
  BY <1>1, <1>4, FailureFacts
<1>5. CASE Finish(Failure("body"))
  BY <1>1, <1>5, FailureFacts
<1>6. QED
  BY <1>2, <1>3, <1>4, <1>5

LEMMA AnswerStep ==
    ASSUME Inv, Answer
    PROVE  Inv'
<1> DEFINE s == Status(attempts)
<1>1. /\ pc = "flight" /\ sent[attempts].step \in {"refused", "served"} /\ Read("service", s)
      /\ UNCHANGED <<config, now, attempts, sent, cancelled, gateways, successes>>
  BY DEF Answer
<1>2. attempts \in Attempts
  BY <1>1, TimesAssumption DEF Inv, TypeOK, BoundInv, Attempts
<1>3. /\ s \in {401} \cup {StatusTable[e] : e \in Errors} /\ s \in 0..599
      /\ s \in 200..299 => s = 200
      /\ s = 200 => sent[attempts].step # "refused" /\ sent[attempts].result = "nil"
  BY <1>2, StatusType DEF Inv
<1>4. s' = s
  BY <1>1 DEF Status
<1>5. sent[attempts].step = "served" /\ sent[attempts].result = "nil" => s = 200
  BY StatusFacts DEF Status, DefaultErrorParser, Errors, StatusTable
<1> HIDE DEF s
<1>6. /\ answer' = [from |-> "service", status |-> s] /\ held' = held \ Encoder
      /\ err' \in CallerErrors /\ pc' \in {"backoff", "done"}
      /\ pc' = "backoff" => IsRetryable(err')
      /\ err'.kind \in Telling => err' = ErrorOf(s)
  BY <1>1, <1>3, ReadFacts
<1>7. AnswerInv'
  BY <1>1, <1>2, <1>4, <1>6 DEF AnswerInv, Telling, s, IsRetryable
<1>8. pc' = "backoff" => attempts \notin Open'
  <2> SUFFICES ASSUME pc' = "backoff" PROVE attempts \notin Open'
    OBVIOUS
  <2>1. err'.kind = "APIError" /\ err' = ErrorOf(s)
    BY <1>6 DEF IsRetryable, Telling
  <2>2. s # 200
    <3>1. s = 200 => s \in 200..299
      OBVIOUS
    <3>2. s = 200 => ErrorOf(s) = NoError
      BY <3>1, ErrorOfSuccess
    <3>3. NoError.kind = "nil"
      BY DEF NoError, Error
    <3>4. QED
      BY <2>1, <3>2, <3>3
  <2>3. QED
    BY <1>1, <1>5, <2>2 DEF Open, Effective
<1>9. answer' \in [from : {"nobody", "service", "gateway"}, status : 0..599]
  BY <1>3, <1>6
<1>10. QED
  BY <1>1, <1>6, <1>7, <1>8, <1>9, FlightEnds

LEMMA GatewayStep ==
    ASSUME Inv, GatewayAnswer
    PROVE  Inv'
<1>1. /\ pc = "flight" /\ gateways' = gateways + 1
      /\ \/ sent' = sent
         \/ sent[attempts].step = "sent" /\ sent' = [sent EXCEPT ![attempts] = NotSent]
      /\ UNCHANGED <<config, now, attempts, cancelled, successes>>
  BY DEF GatewayAnswer
<1>2. PICK s \in GatewayStatuses : Read("gateway", s)
  BY DEF GatewayAnswer
<1>3. s \in 400..599
  BY GatewayAssumption
<1>4. /\ answer' = [from |-> "gateway", status |-> s] /\ held' = held \ Encoder
      /\ err' \in CallerErrors /\ pc' \in {"backoff", "done"}
      /\ pc' = "backoff" => IsRetryable(err')
      /\ err'.kind \in Telling => err' = ErrorOf(s)
  BY <1>2, ReadFacts
<1>5. ErrorOf(s).kind # "nil"
  <2>1. CASE s \in DOMAIN Sentinel
    <3>1. ErrorOf(s) = Failure(Sentinel[s])
      BY <2>1, ErrorOfSentinel
    <3>2. QED
      BY <2>1, <3>1, SentinelFacts DEF Failure, Error
  <2>2. CASE s \notin DOMAIN Sentinel
    <3>1. ErrorOf(s) = Error("APIError", s)
      BY <1>3, <2>2, ErrorOfOther
    <3>2. QED
      BY <3>1 DEF Error
  <2>3. QED
    BY <2>1, <2>2
<1>6. AnswerInv'
  BY <1>4, <1>5 DEF AnswerInv, Telling, IsRetryable
<1>7. answer' \in [from : {"nobody", "service", "gateway"}, status : 0..599]
  BY <1>3, <1>4
<1>8. QED
  BY <1>1, <1>4, <1>6, <1>7, FlightEnds

(* Between two attempts only the place, the error, the context and the     *)
(* clock change.                                                           *)
LEMMA BetweenStep ==
    ASSUME Inv, pc' \in {"attempt", "flight", "backoff", "wait", "done"}, err' \in CallerErrors,
           cancelled' \in BOOLEAN, now' \in 0..MaxTime, now' >= now, AnswerInv',
           \/ pc' = pc
           \/ pc = "backoff" /\ pc' = "wait" /\ attempts <= MaxRetries
           \/ pc = "wait" /\ pc' = "attempt"
           \/ pc \in {"backoff", "wait"} /\ pc' = "done",
           UNCHANGED <<config, attempts, sent, answer, gateways, successes, held>>
    PROVE  Inv'
<1>1. TypeOK'
  BY DEF Inv, TypeOK
<1>2. BoundInv'
  BY DEF Inv, BoundInv, MaxRetries
<1>3. TokenInv'
  <2>1. now \in Nat /\ now' \in Nat /\ maxSkew + Second \in Nat
    BY TimesAssumption DEF Inv, TypeOK, maxSkew, Second
  <2>2. \A t \in (maxSkew + Second)..now : t \in (maxSkew + Second)..now'
    BY <2>1
  <2>3. now' >= maxSkew + Second
    BY <2>1 DEF Inv, TokenInv
  <2>4. QED
    BY <2>2, <2>3 DEF Inv, TokenInv
<1>4. HeldInv'
  BY DEF Inv, HeldInv, Encoder
<1>5. OnceInv'
  <2>1. Effective' = Effective /\ Open' = Open
    BY DEF Effective, Open
  <2>2. LeftBehind' \subseteq LeftBehind
    BY <2>1 DEF LeftBehind
  <2>3. gateways' \in Nat /\ gateways' >= gateways
    BY TimesAssumption DEF Inv, TypeOK
  <2>4. Cardinality(LeftBehind') <= gateways'
    BY <2>2, <2>3, FewerLeft
  <2>5. QED
    BY <2>1, <2>4 DEF Inv, OnceInv
<1>6. QED
  BY <1>1, <1>2, <1>3, <1>4, <1>5 DEF Inv

LEMMA BackOffStep ==
    ASSUME Inv, NextBackOff \/ Stop \/ Wait \/ Cancel \/ Tick
    PROVE  Inv'
<1>1. UNCHANGED <<config, attempts, sent, answer, gateways, successes, held>>
  BY DEF NextBackOff, Stop, Wait, Cancel, Tick
<1>2. /\ \/ pc' = pc
         \/ pc = "backoff" /\ pc' = "wait" /\ attempts <= MaxRetries
         \/ pc = "wait" /\ pc' = "attempt"
         \/ pc \in {"backoff", "wait"} /\ pc' = "done"
      /\ pc' \in {"attempt", "flight", "backoff", "wait", "done"}
  BY DEF NextBackOff, Stop, Wait, Cancel, Tick, Return, AttemptsLeft, Inv, TypeOK
<1>3. now' \in 0..MaxTime /\ now' >= now
  BY TimesAssumption DEF NextBackOff, Stop, Wait, Cancel, Tick, Inv, TypeOK
<1>4. cancelled' \in BOOLEAN
  <2>1. cancelled' = cancelled \/ cancelled' = TRUE
    BY DEF NextBackOff, Stop, Wait, Cancel, Tick
  <2>2. QED
    BY <2>1, Zenon DEF Inv, TypeOK
<1>5. \/ err' = Failure("context") /\ pc' = "done"
      \/ err' = err /\ (pc' = pc \/ pc' \in {"wait", "attempt"} \/ (pc = "backoff" /\ pc' = "done"))
  BY DEF NextBackOff, Stop, Wait, Cancel, Tick, Return
<1>6. Failure("context") \in CallerErrors /\ Failure("context").kind \notin Telling
  BY FailureFacts
<1>7. err' \in CallerErrors
  BY <1>5, <1>6 DEF Inv, TypeOK
<1>8. AnswerInv'
  <2>1. CASE err' = Failure("context") /\ pc' = "done"
    BY <1>6, <2>1 DEF AnswerInv, Telling
  <2>2. CASE err' = err /\ (pc' = pc \/ pc' \in {"wait", "attempt"} \/ (pc = "backoff" /\ pc' = "done"))
    BY <1>1, <2>2 DEF Inv, AnswerInv, Status
  <2>3. QED
    BY <1>5, <2>1, <2>2
<1>9. QED
  BY <1>1, <1>2, <1>3, <1>4, <1>7, <1>8, BetweenStep

(* A step of the service on an attempt it has not answered: no attempt     *)
(* that was closed opens again, and what the caller knows stays true.      *)
LEMMA ServiceStep ==
    ASSUME Inv, NEW a \in Attempts, sent[a].step \in {"sent", "parsed", "accepted"},
           sent' \in [Attempts -> AttemptRecords],
           \A b \in Attempts : b # a => sent'[b] = sent[b],
           sent'[a].token = sent[a].token, sent'[a].made = sent[a].made,
           successes' = Cardinality(Effective'),
           UNCHANGED <<config, now, pc, attempts, err, answer, cancelled, gateways, held>>
    PROVE  Inv'
<1>1. TypeOK'
  <2>1. Effective' \subseteq Attempts
    BY DEF Effective
  <2>2. successes' \in 0..MaxAttempts
    BY <2>1, AttemptSets
  <2>3. cancelled' \in BOOLEAN
    BY Zenon DEF Inv, TypeOK
  <2>4. QED
    BY <2>2, <2>3 DEF Inv, TypeOK, AttemptRecords
<1>2. BoundInv'
  <2>1. ~(a > attempts)
    BY DEF Inv, BoundInv, NotSent
  <2>2. QED
    BY <2>1 DEF Inv, BoundInv, MaxRetries
<1>3. TokenInv'
  BY DEF Inv, TokenInv
<1>4. HeldInv'
  BY DEF Inv, HeldInv, Encoder
<1>5. AnswerInv'
  <2>1. pc' = "backoff" => IsRetryable(err')
    BY DEF Inv, AnswerInv, IsRetryable
  <2>2. ASSUME pc \in {"backoff", "done"}, answer.from = "service", err.kind \in Telling
        PROVE  /\ attempts \in Attempts /\ sent'[attempts] = sent[attempts]
               /\ sent[attempts].step \in {"refused", "served"}
               /\ answer.status = Status(attempts) /\ err = ErrorOf(answer.status)
    <3>1. /\ attempts \in Attempts /\ sent[attempts].step \in {"refused", "served"}
          /\ answer.status = Status(attempts) /\ err = ErrorOf(answer.status)
      BY <2>2 DEF Inv, AnswerInv, Telling
    <3>2. attempts # a
      BY <3>1
    <3>3. QED
      BY <3>1, <3>2
  <2>3. sent'[attempts] = sent[attempts] => Status(attempts)' = Status(attempts)
    BY DEF Status
  <2>4. QED
    BY <2>1, <2>2, <2>3 DEF Inv, AnswerInv, Telling
<1>6. OnceInv'
  <2>1. Open' \subseteq Open
    BY DEF Open, Effective
  <2>2. LeftBehind' \subseteq LeftBehind
    BY <2>1 DEF LeftBehind
  <2>3. gateways' \in Nat /\ gateways' >= gateways
    BY TimesAssumption DEF Inv, TypeOK
  <2>4. Cardinality(LeftBehind') <= gateways'
    BY <2>2, <2>3, FewerLeft
  <2>5. QED
    BY <2>4 DEF OnceInv
<1>7. QED
  BY <1>1, <1>2, <1>3, <1>4, <1>5, <1>6 DEF Inv

(* Both halves of the middleware only move the attempt on. *)
LEMMA MiddlewareStep ==
    ASSUME Inv, NEW a \in Attempts, Parse(a) \/ ValidateClaims(a)
    PROVE  Inv'
<1>1. /\ sent[a].step \in {"sent", "parsed"}
      /\ UNCHANGED <<config, now, pc, attempts, err, answer, cancelled, gateways, successes, held>>
  BY DEF Parse, ValidateClaims
<1>2. PICK x \in {"parsed", "accepted", "refused"} : sent' = [sent EXCEPT ![a].step = x]
  BY DEF Parse, ValidateClaims, Step
<1>3. sent \in [Attempts -> AttemptRecords]
  BY DEF Inv, TypeOK, AttemptRecords
<1>4. /\ sent' \in [Attempts -> AttemptRecords]
      /\ \A b \in Attempts : b # a => sent'[b] = sent[b]
      /\ sent'[a].token = sent[a].token /\ sent'[a].made = sent[a].made /\ sent'[a].step = x
  BY <1>2, <1>3 DEF AttemptRecords, Steps
<1>5. Effective' = Effective
  <2>1. ASSUME NEW b \in Attempts PROVE b \in Effective' <=> b \in Effective
    <3>1. CASE b = a
      BY <1>1, <1>4, <3>1 DEF Effective
    <3>2. CASE b # a
      BY <1>4, <3>2 DEF Effective
    <3>3. QED
      BY <3>1, <3>2
  <2>2. QED
    BY <2>1 DEF Effective
<1>6. successes' = Cardinality(Effective')
  BY <1>1, <1>5 DEF Inv, OnceInv
<1>7. QED
  BY <1>1, <1>4, <1>6, ServiceStep

LEMMA HandleStep ==
    ASSUME Inv, NEW a \in Attempts, Handle(a)
    PROVE  Inv'
<1>1. /\ sent[a].step = "accepted"
      /\ UNCHANGED <<config, now, pc, attempts, err, answer, cancelled, gateways, held>>
  BY DEF Handle
<1>2. PICK e \in Errors : /\ sent' = [sent EXCEPT ![a].step = "served", ![a].result = e]
                          /\ successes' = IF e = "nil" THEN successes + 1 ELSE successes
  <2>1. "parseError" \in Errors
    BY DEF Errors, StatusTable
  <2>2. QED
    BY <2>1, HandlerErrorsAssumption DEF Handle
<1>3. sent \in [Attempts -> AttemptRecords]
  BY DEF Inv, TypeOK, AttemptRecords
<1>4. /\ sent' \in [Attempts -> AttemptRecords]
      /\ \A b \in Attempts : b # a => sent'[b] = sent[b]
      /\ sent'[a].token = sent[a].token /\ sent'[a].made = sent[a].made
      /\ sent'[a].step = "served" /\ sent'[a].result = e
  BY <1>2, <1>3 DEF AttemptRecords, Steps
<1>5. a \notin Effective /\ Effective \subseteq Attempts
  BY <1>1 DEF Effective
<1>6. Effective' = IF e = "nil" THEN Effective \cup {a} ELSE Effective
  <2>1. ASSUME NEW b \in Attempts, b # a PROVE b \in Effective' <=> b \in Effective
    BY <1>4, <2>1 DEF Effective
  <2>2. a \in Effective' <=> e = "nil"
    BY <1>4 DEF Effective
  <2>3. QED
    BY <1>5, <2>1, <2>2 DEF Effective
<1>7. IsFiniteSet(Effective) /\ Cardinality(Effective) \in Nat /\ successes = Cardinality(Effective)
  BY <1>5, AttemptSets, TimesAssumption DEF Inv, OnceInv
<1>8. successes' = Cardinality(Effective')
  <2>1. CASE e = "nil"
    <3>1. Cardinality(Effective \cup {a}) = Cardinality(Effective) + 1
      BY <1>5, <1>7, FS_AddElement, Zenon
    <3>2. QED
      BY <1>2, <1>6, <1>7, <2>1, <3>1
  <2>2. CASE e # "nil"
    BY <1>2, <1>6, <1>7, <2>2
  <2>3. QED
    BY <2>1, <2>2
<1>9. QED
  BY <1>1, <1>4, <1>8, ServiceStep

LEMMA StutterStep ==
    ASSUME Inv, UNCHANGED vars
    PROVE  Inv'
BY DEF Inv, TypeOK, BoundInv, TokenInv, HeldInv, AnswerInv, OnceInv, LeftBehind, Open, Effective,
       MaxRetries, Encoder, Status, IsRetryable, vars

LEMMA InvInductive == Inv /\ [Next]_vars => Inv'
<1> SUFFICES ASSUME Inv, [Next]_vars PROVE Inv'
  OBVIOUS
<1>1. CASE AttemptFails
  BY <1>1, AttemptFailsStep
<1>2. CASE Send
  BY <1>2, SendStep
<1>3. CASE DoFails \/ BreakConnection
  BY <1>3, DoStep
<1>4. CASE Answer
  BY <1>4, AnswerStep
<1>5. CASE GatewayAnswer
  BY <1>5, GatewayStep
<1>6. CASE NextBackOff \/ Stop \/ Wait \/ Cancel \/ Tick
  BY <1>6, BackOffStep
<1>7. CASE \E a \in Attempts : Parse(a) \/ ValidateClaims(a)
  BY <1>7, MiddlewareStep
<1>8. CASE \E a \in Attempts : Handle(a)
  BY <1>8, HandleStep
<1>9. CASE UNCHANGED vars
  BY <1>9, StutterStep
<1>10. QED
  BY <1>1, <1>2, <1>3, <1>4, <1>5, <1>6, <1>7, <1>8, <1>9 DEF Next, Caller, Service

LEMMA InvAlways == Spec => []Inv
<1>1. Init => Inv
  BY InitInv
<1>2. Inv /\ [Next]_vars => Inv'
  BY InvInductive
<1>3. QED
  BY <1>1, <1>2, PTL DEF Spec

(***************************************************************************)
(* Theorems.                                                               *)
(***************************************************************************)
(* DoRequest keeps ClientInv for every client, service and plan: attempts  *)
(* stay within WithRetry's bound, the error that is returned is the one of *)
(* the service's answer, and no body or encoder is left behind.            *)
THEOREM ClientSafe == Spec => []ClientInv
<1>1. Inv => ClientInv
  BY Promises DEF Inv, ClientInv
<1>2. QED
  BY <1>1, InvAlways, PTL

(* A call has its effect at most once more than gateways answered in place *)
(* of the service, and a call that returns no error had it.                *)
THEOREM EffectOnce == Spec => []OnceUnlessGateway
<1>1. ASSUME Inv PROVE OnceUnlessGateway
  <2>1. successes <= 1 + gateways
    <3>1. Effective \subseteq Open /\ Open \subseteq Attempts
      BY OpenType
    <3>2. Open \ {attempts} \subseteq LeftBehind /\ LeftBehind \subseteq Attempts
      BY OpenType
    <3>3. /\ Cardinality(Effective) \in Nat /\ Cardinality(Open) \in Nat
          /\ Cardinality(Effective) <= Cardinality(Open)
      BY <3>1, AttemptSets
    <3>4. Cardinality(Open) <= Cardinality(Open \ {attempts}) + 1
      BY <3>1, OneMore
    <3>5. /\ Cardinality(Open \ {attempts}) \in Nat /\ Cardinality(LeftBehind) \in Nat
          /\ Cardinality(Open \ {attempts}) <= Cardinality(LeftBehind)
      BY <3>2, AttemptSets
    <3>6. successes = Cardinality(Effective) /\ Cardinality(LeftBehind) <= gateways /\ gateways \in Nat
      BY <1>1, TimesAssumption DEF Inv, TypeOK, OnceInv
    <3>7. QED
      BY <3>3, <3>4, <3>5, <3>6
  <2>2. ASSUME pc = "done", err = NoError PROVE successes >= 1
    <3>1. err.kind = "nil"
      BY <2>2 DEF NoError, Error
    <3>2. /\ answer.from = "service" /\ attempts \in Attempts
          /\ sent[attempts].step \in {"refused", "served"}
      BY <1>1, <2>2, <3>1 DEF Inv, AnswerInv
    <3>3. /\ sent[attempts].step = "refused" => err.kind = "ErrAuthorization"
          /\ sent[attempts].step = "served" => (err = NoError <=> sent[attempts].result = "nil")
      BY <1>1, <2>2, <3>1, <3>2, Promises DEF Inv, ErrorsSurvive
    <3>4. attempts \in Effective /\ Effective \subseteq Attempts
      BY <2>2, <3>1, <3>2, <3>3 DEF Effective
    <3>5. IsFiniteSet(Effective) /\ Cardinality(Effective) \in Nat
      BY <3>4, AttemptSets
    <3>6. Cardinality(Effective) # 0
      BY <3>4, <3>5, FS_EmptySet
    <3>7. QED
      BY <1>1, <3>5, <3>6 DEF Inv, OnceInv
  <2>3. QED
    BY <2>1, <2>2 DEF OnceUnlessGateway
<1>2. QED
  BY <1>1, InvAlways, PTL

(* Only the middleware accepts or refuses an attempt. *)
LEMMA DecidedByMiddleware ==
    ASSUME Inv, [Next]_vars, NEW a \in Attempts,
           sent'[a].step \in {"accepted", "refused"}, sent[a].step # sent'[a].step
    PROVE  Parse(a) \/ ValidateClaims(a)
<1>1. sent \in [Attempts -> AttemptRecords]
  BY DEF Inv, TypeOK, AttemptRecords
<1>2. CASE UNCHANGED sent
  BY <1>2
<1>3. CASE \E b \in Attempts : sent' = [sent EXCEPT ![b] = NotSent]
  BY <1>1, <1>3 DEF NotSent
<1>4. CASE Send
  BY <1>1, <1>4 DEF Send
<1>5. ASSUME NEW b \in Attempts, Parse(b) \/ ValidateClaims(b) PROVE b = a
  <2>1. PICK x \in Steps : sent' = [sent EXCEPT ![b].step = x]
    BY <1>5 DEF Parse, ValidateClaims, Step, Steps
  <2>2. QED
    BY <1>1, <2>1
<1>6. ASSUME NEW b \in Attempts, Handle(b) PROVE FALSE
  <2>1. PICK e : sent' = [sent EXCEPT ![b].step = "served", ![b].result = e]
    BY <1>6 DEF Handle
  <2>2. CASE a = b
    BY <1>1, <2>1, <2>2 DEF AttemptRecords
  <2>3. CASE a # b
    BY <1>1, <2>1, <2>3
  <2>4. QED
    BY <2>2, <2>3
<1>7. CASE BreakConnection \/ GatewayAnswer
  <2>1. attempts \in Attempts
    BY <1>7, TimesAssumption DEF BreakConnection, GatewayAnswer, Inv, TypeOK, BoundInv, Attempts
  <2>2. sent' = sent \/ sent' = [sent EXCEPT ![attempts] = NotSent]
    BY <1>7 DEF BreakConnection, GatewayAnswer
  <2>3. QED
    BY <1>2, <1>3, <2>1, <2>2
<1>8. CASE AttemptFails \/ DoFails \/ Answer \/ NextBackOff \/ Stop \/ Wait \/ Cancel \/ Tick \/ UNCHANGED vars
  BY <1>2, <1>8 DEF AttemptFails, DoFails, Answer, NextBackOff, Stop, Wait, Cancel, Tick, vars
<1>9. QED
  BY <1>4, <1>5, <1>6, <1>7, <1>8 DEF Next, Caller, Service

(* What the invariant and the cut of the encoding say of a creator's token. *)
LEMMA CreatedTokens ==
    ASSUME Inv, NEW a \in Attempts, sent[a].step # "none", config.provider = "creator"
    PROVE  /\ sent[a].token = Create(sent[a].made, config.lifetime)
           /\ sent[a].made \in (maxSkew + Second)..now
           /\ sent[a].token # NoToken
           /\ sent[a].token.sub # Nobody /\ sent[a].token.azp # Nobody
           /\ sent[a].token.iss = sent[a].token.azp
           /\ sent[a].token.iat \in Int /\ sent[a].token.iat # NoTime
           /\ sent[a].token.iat = Timestamp(sent[a].made)
           /\ sent[a].token.nbf \in Int /\ sent[a].token.nbf # NoTime
           /\ sent[a].token.nbf = Timestamp(sent[a].made - maxSkew)
           /\ sent[a].token.exp \in Int /\ sent[a].token.exp # NoTime
           /\ sent[a].token.exp <= sent[a].made + Lifetime(config.lifetime)
           /\ sent[a].token.exp >= sent[a].made + Lifetime(config.lifetime) - (Second - 1)
<1> DEFINE m == sent[a].made
           l == Lifetime(config.lifetime)
<1>1. sent[a].token = Create(m, config.lifetime) /\ m \in (maxSkew + Second)..now
  BY DEF Inv, TokenInv
<1>2. m \in Nat /\ m >= maxSkew + Second /\ l \in Nat /\ now \in Nat
  BY <1>1, TimesAssumption, ConfigType DEF Inv, TypeOK, maxSkew, Second
<1> HIDE DEF m, l
<1>3. m - maxSkew \in Int /\ m - maxSkew >= Second /\ m + l \in Int /\ m + l >= Second /\ m >= Second
  BY <1>2 DEF maxSkew, Second
<1>4. /\ Timestamp(m) \in Int /\ Timestamp(m) >= Second
      /\ Timestamp(m - maxSkew) \in Int /\ Timestamp(m - maxSkew) >= Second
      /\ Timestamp(m + l) \in Int /\ Timestamp(m + l) >= Second
      /\ Timestamp(m + l) <= m + l /\ Timestamp(m + l) >= m + l - (Second - 1)
  <2>1. ASSUME NEW t \in Int, t >= Second
        PROVE  /\ Timestamp(t) \in Int /\ Timestamp(t) >= Second
               /\ Timestamp(t) <= t /\ Timestamp(t) >= t - (Second - 1)
    BY <2>1, TimestampFacts
  <2>2. m \in Int
    BY <1>2
  <2>3. Timestamp(m) \in Int /\ Timestamp(m) >= Second
    BY <1>3, <2>1, <2>2, Zenon
  <2>4. Timestamp(m - maxSkew) \in Int /\ Timestamp(m - maxSkew) >= Second
    BY <1>3, <2>1, Zenon
  <2>5. /\ Timestamp(m + l) \in Int /\ Timestamp(m + l) >= Second
        /\ Timestamp(m + l) <= m + l /\ Timestamp(m + l) >= m + l - (Second - 1)
    <3>1. Timestamp(m + l) >= (m + l) - (Second - 1)
      BY <1>3, <2>1, Zenon
    <3>2. Timestamp(m + l) \in Int /\ Timestamp(m + l) >= Second /\ Timestamp(m + l) <= m + l
      BY <1>3, <2>1, Zenon
    <3>3. QED
      BY <1>2, <3>1, <3>2 DEF Second
  <2>6. QED
    BY <2>3, <2>4, <2>5
<1>5. \A t \in Int : t >= Second => t # NoTime
  BY DEF Second, NoTime
<1>6. /\ sent[a].token.sub = "service" /\ sent[a].token.iss = "service" /\ sent[a].token.azp = "service"
      /\ sent[a].token.iat = Timestamp(m) /\ sent[a].token.nbf = Timestamp(m - maxSkew)
      /\ sent[a].token.exp = Timestamp(m + l)
  BY <1>1 DEF Create, l
<1>7. "service" # Nobody /\ NoToken.sub = Nobody
  BY DEF Nobody, NoToken
<1>8. sent[a].token # NoToken
  BY <1>6, <1>7
<1>9. QED
  BY <1>1, <1>4, <1>5, <1>6, <1>7, <1>8 DEF m, l

(* The service refuses a creator's token only when its clock is behind or  *)
(* the attempt itself took the lifetime, less the second the encoding may  *)
(* cut off.                                                                *)
THEOREM TokensAreFresh == Spec => FreshTokens
<1>1. ASSUME Inv, [Next]_vars, NEW a \in Attempts, config.provider = "creator",
             sent[a].step # "refused", sent'[a].step = "refused", ~(config.behind > 0)
      PROVE  Clock - sent[a].made >= Lifetime(config.lifetime) - (Second - 1)
  <2> DEFINE m == sent[a].made
             l == Lifetime(config.lifetime)
             c == sent[a].token
  <2>1. Parse(a) \/ ValidateClaims(a)
    BY <1>1, DecidedByMiddleware
  <2>2. sent[a].step # "none"
    BY <2>1 DEF Parse, ValidateClaims
  <2>3. /\ m \in (maxSkew + Second)..now /\ c # NoToken
        /\ c.sub # Nobody /\ c.azp # Nobody /\ c.iss = c.azp
        /\ c.iat \in Int /\ c.iat # NoTime /\ c.iat = Timestamp(m)
        /\ c.nbf \in Int /\ c.nbf # NoTime /\ c.nbf = Timestamp(m - maxSkew)
        /\ c.exp \in Int /\ c.exp # NoTime /\ c.exp >= m + l - (Second - 1)
    BY <1>1, <2>2, CreatedTokens
  <2>4. now \in Nat /\ l \in Nat /\ m \in Nat /\ m <= now
    BY <1>1, <2>3, ConfigType, TimesAssumption DEF Inv, TypeOK, maxSkew, Second
  <2>5. Clock \in Int /\ Clock >= m
    BY <1>1, <2>4, ConfigType DEF Clock, Inv
  <2>6. Clock < c.exp =>
          /\ Clock >= c.nbf /\ Clock >= c.iat
          /\ Timestamp(Clock) < c.exp /\ Timestamp(Clock) >= c.nbf /\ Timestamp(Clock) >= c.iat
    <3>1. /\ Timestamp(Clock) \in Int /\ Timestamp(Clock) <= Clock
          /\ Timestamp(m) <= Timestamp(Clock)
      BY <2>4, <2>5, TimestampFacts
    <3>2. m - maxSkew \in Int /\ m - maxSkew <= Clock
      BY <2>4, <2>5 DEF maxSkew, Second
    <3>3. Timestamp(m - maxSkew) <= Timestamp(Clock)
      BY <2>5, <3>2, TimestampFacts
    <3>4. QED
      BY <2>3, <2>5, <3>1, <3>3
  <2>7. sent'[a].step = "refused" => ~(Clock < c.exp)
    <3> SUFFICES ASSUME Clock < c.exp PROVE sent'[a].step # "refused"
      OBVIOUS
    <3>1. sent \in [Attempts -> AttemptRecords]
      BY <1>1 DEF Inv, TypeOK, AttemptRecords
    <3>2. c # NoToken /\ ParserAccepts(c, Clock)
      BY <2>3, <2>6 DEF ParserAccepts, VerifyExpiresAt, VerifyNotBefore, VerifyIssuedAt
    <3>3. Validate(c, Clock)
      BY <2>3, <2>6 DEF Validate, VerifyExpiresAt, VerifyNotBefore, VerifyIssuedAt, VerifyIssuer,
                        VerifyAuthorizedParty
    <3>4. sent' = [sent EXCEPT ![a].step = "accepted"] \/ sent' = [sent EXCEPT ![a].step = "parsed"]
      BY <2>1, <3>2, <3>3 DEF Parse, ValidateClaims, Step
    <3>5. QED
      BY <3>1, <3>4 DEF AttemptRecords
  <2>8. Clock >= c.exp
    BY <1>1, <2>3, <2>5, <2>7
  <2> HIDE DEF c, l, m
  <2>9. Clock - m >= l - (Second - 1)
    BY <2>3, <2>4, <2>5, <2>8 DEF Second
  <2>10. QED
    BY <2>9 DEF m, l
<1>2. Inv /\ [Next]_vars =>
        [\A a \in Attempts :
          /\ config.provider = "creator"
          /\ sent[a].step # "refused" /\ sent'[a].step = "refused"
          => \/ config.behind > 0
             \/ Clock - sent[a].made >= Lifetime(config.lifetime) - (Second - 1)]_vars
  BY <1>1
<1>3. QED
  BY <1>2, InvAlways, PTL DEF Spec, FreshTokens

(* The handler behind the middleware is reached only with a token that is  *)
(* complete and alive on the clock of the service.                         *)
THEOREM AcceptedAlive == Spec => AcceptedWhileAlive
<1>1. ASSUME Inv, [Next]_vars, NEW a \in Attempts, config.protected,
             sent[a].step # "accepted", sent'[a].step = "accepted"
      PROVE  /\ sent[a].token # NoToken
             /\ config.provider = "creator" => Clock < sent[a].made + Lifetime(config.lifetime)
             /\ config.provider = "claims" => Clock < Relayed.exp /\ Relayed.nbf # NoTime
  <2>1. Parse(a) \/ ValidateClaims(a)
    BY <1>1, DecidedByMiddleware
  <2>2. sent \in [Attempts -> AttemptRecords]
    BY <1>1 DEF Inv, TypeOK, AttemptRecords
  <2>3. ValidateClaims(a)
    <3>1. ~Parse(a)
      BY <1>1, <2>2 DEF Parse, Step, AttemptRecords
    <3>2. QED
      BY <2>1, <3>1
  <2>4. sent[a].step # "none" /\ Validate(sent[a].token, Clock)
    <3>1. ASSUME ~Validate(sent[a].token, Clock) PROVE FALSE
      BY <1>1, <2>2, <2>3, <3>1 DEF ValidateClaims, Step, AttemptRecords
    <3>2. QED
      BY <2>3, <3>1 DEF ValidateClaims
  <2>5. sent[a].token.sub # Nobody /\ Clock < sent[a].token.exp /\ sent[a].token.nbf # NoTime
    BY <2>4 DEF Validate, VerifyExpiresAt, VerifyNotBefore
  <2>6. sent[a].token # NoToken
    BY <2>5 DEF NoToken
  <2>7. ASSUME config.provider = "creator" PROVE Clock < sent[a].made + Lifetime(config.lifetime)
    <3>1. /\ sent[a].token.exp \in Int /\ sent[a].made \in (maxSkew + Second)..now
          /\ sent[a].token.exp <= sent[a].made + Lifetime(config.lifetime)
      BY <1>1, <2>4, <2>7, CreatedTokens
    <3>2. Clock \in Int /\ Lifetime(config.lifetime) \in Nat /\ sent[a].made \in Int
      BY <1>1, <3>1, ConfigType, TimesAssumption DEF Clock, Inv, TypeOK, maxSkew, Second
    <3>3. QED
      BY <2>5, <3>1, <3>2
  <2>8. ASSUME config.provider = "claims" PROVE sent[a].token = Relayed
    BY <1>1, <2>4, <2>8 DEF Inv, TokenInv
  <2>9. QED
    BY <2>5, <2>6, <2>7, <2>8
<1>2. Inv /\ [Next]_vars =>
        [\A a \in Attempts :
          /\ config.protected
          /\ sent[a].step # "accepted" /\ sent'[a].step = "accepted"
          => /\ sent[a].token # NoToken
             /\ config.provider = "creator" => Clock < sent[a].made + Lifetime(config.lifetime)
             /\ config.provider = "claims" => Clock < Relayed.exp /\ Relayed.nbf # NoTime]_vars
  BY <1>1
<1>3. QED
  BY <1>2, InvAlways, PTL DEF Spec, AcceptedWhileAlive
=============================================================================
