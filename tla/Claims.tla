------------------------------- MODULE Claims -------------------------------
(***************************************************************************)
(* The claims of a request token: how tokens/creator.go fills them, how    *)
(* they travel as whole seconds (authorization/timestamp.go) and how the   *)
(* authorization middleware checks them (authorization/claims.go).         *)
(*                                                                         *)
(* Times are natural numbers of ticks, two to a second, so that what the   *)
(* encoding cuts off can be seen; 0 is both Go's zero time and a missing   *)
(* claim.  The signature is left out: every token here is well signed.     *)
(***************************************************************************)
EXTENDS Naturals

Second == 2
NoTime == 0
Nobody == "" \* the empty string of a missing claim

maxSkew == 5 * Second

(* Who a claim may name: nobody, a service or a user. *)
Names == {Nobody, "service", "user"}

(* The claims of a token, as the receiver decodes them *)
Tokens == [sub : Names, iss : Names, azp : Names, iat : Nat, nbf : Nat, exp : Nat]

(* MarshalJSON writes the Unix time, UnmarshalJSON reads it back. *)
RoundUp(t) == ((t + Second - 1) \div Second) * Second \* Mutant: the next second
Timestamp(t) == (t \div Second) * Second

(* NewCreator compares the lifetime with 5 nanoseconds: only 0 is replaced. *)
Lifetime(given) == IF given = 0 THEN 5 * Second ELSE given

(* tokenCreator.Create at time now *)
Create(now, given) ==
    [ sub |-> "service", iss |-> "service", azp |-> "service",
      iat |-> Timestamp(now),
      nbf |-> Timestamp(now - maxSkew),
      exp |-> Timestamp(now + Lifetime(given)) ]

VerifyExpiresAt(c, cmp, required) == IF c.exp = NoTime THEN ~required ELSE cmp < c.exp
VerifyNotBefore(c, cmp, required) == IF c.nbf = NoTime THEN ~required ELSE cmp >= c.nbf
VerifyIssuedAt(c, cmp, required) == IF c.iat = NoTime THEN ~required ELSE cmp >= c.iat
VerifyIssuer(c, cmp, required) == IF c.iss = Nobody THEN ~required ELSE c.iss = cmp
VerifyAuthorizedParty(c) == c.azp = Nobody \/ VerifyIssuer(c, c.azp, TRUE)

(* Claims.Validate *)
Validate(c, now) ==
    /\ c.sub # Nobody
    /\ VerifyExpiresAt(c, now, TRUE)
    /\ VerifyNotBefore(c, now, TRUE)
    /\ VerifyIssuedAt(c, now, TRUE)
    /\ VerifyAuthorizedParty(c)

(* The default validation of jwt.Parser, which reads whole seconds. *)
ParserAccepts(c, now) ==
    LET cmp == Timestamp(now)
    IN  /\ VerifyExpiresAt(c, cmp, FALSE)
        /\ VerifyNotBefore(c, cmp, FALSE)
        /\ VerifyIssuedAt(c, cmp, FALSE)
=============================================================================
