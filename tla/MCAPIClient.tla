----------------------------- MODULE MCAPIClient -----------------------------
(* A small instance of APIClient: calls that begin on a whole second and    *)
(* in the middle of one, clients and services that differ from a common     *)
(* one in a few ways at a time.                                             *)
EXTENDS APIClient

Common ==
    [ maxAttempts |-> 2, planned |-> TRUE, provider |-> "creator",
      lifetime |-> 2, behind |-> 0, ahead |-> 0, payload |-> "valid",
      badURL |-> FALSE, protected |-> TRUE, hangs |-> FALSE ]

MCConfigs ==
    {[Common EXCEPT !.maxAttempts = n, !.planned = p] : n \in 0..MaxAttempts, p \in BOOLEAN}
    \cup {[Common EXCEPT !.lifetime = l, !.behind = b] : l \in {0, 1, 3}, b \in {0, 1}}
    \cup {[Common EXCEPT !.ahead = 2], [Common EXCEPT !.ahead = 2, !.lifetime = 3]}
    \cup {[Common EXCEPT !.provider = p, !.payload = d] : p \in {"claims", "noop", "failing"}, d \in {"none", "valid"}}
    \cup {[Common EXCEPT !.payload = d, !.badURL = u, !.protected = p] :
             d \in {"none", "valid", "invalid"}, u \in BOOLEAN, p \in BOOLEAN}
    \cup {[Common EXCEPT !.hangs = TRUE, !.payload = d] : d \in {"valid", "invalid"}}

MCHandlerErrors == {"nil", "ErrNoRows", "ErrPermission", "ValidationErrors", "other"}
MCGatewayStatuses == {503}
MCRelayed == Create(12, 3)
MCStart == {12, 13}
=============================================================================
