----------------------------- MODULE AccessTokens -----------------------------
(* The credentials of the Gateway: its configured app access, which each start *)
(* puts into force, the run tokens that are minted from it, and the requests  *)
(* that they authenticate.  Every scrypt is an await; a request keeps the     *)
(* principal that it read before it.  Key generations are left out: a start    *)
(* derives its own from the rows it sees, and nothing is decided by them.     *)
EXTENDS Naturals, FiniteSets

CONSTANTS
  AppTokens, RunTokens,   \* all app tokens belong to one app, tenant and user
  Gateways, GatewayRequests,
  Builds,       \* the DEFAULT_APP_SCOPES of the builds that are started
  RunScopes,    \* RUN_TOKEN_SCOPES
  NoRow, AuthFailureLimit

VARIABLES
  access,       \* access_tokens
  gate,      \* the Gateway processes
  failures,  \* authFailures of one address, by process
  request    \* what a request does and as whom

tokenVars == <<access, gate, failures, request>>

Tokens == AppTokens \union RunTokens
Status == {"active", "revoked", "expired"}

TokenRows ==
  [type : {"app"}, scopes : Builds, status : Status]
  \union
  [type : {"run"}, scopes : SUBSET RunScopes, issuer : AppTokens, status : Status]

ASSUME TokensAssumption ==
  /\ AppTokens \intersect RunTokens = {}
  /\ NoRow \notin TokenRows
  /\ AuthFailureLimit \in Nat

isActive(t) == access[t] # NoRow /\ access[t].status = "active"

Down == [at |-> "down"]
Quiescent == [at |-> "idle"]

TokensInit ==
  /\ access = [t \in Tokens |-> NoRow]
  /\ gate = [g \in Gateways |-> Down]
  /\ failures = [g \in Gateways |-> 0]
  /\ request = [q \in GatewayRequests |-> Quiescent]

-----------------------------------------------------------------------------
(* ensureBootstrapAppToken, before the Gateway listens. *)

\* A process starts with a configured token; one whose row is inactive stops it.
StartGateway(g, t, build) ==
  /\ gate[g] = Down
  /\ \/ /\ access[t] = NoRow
        /\ gate' = [gate EXCEPT ![g] = [at |-> "deriving", token |-> t, scopes |-> build]]
     \/ /\ isActive(t)
        /\ gate' = [gate EXCEPT ![g] = [at |-> "verifying", token |-> t, scopes |-> build,
                                        seen |-> access[t].scopes]]
  /\ UNCHANGED <<access, failures, request>>

\* Mutant: the scopes of an older build take others away.
updateAppScopesToOwn(g) ==
  access' = [access EXCEPT ![gate[g].token].scopes = gate[g].scopes]

\* The row of the token grows to the scopes of a newer build, if it is not revoked.
updateAppScopes(g) ==
  /\ gate[g].seen \subseteq gate[g].scopes
  /\ access[gate[g].token].status # "revoked"
  /\ access' = [access EXCEPT ![gate[g].token].scopes = gate[g].scopes]

TokenVerified(g) ==
  /\ gate[g].at = "verifying"
  /\ \/ /\ gate[g].seen = gate[g].scopes
        /\ gate' = [gate EXCEPT ![g] = [at |-> "binding", token |-> gate[g].token]]
        /\ UNCHANGED access
     \/ /\ gate[g].seen # gate[g].scopes
        /\ updateAppScopes(g)
        /\ gate' = [gate EXCEPT ![g] = [at |-> "binding", token |-> gate[g].token]]
     \/ /\ gate[g].seen # gate[g].scopes
        /\ ~(gate[g].seen \subseteq gate[g].scopes /\ access[gate[g].token].status # "revoked")
        /\ gate' = [gate EXCEPT ![g] = Down]
        /\ UNCHANGED access
  /\ UNCHANGED <<failures, request>>

\* Mutant: the other app tokens stay in force.
rotateAppKeepingOthers(g) ==
  access' = [access EXCEPT ![gate[g].token] = [type |-> "app", scopes |-> gate[g].scopes,
                                               status |-> "active"]]

\* One transaction: the row of the new token, and no other app token in force.
rotateApp(g) ==
  access' = [t \in Tokens |->
            IF t = gate[g].token
            THEN [type |-> "app", scopes |-> gate[g].scopes, status |-> "active"]
            ELSE IF t \in AppTokens /\ isActive(t) THEN [access[t] EXCEPT !.status = "revoked"]
            ELSE access[t]]

\* The lookup hash is unique: a row that came meanwhile stops the start.
TokenDerived(g) ==
  /\ gate[g].at = "deriving"
  /\ IF access[gate[g].token] = NoRow
     THEN /\ rotateApp(g)
          /\ gate' = [gate EXCEPT ![g] = [at |-> "binding", token |-> gate[g].token]]
     ELSE gate' = [gate EXCEPT ![g] = Down] /\ UNCHANGED access
  /\ UNCHANGED <<failures, request>>

\* One process has the port.
Listen(g) ==
  /\ gate[g].at = "binding"
  /\ gate' = [gate EXCEPT ![g] =
       IF \E h \in Gateways \ {g} : gate[h].at \in {"serving", "closing"} THEN Down
       ELSE [at |-> "serving", token |-> gate[g].token]]
  /\ UNCHANGED <<access, failures, request>>

\* A signal: the requests that are being served are finished first.
Shutdown(g) ==
  /\ gate[g].at = "serving"
  /\ gate' = [gate EXCEPT ![g].at = "closing"]
  /\ UNCHANGED <<access, failures, request>>

Closed(g) ==
  /\ gate[g].at = "closing"
  /\ \A q \in GatewayRequests : request[q] # Quiescent => request[q].gate # g
  /\ gate' = [gate EXCEPT ![g] = Down]
  /\ failures' = [failures EXCEPT ![g] = 0]
  /\ UNCHANGED <<access, request>>

GatewayCrashes(g) ==
  /\ gate[g] # Down
  /\ gate' = [gate EXCEPT ![g] = Down]
  /\ request' = [q \in GatewayRequests |->
       IF request[q] # Quiescent /\ request[q].gate = g THEN Quiescent ELSE request[q]]
  /\ failures' = [failures EXCEPT ![g] = 0]
  /\ UNCHANGED access

-----------------------------------------------------------------------------
(* The onRequest hook: authenticate. *)

isAuthRateLimited(g) == failures[g] >= AuthFailureLimit

\* The row is read, and its secret verified after it.
Present(q, g, t) ==
  /\ request[q] = Quiescent
  /\ gate[g].at = "serving"
  /\ ~isAuthRateLimited(g)
  /\ IF isActive(t)
     THEN /\ request' = [request EXCEPT ![q] =
                           [at |-> "verifying", gate |-> g, token |-> t, as |-> access[t]]]
          /\ UNCHANGED failures
     ELSE failures' = [failures EXCEPT ![g] = @ + 1] /\ UNCHANGED request
  /\ UNCHANGED <<access, gate>>

Authenticated(q) ==
  /\ request[q].at = "verifying"
  /\ request' = [request EXCEPT ![q].at = "ready"]
  /\ failures' = [failures EXCEPT ![request[q].gate] = 0]
  /\ UNCHANGED <<access, gate>>

WindowPasses(g) ==
  /\ failures[g] > 0
  /\ failures' = [failures EXCEPT ![g] = 0]
  /\ UNCHANGED <<access, gate, request>>

\* The route needs a scope that the principal lacks, or the operation fails.
Refused(q) ==
  /\ request[q].at = "ready"
  /\ request' = [request EXCEPT ![q] = Quiescent]
  /\ UNCHANGED <<access, gate, failures>>

Administers(q) == request[q].at = "ready" /\ "tokens" \in request[q].as.scopes

\* The parent must still be what the request was authenticated as.
ParentHolds(q) ==
  /\ request[q].as.type = "app"
  /\ isActive(request[q].token)
  /\ access[request[q].token].scopes = request[q].as.scopes

\* Mutant: any scope of a run is minted.
mintAnyRunToken(q, scopes) ==
  /\ Administers(q) /\ ParentHolds(q)
  /\ request' = [request EXCEPT ![q] =
       [at |-> "minting", gate |-> @.gate, token |-> @.token, scopes |-> scopes]]
  /\ UNCHANGED <<access, gate, failures>>

mintRunToken(q, scopes) ==
  /\ Administers(q) /\ ParentHolds(q)
  /\ scopes \subseteq request[q].as.scopes \intersect RunScopes
  /\ request' = [request EXCEPT ![q] =
       [at |-> "minting", gate |-> @.gate, token |-> @.token, scopes |-> scopes]]
  /\ UNCHANGED <<access, gate, failures>>

\* The token is random, so its row is new; its parent is not looked at again.
Minted(q, r) ==
  /\ request[q].at = "minting"
  /\ access[r] = NoRow
  /\ access' = [access EXCEPT ![r] =
       [type |-> "run", scopes |-> request[q].scopes, issuer |-> request[q].token,
        status |-> "active"]]
  /\ request' = [request EXCEPT ![q] = Quiescent]
  /\ UNCHANGED <<gate, failures>>

\* DELETE /v1/tokens/:tokenId, without an await.
revoke(q, r) ==
  /\ Administers(q) /\ ParentHolds(q)
  /\ access[r] # NoRow /\ access[r].status # "revoked"
  /\ access' = [access EXCEPT ![r].status = "revoked"]
  /\ request' = [request EXCEPT ![q] = Quiescent]
  /\ UNCHANGED <<gate, failures>>

ExpireToken(r) ==
  /\ isActive(r)
  /\ access' = [access EXCEPT ![r].status = "expired"]
  /\ UNCHANGED <<gate, failures, request>>

TokensNext ==
  \/ \E g \in Gateways :
       \/ \E t \in AppTokens, build \in Builds : StartGateway(g, t, build)
       \/ TokenVerified(g) \/ TokenDerived(g) \/ Listen(g) \/ Shutdown(g) \/ Closed(g) \/ GatewayCrashes(g)
       \/ WindowPasses(g)
       \/ \E q \in GatewayRequests, t \in Tokens : Present(q, g, t)
  \/ \E q \in GatewayRequests :
       \/ Authenticated(q) \/ Refused(q)
       \/ \E scopes \in SUBSET RunScopes : mintRunToken(q, scopes)
       \/ \E r \in RunTokens : Minted(q, r) \/ revoke(q, r)
  \/ \E r \in RunTokens : ExpireToken(r)

-----------------------------------------------------------------------------
\* The variables keep their types.
TokensTypeOK ==
  /\ \A t \in AppTokens : access[t] # NoRow => access[t] \in TokenRows /\ access[t].type = "app"
  /\ \A r \in RunTokens : access[r] # NoRow => access[r] \in TokenRows /\ access[r].type = "run"
  /\ failures \in [Gateways -> 0 .. AuthFailureLimit]

\* rotateApp: whatever starts race or fail, a Gateway that serves leaves exactly one
\* app token of its app in force.
OneAppTokenServes ==
  LET inForce == {t \in AppTokens : isActive(t)}
  IN  /\ Cardinality(inForce) <= 1
      /\ (\E g \in Gateways : gate[g].at \in {"binding", "serving", "closing"}) => inForce # {}

\* Of the builds that are started, one at most is newer than an older one that may meet it.
OneUpgrade ==
  \A a, b, c \in Builds :
    a \subseteq b /\ a \subseteq c /\ a # b /\ a # c => b = c

\* mintRunToken, updateAppScopes: a run token that is in use never reaches beyond
\* the app token that it was minted from, whatever became of that one's scopes.
RunTokensStayNarrow ==
  \A r \in RunTokens : access[r] # NoRow =>
    access[r].scopes \subseteq access[access[r].issuer].scopes

\* AccessTokenService: the tokens in force are those that the Gateway and its
\* administrators put in force, each within what it was given.
TokensAreBound == OneAppTokenServes /\ (OneUpgrade => RunTokensStayNarrow)
=============================================================================
