-------------------------- MODULE ProviderConnections --------------------------
(* A user's provider connections: a row in the run database, a secret in the  *)
(* credential store, and the runs that are bound to the row by its id.        *)
(* Logins and deletions await the credential store between reading the row    *)
(* and changing it; runs resolve the connection once per attempt.             *)
EXTENDS Naturals, Sequences

CONSTANTS
  Connections,   \* ids, which the user chooses and may use again
  AdminRequests, ConnectedRuns,
  MaxProfiles,   \* credential profiles that are ever created, for the bound
  NoConnection

Statuses == {"needs_login", "ready", "error"}

ASSUME ConnectionAssumption ==
  /\ MaxProfiles \in Nat
  /\ NoConnection \notin [status : Statuses, profile : Nat]

VARIABLES
  connection,  \* provider_connections
  owner,       \* the id for which each credential profile was created
  secret,      \* the profiles that the credential store holds
  admin,       \* the logins and deletions under way
  attempt,     \* what the current attempt of each run uses
  sent,        \* the profiles whose credential went out for each run
  disturbed    \* profiles of operations that overlapped or were cut short

connectionVars == <<connection, owner, secret, admin, attempt, sent, disturbed>>

Profiles == 1 .. MaxProfiles
Waiting  == [at |-> "idle"]
Live(c)  == connection[c] # NoConnection

ConnectionInit ==
  /\ connection = [c \in Connections |-> NoConnection]
  /\ owner = <<>>
  /\ secret = {}
  /\ admin = [q \in AdminRequests |-> Waiting]
  /\ attempt = [r \in ConnectedRuns |-> Waiting]
  /\ sent = [r \in ConnectedRuns |-> {}]
  /\ disturbed = {}

-----------------------------------------------------------------------------
(* /internal/provider-connections *)

NewRow(profile) == [status |-> "needs_login", profile |-> profile]

\* The id must be free; the credential profile is new.
createProviderConnection(c) ==
  /\ ~Live(c) /\ Len(owner) < MaxProfiles
  /\ owner' = Append(owner, c)
  /\ connection' = [connection EXCEPT ![c] = NewRow(Len(owner) + 1)]
  /\ UNCHANGED <<secret, admin, attempt, sent, disturbed>>

\* The profiles of the operations under way on an id, and of the row they read.
Overlapped(c) ==
  LET others == {q \in AdminRequests : admin[q] # Waiting /\ admin[q].id = c}
  IN  IF others = {} THEN {}
      ELSE {admin[q].profile : q \in others} \union {connection[c].profile}

BeginAdmin(q, c, kind) ==
  /\ admin[q] = Waiting /\ Live(c)
  /\ admin' = [admin EXCEPT ![q] = [at |-> kind, id |-> c, profile |-> connection[c].profile]]
  /\ disturbed' = disturbed \union Overlapped(c)
  /\ UNCHANGED <<connection, owner, secret, attempt, sent>>

login(q, c) == BeginAdmin(q, c, "storing")

\* A row that was created again under the id while an operation was under way.
CrossedBy(q) ==
  IF Live(admin[q].id) /\ connection[admin[q].id].profile # admin[q].profile
  THEN {connection[admin[q].id].profile} ELSE {}

SecretStored(q) ==
  /\ admin[q].at = "storing"
  /\ secret' = secret \union {admin[q].profile}
  /\ admin' = [admin EXCEPT ![q].at = "stored"]
  /\ UNCHANGED <<connection, owner, attempt, sent, disturbed>>

\* updateProviderConnection finds the row by its id.
updateProviderConnection(q, status) ==
  /\ connection' = IF Live(admin[q].id)
                   THEN [connection EXCEPT ![admin[q].id].status = status] ELSE connection
  /\ admin' = [admin EXCEPT ![q] = Waiting]
  /\ disturbed' = disturbed \union CrossedBy(q)
  /\ UNCHANGED <<owner, secret, attempt, sent>>

LoggedIn(q) == admin[q].at = "stored" /\ updateProviderConnection(q, "ready")

\* Mutant: a login whose secret was not stored leaves the row ready.
StoreFailedReady(q) == admin[q].at = "storing" /\ updateProviderConnection(q, "ready")

StoreFailed(q) == admin[q].at = "storing" /\ updateProviderConnection(q, "error")

logout(q, c) == BeginAdmin(q, c, "forgetting")

SecretForgotten(q) ==
  /\ admin[q].at = "forgetting"
  /\ secret' = secret \ {admin[q].profile}
  /\ admin' = [admin EXCEPT ![q].at = "forgotten"]
  /\ UNCHANGED <<connection, owner, attempt, sent, disturbed>>

deleteProviderConnection(q) ==
  /\ admin[q].at = "forgotten"
  /\ connection' = [connection EXCEPT ![admin[q].id] = NoConnection]
  /\ admin' = [admin EXCEPT ![q] = Waiting]
  /\ disturbed' = disturbed \union CrossedBy(q)
  /\ UNCHANGED <<owner, secret, attempt, sent>>

\* 409: the row stays as it is.
ForgetFailed(q) ==
  /\ admin[q].at = "forgetting"
  /\ admin' = [admin EXCEPT ![q] = Waiting]
  /\ UNCHANGED <<connection, owner, secret, attempt, sent, disturbed>>

-----------------------------------------------------------------------------
(* Runs *)

createRun(r, c) ==
  /\ attempt[r] = Waiting
  /\ Live(c) /\ connection[c].status = "ready"
  /\ attempt' = [attempt EXCEPT ![r] = [at |-> "unresolved", id |-> c]]
  /\ UNCHANGED <<connection, owner, secret, admin, sent, disturbed>>

\* Mutant: another connection of the user serves when its own does not.
resolveAnyReady(r) ==
  /\ attempt[r].at = "unresolved"
  /\ \E c \in Connections :
       /\ Live(c) /\ connection[c].status = "ready"
       /\ attempt' = [attempt EXCEPT ![r] = [at |-> "bound", id |-> attempt[r].id,
                                             profile |-> connection[c].profile, cached |-> FALSE]]
  /\ UNCHANGED <<connection, owner, secret, admin, sent, disturbed>>

\* ConnectionAwareModelGateway: a connection that is not ready fails the attempt.
resolve(r) ==
  /\ attempt[r].at = "unresolved"
  /\ LET c == attempt[r].id
     IN  attempt' = [attempt EXCEPT ![r] =
           IF Live(c) /\ connection[c].status = "ready"
           THEN [at |-> "bound", id |-> c, profile |-> connection[c].profile, cached |-> FALSE]
           ELSE [at |-> "failed", id |-> c]]
  /\ UNCHANGED <<connection, owner, secret, admin, sent, disturbed>>

Loads(profile) == profile \in secret

\* The broker of the gateway keeps the credential it once loaded.
streamTurn(r) ==
  /\ attempt[r].at = "bound"
  /\ IF attempt[r].cached \/ Loads(attempt[r].profile)
     THEN /\ sent' = [sent EXCEPT ![r] = @ \union {attempt[r].profile}]
          /\ attempt' = [attempt EXCEPT ![r] = [at |-> "bound", id |-> attempt[r].id,
                                                   profile |-> attempt[r].profile, cached |-> TRUE]]
     ELSE /\ attempt' = [attempt EXCEPT ![r] = [at |-> "failed", id |-> @.id]]
          /\ UNCHANGED sent
  /\ UNCHANGED <<connection, owner, secret, admin, disturbed>>

\* 1,024 younger attempts evict the gateway, or the run is taken up again.
Unbind(r) ==
  /\ attempt[r].at \in {"bound", "failed"}
  /\ attempt' = [attempt EXCEPT ![r] = [at |-> "unresolved", id |-> @.id]]
  /\ UNCHANGED <<connection, owner, secret, admin, sent, disturbed>>

\* The Manager dies with its requests, and the runs are taken up again.
AdminDies ==
  /\ \E q \in AdminRequests : admin[q] # Waiting
  /\ disturbed' = disturbed \union {admin[q].profile : q \in {u \in AdminRequests : admin[u] # Waiting}}
  /\ admin' = [q \in AdminRequests |-> Waiting]
  /\ attempt' = [r \in ConnectedRuns |->
                   IF attempt[r] = Waiting THEN Waiting ELSE [at |-> "unresolved", id |-> attempt[r].id]]
  /\ UNCHANGED <<connection, owner, secret, sent>>

ConnectionNext ==
  \/ \E c \in Connections :
       \/ createProviderConnection(c)
       \/ \E q \in AdminRequests : login(q, c) \/ logout(q, c)
       \/ \E r \in ConnectedRuns : createRun(r, c)
  \/ \E q \in AdminRequests :
       SecretStored(q) \/ LoggedIn(q) \/ StoreFailed(q)
         \/ SecretForgotten(q) \/ deleteProviderConnection(q) \/ ForgetFailed(q)
  \/ \E r \in ConnectedRuns : resolve(r) \/ streamTurn(r) \/ Unbind(r)
  \/ AdminDies

-----------------------------------------------------------------------------
\* The variables keep their types.
ConnectionTypeOK ==
  /\ \A c \in Connections : Live(c) =>
       connection[c] \in [status : Statuses, profile : Profiles]
  /\ owner \in UNION {[1 .. n -> Connections] : n \in 0 .. MaxProfiles}
  /\ secret \subseteq Profiles /\ disturbed \subseteq Profiles
  /\ sent \in [ConnectedRuns -> SUBSET Profiles]

\* streamTurn: whatever is logged in, deleted and created again meanwhile, a run only
\* ever sends credentials that belong to the connection it was created with.
RunsKeepTheirConnection ==
  \A r \in ConnectedRuns, p \in Profiles : p \in sent[r] => owner[p] = attempt[r].id

\* Login and deletion: as long as the operations on a connection come one after the
\* other and none is cut short, a connection that is ready has its secret, and a
\* secret has its connection.
SecretsFollowRows ==
  \A p \in 1 .. Len(owner) \ disturbed :
    LET row == {c \in Connections : Live(c) /\ connection[c].profile = p}
        atWork == \E q \in AdminRequests : admin[q] # Waiting /\ admin[q].profile = p
    IN  ~atWork => /\ \A c \in row : connection[c].status = "ready" => p \in secret
                   /\ p \in secret => row # {}

\* The provider connections of the Manager: RunsKeepTheirConnection, SecretsFollowRows.
ConnectionsAreBacked == RunsKeepTheirConnection /\ SecretsFollowRows
=============================================================================
