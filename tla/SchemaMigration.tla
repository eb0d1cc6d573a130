--------------------------- MODULE SchemaMigration ---------------------------
(* SqliteRunStore.#migrate: the build that opens an older database brings it   *)
(* to its own schema, one transaction per migration.  The history is read      *)
(* before the first transaction, so that two openers may have the same work in *)
(* mind; an opener may die or fail at any point and be started again.          *)
(* One agent, workspace and session id stand for all: owners may share it, and *)
(* a row is named by its owner.  Migrations that only add tables or columns    *)
(* are one, "tables".                                                          *)
EXTENDS Naturals, Sequences, FiniteSets

CONSTANTS
  Openers,
  BuildOf,    \* number of migrations that each opener's build knows
  OldRuns,    \* numbers of the rows of runs
  Users,      \* user ids, as sequences of characters
  ClientKeys  \* the idempotency key of each run, likewise

Registry == <<"tables", "keys", "owners", "order", "approvals", "usage">>

\* The length of an id is one digit here.
UserIds == {u \in Seq(STRING) : Len(u) \in 1 .. 3}

ASSUME MigrationAssumption ==
  /\ BuildOf \in [Openers -> DOMAIN Registry]
  /\ ClientKeys \in Seq(Seq(STRING)) /\ OldRuns \subseteq DOMAIN ClientKeys
  /\ Users # {} /\ \A u \in Users : u \in UserIds

VARIABLES
  db,        \* what is committed: version and rows
  original,  \* what was committed at the start
  writer,    \* who is in a transaction, or NoWriter
  opener     \* where each process is, and what it applies next

migrationVars == <<db, original, writer, opener>>

NoWriter == "nobody"
Null     == <<>>
Unopened == [at |-> "closed"]

-----------------------------------------------------------------------------
(* Idempotency keys; a length is one digit                                    *)

Digits == <<"1", "2", "3">>

scopedIdempotencyKey(user, key) == <<Digits[Len(user)], ":">> \o user \o <<":">> \o key

publicIdempotencyKey(value) ==
  LET userLength == CHOOSE n \in DOMAIN Digits : Digits[n] = value[1]
  IN  IF value[2] = ":" /\ value[userLength + 3] = ":"
      THEN SubSeq(value, userLength + 4, Len(value)) ELSE value

-----------------------------------------------------------------------------
(* What a migration makes of the rows                                         *)

OwnersOf(d) == {d.runs[r].user : r \in OldRuns}

ScopeKeys(d) ==
  LET Scoped(run) == [run EXCEPT !.key = scopedIdempotencyKey(run.user, run.key)]
  IN  [d EXCEPT !.runs = [r \in OldRuns |-> Scoped(d.runs[r])]]

\* Mutant: the lease goes to the workspace that had the id before.
LeasesOfLegacy(d, workspaces) == [u \in d.workspaces |-> d.leases]

\* The fencing token of the old id goes to the workspace of every owner.
ScopedLeases(d, workspaces) == [u \in workspaces |-> d.leases]

\* Mutant: a row is found by its id alone.
ResolvesById(user, rows) == CHOOSE u \in rows : TRUE

Resolves(user, rows) == IF user \in rows THEN user ELSE Null

\* The owners of runs get the profiles and workspaces that they lack, and a session
\* that a run names; messages follow their session.
ScopeOwners(d) ==
  LET profiles   == d.profiles \union OwnersOf(d)
      workspaces == d.workspaces \union OwnersOf(d)
      sessions   == (d.sessions \intersect profiles)
                      \union {d.runs[r].user : r \in {q \in OldRuns : d.runs[q].session}}
      Scoped(run) == [run EXCEPT
        !.refs = <<Resolves(run.user, profiles), Resolves(run.user, workspaces)>>
                   \o (IF run.session THEN <<Resolves(run.user, sessions)>> ELSE <<>>)]
  IN  [d EXCEPT
        !.runs = [r \in OldRuns |-> Scoped(d.runs[r])],
        !.profiles = profiles, !.workspaces = workspaces, !.sessions = sessions,
        !.messages = {m \in d.messages : m.session \in sessions},
        !.leases   = ScopedLeases(d, workspaces)]

\* Mutant: messages of one moment share a number.
NumberByTime(d, m) ==
  Cardinality({prior \in d.messages : prior.session = m.session /\ prior.at <= m.at})

NumberOf(d, m) ==
  Cardinality({prior \in d.messages :
    prior.session = m.session /\ (prior.at < m.at \/ (prior.at = m.at /\ prior.run <= m.run))})

NumberMessages(d) ==
  [d EXCEPT !.messages = {[m EXCEPT !.sequence = NumberOf(d, m)] : m \in d.messages}]

\* Mutant: a request for approval that waits goes on waiting.
KeepPending(status) == status

ExpirePending(status) == IF status = "PENDING" THEN "EXPIRED" ELSE status

ExpireApprovals(d) ==
  [d EXCEPT !.approvals = [r \in OldRuns |-> ExpirePending(d.approvals[r])]]

\* Mutant: what was used before counts as unknown.
ReportedLater(cost) == FALSE

WasReported(cost) == cost # 0

MarkUsage(d) ==
  [d EXCEPT !.runs = [r \in OldRuns |-> [d.runs[r] EXCEPT !.reported = WasReported(d.runs[r].cost)]]]

migration(name, d) ==
  CASE name = "tables"    -> d
    [] name = "keys"      -> ScopeKeys(d)
    [] name = "owners"    -> ScopeOwners(d)
    [] name = "order"     -> NumberMessages(d)
    [] name = "approvals" -> ExpireApprovals(d)
    [] name = "usage"     -> MarkUsage(d)

-----------------------------------------------------------------------------
(* Old databases and those who open them                                      *)

\* Rows of older builds: ids and keys were unique, and a run's session was its owner's.
\* The first run has used something and waits for an approval, the second has not; of
\* each run in a session there is a message, at times that may be the same.
Legacy(user, time, profiles, workspaces, sessions) ==
  [version |-> 1, profiles |-> profiles, workspaces |-> workspaces, sessions |-> sessions,
   runs |-> [r \in OldRuns |-> [user |-> user[r], session |-> user[r] \in sessions, key |-> ClientKeys[r],
                               cost |-> r % 2, refs |-> Null, reported |-> FALSE]],
   messages  |-> {[session |-> user[r], run |-> r, at |-> time[r], sequence |-> 0] :
                    r \in {q \in OldRuns : user[q] \in sessions}},
   leases    |-> 1,
   approvals |-> [r \in OldRuns |-> IF r % 2 = 1 THEN "PENDING" ELSE "APPROVED"]]

AtMostOne == {{}} \union {{u} : u \in Users}

MigrationInit ==
  /\ \E user \in [OldRuns -> Users], time \in [OldRuns -> {1, 2}],
        profiles, workspaces, sessions \in AtMostOne :
       original = Legacy(user, time, profiles, workspaces, sessions)
  /\ db = original
  /\ writer = NoWriter
  /\ opener = [p \in Openers |-> Unopened]

\* The history must be 1, 2, ... and no longer than the registry.
OpenStore(p) ==
  /\ opener[p] = Unopened
  /\ opener' = [opener EXCEPT ![p] =
       IF db.version > BuildOf[p] THEN Unopened
       ELSE [at |-> "migrating", next |-> db.version + 1]]
  /\ UNCHANGED <<db, original, writer>>

\* BEGIN IMMEDIATE, with no time to wait for another writer.
BeginMigration(p) ==
  /\ opener[p].at = "migrating" /\ opener[p].next <= BuildOf[p]
  /\ IF writer = NoWriter
     THEN writer' = p /\ opener' = [opener EXCEPT ![p].at = "writing"]
     ELSE opener' = [opener EXCEPT ![p] = Unopened] /\ UNCHANGED writer
  /\ UNCHANGED <<db, original>>

\* Mutant: INSERT OR REPLACE of the version.
RecordsAgain(version) == TRUE

\* The version is a primary key; most migrations fail before, on a table that exists.
RecordsOnce(version) == version > db.version

CommitMigration(p) ==
  /\ opener[p].at = "writing" /\ writer' = NoWriter
  /\ LET n == opener[p].next IN
     IF RecordsOnce(n)
     THEN /\ db' = [migration(Registry[n], db) EXCEPT !.version = n]
          /\ opener' = [opener EXCEPT ![p].at = "migrating", ![p].next = n + 1]
     ELSE /\ opener' = [opener EXCEPT ![p] = Unopened]
          /\ UNCHANGED db
  /\ UNCHANGED original

StoreIsOpen(p) ==
  /\ opener[p].at = "migrating" /\ opener[p].next > BuildOf[p]
  /\ opener' = [opener EXCEPT ![p] = [at |-> "open"]]
  /\ UNCHANGED <<db, original, writer>>

\* A process ends, in a transaction or not, and may be started again.
OpenerEnds(p) ==
  /\ opener[p] # Unopened
  /\ opener' = [opener EXCEPT ![p] = Unopened]
  /\ writer' = IF writer = p THEN NoWriter ELSE writer
  /\ UNCHANGED <<db, original>>

MigrationNext ==
  \E p \in Openers :
    OpenStore(p) \/ BeginMigration(p) \/ CommitMigration(p) \/ StoreIsOpen(p) \/ OpenerEnds(p)

MigrationSpec == MigrationInit /\ [][MigrationNext]_migrationVars

-----------------------------------------------------------------------------
(* Properties                                                                 *)

Since(name) == \E n \in 1 .. db.version : Registry[n] = name

\* Nobody's run answers to another key or points at another owner's rows, and what was
\* used is still charged (createOrGetRun finds runs by key, remainingChildBudget by usage).
RunsAreKept ==
  \A r \in OldRuns :
    LET run == db.runs[r] IN
    /\ Since("keys") => publicIdempotencyKey(run.key) = original.runs[r].key
    /\ Since("owners") => run.refs = [k \in 1 .. (IF run.session THEN 3 ELSE 2) |-> run.user]
    /\ Since("usage") /\ run.cost # 0 => run.reported

\* Every message of a session is in it, in the order of its time and under its own number.
TranscriptsAreKept ==
  /\ {[m EXCEPT !.sequence = 0] : m \in db.messages} = original.messages
  /\ Since("order") => \A m, p \in db.messages :
       m # p /\ m.session = p.session =>
         m.sequence # p.sequence /\ (m.at < p.at => m.sequence < p.sequence)

\* A workspace that a run may write to does not fall behind its fencing token, and no
\* approval without a digest can be given any more.
GuardsAreKept ==
  /\ Since("owners") => OwnersOf(db) \subseteq DOMAIN db.leases
                          /\ \A u \in OwnersOf(db) : db.leases[u] >= original.leases
  /\ Since("approvals") => \A r \in OldRuns : db.approvals[r] # "PENDING"

\* However often openers meet, fail or die, the rows of an old database are those of
\* its owners afterwards.
MigrationKeepsRows == RunsAreKept /\ TranscriptsAreKept /\ GuardsAreKept
=============================================================================
