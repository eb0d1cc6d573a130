---------------------------- MODULE RequestRoutes ----------------------------
(* A request for a run, its approval or its artifacts on its way through the  *)
(* two processes.  The Gateway knows what a token is bound to, the Manager    *)
(* only its owner: the Gateway fetches the run, compares, and then makes the  *)
(* call that was asked for, while the run goes on.  One request is in flight; *)
(* what others do to the runs are steps of the runs.  Routes that serve all   *)
(* that an owner has, and are not bound, answer in one call.                  *)
EXTENDS Naturals

CONSTANTS
  ServedRuns, Origin,  \* owner, agent, workspace and parent of each run
  Bearers,             \* owners with the agent and the workspace a token is bound to
  Unbound

VARIABLES
  runRow,  \* the status of each run, with "absent" and "stopping"
  call     \* the request in flight or the last one answered

routingVars == <<runRow, call>>

Open == {"queued", "running", "waiting", "stopping"}
ByName == {"resolve", "download"}   \* of an approval or an artifact: its run comes with it
ByRun == {"read", "cancel", "steer", "look", "children", "publish"}   \* look: events, attempts
\* Agents, workspaces and sessions: rows of the owner, which the runs stand for.
OwnerWide == {"list", "session"}
Routes == ByName \union ByRun \union OwnerWide \union {"create"}

\* The first call that the Gateway makes for a route
FirstCall(route) ==
  CASE route \in ByName    -> "naming"
    [] route \in ByRun     -> "asking"
    [] route \in OwnerWide -> "calling"
    [] route = "create"    -> "binding"

RoutesInit ==
  /\ runRow = [r \in ServedRuns |-> "absent"]
  /\ call = [at |-> "none"]

ChildrenOf(run) == {c \in ServedRuns : Origin[c].parent = run /\ runRow[c] # "absent"}

-----------------------------------------------------------------------------
(* What the runs do meanwhile                                                 *)

Become(run, before, after) ==
  runRow[run] \in before /\ runRow' = [runRow EXCEPT ![run] = after] /\ UNCHANGED call

SpawnsChild(run) ==
  /\ Origin[run].parent \in ServedRuns /\ runRow[Origin[run].parent] \in {"running", "stopping"}
  /\ Become(run, {"absent"}, "queued")
Starts(run)        == Become(run, {"queued"}, "running")
AsksApproval(run)  == Become(run, {"running"}, "waiting")
StopsWaiting(run)  == Become(run, {"waiting"}, "running")
EndsRun(run)          == Become(run, Open, "ended")

-----------------------------------------------------------------------------
(* The Gateway                                                                *)

\* The owner, and what the token is bound to; a child may be another agent's.
ownsRun(run, bearer) ==
  /\ Origin[run].owner = bearer.owner
  /\ bearer.agent \in {Unbound, Origin[run].agent}
  /\ bearer.workspace \in {Unbound, Origin[run].workspace}

\* The Manager is told the owner alone.
samePrincipal(run, bearer) == Origin[run].owner = bearer.owner

Answer(outcome, runs) ==
  call' = [call EXCEPT !.at = "answered", !.outcome = outcome, !.seen = runs]

\* The token was authenticated and has the scope of the route.  A run of the
\* client is named by its idempotency key.
Ask(bearer, route, run) ==
  /\ call.at = "none"
  /\ route = "create" => Origin[run].parent \notin ServedRuns /\ Origin[run].owner = bearer.owner
  /\ call' = [route |-> route, bearer |-> bearer, run |-> run, at |-> FirstCall(route),
              outcome |-> "none", seen |-> {}]
  /\ UNCHANGED runRow

\* POST /v1/runs: a request outside the binding of its token is refused here.
BindRequest ==
  /\ call.at = "binding"
  /\ IF call.bearer.agent \in {Unbound, Origin[call.run].agent}
        /\ call.bearer.workspace \in {Unbound, Origin[call.run].workspace}
     THEN call' = [call EXCEPT !.at = "calling"]
     ELSE Answer("forbidden", {})
  /\ UNCHANGED runRow

\* Mutant: whose run it is is left to the Manager.
LeaveToManager ==
  /\ call.at = "found"
  /\ IF call.route \in {"read", "download"} THEN Answer("done", {call.run})
     ELSE call' = [call EXCEPT !.at = "calling"]
  /\ UNCHANGED runRow

\* The run that the Manager answered is compared before the call that was asked for.
CheckOwnership ==
  /\ call.at = "found"
  /\ IF ~ownsRun(call.run, call.bearer) THEN Answer("not_found", {})
     ELSE IF call.route \in {"read", "download"} THEN Answer("done", {call.run})
     ELSE call' = [call EXCEPT !.at = "calling"]
  /\ UNCHANGED runRow

\* Mutant: every child that the Manager lists is passed on.
Unfiltered == call.seen

\* GET /v1/runs/:runId/children
ShownOf == IF call.route = "children"
           THEN {run \in call.seen : ownsRun(run, call.bearer)} ELSE call.seen

PassAnswerOn ==
  /\ call.at = "acted" /\ Answer(call.outcome, ShownOf)
  /\ UNCHANGED runRow

ClientReads ==
  /\ call.at = "answered" /\ call' = [at |-> "none"]
  /\ UNCHANGED runRow

\* The Manager restarts, or answers too late: what it did stays done.
ManagerUnreachable ==
  /\ call.at \in {"naming", "asking", "calling", "acted"}
  /\ Answer("failed", {})
  /\ UNCHANGED runRow

-----------------------------------------------------------------------------
(* The Manager                                                                *)

OwnerHas(run) == runRow[run] # "absent" /\ samePrincipal(run, call.bearer)

\* GET /internal/approvals/:approvalId and /internal/artifacts/:artifactId
GetNamed ==
  /\ call.at = "naming"
  /\ IF OwnerHas(call.run) THEN call' = [call EXCEPT !.at = "asking"]
     ELSE Answer("not_found", {})
  /\ UNCHANGED runRow

\* GET /internal/runs/:runId
GetRun ==
  /\ call.at = "asking"
  /\ IF OwnerHas(call.run) THEN call' = [call EXCEPT !.at = "found"]
     ELSE Answer("not_found", {})
  /\ UNCHANGED runRow

\* The lease of a run that works, by the two columns that the query compares.
StoredLease(workspaceId, runId) ==
  \E run \in ServedRuns :
    run = runId /\ Origin[run].workspace = workspaceId /\ runRow[run] \in {"running", "waiting", "stopping"}

\* RunService.getWorkspaceLease takes its arguments the other way round.
getWorkspaceLease(runId, workspaceId) == StoredLease(workspaceId, runId)

\* What the route called with its arguments finds.
HoldsFence(run) == getWorkspaceLease(Origin[run].workspace, run)

\* The outcome of a call for a run of the owner
OutcomeOf(run) ==
  CASE call.route = "steer"   -> IF runRow[run] \in Open THEN "done" ELSE "conflict"
    [] call.route = "publish" -> IF HoldsFence(run) THEN "done" ELSE "conflict"
    [] OTHER                  -> "done"

OwnedRows == {r \in ServedRuns : OwnerHas(r)}

SeenBy(run) ==
  CASE call.route = "children" -> ChildrenOf(run)
    [] call.route = "list"     -> OwnedRows
    [] OTHER                   -> {run}

\* cancelRun goes down from runs that have not ended, three levels at most.
Below(runs) == runs \union UNION {ChildrenOf(r) : r \in {q \in runs : runRow[q] \in Open}}
Lineage(run) == Below(Below(Below({run})))

cancelRun(run) ==
  [r \in ServedRuns |->
     IF r \notin Lineage(run) \/ runRow[r] \notin Open THEN runRow[r]
     ELSE IF runRow[r] = "queued" THEN "ended" ELSE "stopping"]

\* What the call changes: POST /internal/runs admits a run unless its key did before.
Changed(run) ==
  CASE call.route = "create" /\ runRow[run] = "absent"   -> [runRow EXCEPT ![run] = "queued"]
    [] call.route = "cancel"                             -> cancelRun(run)
    [] call.route = "resolve" /\ runRow[run] = "waiting" -> [runRow EXCEPT ![run] = "running"]
    [] OTHER                                             -> runRow

Call ==
  /\ call.at = "calling"
  /\ IF call.route \in {"create", "list"} \/ OwnerHas(call.run)
     THEN /\ runRow' = Changed(call.run)
          /\ call' = [call EXCEPT !.at = "acted", !.outcome = OutcomeOf(call.run),
                                  !.seen = SeenBy(call.run)]
     ELSE Answer("not_found", {}) /\ UNCHANGED runRow

-----------------------------------------------------------------------------
RoutesNext ==
  \/ \E run \in ServedRuns : SpawnsChild(run) \/ Starts(run) \/ AsksApproval(run)
                             \/ StopsWaiting(run) \/ EndsRun(run)
  \/ \E bearer \in Bearers, route \in Routes, run \in ServedRuns : Ask(bearer, route, run)
  \/ BindRequest \/ CheckOwnership \/ PassAnswerOn \/ ClientReads \/ ManagerUnreachable
  \/ GetNamed \/ GetRun \/ Call

\* What a token is bound to bounds what is done with it, and what its bearer is
\* shown of runs, through any of the calls that one request takes; the rest is of
\* the owner (ownsRun, samePrincipal, the filter of children).
StaysWithinBinding ==
  \/ call.at \notin {"acted", "answered"}
  \/ call.at = "answered" /\ call.outcome # "done"
  \/ /\ call.route \in OwnerWide
     /\ \A run \in call.seen : samePrincipal(run, call.bearer)
  \/ /\ call.route \notin OwnerWide /\ ownsRun(call.run, call.bearer)
     /\ call.at = "answered" => \A run \in call.seen : ownsRun(run, call.bearer)

\* docs/API.md: POST /v1/runs/{runId}/artifacts publishes an owned artifact: the
\* call is not refused while the run works under its lease.
WorkingRunPublishes ==
  [][Call /\ call.route = "publish" /\ runRow[call.run] = "running" =>
       call'.outcome # "conflict"]_routingVars

RoutesSpec == RoutesInit /\ [][RoutesNext]_routingVars
=============================================================================
