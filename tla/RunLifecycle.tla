---------------------------- MODULE RunLifecycle ----------------------------
(* The run coordinator of the Manager: RunService together with the rows of  *)
(* SqliteRunStore it moves (runs, run_attempts, workspace_leases), the queue *)
(* of each workspace, the abort controller of each execution, cancellation   *)
(* through subagents, shutdown, and the crash and restart of the Manager.    *)
(*                                                                           *)
(* JavaScript runs one callback at a time, so an action is the code between  *)
(* two awaits.  Runs are numbered in creation order (created_at), which is   *)
(* also the order in which their setImmediate callbacks fire.                *)
EXTENDS Naturals

CONSTANTS
    Runs,         \* the run ids the clients and the agents may create
    Workspaces,
    WorkspaceOf,  \* the workspace each run names
    ParentOf,     \* the parent run of a subagent run, NoRun for a root run
    Managed       \* is a workspace lifecycle (prepare/checkpoint) configured?

NoRun == 0

ASSUME RunAssumption ==
    /\ Runs \subseteq Nat \ {NoRun}
    /\ WorkspaceOf \in [Runs -> Workspaces]
    /\ ParentOf \in [Runs -> Runs \cup {NoRun}]
    /\ \A r \in Runs : ParentOf[r] < r
    /\ Managed \in BOOLEAN

VARIABLES
    \* durable: the database, and the containers, outlive the process
    status,    \* runs.status, "NONE" before the row exists
    attempt,   \* run_attempts.status of the run's only attempt
    lease,     \* the row of workspace_leases of each workspace
    fence,     \* the token of the last tool call a workspace accepted
    tool,      \* is a tool call of the run executing in its workspace?
    \* the memory of the Manager process
    phase,     \* "down", "booting", "serving" or "draining"
    pc,        \* the await at which the run's #execute is suspended
    abort,     \* signal.reason of the run's controller, the first one wins
    lossSignal,\* leaseLoss.signal.aborted
    held,      \* the token in #execute's copy of the lease, 0 if undefined
    terminal,  \* the local "terminal" of #execute
    pred,      \* the queue tail the run waits for
    tail       \* #queueTails

durable == <<status, attempt, lease, fence, tool>>
memory  == <<pc, abort, lossSignal, held, terminal, pred, tail>>
vars    == <<durable, phase, memory>>

-----------------------------------------------------------------------------
(* The run state machine of packages/domain.                                 *)

Terminals == {"SUCCEEDED", "FAILED", "CANCELLED", "TIMED_OUT", "ORPHANED"}

\* Mutant: an abnormal end is not foreseen for a checkpointing run.
CheckpointCannotBeOrphaned ==
    [ACCEPTED      |-> {"QUEUED", "CANCELLED", "FAILED"},
     QUEUED        |-> {"PREPARING", "CANCELLED", "FAILED", "TIMED_OUT"},
     PREPARING     |-> {"RUNNING", "CANCELLED", "FAILED", "TIMED_OUT"},
     RUNNING       |-> {"CHECKPOINTING", "SUCCEEDED", "CANCELLED", "FAILED",
                        "TIMED_OUT", "ORPHANED"},
     CHECKPOINTING |-> {"SUCCEEDED", "FAILED"}]

allowedTransitions ==
    [ACCEPTED      |-> {"QUEUED", "CANCELLED", "FAILED"},
     QUEUED        |-> {"PREPARING", "CANCELLED", "FAILED", "TIMED_OUT"},
     PREPARING     |-> {"RUNNING", "CANCELLED", "FAILED", "TIMED_OUT"},
     RUNNING       |-> {"CHECKPOINTING", "SUCCEEDED", "CANCELLED", "FAILED",
                        "TIMED_OUT", "ORPHANED"},
     CHECKPOINTING |-> {"SUCCEEDED", "FAILED", "ORPHANED"}]

Statuses == DOMAIN allowedTransitions \cup Terminals

\* The row exists and its status is not terminal.
Open(r) == status[r] \in DOMAIN allowedTransitions

\* Mutant: the transition table is not consulted.
AnyTransition(r, to) == status[r] # "NONE"

CanTransition(r, to) == Open(r) /\ to \in allowedTransitions[status[r]]

\* Mutant: the projection of the attempt is forgotten.
CommitRunOnly(moved) ==
    /\ status'  = [r \in Runs |-> IF r \in DOMAIN moved THEN moved[r] ELSE status[r]]
    /\ attempt' = attempt

\* appendEvent with a status: the projection of the run, and of the attempt
\* that a terminal status closes, in one transaction.
Commit(moved) ==
    /\ status'  = [r \in Runs |-> IF r \in DOMAIN moved THEN moved[r] ELSE status[r]]
    /\ attempt' = [r \in Runs |->
                      IF /\ r \in DOMAIN moved
                         /\ moved[r] \in Terminals
                         /\ attempt[r] = "RUNNING"
                      THEN moved[r] ELSE attempt[r]]

Transition(r, to) == Commit([q \in {r} |-> to])

-----------------------------------------------------------------------------
(* The lease, as WorkspaceLease defines its transactions.                    *)

Lease == INSTANCE WorkspaceLease WITH Epochs <- Nat

Row(r)        == lease[WorkspaceOf[r]]
LeaseValid(r) == Lease!Valid(Row(r), r, held[r])

-----------------------------------------------------------------------------
(* The awaits of an execution.                                               *)

\* "scheduled":  setImmediate has not run #enqueue yet
\* "queued":     Promise.allSettled(predecessors)
\* "leasing":    #waitForWorkspaceLease
\* "preparing":  workspaceLifecycle.prepare
\* "agent":      agent.run
\* "checkpoint": workspaceLifecycle.checkpoint
\* "releasing":  runSnapshot.releaseRun
\* "idle":       no execution: not created, or settled
Awaits == {"idle", "scheduled", "queued", "leasing", "preparing", "agent",
           "checkpoint", "releasing"}

\* Mutant: the controller is registered once the lease is acquired.
ActiveFromLease(r) == pc[r] \in {"preparing", "agent", "checkpoint"}

\* The keys of #active: the runs whose controller cancelRun can find.
Active(r) == pc[r] \in {"leasing", "preparing", "agent", "checkpoint"}

\* The runs whose renewal interval is set.
Renewing(r) == pc[r] \in {"preparing", "agent", "checkpoint"}

\* The keys of #executions: the promise of the run has not settled.
Unsettled(r) == Active(r) \/ pc[r] \in {"queued", "releasing"}

Reasons == {"none", "cancelled", "timeout", "budget", "leaseLost"}

Serving == phase \in {"serving", "draining"}

\* controller.abort(reason): an aborted signal keeps its first reason.
Aborted(r, reason) == IF abort[r] = "none" THEN reason ELSE abort[r]

\* The catch of #execute: the signal's reason first, then the error itself.
Caught(r, leaseError) ==
    CASE abort[r] = "cancelled" -> "CANCELLED"
      [] abort[r] = "timeout"   -> "TIMED_OUT"
      [] abort[r] = "budget"    -> "FAILED"
      [] abort[r] = "leaseLost" -> "ORPHANED"
      [] abort[r] = "none"      -> IF leaseError THEN "ORPHANED" ELSE "FAILED"
-----------------------------------------------------------------------------
Init ==
    /\ status     = [r \in Runs |-> "NONE"]
    /\ attempt    = [r \in Runs |-> "NONE"]
    /\ tool       = [r \in Runs |-> FALSE]
    /\ Lease!LeaseInit
    /\ phase      = "serving"
    /\ pc         = [r \in Runs |-> "idle"]
    /\ abort      = [r \in Runs |-> "none"]
    /\ lossSignal = [r \in Runs |-> FALSE]
    /\ terminal   = [r \in Runs |-> "NONE"]
    /\ pred       = [r \in Runs |-> NoRun]
    /\ tail       = [w \in Workspaces |-> NoRun]

-----------------------------------------------------------------------------
(* Admission and the queue.                                                  *)

\* Ids grow with creation; createRun is refused once shutdown has begun.
Admit(r) ==
    /\ phase = "serving"
    /\ \A q \in Runs : q >= r => status[q] = "NONE"
    /\ status' = [status EXCEPT ![r] = "ACCEPTED"]
    /\ pc' = [pc EXCEPT ![r] = "scheduled"]
    /\ UNCHANGED <<attempt, lease, fence, tool, phase, abort, lossSignal,
                   held, terminal, pred, tail>>

\* createRun for a client.
CreateRun(r) == ParentOf[r] = NoRun /\ Admit(r)

\* createChildRun, the handler of the parent's subagent_spawn tool call.
CreateChildRun(r) ==
    LET p == ParentOf[r] IN
    /\ p # NoRun
    /\ pc[p] = "agent" /\ tool[p]
    /\ Open(p)
    /\ Admit(r)

\* The promise of r settles; its tail goes unless a later run replaced it.
Settle(r) ==
    /\ pc'   = [pc EXCEPT ![r] = "idle"]
    /\ pred' = [pred EXCEPT ![r] = NoRun]
    /\ tail' = [w \in Workspaces |-> IF tail[w] = r THEN NoRun ELSE tail[w]]

\* #enqueue.  A run cancelled meanwhile, or one whose setImmediate fires after
\* shutdown began, is dropped; one whose deadline passed is timed out at once.
Enqueue(r) ==
    LET w == WorkspaceOf[r] IN
    /\ pc[r] = "scheduled"
    /\ \A q \in Runs : q < r => pc[q] # "scheduled"
    /\ \/ /\ phase = "draining" \/ ~Open(r)
          /\ pc' = [pc EXCEPT ![r] = "idle"]
          /\ UNCHANGED <<status, pred, tail>>
       \/ /\ phase = "serving" /\ Open(r)
          /\ status' = [status EXCEPT ![r] = "TIMED_OUT"]
          /\ pc' = [pc EXCEPT ![r] = "idle"]
          /\ UNCHANGED <<pred, tail>>
       \/ /\ phase = "serving" /\ Open(r)
          /\ status' = [status EXCEPT ![r] = "QUEUED"]
          /\ pc'   = [pc EXCEPT ![r] = "queued"]
          /\ pred' = [pred EXCEPT ![r] = tail[w]]
          /\ tail' = [tail EXCEPT ![w] = r]
    /\ UNCHANGED <<attempt, lease, fence, tool, phase, abort, lossSignal,
                   held, terminal>>

\* #timeoutQueuedRun, from the timer set by #enqueue.
TimeoutQueuedRun(r) ==
    /\ Serving
    /\ pc[r] = "queued" /\ status[r] = "QUEUED"
    /\ Transition(r, "TIMED_OUT")
    /\ UNCHANGED <<lease, fence, tool, phase, memory>>

\* Mutant: a run does not wait for its predecessor.
HeadOfNothing(r) == TRUE

\* The predecessors of r settled.
Head(r) == pred[r] \notin {q \in Runs : Unsettled(q)}

\* allSettled resolves for a run that is already terminal: nothing to execute.
SkipTerminalRun(r) ==
    /\ pc[r] = "queued" /\ Head(r) /\ ~Open(r)
    /\ Settle(r)
    /\ UNCHANGED <<durable, phase, abort, lossSignal, held, terminal>>

\* The head of #execute when the deadline passed: the run times out and only
\* the release of its plugins is left to do.
StartTooLate(r) ==
    /\ pc[r] = "queued" /\ Head(r) /\ Open(r)
    /\ Transition(r, "TIMED_OUT")
    /\ pc' = [pc EXCEPT ![r] = "releasing"]
    /\ UNCHANGED <<lease, fence, tool, phase, abort, lossSignal, held,
                   terminal, pred, tail>>

\* The head of #execute up to the first attempt to get the lease.
StartExecution(r) ==
    /\ pc[r] = "queued" /\ Head(r) /\ Open(r)
    /\ status'  = [status EXCEPT ![r] = "PREPARING"]
    /\ attempt' = [attempt EXCEPT ![r] = "RUNNING"]
    /\ pc'      = [pc EXCEPT ![r] = "leasing"]
    /\ UNCHANGED <<lease, fence, tool, phase, abort, lossSignal, held,
                   terminal, pred, tail>>

-----------------------------------------------------------------------------
(* Finalization, the finally block of #execute.                              *)

\* Mutant: a run that failed keeps its lease.
KeepLeaseOnFailure(r, verdict) ==
    LET kept == held[r] # 0 /\ Lease!Releasable(Row(r), r, held[r]) IN
    /\ lease' = IF kept /\ verdict = "SUCCEEDED"
                THEN [lease EXCEPT ![WorkspaceOf[r]] = Lease!Released(@)]
                ELSE lease
    /\ terminal' = [terminal EXCEPT ![r] = verdict]
    /\ pc'         = [pc EXCEPT ![r] = "releasing"]
    /\ held'       = [held EXCEPT ![r] = 0]
    /\ abort'      = [abort EXCEPT ![r] = "none"]
    /\ lossSignal' = [lossSignal EXCEPT ![r] = FALSE]
    /\ UNCHANGED <<fence, tool, phase, pred, tail>>

\* After the checkpoint, if any: clear the renewal, release the lease, leave
\* #active, and await releaseRun.  A run that cannot release the lease it
\* thinks it holds did not succeed.
BeginRelease(r, verdict) ==
    LET kept == held[r] # 0 /\ Lease!Releasable(Row(r), r, held[r]) IN
    /\ lease' = IF kept THEN [lease EXCEPT ![WorkspaceOf[r]] = Lease!Released(@)]
                        ELSE lease
    /\ terminal' = [terminal EXCEPT ![r] =
                       IF held[r] # 0 /\ ~kept /\ verdict = "SUCCEEDED"
                       THEN "ORPHANED" ELSE verdict]
    /\ pc'         = [pc EXCEPT ![r] = "releasing"]
    /\ held'       = [held EXCEPT ![r] = 0]
    /\ abort'      = [abort EXCEPT ![r] = "none"]
    /\ lossSignal' = [lossSignal EXCEPT ![r] = FALSE]
    /\ UNCHANGED <<fence, tool, phase, pred, tail>>

\* A prepared workspace is checkpointed under a lease that still validates.
BeginCheckpoint(r, verdict) ==
    IF LeaseValid(r)
    THEN /\ pc' = [pc EXCEPT ![r] = "checkpoint"]
         /\ terminal' = [terminal EXCEPT ![r] = verdict]
         /\ UNCHANGED <<lease, fence, tool, phase, abort, lossSignal, held,
                        pred, tail>>
    ELSE BeginRelease(r, "ORPHANED")

\* After the agent: a checkpoint if the workspace was prepared.
Finish(r, verdict) ==
    IF Managed THEN BeginCheckpoint(r, verdict) ELSE BeginRelease(r, verdict)

-----------------------------------------------------------------------------
(* Execution.                                                                *)

\* One round of #waitForWorkspaceLease gets the lease.  Without a workspace
\* lifecycle to await the run is RUNNING in the same turn.
AcquireLease(r) ==
    /\ pc[r] = "leasing" /\ abort[r] = "none"
    /\ Lease!Acquire(r)
    /\ IF Managed
       THEN pc' = [pc EXCEPT ![r] = "preparing"] /\ UNCHANGED status
       ELSE /\ pc' = [pc EXCEPT ![r] = "agent"]
            /\ status' = [status EXCEPT ![r] = "RUNNING"]
    /\ UNCHANGED <<attempt, tool, phase, abort, lossSignal, terminal, pred, tail>>

\* #waitForWorkspaceLease throws: the signal aborted, or another run's lease
\* was still live when the wait reached its deadline.
LeaseWaitFails(r) ==
    /\ pc[r] = "leasing"
    /\ abort[r] # "none" \/ Lease!Blocked(Row(r), r)
    /\ BeginRelease(r, Caught(r, FALSE))
    /\ UNCHANGED <<status, attempt>>

\* workspaceLifecycle.prepare resolves.
PrepareCompletes(r) ==
    /\ pc[r] = "preparing"
    /\ status' = [status EXCEPT ![r] = "RUNNING"]
    /\ pc' = [pc EXCEPT ![r] = "agent"]
    /\ UNCHANGED <<attempt, lease, fence, tool, phase, abort, lossSignal,
                   held, terminal, pred, tail>>

\* prepare rejects, aborted or by itself; there is nothing to checkpoint.
PrepareFails(r) ==
    /\ pc[r] = "preparing"
    /\ BeginRelease(r, Caught(r, FALSE))
    /\ UNCHANGED <<status, attempt>>

\* Mutant: beforeToolCall trusts the copy of the lease.
UnfencedToolCall(r) ==
    /\ pc[r] = "agent" /\ ~tool[r]
    /\ fence' = [fence EXCEPT ![WorkspaceOf[r]] = held[r]]
    /\ tool' = [tool EXCEPT ![r] = TRUE]
    /\ UNCHANGED <<status, attempt, lease, phase, memory>>

\* beforeToolCall validates the lease, and the tool starts.  The agent does not
\* look at the signal between the tool calls of one turn.
BeginToolCall(r) ==
    /\ pc[r] = "agent" /\ ~tool[r]
    /\ Lease!Mutate(r)
    /\ tool' = [tool EXCEPT ![r] = TRUE]
    /\ UNCHANGED <<status, attempt, phase, memory>>

EndToolCall(r) ==
    /\ pc[r] = "agent" /\ tool[r]
    /\ tool' = [tool EXCEPT ![r] = FALSE]
    /\ UNCHANGED <<status, attempt, lease, fence, phase, memory>>

\* agent.run resolves.
AgentCompletes(r) ==
    /\ pc[r] = "agent" /\ ~tool[r]
    /\ IF Managed THEN Transition(r, "CHECKPOINTING") ELSE UNCHANGED <<status, attempt>>
    /\ Finish(r, "SUCCEEDED")

\* agent.run throws; leaseError says that beforeToolCall found the lease lost.
AgentThrows(r) ==
    /\ pc[r] = "agent" /\ ~tool[r]
    /\ \E leaseError \in BOOLEAN :
          /\ leaseError => ~LeaseValid(r)
          /\ Finish(r, Caught(r, leaseError))
    /\ UNCHANGED <<status, attempt>>

\* The checkpoint resolves, even if the signals fired meanwhile.
CheckpointCompletes(r) ==
    /\ pc[r] = "checkpoint"
    /\ BeginRelease(r, terminal[r])
    /\ UNCHANGED <<status, attempt>>

\* The checkpoint rejects: its own failure or timeout, or the lost lease.
CheckpointFails(r) ==
    /\ pc[r] = "checkpoint"
    /\ BeginRelease(r, IF lossSignal[r] THEN "ORPHANED"
                       ELSE IF terminal[r] = "SUCCEEDED" THEN "FAILED"
                       ELSE terminal[r])
    /\ UNCHANGED <<status, attempt>>

\* releaseRun answers.  A cleanup that failed or left durable debt orphans the
\* run; plugins are pinned by agent.run, so a run still PREPARING has none.
\* The verdict of a run that became terminal meanwhile is dropped, and one the
\* state machine refuses is thrown away with the rejected promise.
Verdict(r, cleaned) ==
    IF ~cleaned THEN "ORPHANED"
    ELSE IF terminal[r] = "NONE" THEN "FAILED"
    ELSE terminal[r]

Finalize(r) ==
    /\ pc[r] = "releasing"
    /\ \E cleaned \in BOOLEAN :
          /\ ~cleaned => status[r] # "PREPARING"
          /\ IF CanTransition(r, Verdict(r, cleaned))
             THEN Transition(r, Verdict(r, cleaned))
             ELSE UNCHANGED <<status, attempt>>
    /\ Settle(r)
    /\ terminal' = [terminal EXCEPT ![r] = "NONE"]
    /\ UNCHANGED <<lease, fence, tool, phase, abort, lossSignal, held>>

-----------------------------------------------------------------------------
(* Timers.                                                                   *)

\* Mutant: the timer is cleared once the agent has the run.
TimeoutBeforeAgent(r) ==
    /\ pc[r] \in {"leasing", "preparing"}
    /\ abort[r] = "none"
    /\ abort' = [abort EXCEPT ![r] = "timeout"]
    /\ UNCHANGED <<durable, phase, pc, lossSignal, held, terminal, pred, tail>>

\* The total timeout, set by the head of #execute, cleared by its finally.
RunTimeout(r) ==
    /\ pc[r] \in {"leasing", "preparing", "agent"}
    /\ abort[r] = "none"
    /\ abort' = [abort EXCEPT ![r] = "timeout"]
    /\ UNCHANGED <<durable, phase, pc, lossSignal, held, terminal, pred, tail>>

\* #enforceBudget, on a usage or tool event of the agent.
ExceedBudget(r) ==
    /\ pc[r] = "agent" /\ abort[r] = "none"
    /\ abort' = [abort EXCEPT ![r] = "budget"]
    /\ UNCHANGED <<durable, phase, pc, lossSignal, held, terminal, pred, tail>>

\* The renewal interval fires and renewWorkspaceLease changes no row or throws.
\* A renewal that succeeds changes nothing here.
RenewalFails(r) ==
    /\ Renewing(r) /\ ~lossSignal[r]
    /\ lossSignal' = [lossSignal EXCEPT ![r] = TRUE]
    /\ abort' = [abort EXCEPT ![r] = Aborted(r, "leaseLost")]
    /\ UNCHANGED <<durable, phase, pc, held, terminal, pred, tail>>

\* The TTL passes: between two renewals when the process was suspended or its
\* event loop stalled, or after the process that renewed the lease died.
ExpireLease(w) ==
    /\ Lease!Expire(w)
    /\ UNCHANGED <<status, attempt, tool, phase, memory>>

-----------------------------------------------------------------------------
(* cancelRun and shutdown.                                                   *)

\* The chain of parents of a run: the least set that holds its parent, and with a
\* run the parent of that.
Upward(S) == \A q \in S : ParentOf[q] # NoRun => ParentOf[q] \in S
Ancestors ==
    [d \in Runs |-> {a \in Runs : /\ ParentOf[d] # NoRun
                                  /\ \A S \in SUBSET Runs :
                                        ParentOf[d] \in S /\ Upward(S) => a \in S}]

\* Mutant: subagents are not visited.
CancelAlone(r) == {d \in Runs : d = r /\ Open(d)}

\* The runs cancelRun(r) visits: it does not descend below a terminal run.
CancelTree(r) ==
    {d \in Runs : /\ d = r \/ r \in Ancestors[d]
                  /\ \A a \in {d} \cup Ancestors[d] :
                        a = r \/ r \in Ancestors[a] => Open(a)}

\* cancelRun(d) throws: no controller to abort, and no transition to CANCELLED.
Refuses(d) == ~Active(d) /\ ~CanTransition(d, "CANCELLED")

\* What cancelRun does to each run it reaches.
Cancel(reached) ==
    /\ abort' = [r \in Runs |-> IF r \in reached /\ Active(r)
                                THEN Aborted(r, "cancelled") ELSE abort[r]]
    /\ Commit([r \in {d \in reached : ~Active(d)} |-> "CANCELLED"])
    /\ UNCHANGED <<lease, fence, tool, pc, lossSignal, held, terminal, pred, tail>>

\* Children first: a run is reached once all below it are.  An exception leaves
\* the runs that were reached before it, and nothing after.
CancelReaches(tree, reached) ==
    \/ reached = tree /\ \A d \in tree : ~Refuses(d)
    \/ /\ \E d \in tree : Refuses(d)
       /\ \A d \in reached : ~Refuses(d)
       /\ \A d \in tree : Ancestors[d] \cap reached # {} => d \in reached

\* POST /v1/runs/{id}/cancel, or the subagent_cancel tool.
CancelRun(r) ==
    /\ Serving /\ Open(r)
    /\ \E reached \in SUBSET CancelTree(r) :
          /\ CancelReaches(CancelTree(r), reached)
          /\ Cancel(reached)
    /\ UNCHANGED phase

\* shutdown stops admission and cancels what is scheduled or executing; the
\* executions drain afterwards.
Shutdown ==
    LET pending == {r \in Runs : pc[r] # "idle" /\ Open(r)}
        tree    == UNION {CancelTree(r) : r \in pending}
    IN  /\ phase = "serving"
        /\ phase' = "draining"
        /\ \E reached \in SUBSET tree :
              CancelReaches(tree, reached) /\ Cancel(reached)

-----------------------------------------------------------------------------
(* The process.                                                              *)

\* The Manager exits after shutdown or dies at any moment.  The containers of
\* its tool calls go on running.
ProcessEnds ==
    /\ phase # "down"
    /\ phase'      = "down"
    /\ pc'         = [r \in Runs |-> "idle"]
    /\ abort'      = [r \in Runs |-> "none"]
    /\ lossSignal' = [r \in Runs |-> FALSE]
    /\ held'       = [r \in Runs |-> 0]
    /\ terminal'   = [r \in Runs |-> "NONE"]
    /\ pred'       = [r \in Runs |-> NoRun]
    /\ tail'       = [w \in Workspaces |-> NoRun]
    /\ UNCHANGED durable

\* Mutant: the containers of the dead process are left alone.
StartWithoutReaping ==
    /\ phase = "down"
    /\ phase' = "booting"
    /\ UNCHANGED <<durable, memory>>

\* Startup reaps every managed container before anything else.
ReapContainers ==
    /\ phase = "down"
    /\ phase' = "booting"
    /\ tool'  = [r \in Runs |-> FALSE]
    /\ UNCHANGED <<status, attempt, lease, fence, memory>>

\* One round of reconcileInterruptedRuns: two transactions, the attempts and
\* then the run, that no other code can come between but a crash can.
ReconcileAttempt(r) ==
    /\ phase = "booting" /\ Open(r) /\ attempt[r] = "RUNNING"
    /\ attempt' = [attempt EXCEPT ![r] = "ORPHANED"]
    /\ UNCHANGED <<status, lease, fence, tool, phase, memory>>

ReconcileRun(r) ==
    /\ phase = "booting" /\ Open(r) /\ attempt[r] # "RUNNING"
    /\ Transition(r, "ORPHANED")
    /\ UNCHANGED <<lease, fence, tool, phase, memory>>

\* The servers listen once reconciliation is over.
Serve ==
    /\ phase = "booting"
    /\ \A r \in Runs : ~Open(r)
    /\ phase' = "serving"
    /\ UNCHANGED <<durable, memory>>

-----------------------------------------------------------------------------
\* What an execution does by itself.
Execute(r) ==
    \/ Enqueue(r) \/ SkipTerminalRun(r) \/ StartTooLate(r) \/ StartExecution(r)
    \/ AcquireLease(r) \/ LeaseWaitFails(r)
    \/ PrepareCompletes(r) \/ PrepareFails(r)
    \/ BeginToolCall(r) \/ EndToolCall(r) \/ AgentCompletes(r) \/ AgentThrows(r)
    \/ CheckpointCompletes(r) \/ CheckpointFails(r) \/ Finalize(r)

\* What its environment does to it.
Disturb(r) ==
    \/ CreateRun(r) \/ CreateChildRun(r) \/ CancelRun(r)
    \/ TimeoutQueuedRun(r) \/ RunTimeout(r) \/ ExceedBudget(r) \/ RenewalFails(r)

Restart ==
    \/ ReapContainers \/ Serve
    \/ \E r \in Runs : ReconcileAttempt(r) \/ ReconcileRun(r)

Next ==
    \/ \E r \in Runs : Execute(r) \/ Disturb(r)
    \/ \E w \in Workspaces : ExpireLease(w)
    \/ Shutdown \/ ProcessEnds \/ Restart

Spec == Init /\ [][Next]_vars

-----------------------------------------------------------------------------
(* Properties.                                                               *)

DurableTypes ==
    /\ status  \in [Runs -> Statuses \cup {"NONE"}]
    /\ attempt \in [Runs -> Terminals \cup {"NONE", "RUNNING"}]
    /\ tool    \in [Runs -> BOOLEAN]

MemoryTypes ==
    /\ phase   \in {"down", "booting", "serving", "draining"}
    /\ pc      \in [Runs -> Awaits]
    /\ abort   \in [Runs -> Reasons]
    /\ lossSignal \in [Runs -> BOOLEAN]
    /\ terminal \in [Runs -> Terminals \cup {"NONE"}]
    /\ pred    \in [Runs -> Runs \cup {NoRun}]
    /\ tail    \in [Workspaces -> Runs \cup {NoRun}]

\* Every row and every variable of the coordinator keeps its type, and a lease
\* row without an owner is not live.
TypeOK == DurableTypes /\ Lease!LeaseTypeOK /\ MemoryTypes

\* ADR 13, one writable run owns a workspace at a time: no two runs execute
\* tool calls in one workspace, not even a container that survived a crash and
\* a run of the next Manager process (queue tails of #enqueue, reconciliation
\* of containers before admission).
SingleWriter ==
    \A r, s \in Runs :
        tool[r] /\ tool[s] /\ WorkspaceOf[r] = WorkspaceOf[s] => r = s

\* The promise chain of a workspace is a queue: of two unsettled runs only the
\* older may have started to execute (#enqueue, the predecessors of a run).
OldestFirst ==
    \A r, s \in Runs :
        /\ WorkspaceOf[r] = WorkspaceOf[s]
        /\ Unsettled(r) /\ Unsettled(s)
        /\ r < s
        => pc[s] = "queued"

\* Why the two hold: the parts of the inductive invariant of the queue.

\* A run the process knows has a row.
KnownRunsExist == \A r \in Runs : pc[r] # "idle" => status[r] # "NONE"

\* setImmediate callbacks fire in creation order, so what is not enqueued yet
\* is newer than what is.
ScheduledAreNewer ==
    \A r, s \in Runs : Unsettled(r) /\ pc[s] = "scheduled" => r < s

\* The tail of a workspace is its newest unsettled run.
TailIsNewest ==
    /\ \A w \in Workspaces :
          tail[w] # NoRun => WorkspaceOf[tail[w]] = w /\ Unsettled(tail[w])
    /\ \A r \in Runs :
          Unsettled(r) => tail[WorkspaceOf[r]] # NoRun /\ r <= tail[WorkspaceOf[r]]

\* A run with older unsettled ones is still queued, and the newest of those is
\* the predecessor it waits for.
PredecessorIsNext ==
    \A r, s \in Runs :
        /\ WorkspaceOf[r] = WorkspaceOf[s]
        /\ Unsettled(r) /\ Unsettled(s)
        /\ r < s
        => /\ pc[s] = "queued"
           /\ pred[s] # NoRun
           /\ r <= pred[s] /\ pred[s] < s
           /\ WorkspaceOf[pred[s]] = WorkspaceOf[s]
           /\ Unsettled(pred[s])

\* A tool call belongs to a running agent or to a process that is dead.
ToolsHaveAgents == \A r \in Runs : tool[r] => pc[r] = "agent" \/ phase = "down"

NothingRunsBeforeServing ==
    phase \in {"down", "booting"} => \A r \in Runs : pc[r] = "idle"

\* The invariant of the queues: who waits for whom, and who may have a tool
\* call in flight (#enqueue, #queueTails, startup).
QueueInv ==
    /\ KnownRunsExist
    /\ ScheduledAreNewer
    /\ TailIsNewest
    /\ PredecessorIsNext
    /\ ToolsHaveAgents
    /\ NothingRunsBeforeServing
    /\ SingleWriter

\* Where an execution is suspended says what its row reads: no controller is
\* registered for a terminal run, and cancellation can only change a row that
\* no execution is about to move (cancelRun, #execute).
AwaitMatchesStatus ==
    \A r \in Runs :
        /\ pc[r] = "scheduled" => status[r] \in {"ACCEPTED", "CANCELLED"}
        /\ pc[r] = "queued" => status[r] \in {"QUEUED", "CANCELLED", "TIMED_OUT"}
        /\ pc[r] \in {"leasing", "preparing"} => status[r] = "PREPARING"
        /\ pc[r] = "agent" => status[r] = "RUNNING"
        /\ pc[r] = "checkpoint" =>
              IF terminal[r] = "SUCCEEDED" THEN status[r] = "CHECKPOINTING"
                                           ELSE status[r] = "RUNNING"

\* The attempt is open exactly as long as its run is, and then ends the same
\* way; only the two transactions of reconciliation may be torn by a crash
\* (appendEvent, completeRunningAttempts).
AttemptFollowsRun ==
    \A r \in Runs :
        /\ attempt[r] = "RUNNING" => Open(r)
        /\ attempt[r] \in Terminals =>
              \/ status[r] = attempt[r]
              \/ attempt[r] = "ORPHANED" /\ Open(r) /\ phase \in {"down", "booting"}

\* A run that ended in the process that ran it holds no lease any more: the
\* terminal status is committed after the release.  Only a run orphaned by a
\* restart may still own a row.
TerminalOwnsNoLease ==
    \A w \in Workspaces :
        LET r == lease[w].owner IN
        r # NoRun /\ status[r] \in Terminals => status[r] = "ORPHANED"

\* A run that no execution drives any more is terminal, with one exception:
\* one whose orphaning the state machine refused because it was PREPARING
\* (finalization of #execute).
OnlyPreparingIsStranded ==
    phase = "serving" =>
        \A r \in Runs : Open(r) /\ pc[r] = "idle" => status[r] = "PREPARING"

\* The rows agree when nobody drives a run any more, and while somebody does:
\* the three statements above, about every interleaving of #execute, cancelRun,
\* the renewal and reconciliation.
RowsAgree == AttemptFollowsRun /\ TerminalOwnsNoLease /\ OnlyPreparingIsStranded

\* A terminal row is final (assertRunTransition, #appendEventWithinTransaction).
TerminalIsFinal ==
    [][\A r \in Runs : status[r] \in Terminals => status'[r] = status[r]]_vars

\* The lease of the coordinator is the fenced lease of WorkspaceLease, with
\* its unique epochs and monotone fence (AcquireLease, BeginRelease, tool calls).
ImplementsLease == Lease!LeaseSpec

\* An execution is never aborted as cancelled before what runs below it, at any
\* depth: every open descendant is cancelled or aborted in the same step, unless a
\* run between the two has ended, where cancelRun returns (cancelRun).
CancelReachesDescendants ==
    [][\A r, d \in Runs :
          /\ abort[r] # "cancelled" /\ abort'[r] = "cancelled"
          /\ r \in Ancestors[d]
          /\ \A a \in {d} \cup Ancestors[d] : r \in Ancestors[a] => Open(a)
          => status'[d] = "CANCELLED" \/ abort'[d] # "none"]_vars

\* What the documents promise and the code does not keep.

\* Finalization commits a terminal status for every run.
NoRunIsStranded == \A r \in Runs : Open(r) /\ Serving => pc[r] # "idle"

\* Cancelling a run cancels what runs below it: none is left that works on below a
\* cancelled run, neither a subagent spawned late nor one below a run that had ended.
CancellationPropagates ==
    \A r \in Runs : \A a \in Ancestors[r] :
        status[a] = "CANCELLED" /\ Open(r) /\ Active(r) => abort[r] # "none"

-----------------------------------------------------------------------------
(* Liveness.                                                                 *)

\* Callbacks run, timers fire, awaited operations are bounded by a timeout or
\* by the abort of their signal, so is the drain of shutdown, and a Manager
\* that stopped or died is started again.
\* Two assumptions are strong.  An aborted agent leaves its loop although the
\* tool calls left in its turn come first: a turn has finitely many.  And the
\* Manager is not killed during every startup.
Fairness ==
    /\ \A r \in Runs :
          /\ WF_vars(Enqueue(r))
          /\ WF_vars(SkipTerminalRun(r) \/ StartTooLate(r) \/ StartExecution(r))
          /\ WF_vars(AcquireLease(r) \/ LeaseWaitFails(r))
          /\ WF_vars(PrepareCompletes(r) \/ PrepareFails(r))
          /\ WF_vars(EndToolCall(r))
          /\ SF_vars(abort[r] # "none" /\ AgentThrows(r))
          /\ WF_vars(CheckpointCompletes(r) \/ CheckpointFails(r))
          /\ WF_vars(Finalize(r))
          /\ WF_vars(RunTimeout(r))
          /\ SF_vars(ReconcileAttempt(r))
          /\ SF_vars(ReconcileRun(r))
    /\ WF_vars(phase = "draining" /\ ProcessEnds)
    /\ WF_vars(ReapContainers)

FairSpec == Spec /\ Fairness

\* Every run that was accepted ends, whatever expires, throws, is cancelled or
\* crashes on the way; the one exception is the stranded run of
\* OnlyPreparingIsStranded, which waits for the next restart (the queue of a
\* workspace neither deadlocks nor starves a run).
EveryRunEnds ==
    \A r \in Runs :
        Open(r) ~> ~Open(r) \/ (pc[r] = "idle" /\ status[r] = "PREPARING")
=============================================================================
