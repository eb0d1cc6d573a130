------------------------- MODULE RunLifecycleProofs --------------------------
(* The run coordinator is correct for any number of runs and workspaces, with *)
(* or without a workspace lifecycle.                                         *)
EXTENDS RunLifecycle, TLAPS

-----------------------------------------------------------------------------
(* Type correctness.                                                         *)

\* The targets of transitions are statuses.
LEMMA StatusNames ==
    /\ Terminals \subseteq Statuses
    /\ {"ACCEPTED", "QUEUED", "PREPARING", "RUNNING", "CHECKPOINTING"} \subseteq Statuses
    BY DEF Statuses, Terminals, allowedTransitions

\* An event with a status keeps the rows of runs and attempts well formed
\* (appendEvent).
LEMMA CommitTypes ==
    ASSUME DurableTypes, NEW moved, \A r \in DOMAIN moved : moved[r] \in Statuses,
           Commit(moved), tool' = tool
    PROVE  DurableTypes'
    BY StatusNames DEF DurableTypes, Commit, Statuses

\* One guarded transition of a row keeps the types.
LEMMA TransitionTypes ==
    ASSUME DurableTypes, NEW r \in Runs, NEW to \in Statuses,
           Transition(r, to), tool' = tool
    PROVE  DurableTypes'
<1>1. \A d \in DOMAIN [q \in {r} |-> to] : [q \in {r} |-> to][d] \in Statuses
    OBVIOUS
<1>. QED  BY <1>1, CommitTypes DEF Transition

\* The verdict of the catch block is a terminal status.
LEMMA CaughtIsTerminal ==
    ASSUME MemoryTypes, NEW r \in Runs, NEW leaseError \in BOOLEAN
    PROVE  Caught(r, leaseError) \in Terminals
<1>1. abort[r] \in {"none", "cancelled", "timeout", "budget", "leaseLost"}
    BY DEF MemoryTypes, Reasons
<1>. QED  BY <1>1 DEF Caught, Terminals

\* The finally block of #execute keeps the types.
LEMMA BeginReleaseTypes ==
    ASSUME Lease!LeaseTypeOK, MemoryTypes, NEW r \in Runs,
           NEW verdict \in Terminals \cup {"NONE"}, BeginRelease(r, verdict)
    PROVE  Lease!LeaseTypeOK' /\ MemoryTypes'
<1>1. MemoryTypes'
    BY DEF BeginRelease, MemoryTypes, Awaits, Terminals, Reasons
<1>2. Lease!LeaseTypeOK'
  <2>1. /\ lease \in [Workspaces -> Lease!Row] /\ held \in [Runs -> Nat] /\ fence \in [Workspaces -> Nat]
        /\ \A w \in Workspaces : lease[w].owner = NoRun => ~lease[w].live
      BY DEF Lease!LeaseTypeOK
  <2>2. WorkspaceOf[r] \in Workspaces
      BY RunAssumption
  <2>3. held' \in [Runs -> Nat] /\ fence' \in [Workspaces -> Nat]
      BY <2>1 DEF BeginRelease
  <2>4. \A row \in Lease!Row : /\ Lease!Released(row) \in Lease!Row
                               /\ ~Lease!Released(row).live
      BY DEF Lease!Row, Lease!Released
  <2>5. PICK row \in Lease!Row : row = lease[WorkspaceOf[r]]
      BY <2>1, <2>2
  <2>6. \/ lease' = lease
        \/ lease' = [lease EXCEPT ![WorkspaceOf[r]] = Lease!Released(row)]
      BY <2>5 DEF BeginRelease
  <2>7. /\ lease' \in [Workspaces -> Lease!Row]
        /\ \A w \in Workspaces : lease'[w].owner = NoRun => ~lease'[w].live
    <3>1. CASE lease' = lease
        BY <2>1, <3>1
    <3>2. CASE lease' = [lease EXCEPT ![WorkspaceOf[r]] = Lease!Released(row)]
      <4>1. PICK free \in Lease!Row : free = Lease!Released(row) /\ ~free.live
          BY <2>4
      <4>. QED  BY <2>1, <2>2, <3>2, <4>1
    <3>. QED  BY <2>6, <3>1, <3>2
  <2>. QED  BY <2>3, <2>7 DEF Lease!LeaseTypeOK
<1>. QED  BY <1>1, <1>2

\* The end of an execution keeps the types.
LEMMA FinishTypes ==
    ASSUME Lease!LeaseTypeOK, MemoryTypes, NEW r \in Runs, NEW verdict \in Terminals,
           Finish(r, verdict)
    PROVE  Lease!LeaseTypeOK' /\ MemoryTypes'
<1>1. CASE BeginRelease(r, verdict)
    BY <1>1, BeginReleaseTypes
<1>2. CASE BeginRelease(r, "ORPHANED")
    BY <1>2, BeginReleaseTypes DEF Terminals
<1>3. CASE /\ pc' = [pc EXCEPT ![r] = "checkpoint"]
           /\ terminal' = [terminal EXCEPT ![r] = verdict]
           /\ UNCHANGED <<lease, fence, phase, abort, lossSignal, held, pred, tail>>
    BY <1>3 DEF Lease!LeaseTypeOK, MemoryTypes, Awaits
<1>. QED  BY <1>1, <1>2, <1>3 DEF Finish, BeginCheckpoint

\* The first process starts with rows of the right types.
LEMMA TypeInit == Init => TypeOK
    BY RunAssumption
    DEF Init, TypeOK, DurableTypes, MemoryTypes, Lease!LeaseInit, Lease!LeaseTypeOK, Lease!Row,
        Awaits, Reasons

\* What an execution does by itself keeps the types.
LEMMA ExecuteTypes ==
    ASSUME TypeOK, NEW r \in Runs, Execute(r)
    PROVE  TypeOK'
<1> USE RunAssumption
<1>0. DurableTypes /\ Lease!LeaseTypeOK /\ MemoryTypes
    BY DEF TypeOK
<1>1. CASE Enqueue(r)
    BY <1>0, <1>1, StatusNames
    DEF TypeOK, Enqueue, DurableTypes, Lease!LeaseTypeOK, MemoryTypes, Awaits, Terminals
<1>2. CASE SkipTerminalRun(r)
    BY <1>0, <1>2
    DEF TypeOK, SkipTerminalRun, Settle, DurableTypes, Lease!LeaseTypeOK, MemoryTypes,
        Awaits, durable
<1>3. CASE StartTooLate(r)
  <2>1. DurableTypes'
      BY <1>0, <1>3, StatusNames, TransitionTypes DEF StartTooLate, Terminals
  <2>. QED  BY <1>0, <1>3, <2>1
            DEF TypeOK, StartTooLate, Lease!LeaseTypeOK, MemoryTypes, Awaits
<1>4. CASE StartExecution(r)
    BY <1>0, <1>4, StatusNames
    DEF TypeOK, StartExecution, DurableTypes, Lease!LeaseTypeOK, MemoryTypes, Awaits
<1>5. CASE AcquireLease(r)
  <2>1. Lease!LeaseTypeOK'
      BY <1>0, <1>5
      DEF AcquireLease, Lease!Acquire, Lease!Granted, Lease!LeaseTypeOK, Lease!Row
  <2>2. DurableTypes' /\ MemoryTypes'
      BY <1>0, <1>5, StatusNames DEF AcquireLease, DurableTypes, MemoryTypes, Awaits
  <2>. QED  BY <2>1, <2>2 DEF TypeOK
<1>6. CASE LeaseWaitFails(r)
  <2>1. Lease!LeaseTypeOK' /\ MemoryTypes'
      BY <1>0, <1>6, CaughtIsTerminal, BeginReleaseTypes DEF LeaseWaitFails
  <2>. QED  BY <1>0, <1>6, <2>1 DEF TypeOK, LeaseWaitFails, BeginRelease, DurableTypes
<1>7. CASE PrepareCompletes(r)
    BY <1>0, <1>7, StatusNames
    DEF TypeOK, PrepareCompletes, DurableTypes, Lease!LeaseTypeOK, MemoryTypes, Awaits
<1>8. CASE PrepareFails(r)
  <2>1. Lease!LeaseTypeOK' /\ MemoryTypes'
      BY <1>0, <1>8, CaughtIsTerminal, BeginReleaseTypes DEF PrepareFails
  <2>. QED  BY <1>0, <1>8, <2>1 DEF TypeOK, PrepareFails, BeginRelease, DurableTypes
<1>9. CASE BeginToolCall(r)
    BY <1>0, <1>9
    DEF TypeOK, BeginToolCall, Lease!Mutate, DurableTypes, Lease!LeaseTypeOK, MemoryTypes,
        memory
<1>10. CASE EndToolCall(r)
    BY <1>0, <1>10
    DEF TypeOK, EndToolCall, DurableTypes, Lease!LeaseTypeOK, MemoryTypes, memory
<1>11. CASE AgentCompletes(r)
  <2>1. Lease!LeaseTypeOK' /\ MemoryTypes'
      BY <1>0, <1>11, FinishTypes DEF AgentCompletes, Terminals
  <2>2. tool' = tool
      BY <1>11 DEF AgentCompletes, Finish, BeginCheckpoint, BeginRelease
  <2>3. CASE Managed
      BY <1>0, <1>11, <2>1, <2>2, <2>3, StatusNames, TransitionTypes
      DEF TypeOK, AgentCompletes
  <2>4. CASE ~Managed
      BY <1>0, <1>11, <2>1, <2>2, <2>4 DEF TypeOK, AgentCompletes, DurableTypes
  <2>. QED  BY <2>3, <2>4
<1>12. CASE AgentThrows(r)
  <2>1. Lease!LeaseTypeOK' /\ MemoryTypes'
      BY <1>0, <1>12, CaughtIsTerminal, FinishTypes DEF AgentThrows
  <2>2. tool' = tool
      BY <1>12 DEF AgentThrows, Finish, BeginCheckpoint, BeginRelease
  <2>. QED  BY <1>0, <1>12, <2>1, <2>2 DEF TypeOK, AgentThrows, DurableTypes
<1>13. CASE CheckpointCompletes(r) \/ CheckpointFails(r)
  <2>0. terminal[r] \in Terminals \cup {"NONE"}
      BY <1>0 DEF MemoryTypes
  <2>1. Lease!LeaseTypeOK' /\ MemoryTypes'
      BY <1>0, <1>13, <2>0, BeginReleaseTypes
      DEF CheckpointCompletes, CheckpointFails, Terminals
  <2>. QED  BY <1>0, <1>13, <2>1
            DEF TypeOK, CheckpointCompletes, CheckpointFails, BeginRelease, DurableTypes
<1>14. CASE Finalize(r)
  <2>1. PICK cleaned \in BOOLEAN :
             IF CanTransition(r, Verdict(r, cleaned))
             THEN Transition(r, Verdict(r, cleaned))
             ELSE UNCHANGED <<status, attempt>>
      BY <1>14 DEF Finalize
  <2>2. Verdict(r, cleaned) \in Statuses
      BY <1>0, StatusNames DEF Verdict, MemoryTypes, Terminals
  <2>3. DurableTypes'
      BY <1>0, <1>14, <2>1, <2>2, TransitionTypes DEF Finalize, DurableTypes
  <2>. QED  BY <1>0, <1>14, <2>3
            DEF TypeOK, Finalize, Settle, Lease!LeaseTypeOK, MemoryTypes, Awaits
<1>. QED  BY <1>1, <1>2, <1>3, <1>4, <1>5, <1>6, <1>7, <1>8, <1>9, <1>10, <1>11,
             <1>12, <1>13, <1>14 DEF Execute

\* cancelRun and shutdown keep the types.
LEMMA CancelTypes ==
    ASSUME TypeOK, NEW reached \in SUBSET Runs, Cancel(reached),
           phase' \in {"serving", "draining"}
    PROVE  TypeOK'
<1>1. DurableTypes'
    BY StatusNames, CommitTypes DEF TypeOK, Cancel, Terminals
<1>2. MemoryTypes'
    BY DEF TypeOK, Cancel, MemoryTypes, Aborted, Reasons
<1>3. Lease!LeaseTypeOK'
    BY DEF TypeOK, Cancel, Lease!LeaseTypeOK
<1>. QED  BY <1>1, <1>2, <1>3 DEF TypeOK

\* What the environment does to a run keeps the types.
LEMMA DisturbTypes ==
    ASSUME TypeOK, NEW r \in Runs, Disturb(r)
    PROVE  TypeOK'
<1>0. DurableTypes /\ Lease!LeaseTypeOK /\ MemoryTypes
    BY DEF TypeOK
<1>1. CASE CreateRun(r) \/ CreateChildRun(r)
    BY <1>0, <1>1, StatusNames
    DEF TypeOK, CreateRun, CreateChildRun, Admit, DurableTypes, Lease!LeaseTypeOK,
        MemoryTypes, Awaits
<1>2. CASE CancelRun(r)
  <2>1. CancelTree(r) \subseteq Runs
      BY DEF CancelTree
  <2>. QED  BY <1>2, <2>1, CancelTypes DEF CancelRun, Serving
<1>3. CASE TimeoutQueuedRun(r)
  <2>1. DurableTypes'
      BY <1>0, <1>3, StatusNames, TransitionTypes DEF TimeoutQueuedRun, Terminals
  <2>. QED  BY <1>0, <1>3, <2>1
            DEF TypeOK, TimeoutQueuedRun, Lease!LeaseTypeOK, MemoryTypes, memory
<1>4. CASE RunTimeout(r) \/ ExceedBudget(r) \/ RenewalFails(r)
  <2>1. UNCHANGED <<durable, phase, pc, held, terminal, pred, tail>>
      BY <1>4 DEF RunTimeout, ExceedBudget, RenewalFails
  <2>2. DurableTypes' /\ Lease!LeaseTypeOK'
      BY <1>0, <2>1 DEF DurableTypes, Lease!LeaseTypeOK, durable
  <2>3. MemoryTypes'
    <3>1. CASE RunTimeout(r)
        BY <1>0, <3>1 DEF RunTimeout, MemoryTypes, Reasons
    <3>2. CASE ExceedBudget(r)
        BY <1>0, <3>2 DEF ExceedBudget, MemoryTypes, Reasons
    <3>3. CASE RenewalFails(r)
        BY <1>0, <3>3 DEF RenewalFails, Aborted, MemoryTypes, Reasons
    <3>. QED  BY <1>4, <3>1, <3>2, <3>3
  <2>. QED  BY <2>2, <2>3 DEF TypeOK
<1>. QED  BY <1>1, <1>2, <1>3, <1>4 DEF Disturb

\* The end of a process and the start of the next keep the types.
LEMMA ProcessTypes ==
    ASSUME TypeOK, Shutdown \/ ProcessEnds \/ Restart
    PROVE  TypeOK'
<1>0. DurableTypes /\ Lease!LeaseTypeOK /\ MemoryTypes
    BY DEF TypeOK
<1>1. CASE Shutdown
  <2>1. \A r \in Runs : CancelTree(r) \subseteq Runs
      BY DEF CancelTree
  <2>2. PICK reached \in SUBSET Runs : Cancel(reached)
      BY <1>1, <2>1 DEF Shutdown
  <2>. QED  BY <1>1, <2>2, CancelTypes DEF Shutdown
<1>2. CASE ProcessEnds
    BY <1>0, <1>2, RunAssumption
    DEF TypeOK, ProcessEnds, durable, DurableTypes, Lease!LeaseTypeOK, MemoryTypes,
        Awaits, Reasons
<1>3. CASE ReapContainers \/ Serve
    BY <1>0, <1>3
    DEF TypeOK, ReapContainers, Serve, durable, memory, DurableTypes, Lease!LeaseTypeOK,
        MemoryTypes
<1>4. ASSUME NEW r \in Runs, ReconcileAttempt(r) PROVE TypeOK'
    BY <1>0, <1>4
    DEF TypeOK, ReconcileAttempt, memory, DurableTypes, Lease!LeaseTypeOK, MemoryTypes,
        Terminals
<1>5. ASSUME NEW r \in Runs, ReconcileRun(r) PROVE TypeOK'
  <2>1. DurableTypes'
      BY <1>0, <1>5, StatusNames, TransitionTypes DEF ReconcileRun, Terminals
  <2>. QED  BY <1>0, <1>5, <2>1
            DEF TypeOK, ReconcileRun, memory, Lease!LeaseTypeOK, MemoryTypes
<1>. QED  BY <1>1, <1>2, <1>3, <1>4, <1>5 DEF Restart

\* Every step keeps the types.
LEMMA TypeStep == TypeOK /\ [Next]_vars => TypeOK'
<1> SUFFICES ASSUME TypeOK, [Next]_vars
             PROVE  TypeOK'
    OBVIOUS
<1>1. ASSUME NEW w \in Workspaces, ExpireLease(w) PROVE TypeOK'
  <2>1. Lease!LeaseTypeOK'
      BY <1>1 DEF TypeOK, ExpireLease, Lease!Expire, Lease!LeaseTypeOK, Lease!Row
  <2>. QED  BY <1>1, <2>1 DEF TypeOK, ExpireLease, memory, DurableTypes, MemoryTypes
<1>2. CASE UNCHANGED vars
    BY <1>2
    DEF TypeOK, vars, durable, memory, DurableTypes, Lease!LeaseTypeOK, MemoryTypes
<1>. QED  BY <1>1, <1>2, ExecuteTypes, DisturbTypes, ProcessTypes DEF Next

\* Every row and variable of the coordinator is always well typed, and no lease
\* without an owner is live (RunService, SqliteRunStore).
THEOREM TypeCorrect == Spec => []TypeOK
    BY TypeInit, TypeStep, PTL DEF Spec

-----------------------------------------------------------------------------
(* The lease of the coordinator implements the fenced lease.                 *)

\* The finally block releases the lease or gives its copy up.
LEMMA BeginReleaseImplements ==
    ASSUME TypeOK, NEW r \in Runs, NEW verdict, BeginRelease(r, verdict)
    PROVE  Lease!LeaseNext
<1>1. CASE held[r] # 0 /\ Lease!Releasable(Row(r), r, held[r])
  <2>1. Lease!Release(r)
      BY <1>1 DEF BeginRelease, Lease!Release, Row
  <2>. QED  BY <2>1 DEF Lease!LeaseNext
<1>2. CASE ~(held[r] # 0 /\ Lease!Releasable(Row(r), r, held[r]))
  <2>1. held \in [Runs -> Nat]
      BY DEF TypeOK, Lease!LeaseTypeOK
  <2>2. Lease!Forget({r})
      BY <1>2, <2>1 DEF BeginRelease, Lease!Forget
  <2>. QED  BY <2>2 DEF Lease!LeaseNext
<1>. QED  BY <1>1, <1>2

\* Every step is a step of the lease or leaves it alone.
LEMMA LeaseStep == TypeOK /\ [Next]_vars => [Lease!LeaseNext]_(Lease!leaseVars)
<1> SUFFICES ASSUME TypeOK, [Next]_vars
             PROVE  Lease!LeaseNext \/ UNCHANGED Lease!leaseVars
    OBVIOUS
<1>1. ASSUME NEW r \in Runs, Execute(r)
      PROVE  Lease!LeaseNext \/ UNCHANGED Lease!leaseVars
  <2>1. CASE AcquireLease(r)
      BY <2>1 DEF AcquireLease, Lease!LeaseNext
  <2>2. CASE BeginToolCall(r)
      BY <2>2 DEF BeginToolCall, Lease!LeaseNext
  <2>3. ASSUME NEW verdict, BeginRelease(r, verdict)
        PROVE  Lease!LeaseNext
      BY <2>3, BeginReleaseImplements
  <2>4. CASE \/ LeaseWaitFails(r) \/ PrepareFails(r)
             \/ CheckpointCompletes(r) \/ CheckpointFails(r)
      BY <2>3, <2>4 DEF LeaseWaitFails, PrepareFails, CheckpointCompletes, CheckpointFails
  <2>5. CASE AgentCompletes(r) \/ AgentThrows(r)
    <3>1. \E verdict : \/ BeginRelease(r, verdict)
                       \/ UNCHANGED <<lease, held, fence>>
        BY <2>5 DEF AgentCompletes, AgentThrows, Finish, BeginCheckpoint
    <3>. QED  BY <2>3, <3>1 DEF Lease!leaseVars
  <2>6. CASE UNCHANGED <<lease, held, fence>>
      BY <2>6 DEF Lease!leaseVars
  <2>7. CASE \/ Enqueue(r) \/ SkipTerminalRun(r) \/ StartTooLate(r) \/ StartExecution(r)
             \/ PrepareCompletes(r) \/ EndToolCall(r) \/ Finalize(r)
    <3>1. UNCHANGED <<lease, held, fence>>
        BY <2>7 DEF Enqueue, SkipTerminalRun, StartTooLate, StartExecution,
                    PrepareCompletes, EndToolCall, Finalize, durable, memory
    <3>. QED  BY <2>6, <3>1
  <2>. QED  BY <1>1, <2>1, <2>2, <2>4, <2>5, <2>7 DEF Execute
<1>2. CASE ProcessEnds
  <2>1. Lease!Forget(Runs)
      BY <1>2 DEF ProcessEnds, Lease!Forget, durable
  <2>. QED  BY <2>1 DEF Lease!LeaseNext
<1>3. ASSUME NEW w \in Workspaces, ExpireLease(w) PROVE Lease!LeaseNext
    BY <1>3 DEF ExpireLease, Lease!LeaseNext
<1>4. ASSUME NEW r \in Runs, Disturb(r) PROVE UNCHANGED <<lease, held, fence>>
    BY <1>4
    DEF Disturb, CreateRun, CreateChildRun, Admit, CancelRun, Cancel, TimeoutQueuedRun,
        RunTimeout, ExceedBudget, RenewalFails, durable, memory
<1>5. CASE Shutdown \/ Restart
  <2>1. UNCHANGED <<lease, held, fence>>
      BY <1>5
      DEF Shutdown, Cancel, Restart, ReapContainers, Serve, ReconcileAttempt,
          ReconcileRun, durable, memory
  <2>. QED  BY <2>1 DEF Lease!leaseVars
<1>6. CASE UNCHANGED vars
    BY <1>6 DEF vars, durable, memory, Lease!leaseVars
<1>. QED  BY <1>1, <1>2, <1>3, <1>4, <1>5, <1>6 DEF Next, Lease!leaseVars

\* The coordinator uses the workspace lease only through its transactions, and
\* every restart only forgets copies: what WorkspaceLeaseProofs proves of the
\* lease (unique epochs, a monotone fence) holds of every run (#execute).
THEOREM CoordinatorImplementsLease == Spec => ImplementsLease
<1>1. Init => Lease!LeaseInit
    BY DEF Init
<1>. QED  BY <1>1, LeaseStep, TypeCorrect, PTL DEF Spec, ImplementsLease, Lease!LeaseSpec

-----------------------------------------------------------------------------
(* One run at a time works in a workspace.                                   *)
(*                                                                           *)
(* The argument: run ids are tickets.  A run is enqueued behind the newest   *)
(* unsettled run of its workspace, and that one settles only when nothing    *)
(* older is left; so a run that got past its predecessor is the oldest one.  *)

(* What an action can do to the queues of the process.                       *)

\* The queues of one process: who is last, who waits for whom, who is still to be enqueued.
Links == TailIsNewest /\ PredecessorIsNext /\ ScheduledAreNewer

\* A run moves on, past its predecessor if it was queued.
Advance(r, to) ==
    /\ Unsettled(r)
    /\ pc[r] = "queued" => Head(r)
    /\ to \in {"leasing", "preparing", "agent", "checkpoint", "releasing"}
    /\ pc' = [pc EXCEPT ![r] = to]
    /\ UNCHANGED <<pred, tail>>

\* A run settles, past its predecessor if it was queued.
Leave(r) == Unsettled(r) /\ (pc[r] = "queued" => Head(r)) /\ Settle(r)

\* A run that was cancelled before its turn to enqueue is forgotten.
Drop(r) ==
    /\ pc[r] = "scheduled"
    /\ pc' = [pc EXCEPT ![r] = "idle"]
    /\ UNCHANGED <<pred, tail>>

\* The oldest scheduled run takes its place behind the last of its workspace.
Join(r) ==
    /\ pc[r] = "scheduled"
    /\ \A q \in Runs : q < r => pc[q] # "scheduled"
    /\ pc'   = [pc EXCEPT ![r] = "queued"]
    /\ pred' = [pred EXCEPT ![r] = tail[WorkspaceOf[r]]]
    /\ tail' = [tail EXCEPT ![WorkspaceOf[r]] = r]

\* A run is created after all others.
Appear(r) ==
    /\ \A q \in Runs : q >= r => status[q] = "NONE"
    /\ pc' = [pc EXCEPT ![r] = "scheduled"]
    /\ UNCHANGED <<pred, tail>>

-----------------------------------------------------------------------------
\* Run ids are numbers, and none is the absent run.
LEMMA RunsAreNumbers ==
    /\ \A r \in Runs : r \in Nat /\ r # NoRun /\ WorkspaceOf[r] \in Workspaces
    /\ NoRun \in Nat
    BY RunAssumption DEF NoRun

\* Nothing older is left in the workspace of a run that is past its queue.
LEMMA HeadIsOldest ==
    ASSUME PredecessorIsNext, MemoryTypes, NEW s \in Runs, Unsettled(s),
           pc[s] = "queued" => Head(s), NEW r \in Runs, Unsettled(r),
           WorkspaceOf[r] = WorkspaceOf[s]
    PROVE  ~(r < s)
<1> SUFFICES ASSUME r < s PROVE FALSE
    OBVIOUS
<1>1. pc[s] = "queued" /\ pred[s] # NoRun /\ Unsettled(pred[s])
    BY DEF PredecessorIsNext
<1>2. pred[s] \in Runs
    BY <1>1 DEF MemoryTypes
<1>. QED  BY <1>1, <1>2 DEF Head

\* A run that moves on changes nothing the queues depend on.
LEMMA AdvanceKeepsLinks ==
    ASSUME Links, MemoryTypes, NEW r \in Runs, NEW to, Advance(r, to)
    PROVE  Links'
<1>1. \A q \in Runs : /\ Unsettled(q)' <=> Unsettled(q)
                      /\ pc'[q] = "scheduled" <=> pc[q] = "scheduled"
                      /\ q # r => pc'[q] = pc[q]
    BY DEF Advance, MemoryTypes, Unsettled, Active
<1>2. pred' = pred /\ tail' = tail
    BY DEF Advance
<1>3. TailIsNewest'
  <2>1. \A w \in Workspaces : tail[w] # NoRun => tail[w] \in Runs
      BY DEF MemoryTypes
  <2>. QED  BY <1>1, <1>2, <2>1 DEF Links, TailIsNewest
<1>4. PredecessorIsNext'
  <2> SUFFICES ASSUME NEW p \in Runs, NEW s \in Runs, WorkspaceOf[p] = WorkspaceOf[s],
                      Unsettled(p)', Unsettled(s)', p < s
               PROVE  (/\ pc[s] = "queued"
                       /\ pred[s] # NoRun
                       /\ p <= pred[s] /\ pred[s] < s
                       /\ WorkspaceOf[pred[s]] = WorkspaceOf[s]
                       /\ Unsettled(pred[s]))'
      BY DEF PredecessorIsNext
  <2>1. /\ pc[s] = "queued"
        /\ pred[s] # NoRun
        /\ p <= pred[s] /\ pred[s] < s
        /\ WorkspaceOf[pred[s]] = WorkspaceOf[s]
        /\ Unsettled(pred[s])
      BY <1>1 DEF Links, PredecessorIsNext
  <2>2. s # r
      BY <1>1, <2>1, HeadIsOldest DEF Links, Advance
  <2>3. pred[s] \in Runs
      BY <2>1 DEF MemoryTypes
  <2>. QED  BY <1>1, <1>2, <2>1, <2>2, <2>3
<1>5. ScheduledAreNewer'
    BY <1>1 DEF Links, ScheduledAreNewer
<1>. QED  BY <1>3, <1>4, <1>5 DEF Links

\* A run that settles was the oldest of its workspace, so whoever waited for it is next.
LEMMA LeaveKeepsLinks ==
    ASSUME Links, MemoryTypes, NEW r \in Runs, Leave(r)
    PROVE  Links'
<1>1. \A q \in Runs : /\ Unsettled(q)' <=> Unsettled(q) /\ q # r
                      /\ pc'[q] = "scheduled" => pc[q] = "scheduled"
                      /\ q # r => pc'[q] = pc[q] /\ pred'[q] = pred[q]
    BY DEF Leave, Settle, MemoryTypes, Unsettled, Active
<1>2. \A w \in Workspaces : tail'[w] = IF tail[w] = r THEN NoRun ELSE tail[w]
    BY DEF Leave, Settle
<1>3. \A q \in Runs : Unsettled(q) /\ WorkspaceOf[q] = WorkspaceOf[r] => ~(q < r)
    BY HeadIsOldest DEF Links, Leave
<1>4. TailIsNewest'
  <2>1. ASSUME NEW w \in Workspaces, tail'[w] # NoRun
        PROVE  WorkspaceOf[tail'[w]] = w /\ Unsettled(tail[w])'
    <3>1. tail'[w] = tail[w] /\ tail[w] # r /\ tail[w] # NoRun
        BY <1>2, <2>1
    <3>2. tail[w] \in Runs
        BY <3>1 DEF MemoryTypes
    <3>. QED  BY <1>1, <3>1, <3>2 DEF Links, TailIsNewest
  <2>2. ASSUME NEW q \in Runs, Unsettled(q)'
        PROVE  tail'[WorkspaceOf[q]] # NoRun /\ q <= tail'[WorkspaceOf[q]]
    <3>1. Unsettled(q) /\ q # r
        BY <1>1, <2>2
    <3>2. tail[WorkspaceOf[q]] # NoRun /\ q <= tail[WorkspaceOf[q]]
        BY <3>1 DEF Links, TailIsNewest
    <3>3. WorkspaceOf[q] \in Workspaces /\ q \in Nat /\ r \in Nat
        BY RunsAreNumbers
    <3>4. tail[WorkspaceOf[q]] # r
        BY <1>3, <3>1, <3>2, <3>3 DEF Links, TailIsNewest
    <3>. QED  BY <1>2, <3>2, <3>3, <3>4
  <2>. QED  BY <2>1, <2>2 DEF TailIsNewest
<1>5. PredecessorIsNext'
  <2> SUFFICES ASSUME NEW p \in Runs, NEW s \in Runs, WorkspaceOf[p] = WorkspaceOf[s],
                      Unsettled(p)', Unsettled(s)', p < s
               PROVE  (/\ pc[s] = "queued"
                       /\ pred[s] # NoRun
                       /\ p <= pred[s] /\ pred[s] < s
                       /\ WorkspaceOf[pred[s]] = WorkspaceOf[s]
                       /\ Unsettled(pred[s]))'
      BY DEF PredecessorIsNext
  <2>1. Unsettled(p) /\ Unsettled(s) /\ p # r /\ s # r
      BY <1>1
  <2>2. /\ pc[s] = "queued"
        /\ pred[s] # NoRun
        /\ p <= pred[s] /\ pred[s] < s
        /\ WorkspaceOf[pred[s]] = WorkspaceOf[s]
        /\ Unsettled(pred[s])
      BY <2>1 DEF Links, PredecessorIsNext
  <2>3. pred[s] \in Runs
      BY <2>2 DEF MemoryTypes
  <2>4. p \in Nat /\ r \in Nat
      BY RunsAreNumbers
  <2>5. pred[s] # r
      BY <1>3, <2>1, <2>2, <2>4
  <2>. QED  BY <1>1, <2>1, <2>2, <2>3, <2>5
<1>6. ScheduledAreNewer'
    BY <1>1 DEF Links, ScheduledAreNewer
<1>. QED  BY <1>4, <1>5, <1>6 DEF Links

\* A run that is enqueued is younger than everything in the queue it joins.
LEMMA JoinKeepsLinks ==
    ASSUME Links, MemoryTypes, NEW r \in Runs, Join(r)
    PROVE  Links'
<1>1. \A q \in Runs : /\ Unsettled(q)' <=> Unsettled(q) \/ q = r
                      /\ pc'[q] = "scheduled" => pc[q] = "scheduled" /\ q # r
                      /\ q # r => pc'[q] = pc[q] /\ pred'[q] = pred[q]
    BY DEF Join, MemoryTypes, Unsettled, Active
<1>2. /\ WorkspaceOf[r] \in Workspaces
      /\ pc'[r] = "queued"
      /\ pred'[r] = tail[WorkspaceOf[r]]
      /\ tail'[WorkspaceOf[r]] = r
      /\ \A w \in Workspaces : w # WorkspaceOf[r] => tail'[w] = tail[w]
    BY RunsAreNumbers DEF Join, MemoryTypes
<1>3. \A q \in Runs : Unsettled(q) => q < r
    BY DEF Join, Links, ScheduledAreNewer
<1>4. TailIsNewest'
  <2>1. ASSUME NEW w \in Workspaces, tail'[w] # NoRun
        PROVE  WorkspaceOf[tail'[w]] = w /\ Unsettled(tail[w])'
    <3>1. CASE w = WorkspaceOf[r]
        BY <1>1, <1>2, <3>1
    <3>2. CASE w # WorkspaceOf[r]
      <4>1. tail'[w] = tail[w] /\ tail[w] \in Runs
          BY <1>2, <2>1, <3>2 DEF MemoryTypes
      <4>. QED  BY <1>1, <2>1, <4>1 DEF Links, TailIsNewest
    <3>. QED  BY <3>1, <3>2
  <2>2. ASSUME NEW q \in Runs, Unsettled(q)'
        PROVE  tail'[WorkspaceOf[q]] # NoRun /\ q <= tail'[WorkspaceOf[q]]
    <3>1. q <= r /\ r # NoRun /\ WorkspaceOf[q] \in Workspaces
        BY <1>1, <1>3, <2>2, RunsAreNumbers
    <3>2. CASE WorkspaceOf[q] = WorkspaceOf[r]
        BY <1>2, <3>1, <3>2
    <3>3. CASE WorkspaceOf[q] # WorkspaceOf[r]
        BY <1>1, <1>2, <2>2, <3>1, <3>3 DEF Links, TailIsNewest
    <3>. QED  BY <3>2, <3>3
  <2>. QED  BY <2>1, <2>2 DEF TailIsNewest
<1>5. PredecessorIsNext'
  <2> SUFFICES ASSUME NEW p \in Runs, NEW s \in Runs, WorkspaceOf[p] = WorkspaceOf[s],
                      Unsettled(p)', Unsettled(s)', p < s
               PROVE  (/\ pc[s] = "queued"
                       /\ pred[s] # NoRun
                       /\ p <= pred[s] /\ pred[s] < s
                       /\ WorkspaceOf[pred[s]] = WorkspaceOf[s]
                       /\ Unsettled(pred[s]))'
      BY DEF PredecessorIsNext
  <2>1. p # r /\ Unsettled(p)
      BY <1>1, <1>3, RunsAreNumbers
  <2>2. CASE s = r
    <3>1. tail[WorkspaceOf[r]] # NoRun /\ p <= tail[WorkspaceOf[r]]
        BY <2>1, <2>2 DEF Links, TailIsNewest
    <3>2. tail[WorkspaceOf[r]] \in Runs
        BY <1>2, <3>1 DEF MemoryTypes
    <3>3. WorkspaceOf[tail[WorkspaceOf[r]]] = WorkspaceOf[r] /\ Unsettled(tail[WorkspaceOf[r]])
        BY <1>2, <3>1 DEF Links, TailIsNewest
    <3>. QED  BY <1>1, <1>2, <1>3, <2>2, <3>1, <3>2, <3>3
  <2>3. CASE s # r
    <3>1. /\ pc[s] = "queued"
          /\ pred[s] # NoRun
          /\ p <= pred[s] /\ pred[s] < s
          /\ WorkspaceOf[pred[s]] = WorkspaceOf[s]
          /\ Unsettled(pred[s])
        BY <1>1, <2>1, <2>3 DEF Links, PredecessorIsNext
    <3>2. pred[s] \in Runs
        BY <3>1 DEF MemoryTypes
    <3>. QED  BY <1>1, <2>3, <3>1, <3>2
  <2>. QED  BY <2>2, <2>3
<1>6. ScheduledAreNewer'
  <2> SUFFICES ASSUME NEW q \in Runs, NEW s \in Runs, Unsettled(q)',
                      pc'[s] = "scheduled"
               PROVE  q < s
      BY DEF ScheduledAreNewer
  <2>1. pc[s] = "scheduled" /\ s # r
      BY <1>1
  <2>2. CASE q = r
      BY <2>1, <2>2, RunsAreNumbers DEF Join
  <2>3. CASE q # r
      BY <1>1, <2>1, <2>3 DEF Links, ScheduledAreNewer
  <2>. QED  BY <2>2, <2>3
<1>. QED  BY <1>4, <1>5, <1>6 DEF Links

\* Runs that appear or are dropped were never linked.
LEMMA ScheduleKeepsLinks ==
    ASSUME Links, MemoryTypes, KnownRunsExist, NEW r \in Runs, Drop(r) \/ Appear(r)
    PROVE  Links'
<1>1. pc[r] \in {"idle", "scheduled"}
    BY RunsAreNumbers DEF Drop, Appear, KnownRunsExist
<1>2. \A q \in Runs : /\ Unsettled(q)' <=> Unsettled(q)
                      /\ q # r => pc'[q] = pc[q]
                      /\ Unsettled(q) => q # r
    BY <1>1 DEF Drop, Appear, MemoryTypes, Unsettled, Active
<1>3. pred' = pred /\ tail' = tail
    BY DEF Drop, Appear
<1>4. TailIsNewest'
  <2>1. \A w \in Workspaces : tail[w] # NoRun => tail[w] \in Runs
      BY DEF MemoryTypes
  <2>. QED  BY <1>2, <1>3, <2>1 DEF Links, TailIsNewest
<1>5. PredecessorIsNext'
  <2>1. \A s \in Runs : pred[s] # NoRun => pred[s] \in Runs
      BY DEF MemoryTypes
  <2>. QED  BY <1>2, <1>3, <2>1 DEF Links, PredecessorIsNext
<1>6. ScheduledAreNewer'
  <2> SUFFICES ASSUME NEW q \in Runs, NEW s \in Runs, Unsettled(q)',
                      pc'[s] = "scheduled"
               PROVE  q < s
      BY DEF ScheduledAreNewer
  <2>1. CASE s = r
    <3>1. Appear(r)
        BY <2>1 DEF Drop, MemoryTypes
    <3>2. status[q] # "NONE"
        BY <1>2 DEF KnownRunsExist, Unsettled, Active
    <3>. QED  BY <2>1, <3>1, <3>2, RunsAreNumbers DEF Appear
  <2>2. CASE s # r
      BY <1>2, <2>2 DEF Links, ScheduledAreNewer
  <2>. QED  BY <2>1, <2>2
<1>. QED  BY <1>4, <1>5, <1>6 DEF Links

-----------------------------------------------------------------------------
(* What the actions do to them.                                              *)

\* The steps of an execution are the moves above (#enqueue, #execute).
LEMMA ExecuteMoves ==
    ASSUME TypeOK, NEW r \in Runs, Execute(r)
    PROVE  \/ \E to : Advance(r, to)
           \/ Leave(r) \/ Drop(r) \/ Join(r)
           \/ UNCHANGED <<pc, pred, tail>>
<1>1. CASE Enqueue(r)
    BY <1>1 DEF Enqueue, Drop, Join
<1>2. CASE SkipTerminalRun(r) \/ Finalize(r)
    BY <1>2 DEF SkipTerminalRun, Finalize, Leave, Unsettled
<1>3. CASE StartTooLate(r)
    BY <1>3 DEF StartTooLate, Advance, Unsettled
<1>4. CASE StartExecution(r)
    BY <1>4 DEF StartExecution, Advance, Unsettled
<1>5. CASE AcquireLease(r)
    BY <1>5 DEF AcquireLease, Advance, Unsettled, Active
<1>6. CASE \/ LeaseWaitFails(r) \/ PrepareFails(r)
           \/ CheckpointCompletes(r) \/ CheckpointFails(r)
    BY <1>6 DEF LeaseWaitFails, PrepareFails, CheckpointCompletes, CheckpointFails,
                BeginRelease, Advance, Unsettled, Active
<1>7. CASE PrepareCompletes(r)
    BY <1>7 DEF PrepareCompletes, Advance, Unsettled, Active
<1>8. CASE BeginToolCall(r) \/ EndToolCall(r)
    BY <1>8 DEF BeginToolCall, EndToolCall, memory
<1>9. CASE AgentCompletes(r) \/ AgentThrows(r)
  <2>1. pc[r] = "agent" /\ \E verdict : Finish(r, verdict)
      BY <1>9 DEF AgentCompletes, AgentThrows
  <2>. QED  BY <2>1 DEF Finish, BeginCheckpoint, BeginRelease, Advance, Unsettled, Active
<1>. QED  BY <1>1, <1>2, <1>3, <1>4, <1>5, <1>6, <1>7, <1>8, <1>9 DEF Execute

\* A tool call starts and ends with its agent in the loop, so an agent that
\* leaves it has none.
LEMMA ExecuteTools ==
    ASSUME TypeOK, NEW r \in Runs, Execute(r), tool[r] => pc[r] = "agent"
    PROVE  /\ \A q \in Runs : q # r => tool'[q] = tool[q] /\ pc'[q] = pc[q]
           /\ tool'[r] => pc'[r] = "agent"
           /\ phase' = phase /\ pc[r] # "idle"
<1> USE DEF TypeOK, DurableTypes, MemoryTypes
<1>1. CASE BeginToolCall(r) \/ EndToolCall(r)
    BY <1>1 DEF BeginToolCall, EndToolCall, memory
<1>2. CASE AgentCompletes(r) \/ AgentThrows(r)
    BY <1>2 DEF AgentCompletes, AgentThrows, Finish, BeginCheckpoint, BeginRelease
<1>3. CASE \/ LeaseWaitFails(r) \/ PrepareFails(r)
           \/ CheckpointCompletes(r) \/ CheckpointFails(r)
    BY <1>3 DEF LeaseWaitFails, PrepareFails, CheckpointCompletes, CheckpointFails,
                BeginRelease
<1>4. CASE \/ Enqueue(r) \/ SkipTerminalRun(r) \/ StartTooLate(r) \/ StartExecution(r)
           \/ AcquireLease(r) \/ PrepareCompletes(r) \/ Finalize(r)
    BY <1>4 DEF Enqueue, SkipTerminalRun, StartTooLate, StartExecution, AcquireLease,
                PrepareCompletes, Finalize, Settle, durable
<1>. QED  BY <1>1, <1>2, <1>3, <1>4 DEF Execute

\* No event forgets a run.
LEMMA CommitKeepsRuns ==
    ASSUME TypeOK, NEW moved, Commit(moved), \A r \in DOMAIN moved : moved[r] # "NONE"
    PROVE  \A q \in Runs : status[q] # "NONE" => status'[q] # "NONE"
    BY DEF Commit

\* A guarded transition makes no row appear or disappear.
LEMMA TransitionKeepsRuns ==
    ASSUME TypeOK, NEW r \in Runs, NEW to, to # "NONE", Transition(r, to)
    PROVE  \A q \in Runs : status[q] # "NONE" => status'[q] # "NONE"
<1>1. \A d \in DOMAIN [q \in {r} |-> to] : [q \in {r} |-> to][d] # "NONE"
    OBVIOUS
<1>. QED  BY <1>1, CommitKeepsRuns DEF Transition

\* Nor does any step of an execution.
LEMMA ExecuteKeepsRuns ==
    ASSUME TypeOK, NEW r \in Runs, Execute(r)
    PROVE  \A q \in Runs : status[q] # "NONE" => status'[q] # "NONE"
<1>1. CASE \/ Enqueue(r) \/ StartExecution(r) \/ AcquireLease(r) \/ PrepareCompletes(r)
    BY <1>1 DEF TypeOK, DurableTypes, Enqueue, StartExecution, AcquireLease,
                PrepareCompletes
<1>2. CASE StartTooLate(r)
    BY <1>2, TransitionKeepsRuns DEF StartTooLate
<1>3. CASE AgentCompletes(r)
    BY <1>3, TransitionKeepsRuns DEF AgentCompletes
<1>4. CASE Finalize(r)
  <2>1. \A cleaned \in BOOLEAN : Verdict(r, cleaned) # "NONE"
      BY DEF Verdict
  <2>. QED  BY <1>4, <2>1, TransitionKeepsRuns DEF Finalize
<1>5. CASE status' = status
    BY <1>5
<1>. QED  BY <1>1, <1>2, <1>3, <1>4, <1>5
          DEF Execute, SkipTerminalRun, LeaseWaitFails, PrepareFails, BeginToolCall,
              EndToolCall, AgentThrows, CheckpointCompletes, CheckpointFails, durable

\* The environment makes runs appear and cancels them, but moves none.
LEMMA DisturbMoves ==
    ASSUME TypeOK, NEW r \in Runs, Disturb(r)
    PROVE  /\ \A q \in Runs : status[q] # "NONE" => status'[q] # "NONE"
           /\ tool' = tool
           /\ phase' = phase
           /\ \/ UNCHANGED <<pc, pred, tail>>
              \/ Appear(r) /\ status'[r] # "NONE" /\ phase = "serving"
<1>1. CASE CreateRun(r) \/ CreateChildRun(r)
    BY <1>1 DEF CreateRun, CreateChildRun, Admit, Appear, TypeOK, DurableTypes
<1>2. CASE CancelRun(r)
    BY <1>2, CommitKeepsRuns DEF CancelRun, Cancel
<1>3. CASE TimeoutQueuedRun(r)
    BY <1>3, TransitionKeepsRuns DEF TimeoutQueuedRun, memory
<1>4. CASE RunTimeout(r) \/ ExceedBudget(r) \/ RenewalFails(r)
    BY <1>4 DEF RunTimeout, ExceedBudget, RenewalFails, durable
<1>. QED  BY <1>1, <1>2, <1>3, <1>4 DEF Disturb

-----------------------------------------------------------------------------
(* The invariant.                                                            *)

\* While the process runs, the links leave one agent per workspace.
LEMMA WriterFromLinks ==
    ASSUME PredecessorIsNext, ToolsHaveAgents, phase # "down"
    PROVE  SingleWriter
<1> SUFFICES ASSUME NEW r \in Runs, NEW s \in Runs, tool[r], tool[s],
                    WorkspaceOf[r] = WorkspaceOf[s], r # s
             PROVE  FALSE
    BY DEF SingleWriter
<1>1. pc[r] = "agent" /\ pc[s] = "agent"
    BY DEF ToolsHaveAgents
<1>2. ~(r < s) /\ ~(s < r)
    BY <1>1 DEF PredecessorIsNext, Unsettled, Active
<1>. QED  BY <1>2, RunsAreNumbers

\* The first process has no queue.
LEMMA QueueInvInit == Init => QueueInv
    BY RunAssumption
    DEF Init, Lease!LeaseInit, QueueInv, KnownRunsExist, ScheduledAreNewer, TailIsNewest,
        PredecessorIsNext, ToolsHaveAgents, NothingRunsBeforeServing, SingleWriter,
        Unsettled, Active

\* A step of an execution (#enqueue, #execute).
LEMMA ExecuteKeepsQueueInv ==
    ASSUME TypeOK, QueueInv, NEW r \in Runs, Execute(r)
    PROVE  /\ Links' /\ KnownRunsExist' /\ ToolsHaveAgents' /\ NothingRunsBeforeServing'
           /\ phase' # "down"
<1>1. Links /\ MemoryTypes
    BY DEF QueueInv, Links, TypeOK
<1>2. Links'
  <2>1. CASE UNCHANGED <<pc, pred, tail>>
      BY <1>1, <2>1
      DEF Links, TailIsNewest, PredecessorIsNext, ScheduledAreNewer, Unsettled, Active
  <2>. QED  BY <1>1, <2>1, ExecuteMoves, AdvanceKeepsLinks, LeaveKeepsLinks,
               JoinKeepsLinks, ScheduleKeepsLinks DEF QueueInv
<1>3. phase # "down" /\ (tool[r] => pc[r] = "agent")
  <2>1. pc[r] # "idle"
      BY DEF Execute, Enqueue, SkipTerminalRun, StartTooLate, StartExecution, AcquireLease,
             LeaseWaitFails, PrepareCompletes, PrepareFails, BeginToolCall, EndToolCall,
             AgentCompletes, AgentThrows, CheckpointCompletes, CheckpointFails, Finalize
  <2>. QED  BY <2>1 DEF QueueInv, NothingRunsBeforeServing, ToolsHaveAgents
<1>4. /\ \A q \in Runs : q # r => tool'[q] = tool[q] /\ pc'[q] = pc[q]
      /\ tool'[r] => pc'[r] = "agent"
      /\ phase' = phase /\ pc[r] # "idle"
    BY <1>3, ExecuteTools
<1>5. KnownRunsExist'
    BY <1>4, ExecuteKeepsRuns DEF QueueInv, KnownRunsExist
<1>6. ToolsHaveAgents'
    BY <1>3, <1>4 DEF QueueInv, ToolsHaveAgents
<1>7. NothingRunsBeforeServing'
    BY <1>4 DEF QueueInv, NothingRunsBeforeServing
<1>. QED  BY <1>2, <1>3, <1>4, <1>5, <1>6, <1>7

\* A request, a cancellation or a timer (createRun, cancelRun).
LEMMA DisturbKeepsQueueInv ==
    ASSUME TypeOK, QueueInv, NEW r \in Runs, Disturb(r)
    PROVE  QueueInv'
<1>1. Links /\ MemoryTypes
    BY DEF QueueInv, Links, TypeOK
<1>2. /\ \A q \in Runs : status[q] # "NONE" => status'[q] # "NONE"
      /\ tool' = tool
      /\ phase' = phase
      /\ \/ UNCHANGED <<pc, pred, tail>>
         \/ Appear(r) /\ status'[r] # "NONE" /\ phase = "serving"
    BY DisturbMoves
<1>3. CASE UNCHANGED <<pc, pred, tail>>
    BY <1>2, <1>3
    DEF QueueInv, KnownRunsExist, ScheduledAreNewer, TailIsNewest, PredecessorIsNext,
        ToolsHaveAgents, NothingRunsBeforeServing, SingleWriter, Unsettled, Active
<1>4. CASE Appear(r) /\ status'[r] # "NONE" /\ phase = "serving"
  <2>1. Links'
      BY <1>1, <1>4, ScheduleKeepsLinks DEF QueueInv
  <2>2. pc' = [pc EXCEPT ![r] = "scheduled"] /\ pc[r] = "idle"
      BY <1>4, RunsAreNumbers DEF Appear, QueueInv, KnownRunsExist
  <2>3. KnownRunsExist' /\ ToolsHaveAgents' /\ NothingRunsBeforeServing' /\ SingleWriter'
      BY <1>1, <1>2, <1>4, <2>2
      DEF QueueInv, KnownRunsExist, ToolsHaveAgents, NothingRunsBeforeServing,
          SingleWriter, MemoryTypes
  <2>. QED  BY <2>1, <2>3 DEF QueueInv, Links
<1>. QED  BY <1>2, <1>3, <1>4

\* The life of the process (shutdown, a crash, startup).
LEMMA ProcessKeepsQueueInv ==
    ASSUME TypeOK, QueueInv, Shutdown \/ ProcessEnds \/ Restart
    PROVE  QueueInv'
<1> USE DEF QueueInv, KnownRunsExist, ScheduledAreNewer, TailIsNewest, PredecessorIsNext,
            ToolsHaveAgents, NothingRunsBeforeServing, SingleWriter
<1>1. CASE Shutdown
  <2>1. PICK reached : Cancel(reached)
      BY <1>1 DEF Shutdown
  <2>2. \A q \in Runs : status[q] # "NONE" => status'[q] # "NONE"
      BY <2>1, CommitKeepsRuns DEF Cancel
  <2>3. UNCHANGED <<pc, pred, tail, tool>> /\ phase' = "draining" /\ phase = "serving"
      BY <1>1, <2>1 DEF Cancel, Shutdown
  <2>. QED  BY <2>2, <2>3 DEF Unsettled, Active
<1>2. CASE ProcessEnds
    BY <1>2, RunAssumption DEF ProcessEnds, durable, Unsettled, Active
<1>3. CASE ReapContainers
    BY <1>3 DEF ReapContainers, memory, Unsettled, Active
<1>4. CASE Serve
    BY <1>4 DEF Serve, durable, memory, Unsettled, Active
<1>5. ASSUME NEW r \in Runs, ReconcileAttempt(r) \/ ReconcileRun(r) PROVE QueueInv'
  <2>1. \A q \in Runs : status[q] # "NONE" => status'[q] # "NONE"
      BY <1>5, TransitionKeepsRuns DEF ReconcileAttempt, ReconcileRun
  <2>2. UNCHANGED <<pc, pred, tail, tool, phase>>
      BY <1>5 DEF ReconcileAttempt, ReconcileRun, memory
  <2>. QED  BY <2>1, <2>2 DEF Unsettled, Active
<1>. QED  BY <1>1, <1>2, <1>3, <1>4, <1>5 DEF Restart

\* Every step keeps the invariant of the queues.
LEMMA QueueInvStep == TypeOK /\ QueueInv /\ [Next]_vars => QueueInv'
<1> SUFFICES ASSUME TypeOK, QueueInv, [Next]_vars
             PROVE  QueueInv'
    OBVIOUS
<1>1. ASSUME NEW r \in Runs, Execute(r) PROVE QueueInv'
  <2>1. /\ Links' /\ KnownRunsExist' /\ ToolsHaveAgents' /\ NothingRunsBeforeServing'
        /\ phase' # "down"
      BY <1>1, ExecuteKeepsQueueInv
  <2>2. (PredecessorIsNext /\ ToolsHaveAgents /\ phase # "down" => SingleWriter)'
      BY WriterFromLinks, PTL
  <2>. QED  BY <2>1, <2>2 DEF QueueInv, Links
<1>2. CASE UNCHANGED vars \/ \E w \in Workspaces : ExpireLease(w)
  <2>1. UNCHANGED <<pc, pred, tail, tool, phase, status>>
      BY <1>2 DEF vars, durable, memory, ExpireLease
  <2>. QED  BY <2>1
            DEF QueueInv, KnownRunsExist, ScheduledAreNewer, TailIsNewest,
                PredecessorIsNext, ToolsHaveAgents, NothingRunsBeforeServing,
                SingleWriter, Unsettled, Active
<1>. QED  BY <1>1, <1>2, DisturbKeepsQueueInv, ProcessKeepsQueueInv DEF Next

\* So it holds in every behaviour.
LEMMA QueueInvariant == Spec => []QueueInv
    BY QueueInvInit, QueueInvStep, TypeCorrect, PTL DEF Spec

-----------------------------------------------------------------------------
\* ADR 13 for every number of runs: no two tool calls ever execute in one
\* workspace, not even across a crash and restart (#enqueue, startup).
THEOREM OneWriterPerWorkspace == Spec => []SingleWriter
<1>1. QueueInv => SingleWriter
    BY DEF QueueInv
<1>. QED  BY <1>1, QueueInvariant, PTL

\* Of the unsettled runs of a workspace only the oldest is past its queue
\* (#enqueue).
THEOREM QueueIsFirstInFirstOut == Spec => []OldestFirst
<1>1. QueueInv => OldestFirst
    BY DEF QueueInv, PredecessorIsNext, OldestFirst
<1>. QED  BY <1>1, QueueInvariant, PTL
-----------------------------------------------------------------------------
(* A run that ended stays ended, for any number of runs: no await of #execute *)
(* is resumed with a status its next transition does not expect.             *)

\* What an event does to one run (appendEvent).
LEMMA TransitionEffect ==
    ASSUME TypeOK, NEW r \in Runs, NEW to, Transition(r, to)
    PROVE  /\ status'[r] = to
           /\ \A q \in Runs \ {r} : status'[q] = status[q]
    BY DEF Transition, Commit

\* cancelRun moves only rows no execution is about to move, to CANCELLED.
LEMMA CancelEffect ==
    ASSUME TypeOK, NEW tree \in SUBSET Runs, NEW reached \in SUBSET tree,
           CancelReaches(tree, reached), Cancel(reached)
    PROVE  /\ \A q \in Runs :
                 \/ status'[q] = status[q]
                 \/ ~Active(q) /\ Open(q) /\ status'[q] = "CANCELLED"
           /\ UNCHANGED <<pc, terminal>>
<1>1. \A d \in reached : ~Refuses(d)
    BY DEF CancelReaches
<1>2. \A q \in Runs : \/ status'[q] = status[q]
                      \/ q \in reached /\ ~Active(q) /\ status'[q] = "CANCELLED"
    BY DEF Cancel, Commit
<1>3. \A q \in reached : ~Active(q) => Open(q)
    BY <1>1 DEF Refuses, CanTransition
<1>. QED  BY <1>2, <1>3 DEF Cancel

\* The end of the agent: a checkpoint with its verdict, or the release.
LEMMA FinishEffect ==
    ASSUME TypeOK, NEW r \in Runs, NEW verdict \in Terminals, Finish(r, verdict)
    PROVE  /\ \A q \in Runs \ {r} : pc'[q] = pc[q] /\ terminal'[q] = terminal[q]
           /\ \/ pc'[r] = "releasing"
              \/ Managed /\ pc'[r] = "checkpoint" /\ terminal'[r] = verdict
    BY DEF TypeOK, MemoryTypes, Finish, BeginCheckpoint, BeginRelease

\* A checkpoint after an exception finds a run that did not succeed.
LEMMA CaughtIsNoSuccess ==
    ASSUME TypeOK, NEW r \in Runs, NEW leaseError \in BOOLEAN
    PROVE  Caught(r, leaseError) # "SUCCEEDED"
<1>1. abort[r] \in {"none", "cancelled", "timeout", "budget", "leaseLost"}
    BY DEF TypeOK, MemoryTypes, Reasons
<1>. QED  BY <1>1 DEF Caught

-----------------------------------------------------------------------------
\* The invariant for a single run.
AwaitMatches(r) ==
    /\ pc[r] = "scheduled" => status[r] \in {"ACCEPTED", "CANCELLED"}
    /\ pc[r] = "queued" => status[r] \in {"QUEUED", "CANCELLED", "TIMED_OUT"}
    /\ pc[r] \in {"leasing", "preparing"} => status[r] = "PREPARING"
    /\ pc[r] = "agent" => status[r] = "RUNNING"
    /\ pc[r] = "checkpoint" =>
          IF terminal[r] = "SUCCEEDED" THEN status[r] = "CHECKPOINTING"
                                       ELSE status[r] = "RUNNING"

\* The invariant speaks of one run at a time.
LEMMA AwaitMatchesEach == AwaitMatchesStatus <=> \A r \in Runs : AwaitMatches(r)
    BY DEF AwaitMatchesStatus, AwaitMatches

\* A step of its execution (#enqueue, #execute) leaves a run as its next await
\* expects it, and touches no other run.
LEMMA ExecuteKeepsAwait ==
    ASSUME TypeOK, NEW r \in Runs, Execute(r), AwaitMatches(r)
    PROVE  /\ AwaitMatches(r)'
           /\ \A q \in Runs \ {r} :
                 pc'[q] = pc[q] /\ status'[q] = status[q] /\ terminal'[q] = terminal[q]
<1> USE DEF TypeOK, DurableTypes, MemoryTypes
<1>1. CASE Enqueue(r)
    BY <1>1 DEF Enqueue, AwaitMatches
<1>2. CASE SkipTerminalRun(r)
    BY <1>2 DEF SkipTerminalRun, Settle, AwaitMatches, durable
<1>3. CASE StartTooLate(r)
    BY <1>3, TransitionEffect DEF StartTooLate, AwaitMatches
<1>4. CASE StartExecution(r) \/ AcquireLease(r) \/ PrepareCompletes(r)
    BY <1>4 DEF StartExecution, AcquireLease, PrepareCompletes, AwaitMatches
<1>5. CASE \/ LeaseWaitFails(r) \/ PrepareFails(r)
           \/ CheckpointCompletes(r) \/ CheckpointFails(r)
    BY <1>5 DEF LeaseWaitFails, PrepareFails, CheckpointCompletes, CheckpointFails,
                BeginRelease, AwaitMatches
<1>6. CASE BeginToolCall(r) \/ EndToolCall(r)
    BY <1>6 DEF BeginToolCall, EndToolCall, memory, AwaitMatches
<1>7. CASE AgentCompletes(r)
  <2>1. Finish(r, "SUCCEEDED") /\ "SUCCEEDED" \in Terminals
      BY <1>7 DEF AgentCompletes, Terminals
  <2>2. /\ \A q \in Runs \ {r} : pc'[q] = pc[q] /\ terminal'[q] = terminal[q]
        /\ \/ pc'[r] = "releasing"
           \/ Managed /\ pc'[r] = "checkpoint" /\ terminal'[r] = "SUCCEEDED"
      BY <2>1, FinishEffect
  <2>3. /\ Managed => status'[r] = "CHECKPOINTING"
        /\ \A q \in Runs \ {r} : status'[q] = status[q]
      BY <1>7, TransitionEffect DEF AgentCompletes
  <2>. QED  BY <2>2, <2>3 DEF AwaitMatches
<1>8. CASE AgentThrows(r)
  <2>1. PICK leaseError \in BOOLEAN : Finish(r, Caught(r, leaseError))
      BY <1>8 DEF AgentThrows
  <2>2. Caught(r, leaseError) \in Terminals
      BY CaughtIsTerminal
  <2>3. /\ \A q \in Runs \ {r} : pc'[q] = pc[q] /\ terminal'[q] = terminal[q]
        /\ \/ pc'[r] = "releasing"
           \/ pc'[r] = "checkpoint" /\ terminal'[r] # "SUCCEEDED"
      BY <2>1, <2>2, FinishEffect, CaughtIsNoSuccess
  <2>4. pc[r] = "agent" /\ status' = status
      BY <1>8 DEF AgentThrows
  <2>. QED  BY <2>3, <2>4 DEF AwaitMatches
<1>9. CASE Finalize(r)
  <2>1. \A q \in Runs \ {r} : status'[q] = status[q]
      BY <1>9, TransitionEffect DEF Finalize
  <2>. QED  BY <1>9, <2>1 DEF Finalize, Settle, AwaitMatches
<1>. QED  BY <1>1, <1>2, <1>3, <1>4, <1>5, <1>6, <1>7, <1>8, <1>9 DEF Execute

\* No event that is not of the execution changes a row an execution relies on.
LEMMA OthersKeepAwait ==
    ASSUME TypeOK, QueueInv, AwaitMatchesStatus, [Next]_vars,
           ~(\E r \in Runs : Execute(r)), NEW q \in Runs
    PROVE  AwaitMatches(q)'
<1> USE DEF TypeOK, DurableTypes, MemoryTypes
<1>0. AwaitMatches(q)
    BY AwaitMatchesEach
<1>1. ASSUME NEW r \in Runs, CreateRun(r) \/ CreateChildRun(r) PROVE AwaitMatches(q)'
    BY <1>0, <1>1 DEF CreateRun, CreateChildRun, Admit, AwaitMatches
<1>2. ASSUME NEW r \in Runs, CancelRun(r) \/ Shutdown PROVE AwaitMatches(q)'
  <2>1. PICK tree \in SUBSET Runs : \E reached \in SUBSET tree :
             CancelReaches(tree, reached) /\ Cancel(reached)
    <3>1. \A d \in Runs : CancelTree(d) \subseteq Runs
        BY DEF CancelTree
    <3>2. CASE CancelRun(r)
        BY <3>1, <3>2 DEF CancelRun
    <3>3. CASE Shutdown
        BY <3>1, <3>3 DEF Shutdown
    <3>. QED  BY <1>2, <3>2, <3>3
  <2>2. /\ \/ status'[q] = status[q]
           \/ ~Active(q) /\ Open(q) /\ status'[q] = "CANCELLED"
        /\ UNCHANGED <<pc, terminal>>
      BY <2>1, CancelEffect
  <2>. QED  BY <1>0, <2>2 DEF AwaitMatches, Active
<1>3. ASSUME NEW r \in Runs, TimeoutQueuedRun(r) PROVE AwaitMatches(q)'
    BY <1>0, <1>3, TransitionEffect DEF TimeoutQueuedRun, memory, AwaitMatches
<1>4. ASSUME NEW r \in Runs, RunTimeout(r) \/ ExceedBudget(r) \/ RenewalFails(r)
      PROVE  AwaitMatches(q)'
    BY <1>0, <1>4 DEF RunTimeout, ExceedBudget, RenewalFails, durable, AwaitMatches
<1>5. CASE ProcessEnds
    BY <1>5 DEF ProcessEnds, AwaitMatches
<1>6. ASSUME NEW r \in Runs, ReconcileAttempt(r) \/ ReconcileRun(r)
      PROVE  AwaitMatches(q)'
  <2>1. pc[q] = "idle" /\ pc' = pc
      BY <1>6 DEF ReconcileAttempt, ReconcileRun, memory, QueueInv, NothingRunsBeforeServing
  <2>. QED  BY <2>1 DEF AwaitMatches
<1>7. CASE \/ ReapContainers \/ Serve \/ UNCHANGED vars
           \/ \E w \in Workspaces : ExpireLease(w)
    BY <1>0, <1>7 DEF ReapContainers, Serve, ExpireLease, vars, durable, memory, AwaitMatches
<1>. QED  BY <1>1, <1>2, <1>3, <1>4, <1>5, <1>6, <1>7 DEF Next, Disturb, Restart

\* Every step leaves each suspended execution the status it relies on.
LEMMA AwaitStep ==
    TypeOK /\ QueueInv /\ AwaitMatchesStatus /\ [Next]_vars => AwaitMatchesStatus'
<1> SUFFICES ASSUME TypeOK, QueueInv, AwaitMatchesStatus, [Next]_vars
             PROVE  \A q \in Runs : AwaitMatches(q)'
    BY DEF AwaitMatchesStatus, AwaitMatches
<1>1. \A q \in Runs : AwaitMatches(q)
    BY AwaitMatchesEach
<1>2. ASSUME NEW r \in Runs, Execute(r), NEW q \in Runs PROVE AwaitMatches(q)'
  <2>1. CASE q = r
      BY <1>1, <1>2, <2>1, ExecuteKeepsAwait
  <2>2. CASE q # r
      BY <1>1, <1>2, <2>2, ExecuteKeepsAwait DEF AwaitMatches
  <2>. QED  BY <2>1, <2>2
<1>3. CASE ~(\E r \in Runs : Execute(r))
    BY <1>3, OthersKeepAwait
<1>. QED  BY <1>2, <1>3

\* An execution that is resumed finds the status it left: cancellation, timers
\* and reconciliation change only rows no await of #execute relies on.
THEOREM AwaitsMatchStatuses == Spec => []AwaitMatchesStatus
<1>1. Init => AwaitMatchesStatus
    BY DEF Init, AwaitMatchesStatus
<1>. QED  BY <1>1, AwaitStep, TypeCorrect, QueueInvariant, PTL DEF Spec
-----------------------------------------------------------------------------
\* No step moves a terminal row: every transition of the code is guarded by the
\* table of packages/domain, or follows an await that a terminal row excludes.
LEMMA TerminalStep ==
    ASSUME TypeOK, AwaitMatchesStatus, [Next]_vars,
           NEW q \in Runs, status[q] \in Terminals
    PROVE  status'[q] = status[q]
<1> USE DEF TypeOK, DurableTypes, MemoryTypes
<1>1. ~Open(q) /\ status[q] \notin {"NONE", "QUEUED", "PREPARING", "RUNNING"}
    BY DEF Open, Terminals, allowedTransitions
<1>2. \A r \in Runs : AwaitMatches(r)
    BY AwaitMatchesEach
<1>3. ASSUME NEW r \in Runs, Execute(r), q # r PROVE status'[q] = status[q]
    BY <1>2, <1>3, ExecuteKeepsAwait
<1>4. CASE Execute(q)
  <2>1. CASE Enqueue(q) \/ StartTooLate(q) \/ StartExecution(q) \/ Finalize(q)
      BY <1>1, <2>1 DEF Enqueue, StartTooLate, StartExecution, Finalize, CanTransition
  <2>2. CASE AcquireLease(q) \/ PrepareCompletes(q) \/ AgentCompletes(q)
      BY <1>1, <1>2, <2>2 DEF AcquireLease, PrepareCompletes, AgentCompletes, AwaitMatches
  <2>3. CASE \/ SkipTerminalRun(q) \/ LeaseWaitFails(q) \/ PrepareFails(q)
             \/ BeginToolCall(q) \/ EndToolCall(q) \/ AgentThrows(q)
             \/ CheckpointCompletes(q) \/ CheckpointFails(q)
      BY <2>3 DEF SkipTerminalRun, LeaseWaitFails, PrepareFails, BeginToolCall, EndToolCall,
                  AgentThrows, CheckpointCompletes, CheckpointFails, durable
  <2>. QED  BY <1>4, <2>1, <2>2, <2>3 DEF Execute
<1>5. ASSUME NEW r \in Runs, CreateRun(r) \/ CreateChildRun(r)
      PROVE  status'[q] = status[q]
  <2>1. status[r] = "NONE" /\ status' = [status EXCEPT ![r] = "ACCEPTED"]
      BY <1>5, RunsAreNumbers DEF CreateRun, CreateChildRun, Admit
  <2>. QED  BY <1>1, <2>1
<1>6. ASSUME NEW r \in Runs, CancelRun(r) \/ Shutdown PROVE status'[q] = status[q]
  <2>1. PICK tree \in SUBSET Runs : \E reached \in SUBSET tree :
             CancelReaches(tree, reached) /\ Cancel(reached)
    <3>1. \A d \in Runs : CancelTree(d) \subseteq Runs
        BY DEF CancelTree
    <3>2. CASE CancelRun(r)
        BY <3>1, <3>2 DEF CancelRun
    <3>3. CASE Shutdown
        BY <3>1, <3>3 DEF Shutdown
    <3>. QED  BY <1>6, <3>2, <3>3
  <2>. QED  BY <1>1, <2>1, CancelEffect
<1>7. ASSUME NEW r \in Runs, TimeoutQueuedRun(r) \/ ReconcileRun(r)
      PROVE  status'[q] = status[q]
    BY <1>1, <1>7, TransitionEffect DEF TimeoutQueuedRun, ReconcileRun
<1>8. CASE \/ UNCHANGED vars \/ ProcessEnds \/ ReapContainers \/ Serve
           \/ \E w \in Workspaces : ExpireLease(w)
           \/ \E r \in Runs : \/ RunTimeout(r) \/ ExceedBudget(r) \/ RenewalFails(r)
                              \/ ReconcileAttempt(r)
    BY <1>8 DEF vars, durable, ProcessEnds, ReapContainers, Serve, ExpireLease,
                RunTimeout, ExceedBudget, RenewalFails, ReconcileAttempt
<1>. QED  BY <1>3, <1>4, <1>5, <1>6, <1>7, <1>8 DEF Next, Disturb, Restart

\* A run that ended stays ended as it did, whatever late callback, cancellation
\* or restart follows (appendEvent, #transition).
THEOREM TerminalStaysFinal == Spec => TerminalIsFinal
<1>1. TypeOK /\ AwaitMatchesStatus /\ [Next]_vars
      => [\A r \in Runs : status[r] \in Terminals => status'[r] = status[r]]_vars
    BY TerminalStep
<1>. QED  BY <1>1, TypeCorrect, AwaitsMatchStatuses, PTL DEF Spec, TerminalIsFinal

-----------------------------------------------------------------------------
(* The rows agree.  RowsAgree is not inductive: that a lease of a finished    *)
(* run was released needs to be known of every run on its way, and a verdict  *)
(* the state machine refuses needs to be excluded before it is committed.     *)

\* A run that never executed has no attempt.
NoAttemptBefore ==
    \A r \in Runs : status[r] \in {"NONE", "ACCEPTED", "QUEUED"} => attempt[r] = "NONE"

\* Whoever owns a lease drives its run and holds the token of the row, or was
\* orphaned, or died and waits for reconciliation.
DrivesOrOrphaned(w, r) ==
    /\ WorkspaceOf[r] = w /\ lease[w].token # 0 /\ status[r] # "NONE"
    /\ \/ status[r] = "ORPHANED"
       \/ phase \in {"down", "booting"} /\ Open(r)
       \/ Renewing(r) /\ held[r] = lease[w].token

\* The owner of every lease is such a run.
OwnersDrive ==
    \A w \in Workspaces, r \in Runs : lease[w].owner = r => DrivesOrOrphaned(w, r)

\* What the rejected promise of a refused verdict can leave is a run PREPARING.
VerdictIsAllowed ==
    \A r \in Runs : pc[r] = "releasing" =>
        \/ status[r] \in Terminals \cup {"PREPARING", "RUNNING"}
        \/ status[r] = "CHECKPOINTING" /\ terminal[r] \in {"SUCCEEDED", "FAILED", "ORPHANED"}

\* The inductive invariant of the rows, beside those of the types, queues and awaits.
RowsInv ==
    /\ AttemptFollowsRun /\ NoAttemptBefore
    /\ OwnersDrive
    /\ VerdictIsAllowed /\ OnlyPreparingIsStranded

\* What happens to the rows of a run, from the outside.
RowStep(q) ==
    \/ status'[q] = status[q] /\ attempt'[q] = attempt[q]
    \/ /\ Serving
       /\ <<status[q], status'[q]>> \in
             {<<"NONE", "ACCEPTED">>, <<"ACCEPTED", "QUEUED">>, <<"ACCEPTED", "TIMED_OUT">>,
              <<"PREPARING", "RUNNING">>, <<"RUNNING", "CHECKPOINTING">>}
       /\ attempt'[q] = attempt[q]
    \/ status[q] = "QUEUED" /\ status'[q] = "PREPARING" /\ attempt'[q] = "RUNNING"
    \/ /\ Serving /\ Open(q) /\ status'[q] \in Terminals
       /\ attempt'[q] = IF attempt[q] = "RUNNING" THEN status'[q] ELSE attempt[q]
    \/ /\ phase = "booting" /\ phase' = "booting" /\ Open(q)
       /\ IF attempt[q] = "RUNNING"
          THEN attempt'[q] = "ORPHANED" /\ status'[q] = status[q]
          ELSE attempt'[q] = attempt[q] /\ status'[q] = "ORPHANED"

\* An event with a status, on the rows of its run and of the others.
LEMMA TransitionRows ==
    ASSUME TypeOK, NEW r \in Runs, NEW to, Transition(r, to)
    PROVE  /\ status'[r] = to
           /\ attempt'[r] = IF to \in Terminals /\ attempt[r] = "RUNNING"
                            THEN to ELSE attempt[r]
           /\ \A q \in Runs \ {r} : status'[q] = status[q] /\ attempt'[q] = attempt[q]
    BY DEF Transition, Commit

\* cancelRun and shutdown reach rows only through #cancel, while they serve.
LEMMA CancelRows ==
    ASSUME TypeOK, NEW q \in Runs, Shutdown \/ \E r \in Runs : CancelRun(r)
    PROVE  RowStep(q) /\ UNCHANGED <<pc, terminal, lease, held>> /\ Serving
<1>1. PICK tree \in SUBSET Runs : \E reached \in SUBSET tree :
           CancelReaches(tree, reached) /\ Cancel(reached)
  <2>1. \A d \in Runs : CancelTree(d) \subseteq Runs
      BY DEF CancelTree
  <2>2. CASE \E r \in Runs : CancelRun(r)
      BY <2>1, <2>2 DEF CancelRun
  <2>3. CASE Shutdown
      BY <2>1, <2>3 DEF Shutdown
  <2>. QED  BY <2>2, <2>3
<1>2. PICK reached \in SUBSET tree : CancelReaches(tree, reached) /\ Cancel(reached)
    BY <1>1
<1>3. Serving
    BY DEF Shutdown, CancelRun, Serving
<1>4. ASSUME q \in reached, ~Active(q) PROVE Open(q)
    BY <1>2, <1>4 DEF CancelReaches, Refuses, CanTransition
<1>5. \/ status'[q] = status[q] /\ attempt'[q] = attempt[q]
      \/ /\ q \in reached /\ ~Active(q) /\ status'[q] = "CANCELLED"
         /\ attempt'[q] = IF attempt[q] = "RUNNING" THEN "CANCELLED" ELSE attempt[q]
    BY <1>2 DEF Cancel, Commit, Terminals
<1>6. RowStep(q)
    BY <1>3, <1>4, <1>5 DEF RowStep, Terminals
<1>. QED  BY <1>2, <1>3, <1>6 DEF Cancel

\* An execution runs only while the process serves.
LEMMA ExecutesServing ==
    ASSUME TypeOK, QueueInv, NEW r \in Runs, pc[r] # "idle"
    PROVE  Serving
    BY DEF TypeOK, MemoryTypes, QueueInv, NothingRunsBeforeServing, Serving

\* A step of an execution moves the rows of its run, along the table.
LEMMA ExecuteRows ==
    ASSUME TypeOK, QueueInv, AwaitMatchesStatus, NEW r \in Runs, Execute(r)
    PROVE  /\ RowStep(r)
           /\ \A q \in Runs \ {r} : status'[q] = status[q] /\ attempt'[q] = attempt[q]
<1> USE DEF TypeOK, DurableTypes, MemoryTypes
<1>0. AwaitMatches(r) /\ (pc[r] # "idle" => Serving)
    BY AwaitMatchesEach, ExecutesServing
<1>1. CASE Enqueue(r)
  <2>1. Open(r) => status[r] = "ACCEPTED"
      BY <1>0, <1>1 DEF Enqueue, AwaitMatches, Open, allowedTransitions
  <2>. QED  BY <1>1, <2>1 DEF Enqueue, RowStep, Serving
<1>2. CASE StartTooLate(r)
    BY <1>0, <1>2, TransitionRows DEF StartTooLate, RowStep, Terminals
<1>3. CASE StartExecution(r)
  <2>1. status[r] = "QUEUED"
      BY <1>0, <1>3 DEF StartExecution, AwaitMatches, Open, allowedTransitions
  <2>. QED  BY <1>3, <2>1 DEF StartExecution, RowStep
<1>4. CASE AcquireLease(r) \/ PrepareCompletes(r)
    BY <1>0, <1>4 DEF AcquireLease, PrepareCompletes, AwaitMatches, RowStep
<1>5. CASE AgentCompletes(r)
    BY <1>0, <1>5, TransitionRows DEF AgentCompletes, AwaitMatches, RowStep, Terminals
<1>6. CASE Finalize(r)
  <2>1. PICK cleaned \in BOOLEAN :
             IF CanTransition(r, Verdict(r, cleaned))
             THEN Transition(r, Verdict(r, cleaned))
             ELSE UNCHANGED <<status, attempt>>
      BY <1>6 DEF Finalize
  <2>2. Serving /\ Verdict(r, cleaned) \in Terminals
      BY <1>0, <1>6 DEF Finalize, Verdict, Terminals
  <2>3. CASE CanTransition(r, Verdict(r, cleaned))
      BY <2>1, <2>2, <2>3, TransitionRows DEF CanTransition, RowStep
  <2>. QED  BY <2>1, <2>3 DEF RowStep
<1>7. CASE \/ SkipTerminalRun(r) \/ LeaseWaitFails(r) \/ PrepareFails(r) \/ BeginToolCall(r)
           \/ EndToolCall(r) \/ AgentThrows(r) \/ CheckpointCompletes(r) \/ CheckpointFails(r)
    BY <1>7 DEF SkipTerminalRun, LeaseWaitFails, PrepareFails, BeginToolCall, EndToolCall,
                AgentThrows, CheckpointCompletes, CheckpointFails, durable, RowStep
<1>. QED  BY <1>1, <1>2, <1>3, <1>4, <1>5, <1>6, <1>7 DEF Execute

\* Every step moves the rows of a run like that.
LEMMA RowsStep ==
    ASSUME TypeOK, QueueInv, AwaitMatchesStatus, [Next]_vars, NEW q \in Runs
    PROVE  RowStep(q)
<1> USE DEF TypeOK, DurableTypes, MemoryTypes
<1>1. ASSUME NEW r \in Runs, Execute(r) PROVE RowStep(q)
    BY <1>1, ExecuteRows DEF RowStep
<1>2. ASSUME NEW r \in Runs, CreateRun(r) \/ CreateChildRun(r) PROVE RowStep(q)
  <2>1. /\ Serving /\ status[r] = "NONE"
        /\ status' = [status EXCEPT ![r] = "ACCEPTED"] /\ attempt' = attempt
      BY <1>2, RunsAreNumbers DEF CreateRun, CreateChildRun, Admit, Serving
  <2>. QED  BY <2>1 DEF RowStep
<1>3. CASE Shutdown \/ \E r \in Runs : CancelRun(r)
    BY <1>3, CancelRows
<1>4. ASSUME NEW r \in Runs, TimeoutQueuedRun(r) PROVE RowStep(q)
  <2>1. Serving /\ Open(r)
      BY <1>4 DEF TimeoutQueuedRun, Open, allowedTransitions
  <2>. QED  BY <1>4, <2>1, TransitionRows DEF TimeoutQueuedRun, RowStep, Terminals
<1>5. ASSUME NEW r \in Runs, ReconcileAttempt(r) PROVE RowStep(q)
    BY <1>5 DEF ReconcileAttempt, RowStep
<1>6. ASSUME NEW r \in Runs, ReconcileRun(r) PROVE RowStep(q)
    BY <1>6, TransitionRows DEF ReconcileRun, RowStep
<1>7. CASE \/ UNCHANGED vars \/ ProcessEnds \/ ReapContainers \/ Serve
           \/ \E w \in Workspaces : ExpireLease(w)
           \/ \E r \in Runs : RunTimeout(r) \/ ExceedBudget(r) \/ RenewalFails(r)
    BY <1>7 DEF vars, durable, ProcessEnds, ReapContainers, Serve, ExpireLease,
                RunTimeout, ExceedBudget, RenewalFails, RowStep
<1>. QED  BY <1>1, <1>2, <1>3, <1>4, <1>5, <1>6, <1>7 DEF Next, Disturb, Restart

-----------------------------------------------------------------------------
\* The rows of a run and of its attempt part only in a torn reconciliation, which
\* the next startup resumes.
LEMMA AttemptStep ==
    ASSUME TypeOK, QueueInv, AwaitMatchesStatus, AttemptFollowsRun, NoAttemptBefore,
           [Next]_vars
    PROVE  AttemptFollowsRun' /\ NoAttemptBefore'
<1>0. TypeOK'
    BY TypeStep
<1>1. ASSUME NEW q \in Runs, attempt[q] \in Terminals, Open(q)
      PROVE  phase' \in {"down", "booting"}
  <2>1. phase \in {"down", "booting"} /\ attempt[q] = "ORPHANED"
      BY <1>1 DEF AttemptFollowsRun, Open, Terminals, allowedTransitions
  <2>2. ~Serving /\ \A r \in Runs : pc[r] = "idle"
      BY <2>1 DEF QueueInv, NothingRunsBeforeServing, Serving
  <2>3. ~(\E r \in Runs : Execute(r))
      BY <2>2 DEF Execute, Enqueue, SkipTerminalRun, StartTooLate, StartExecution, AcquireLease,
                  LeaseWaitFails, PrepareCompletes, PrepareFails, BeginToolCall, EndToolCall,
                  AgentCompletes, AgentThrows, CheckpointCompletes, CheckpointFails, Finalize
  <2>4. ~Shutdown /\ ~Serve
      BY <1>1, <2>1 DEF Shutdown, Serve
  <2>. QED  BY <2>1, <2>2, <2>3, <2>4
            DEF Next, Disturb, Restart, CreateRun, CreateChildRun, Admit, CancelRun,
                TimeoutQueuedRun, RunTimeout, ExceedBudget, RenewalFails, ExpireLease,
                ProcessEnds, ReapContainers, ReconcileAttempt, ReconcileRun, vars, Renewing
<1>2. ASSUME NEW q \in Runs
      PROVE  /\ attempt'[q] = "RUNNING" => Open(q)'
             /\ attempt'[q] \in Terminals =>
                   \/ status'[q] = attempt'[q]
                   \/ attempt'[q] = "ORPHANED" /\ Open(q)' /\ phase' \in {"down", "booting"}
             /\ status'[q] \in {"NONE", "ACCEPTED", "QUEUED"} => attempt'[q] = "NONE"
  <2>1. /\ attempt[q] = "RUNNING" => Open(q)
        /\ attempt[q] \in Terminals =>
              status[q] = attempt[q] \/ (attempt[q] = "ORPHANED" /\ Open(q))
        /\ status[q] \in {"NONE", "ACCEPTED", "QUEUED"} => attempt[q] = "NONE"
        /\ attempt[q] \in Terminals \cup {"NONE", "RUNNING"}
      BY DEF AttemptFollowsRun, NoAttemptBefore, TypeOK, DurableTypes
  <2>2. CASE status'[q] = status[q] /\ attempt'[q] = attempt[q]
      BY <1>1, <2>1, <2>2 DEF Open, Terminals
  <2>3. CASE /\ Serving
             /\ <<status[q], status'[q]>> \in
                   {<<"NONE", "ACCEPTED">>, <<"ACCEPTED", "QUEUED">>, <<"ACCEPTED",
                                                                        "TIMED_OUT">>,
                    <<"PREPARING", "RUNNING">>, <<"RUNNING", "CHECKPOINTING">>}
             /\ attempt'[q] = attempt[q]
      BY <1>1, <2>1, <2>3 DEF Open, Terminals, allowedTransitions
  <2>4. CASE status[q] = "QUEUED" /\ status'[q] = "PREPARING" /\ attempt'[q] = "RUNNING"
      BY <2>4 DEF Open, Terminals, allowedTransitions
  <2>5. CASE /\ Serving /\ Open(q) /\ status'[q] \in Terminals
             /\ attempt'[q] = IF attempt[q] = "RUNNING" THEN status'[q] ELSE attempt[q]
    <3>1. attempt[q] \notin Terminals
        BY <2>5 DEF AttemptFollowsRun, Serving, Open, Terminals, allowedTransitions
    <3>. QED  BY <2>1, <2>5, <3>1 DEF Terminals
  <2>6. CASE /\ phase = "booting" /\ phase' = "booting" /\ Open(q)
             /\ IF attempt[q] = "RUNNING"
                THEN attempt'[q] = "ORPHANED" /\ status'[q] = status[q]
                ELSE attempt'[q] = attempt[q] /\ status'[q] = "ORPHANED"
      BY <2>1, <2>6 DEF Open, Terminals, allowedTransitions
  <2>. QED  BY <2>2, <2>3, <2>4, <2>5, <2>6, RowsStep DEF RowStep
<1>. QED  BY <1>2 DEF AttemptFollowsRun, NoAttemptBefore

-----------------------------------------------------------------------------
\* What a step of an execution does with leases: it gets one, gives its own up,
\* or leaves them alone and keeps renewing.
LEMMA ExecuteLease ==
    ASSUME TypeOK, NEW r \in Runs, Execute(r)
    PROVE  /\ \/ AcquireLease(r)
              \/ Active(r) /\ \E verdict : BeginRelease(r, verdict)
              \/ UNCHANGED <<lease, held>> /\ (Renewing(r) => Renewing(r)')
           /\ phase' = phase
           /\ \A q \in Runs \ {r} : pc'[q] = pc[q]
<1> USE DEF TypeOK, MemoryTypes, durable, memory
<1>1. CASE \/ Enqueue(r) \/ SkipTerminalRun(r) \/ StartTooLate(r) \/ StartExecution(r)
           \/ BeginToolCall(r) \/ EndToolCall(r) \/ PrepareCompletes(r) \/ Finalize(r)
    BY <1>1 DEF Enqueue, SkipTerminalRun, Settle, StartTooLate, StartExecution,
                BeginToolCall, EndToolCall, PrepareCompletes, Finalize, Renewing, Lease!Mutate
<1>2. CASE AcquireLease(r)
    BY <1>2 DEF AcquireLease
<1>3. CASE \/ LeaseWaitFails(r) \/ PrepareFails(r)
           \/ CheckpointCompletes(r) \/ CheckpointFails(r)
    BY <1>3 DEF LeaseWaitFails, PrepareFails, CheckpointCompletes, CheckpointFails,
                BeginRelease,
                Active
<1>4. ASSUME NEW verdict, Finish(r, verdict)
      PROVE  /\ \/ \E v : BeginRelease(r, v)
                \/ UNCHANGED <<lease, held>> /\ Renewing(r)'
             /\ phase' = phase
             /\ \A q \in Runs \ {r} : pc'[q] = pc[q]
    BY <1>4 DEF Finish, BeginCheckpoint, BeginRelease, Renewing
<1>5. CASE AgentCompletes(r) \/ AgentThrows(r)
    BY <1>4, <1>5 DEF AgentCompletes, AgentThrows, Active
<1>. QED  BY <1>1, <1>2, <1>3, <1>5 DEF Execute

\* The lease that a run acquires names it and the token it keeps.
LEMMA AcquireKeepsOwners ==
    ASSUME TypeOK, OwnersDrive, AwaitMatchesStatus, NEW r \in Runs, AcquireLease(r),
           NEW w \in Workspaces, NEW q \in Runs, lease'[w].owner = q
    PROVE  DrivesOrOrphaned(w, q)'
<1>0. /\ lease \in [Workspaces -> Lease!Row]
      /\ held \in [Runs -> Nat]
      /\ status \in [Runs -> Statuses \cup {"NONE"}]
      /\ pc \in [Runs -> Awaits]
    BY DEF TypeOK, Lease!LeaseTypeOK, DurableTypes, MemoryTypes
<1>1. status[r] = "PREPARING" /\ pc[r] = "leasing"
    BY AwaitMatchesEach DEF AcquireLease, AwaitMatches
<1>2. /\ \A p \in Runs \ {r} : status'[p] = status[p] /\ pc'[p] = pc[p]
      /\ status'[r] # "NONE" /\ Renewing(r)' /\ phase' = phase
    BY <1>0, <1>1 DEF AcquireLease, Renewing
<1>3. /\ lease' = [lease EXCEPT ![WorkspaceOf[r]] = Lease!Granted(@, r)]
      /\ held' = [held EXCEPT ![r] = Lease!Granted(lease[WorkspaceOf[r]], r).token]
      /\ WorkspaceOf[r] \in Workspaces
    BY RunAssumption DEF AcquireLease, Lease!Acquire
<1>4. CASE w = WorkspaceOf[r]
  <2>1. lease'[w].owner = r /\ held'[r] = lease'[w].token
      BY <1>0, <1>3, <1>4 DEF Lease!Granted
  <2>2. lease'[w].token # 0
    <3>1. lease[w].token \in Nat
        BY <1>0 DEF Lease!Row
    <3>2. CASE lease[w].owner = r
      <4>1. lease[w].token # 0
          BY <3>2, RunsAreNumbers DEF OwnersDrive, DrivesOrOrphaned
      <4>. QED  BY <1>0, <1>3, <1>4, <3>1, <4>1 DEF Lease!Granted
    <3>3. CASE lease[w].owner # r
        BY <1>0, <1>3, <1>4, <3>1, <3>3 DEF Lease!Granted
    <3>. QED  BY <3>2, <3>3
  <2>. QED  BY <1>2, <1>4, <2>1, <2>2 DEF DrivesOrOrphaned
<1>5. CASE w # WorkspaceOf[r]
  <2>1. lease'[w] = lease[w]
      BY <1>0, <1>3, <1>5
  <2>2. DrivesOrOrphaned(w, q)
      BY <2>1 DEF OwnersDrive
  <2>3. q # r
      BY <1>5, <2>2 DEF DrivesOrOrphaned
  <2>4. held'[q] = held[q] /\ status'[q] = status[q] /\ pc'[q] = pc[q] /\ phase' = phase
      BY <1>0, <1>2, <1>3, <2>2, <2>3
  <2>. QED  BY <2>1, <2>2, <2>4 DEF DrivesOrOrphaned, Renewing, Open
<1>. QED  BY <1>4, <1>5

\* The finally block of #execute leaves no lease with its run.
LEMMA ReleaseKeepsOwners ==
    ASSUME TypeOK, QueueInv, OwnersDrive, AwaitMatchesStatus, NEW r \in Runs, Execute(r),
           Active(r), NEW verdict, BeginRelease(r, verdict),
           NEW w \in Workspaces, NEW q \in Runs, lease'[w].owner = q
    PROVE  DrivesOrOrphaned(w, q)'
<1>0. /\ lease \in [Workspaces -> Lease!Row] /\ held \in [Runs -> Nat]
      /\ WorkspaceOf[r] \in Workspaces /\ q # NoRun
    BY RunsAreNumbers DEF TypeOK, Lease!LeaseTypeOK
<1>1. \A row \in Lease!Row : Lease!Released(row).owner = NoRun
    BY DEF Lease!Released, Lease!Row
<1>2. /\ phase' = phase /\ held' = [held EXCEPT ![r] = 0]
      /\ \A p \in Runs \ {r} : pc'[p] = pc[p]
    BY DEF BeginRelease, TypeOK, MemoryTypes
<1>3. lease'[w] = lease[w]
  <2>1. lease' = lease \/ lease' = [lease EXCEPT ![WorkspaceOf[r]] = Lease!Released(@)]
      BY DEF BeginRelease
  <2>2. CASE /\ lease' = [lease EXCEPT ![WorkspaceOf[r]] = Lease!Released(@)]
             /\ w = WorkspaceOf[r]
    <3>1. lease'[w] = Lease!Released(lease[w]) /\ lease[w] \in Lease!Row
        BY <1>0, <2>2
    <3>. QED  BY <1>0, <1>1, <3>1
  <2>. QED  BY <1>0, <2>1, <2>2
<1>4. DrivesOrOrphaned(w, q)
    BY <1>3 DEF OwnersDrive
<1>5. CASE q = r
  <2>1. status[r] # "ORPHANED"
      BY AwaitMatchesEach DEF Active, AwaitMatches
  <2>2. phase \notin {"down", "booting"}
      BY DEF QueueInv, NothingRunsBeforeServing, Active
  <2>3. held[r] # 0 /\ lease[w].token = held[r] /\ w = WorkspaceOf[r]
      BY <1>4, <1>5, <2>1, <2>2 DEF DrivesOrOrphaned
  <2>4. lease' = [lease EXCEPT ![w] = Lease!Released(@)]
      BY <1>3, <1>5, <2>3 DEF BeginRelease, Lease!Releasable, Row
  <2>5. lease'[w] = Lease!Released(lease[w]) /\ lease[w] \in Lease!Row
      BY <1>0, <2>4
  <2>. QED  BY <1>0, <1>1, <2>5
<1>6. CASE q # r
  <2>1. status'[q] = status[q]
      BY <1>6, ExecuteRows
  <2>2. pc'[q] = pc[q] /\ held'[q] = held[q]
      BY <1>0, <1>2, <1>6
  <2>. QED  BY <1>2, <1>3, <1>4, <2>1, <2>2 DEF DrivesOrOrphaned, Renewing, Open
<1>. QED  BY <1>5, <1>6

\* Whatever happens, an owner drives its run, waits for reconciliation or is ORPHANED.
LEMMA OwnersStep ==
    ASSUME TypeOK, QueueInv, AwaitMatchesStatus, OwnersDrive, [Next]_vars
    PROVE  OwnersDrive'
<1>0. SUFFICES ASSUME NEW w \in Workspaces, NEW q \in Runs, lease'[w].owner = q
               PROVE  DrivesOrOrphaned(w, q)'
    BY DEF OwnersDrive
<1>1. ASSUME lease'[w].owner = lease[w].owner, lease'[w].token = lease[w].token,
             \/ held'[q] = held[q] /\ (Renewing(q) => Renewing(q)')
             \/ phase' = "down" /\ status' = status,
             phase \in {"down", "booting"} => phase' \in {"down", "booting"} \/ ~Open(q)
      PROVE  DrivesOrOrphaned(w, q)'
  <2>1. DrivesOrOrphaned(w, q) /\ RowStep(q)
      BY <1>0, <1>1, RowsStep DEF OwnersDrive
  <2>2. status[q] = "ORPHANED" => status'[q] = "ORPHANED"
      BY TerminalStep DEF Terminals
  <2>3. status'[q] # "NONE"
      BY <2>1, <2>2 DEF RowStep, DrivesOrOrphaned, Open, Terminals, allowedTransitions
  <2>4. CASE phase \in {"down", "booting"} /\ Open(q)
    <3>1. status'[q] = "ORPHANED" \/ Open(q)'
        BY <2>1, <2>4 DEF RowStep, Serving, Open, Terminals, allowedTransitions
    <3>. QED  BY <1>1, <2>1, <2>3, <2>4, <3>1 DEF DrivesOrOrphaned
  <2>5. CASE Renewing(q) /\ held[q] = lease[w].token
    <3>1. CASE phase' = "down" /\ status' = status
      <4>1. Open(q)
          BY <2>5, AwaitMatchesEach DEF Renewing, AwaitMatches, Open, allowedTransitions
      <4>. QED  BY <1>1, <2>1, <2>3, <3>1, <4>1 DEF DrivesOrOrphaned, Open
    <3>2. CASE held'[q] = held[q] /\ Renewing(q)'
        BY <1>1, <2>1, <2>3, <2>5, <3>2 DEF DrivesOrOrphaned
    <3>. QED  BY <1>1, <2>5, <3>1, <3>2
  <2>. QED  BY <1>1, <2>1, <2>2, <2>3, <2>4, <2>5 DEF DrivesOrOrphaned
<1>2. ASSUME NEW r \in Runs, Execute(r) PROVE DrivesOrOrphaned(w, q)'
  <2>1. CASE AcquireLease(r)
      BY <1>0, <2>1, AcquireKeepsOwners
  <2>2. CASE Active(r) /\ \E verdict : BeginRelease(r, verdict)
      BY <1>0, <1>2, <2>2, ReleaseKeepsOwners
  <2>3. CASE UNCHANGED <<lease, held>> /\ (Renewing(r) => Renewing(r)')
    <3>1. phase' = phase /\ (Renewing(q) => Renewing(q)')
        BY <1>2, <2>3, ExecuteLease DEF Renewing
    <3>. QED  BY <1>1, <2>3, <3>1
  <2>. QED  BY <1>2, <2>1, <2>2, <2>3, ExecuteLease
<1>3. ASSUME NEW r \in Runs, Disturb(r) PROVE DrivesOrOrphaned(w, q)'
  <2>1. CASE CreateRun(r) \/ CreateChildRun(r)
    <3>1. status[r] = "NONE" /\ pc' = [pc EXCEPT ![r] = "scheduled"]
        BY <2>1, RunsAreNumbers DEF CreateRun, CreateChildRun, Admit
    <3>2. Renewing(q) => Renewing(q)'
        BY <3>1 DEF Renewing, QueueInv, KnownRunsExist, TypeOK, MemoryTypes
    <3>. QED  BY <1>1, <2>1, <3>2 DEF CreateRun, CreateChildRun, Admit
  <2>2. CASE \/ CancelRun(r) \/ TimeoutQueuedRun(r) \/ RunTimeout(r) \/ ExceedBudget(r)
             \/ RenewalFails(r)
    <3>1. UNCHANGED <<lease, held, phase, pc>>
        BY <2>2 DEF CancelRun, Cancel, TimeoutQueuedRun, RunTimeout, ExceedBudget,
                    RenewalFails, durable, memory
    <3>. QED  BY <1>1, <3>1 DEF Renewing
  <2>. QED  BY <1>3, <2>1, <2>2 DEF Disturb
<1>4. ASSUME NEW v \in Workspaces, ExpireLease(v) PROVE DrivesOrOrphaned(w, q)'
  <2>1. lease'[w].owner = lease[w].owner /\ lease'[w].token = lease[w].token
      BY <1>4 DEF ExpireLease, Lease!Expire, TypeOK, Lease!LeaseTypeOK, Lease!Row
  <2>2. UNCHANGED <<held, pc, phase>>
      BY <1>4 DEF ExpireLease, Lease!Expire, memory
  <2>. QED  BY <1>1, <2>1, <2>2 DEF Renewing
<1>5. CASE ProcessEnds
    BY <1>1, <1>5 DEF ProcessEnds, durable
<1>6. CASE Shutdown \/ ReapContainers \/ Serve \/ UNCHANGED vars
    BY <1>1, <1>6 DEF Shutdown, Cancel, ReapContainers, Serve, durable, memory, vars, Renewing
<1>7. ASSUME NEW r \in Runs, ReconcileAttempt(r) \/ ReconcileRun(r)
      PROVE  DrivesOrOrphaned(w, q)'
    BY <1>1, <1>7 DEF ReconcileAttempt, ReconcileRun, memory, Renewing
<1>. QED  BY <1>2, <1>3, <1>4, <1>5, <1>6, <1>7 DEF Next, Restart

-----------------------------------------------------------------------------
\* A verdict that waits for releaseRun is one the state machine accepts, or its run is
\* still PREPARING.
VerdictFits(r) ==
    pc[r] = "releasing" =>
        \/ status[r] \in Terminals \cup {"PREPARING", "RUNNING"}
        \/ status[r] = "CHECKPOINTING" /\ terminal[r] \in {"SUCCEEDED", "FAILED", "ORPHANED"}

\* Nothing but its execution moves a run from one await to the next.
LEMMA OthersLeaveAwaits ==
    ASSUME TypeOK, QueueInv, [Next]_vars, ~(\E r \in Runs : Execute(r)), NEW q \in Runs
    PROVE  \/ pc'[q] = "scheduled"
           \/ phase' \in {"down", "booting"} /\ pc'[q] = "idle"
           \/ pc'[q] = "idle" /\ ~Open(q)'
           \/ /\ pc'[q] = pc[q] /\ terminal'[q] = terminal[q]
              /\ phase' = phase \/ phase' = "draining"
              /\ status'[q] = status[q] \/ status'[q] \in Terminals
<1> USE DEF TypeOK, DurableTypes, MemoryTypes
<1>1. ASSUME NEW r \in Runs, CreateRun(r) \/ CreateChildRun(r)
      PROVE  \/ pc'[q] = "scheduled"
             \/ pc'[q] = pc[q] /\ terminal' = terminal /\ status'[q] = status[q] /\ phase' = phase
    BY <1>1 DEF CreateRun, CreateChildRun, Admit
<1>2. CASE Shutdown \/ \E r \in Runs : CancelRun(r)
  <2>1. UNCHANGED <<pc, terminal>> /\ (phase' = phase \/ phase' = "draining")
      BY <1>2 DEF Shutdown, CancelRun, Cancel
  <2>2. status'[q] = status[q] \/ status'[q] = "CANCELLED"
    <3>1. PICK reached : Cancel(reached)
        BY <1>2 DEF Shutdown, CancelRun
    <3>. QED  BY <3>1 DEF Cancel, Commit
  <2>. QED  BY <2>1, <2>2 DEF Terminals
<1>3. ASSUME NEW r \in Runs, TimeoutQueuedRun(r)
      PROVE  /\ UNCHANGED <<pc, terminal, phase>>
             /\ status'[q] = status[q] \/ status'[q] = "TIMED_OUT"
    BY <1>3, TransitionRows DEF TimeoutQueuedRun, memory
<1>4. CASE \/ UNCHANGED vars \/ \E w \in Workspaces : ExpireLease(w)
           \/ \E r \in Runs : RunTimeout(r) \/ ExceedBudget(r) \/ RenewalFails(r)
    BY <1>4 DEF vars, durable, memory, ExpireLease, RunTimeout, ExceedBudget, RenewalFails
<1>5. CASE ProcessEnds
    BY <1>5 DEF ProcessEnds
<1>6. CASE Restart
  <2>1. pc'[q] = "idle"
      BY <1>6 DEF Restart, ReapContainers, Serve, ReconcileAttempt, ReconcileRun, memory,
                  QueueInv, NothingRunsBeforeServing
  <2>2. CASE Serve
      BY <2>1, <2>2 DEF Serve, durable, Open
  <2>3. CASE ~Serve
      BY <1>6, <2>1, <2>3 DEF Restart, ReapContainers, ReconcileAttempt, ReconcileRun
  <2>. QED  BY <2>2, <2>3
<1>. QED  BY <1>1, <1>2, <1>3, <1>4, <1>5, <1>6 DEF Next, Disturb, Terminals

\* A verdict is decided only where the state machine will allow it.
LEMMA VerdictStep ==
    ASSUME TypeOK, QueueInv, AwaitMatchesStatus, VerdictIsAllowed, [Next]_vars
    PROVE  VerdictIsAllowed'
<1> USE DEF TypeOK, DurableTypes, MemoryTypes
<1>0. \A q \in Runs : VerdictFits(q) /\ AwaitMatches(q)
    BY AwaitMatchesEach DEF VerdictIsAllowed, VerdictFits
<1>1. SUFFICES ASSUME NEW q \in Runs PROVE VerdictFits(q)'
    BY DEF VerdictIsAllowed, VerdictFits
<1>2. ASSUME NEW r \in Runs, Execute(r), q # r PROVE VerdictFits(q)'
    BY <1>0, <1>2, ExecuteKeepsAwait DEF VerdictFits
<1>3. CASE Execute(q)
  <2>1. CASE StartTooLate(q)
      BY <2>1, TransitionRows DEF StartTooLate, VerdictFits, Terminals
  <2>2. CASE LeaseWaitFails(q) \/ PrepareFails(q)
      BY <1>0, <2>2 DEF LeaseWaitFails, PrepareFails, AwaitMatches, VerdictFits
  <2>3. CASE CheckpointCompletes(q) \/ CheckpointFails(q)
      BY <1>0, <2>3 DEF CheckpointCompletes, CheckpointFails, BeginRelease, AwaitMatches,
                        VerdictFits
  <2>4. CASE AgentThrows(q)
      BY <1>0, <2>4 DEF AgentThrows, AwaitMatches, VerdictFits
  <2>5. CASE AgentCompletes(q)
    <3>1. CASE ~Managed
        BY <1>0, <2>5, <3>1 DEF AgentCompletes, AwaitMatches, VerdictFits
    <3>2. CASE Managed
        BY <1>0, <2>5, <3>2, TransitionRows
        DEF AgentCompletes, Finish, BeginCheckpoint, BeginRelease, VerdictFits
    <3>. QED  BY <3>1, <3>2
  <2>6. CASE \/ Enqueue(q) \/ SkipTerminalRun(q) \/ StartExecution(q) \/ AcquireLease(q)
             \/ PrepareCompletes(q) \/ BeginToolCall(q) \/ EndToolCall(q) \/ Finalize(q)
    <3>1. pc'[q] # "releasing"
        BY <2>6 DEF Enqueue, SkipTerminalRun, Settle, StartExecution, AcquireLease,
                    PrepareCompletes, BeginToolCall, EndToolCall, Finalize, memory
    <3>. QED  BY <3>1 DEF VerdictFits
  <2>. QED  BY <1>3, <2>1, <2>2, <2>3, <2>4, <2>5, <2>6 DEF Execute
<1>4. CASE ~(\E r \in Runs : Execute(r))
    BY <1>0, <1>4, OthersLeaveAwaits DEF VerdictFits, Terminals
<1>. QED  BY <1>2, <1>3, <1>4

\* An execution whose promise is rejected leaves nothing but a run PREPARING.
LEMMA StrandedStep ==
    ASSUME TypeOK, QueueInv, AwaitMatchesStatus, VerdictIsAllowed, OnlyPreparingIsStranded,
           [Next]_vars
    PROVE  OnlyPreparingIsStranded'
<1> USE DEF TypeOK, DurableTypes, MemoryTypes
<1>1. SUFFICES ASSUME NEW q \in Runs, phase' = "serving", Open(q)', pc'[q] = "idle"
               PROVE  status'[q] = "PREPARING"
    BY DEF OnlyPreparingIsStranded
<1>2. ASSUME NEW r \in Runs, Execute(r), q # r PROVE status'[q] = "PREPARING"
  <2>1. pc[q] = "idle" /\ Open(q) /\ status'[q] = status[q] /\ phase = "serving"
      BY <1>1, <1>2, AwaitMatchesEach, ExecuteKeepsAwait, ExecuteLease DEF Open
  <2>. QED  BY <2>1 DEF OnlyPreparingIsStranded
<1>3. CASE Execute(q)
  <2>1. CASE Enqueue(q) \/ SkipTerminalRun(q)
      BY <1>1, <2>1
      DEF Enqueue, SkipTerminalRun, durable, Open, allowedTransitions
  <2>2. CASE Finalize(q)
    <3>1. VerdictFits(q) /\ pc[q] = "releasing"
        BY <2>2 DEF Finalize, VerdictIsAllowed, VerdictFits
    <3>2. PICK cleaned \in BOOLEAN :
               IF CanTransition(q, Verdict(q, cleaned))
               THEN Transition(q, Verdict(q, cleaned))
               ELSE UNCHANGED <<status, attempt>>
        BY <2>2 DEF Finalize
    <3>3. /\ Verdict(q, cleaned) \in Terminals
          /\ Verdict(q, cleaned) \in {"ORPHANED", "FAILED", terminal[q]}
        BY DEF Verdict, Terminals
    <3>4. ~CanTransition(q, Verdict(q, cleaned)) /\ status'[q] = status[q]
        BY <1>1, <3>2, <3>3, TransitionRows DEF Open, Terminals, allowedTransitions
    <3>5. status[q] \in {"PREPARING", "RUNNING", "CHECKPOINTING"}
        BY <1>1, <3>1, <3>4 DEF VerdictFits, Open, Terminals, allowedTransitions
    <3>6. CASE status[q] = "RUNNING"
        BY <3>3, <3>4, <3>6 DEF CanTransition, Open, Terminals, allowedTransitions
    <3>7. CASE status[q] = "CHECKPOINTING"
        BY <3>1, <3>3, <3>4, <3>7
        DEF VerdictFits, CanTransition, Open, Terminals, allowedTransitions
    <3>. QED  BY <3>4, <3>5, <3>6, <3>7
  <2>3. CASE \/ StartTooLate(q) \/ StartExecution(q) \/ AcquireLease(q) \/ PrepareCompletes(q)
             \/ BeginToolCall(q) \/ EndToolCall(q)
      BY <1>1, <2>3 DEF StartTooLate, StartExecution, AcquireLease, PrepareCompletes,
                        BeginToolCall,
                        EndToolCall, memory
  <2>4. CASE \/ LeaseWaitFails(q) \/ PrepareFails(q) \/ AgentCompletes(q) \/ AgentThrows(q)
             \/ CheckpointCompletes(q) \/ CheckpointFails(q)
      BY <1>1, <2>4 DEF LeaseWaitFails, PrepareFails, AgentCompletes, AgentThrows,
                        CheckpointCompletes, CheckpointFails, Finish, BeginCheckpoint,
                        BeginRelease
  <2>. QED  BY <1>3, <2>1, <2>2, <2>3, <2>4 DEF Execute
<1>4. CASE ~(\E r \in Runs : Execute(r))
  <2>1. pc'[q] = pc[q] /\ phase' = phase /\ status'[q] = status[q]
      BY <1>1, <1>4, OthersLeaveAwaits DEF Open, Terminals, allowedTransitions
  <2>. QED  BY <1>1, <2>1 DEF OnlyPreparingIsStranded, Open
<1>. QED  BY <1>2, <1>3, <1>4

-----------------------------------------------------------------------------
\* Every step keeps the invariant of the rows.
LEMMA RowsInvStep ==
    TypeOK /\ QueueInv /\ AwaitMatchesStatus /\ RowsInv /\ [Next]_vars => RowsInv'
    BY AttemptStep, OwnersStep, VerdictStep, StrandedStep DEF RowsInv

\* A run that ended cannot be driven, so its lease is gone unless it was orphaned.
LEMMA RowsInvSuffices ==
    ASSUME TypeOK, QueueInv, AwaitMatchesStatus, RowsInv
    PROVE  RowsAgree
<1>1. ASSUME NEW w \in Workspaces, lease[w].owner # NoRun, status[lease[w].owner] \in Terminals
      PROVE  status[lease[w].owner] = "ORPHANED"
  <2>1. lease[w].owner \in Runs
      BY <1>1 DEF TypeOK, Lease!LeaseTypeOK, Lease!Row
  <2>2. DrivesOrOrphaned(w, lease[w].owner) /\ AwaitMatches(lease[w].owner)
      BY <2>1, AwaitMatchesEach DEF RowsInv, OwnersDrive
  <2>. QED  BY <1>1, <2>2
            DEF DrivesOrOrphaned, Renewing, AwaitMatches, Open, Terminals, allowedTransitions
<1>. QED  BY <1>1 DEF RowsAgree, RowsInv, TerminalOwnsNoLease

\* The rows of runs, attempts and leases agree for every number of runs, whatever
\* interleaving, crash or refused verdict (appendEvent, #execute, reconciliation).
THEOREM RowsAlwaysAgree == Spec => []RowsAgree
<1>1. Init => RowsInv
    BY RunsAreNumbers
    DEF Init, Lease!LeaseInit, RowsInv, AttemptFollowsRun, NoAttemptBefore, OwnersDrive,
        VerdictIsAllowed, OnlyPreparingIsStranded, Open, allowedTransitions, Terminals
<1>. QED  BY <1>1, RowsInvStep, RowsInvSuffices, TypeCorrect, QueueInvariant,
             AwaitsMatchStatuses, PTL DEF Spec

-----------------------------------------------------------------------------
(* Cancellation through subagents, however deep they are nested.             *)

\* The parent of a run is among its ancestors, and with a run its parent.
LEMMA AncestorsGoUp ==
    ASSUME NEW d \in Runs, ParentOf[d] # NoRun
    PROVE  ParentOf[d] \in Ancestors[d] /\ Upward(Ancestors[d])
<1>1. ParentOf[d] \in Runs
    BY RunAssumption
<1>2. \A q \in Runs : ParentOf[q] # NoRun => ParentOf[q] \in Runs
    BY RunAssumption
<1>. QED  BY <1>1, <1>2 DEF Ancestors, Upward

\* They are in every set with these two properties.
LEMMA AncestorsAreLeast ==
    ASSUME NEW d \in Runs, NEW a \in Ancestors[d], NEW S \in SUBSET Runs,
           ParentOf[d] \in S, Upward(S)
    PROVE  a \in S
    BY DEF Ancestors

\* A run without a parent has none, and all of them are runs.
LEMMA AncestorsHaveType ==
    ASSUME NEW d \in Runs
    PROVE  /\ Ancestors[d] \subseteq Runs
           /\ ParentOf[d] = NoRun => Ancestors[d] = {}
    BY DEF Ancestors

\* An ancestor is the parent or an ancestor of it.
LEMMA AncestorsUnfold ==
    ASSUME NEW d \in Runs, NEW a \in Ancestors[d]
    PROVE  /\ ParentOf[d] \in Runs
           /\ a = ParentOf[d] \/ a \in Ancestors[ParentOf[d]]
<1> DEFINE p == ParentOf[d]
           S == {p} \cup Ancestors[p]
<1>1. p \in Runs
    BY AncestorsHaveType, RunAssumption
<1>2. S \in SUBSET Runs
    BY <1>1, AncestorsHaveType
<1>3. ASSUME NEW q \in S, ParentOf[q] # NoRun
      PROVE  ParentOf[q] \in S
  <2>1. CASE q = p
      BY <1>1, <1>3, <2>1, AncestorsGoUp
  <2>2. CASE q \in Ancestors[p]
    <3>1. ParentOf[p] # NoRun
        BY <1>1, <2>2, AncestorsHaveType
    <3>2. Upward(Ancestors[p])
        BY <1>1, <3>1, AncestorsGoUp
    <3>. QED  BY <1>3, <2>2, <3>2 DEF Upward
  <2>. QED  BY <2>1, <2>2
<1>4. Upward(S)
    BY <1>3 DEF Upward
<1>5. a \in S
    BY <1>2, <1>4, AncestorsAreLeast
<1>. QED  BY <1>1, <1>5

\* The ancestors of an ancestor are ancestors.
LEMMA AncestorsOfAncestors ==
    ASSUME NEW d \in Runs, NEW b \in Ancestors[d], NEW a \in Ancestors[b]
    PROVE  a \in Ancestors[d]
<1>1. b \in Runs /\ ParentOf[d] # NoRun
    BY AncestorsHaveType
<1>2. Ancestors[d] \in SUBSET Runs
    BY AncestorsHaveType
<1>3. Upward(Ancestors[d])
    BY <1>1, AncestorsGoUp
<1>4. ParentOf[b] # NoRun
    BY <1>1, AncestorsHaveType
<1>5. ParentOf[b] \in Ancestors[d]
    BY <1>3, <1>4 DEF Upward
<1>. QED  BY <1>1, <1>2, <1>3, <1>5, AncestorsAreLeast

\* The ancestors of a run are a chain.
LEMMA AncestorsAreAChain ==
    ASSUME NEW d \in Runs, NEW r \in Ancestors[d], NEW a \in Ancestors[d]
    PROVE  a = r \/ a \in Ancestors[r] \/ r \in Ancestors[a]
<1> DEFINE S == {x \in Runs : x = r \/ x \in Ancestors[r] \/ r \in Ancestors[x]}
<1>1. r \in Runs /\ a \in Runs
    BY AncestorsHaveType
<1>2. ParentOf[d] \in S
    BY AncestorsUnfold
<1>3. ASSUME NEW x \in S, ParentOf[x] # NoRun
      PROVE  ParentOf[x] \in S
  <2>1. x \in Runs /\ ParentOf[x] \in Runs
      BY <1>3, RunAssumption
  <2>2. CASE x = r
      BY <1>3, <2>1, <2>2, AncestorsGoUp
  <2>3. CASE x \in Ancestors[r]
    <3>1. ParentOf[r] # NoRun
        BY <1>1, <2>3, AncestorsHaveType
    <3>2. Upward(Ancestors[r])
        BY <1>1, <3>1, AncestorsGoUp
    <3>3. ParentOf[x] \in Ancestors[r]
        BY <1>3, <2>3, <3>2 DEF Upward
    <3>. QED  BY <2>1, <3>3
  <2>4. CASE r \in Ancestors[x]
    <3>1. r = ParentOf[x] \/ r \in Ancestors[ParentOf[x]]
        BY <2>1, <2>4, AncestorsUnfold
    <3>. QED  BY <2>1, <3>1
  <2>. QED  BY <1>3, <2>2, <2>3, <2>4
<1>4. Upward(S)
    BY <1>3 DEF Upward
<1>5. S \in SUBSET Runs
    OBVIOUS
<1>6. a \in S
    BY <1>2, <1>4, <1>5, AncestorsAreLeast
<1>. QED  BY <1>6

\* No run between r and the run d below it, nor d itself, has ended.
OpenBetween(r, d) == \A a \in {d} \cup Ancestors[d] : r \in Ancestors[a] => Open(a)

\* A run that the visit of r finds open belongs to it.
LEMMA ChildIsInTree ==
    ASSUME NEW r \in Runs, NEW d \in Runs, r \in Ancestors[d], Open(r), OpenBetween(r, d)
    PROVE  d \in CancelTree(r)
<1>1. \A a \in {d} \cup Ancestors[d] : a = r \/ r \in Ancestors[a] => Open(a)
    BY DEF OpenBetween
<1>. QED  BY <1>1 DEF CancelTree

\* A visit that comes to r from above finds it too.
LEMMA TreeGoesDown ==
    ASSUME NEW q \in Runs, NEW r \in Runs, NEW d \in Runs,
           r \in CancelTree(q), r \in Ancestors[d], OpenBetween(r, d)
    PROVE  d \in CancelTree(q)
<1>1. r = q \/ q \in Ancestors[r]
    BY DEF CancelTree
<1>2. q \in Ancestors[d]
    BY <1>1, AncestorsOfAncestors
<1>3. ASSUME NEW a \in {d} \cup Ancestors[d], a = q \/ q \in Ancestors[a]
      PROVE  Open(a)
  <2>1. CASE a = d
      BY <2>1 DEF OpenBetween
  <2>2. CASE a \in Ancestors[d]
    <3>1. a = r \/ a \in Ancestors[r] \/ r \in Ancestors[a]
        BY <2>2, AncestorsAreAChain
    <3>2. CASE r \in Ancestors[a]
        BY <2>2, <3>2 DEF OpenBetween
    <3>3. CASE a \in {r} \cup Ancestors[r]
        BY <1>3, <3>3 DEF CancelTree
    <3>. QED  BY <3>1, <3>2, <3>3
  <2>. QED  BY <2>1, <2>2
<1>. QED  BY <1>2, <1>3 DEF CancelTree

\* A run that the visit reaches takes along what the visit finds below it.
LEMMA VisitTakesChildren ==
    ASSUME NEW tree, NEW reached \in SUBSET tree,
           CancelReaches(tree, reached), NEW r \in reached, NEW d \in tree, r \in Ancestors[d]
    PROVE  d \in reached
    BY DEF CancelReaches

\* What is reached is aborted or closed.
LEMMA ReachedEnds ==
    ASSUME TypeOK, NEW reached \in SUBSET Runs, Cancel(reached), NEW d \in reached
    PROVE  status'[d] = "CANCELLED" \/ abort'[d] # "none"
<1>1. CASE Active(d)
    BY <1>1 DEF Cancel, Aborted
<1>2. CASE ~Active(d)
    BY <1>2 DEF Cancel, Commit
<1>. QED  BY <1>1, <1>2

\* cancelRun and shutdown.
LEMMA CancellationStep ==
    ASSUME TypeOK, [Next]_vars, NEW r \in Runs, NEW d \in Runs,
           abort[r] # "cancelled", abort'[r] = "cancelled", r \in Ancestors[d], OpenBetween(r, d)
    PROVE  status'[d] = "CANCELLED" \/ abort'[d] # "none"
<1>1. ASSUME NEW tree, NEW reached \in SUBSET tree, CancelReaches(tree, reached), Cancel(reached),
             tree \subseteq Runs, r \in reached => d \in tree
      PROVE  status'[d] = "CANCELLED" \/ abort'[d] # "none"
  <2>1. r \in reached
      BY <1>1 DEF Cancel
  <2>2. d \in reached
      BY <1>1, <2>1, VisitTakesChildren
  <2>. QED  BY <1>1, <2>2, ReachedEnds
<1>2. ASSUME NEW q \in Runs, CancelRun(q)
      PROVE  status'[d] = "CANCELLED" \/ abort'[d] # "none"
  <2>1. PICK reached \in SUBSET CancelTree(q) :
               CancelReaches(CancelTree(q), reached) /\ Cancel(reached)
      BY <1>2 DEF CancelRun
  <2>2. r \in reached => d \in CancelTree(q)
      BY <2>1, TreeGoesDown
  <2>3. CancelTree(q) \subseteq Runs
      BY DEF CancelTree
  <2>. QED  BY <1>1, <2>1, <2>2, <2>3
<1>3. ASSUME Shutdown
      PROVE  status'[d] = "CANCELLED" \/ abort'[d] # "none"
  <2> DEFINE pending == {q \in Runs : pc[q] # "idle" /\ Open(q)}
             tree    == UNION {CancelTree(q) : q \in pending}
  <2>1. PICK reached \in SUBSET tree : CancelReaches(tree, reached) /\ Cancel(reached)
      BY <1>3 DEF Shutdown
  <2>2. tree \subseteq Runs
      BY DEF CancelTree
  <2>3. r \in reached => d \in tree
    <3>1. ASSUME r \in reached
          PROVE  Active(r) /\ Open(r)
      <4>1. Active(r)
          BY <2>1, <3>1 DEF Cancel, Aborted
      <4>2. PICK q \in pending : r \in CancelTree(q)
          BY <2>1, <3>1
      <4>3. Open(r)
          BY <4>2 DEF CancelTree
      <4>. QED  BY <4>1, <4>3
    <3>2. ASSUME r \in reached
          PROVE  r \in pending /\ d \in CancelTree(r)
        BY <3>1, <3>2, ChildIsInTree DEF Active
    <3>. QED  BY <3>2
  <2>. QED  BY <1>1, <2>1, <2>2, <2>3
<1>4. ASSUME NEW q \in Runs, Execute(q) \/ CreateRun(q) \/ CreateChildRun(q)
             \/ TimeoutQueuedRun(q) \/ RunTimeout(q) \/ ExceedBudget(q) \/ RenewalFails(q)
      PROVE  FALSE
  <2>1. abort' \in {abort, [abort EXCEPT ![q] = "none"], [abort EXCEPT ![q] = "timeout"],
                    [abort EXCEPT ![q] = "budget"], [abort EXCEPT ![q] = Aborted(q, "leaseLost")]}
      BY <1>4
      DEF Execute, Enqueue, SkipTerminalRun, StartTooLate, StartExecution, AcquireLease,
          LeaseWaitFails, PrepareCompletes, PrepareFails, BeginToolCall, EndToolCall,
          AgentCompletes, AgentThrows, CheckpointCompletes, CheckpointFails, Finalize,
          CreateRun, CreateChildRun, Admit, Finish, BeginCheckpoint, BeginRelease,
          TimeoutQueuedRun, RunTimeout, ExceedBudget, RenewalFails, memory
  <2>2. abort \in [Runs -> Reasons]
      BY DEF TypeOK, MemoryTypes
  <2>. QED  BY <2>1, <2>2 DEF Aborted
<1>5. ASSUME ProcessEnds
      PROVE  FALSE
    BY <1>5 DEF ProcessEnds
<1>6. ASSUME abort' = abort
      PROVE  FALSE
    BY <1>6
<1>7. Restart \/ (\E w \in Workspaces : ExpireLease(w)) \/ UNCHANGED vars => abort' = abort
    BY DEF Restart, ReapContainers, Serve, ReconcileAttempt, ReconcileRun, ExpireLease, vars, memory
<1>. QED  BY <1>2, <1>3, <1>4, <1>5, <1>6, <1>7 DEF Next, Disturb

\* docs/SUBAGENTS_AND_MEMORY.md:7-8: a run is never aborted as cancelled before the open
\* runs below it, for any number of runs and families of any depth, whoever cancels and
\* however many refuse, unless a run between the two has ended (cancelRun, shutdown).
THEOREM CancellationReachesSubagents == Spec => CancelReachesDescendants
<1>1. ASSUME TypeOK, [Next]_vars
      PROVE  [\A r, d \in Runs :
                /\ abort[r] # "cancelled" /\ abort'[r] = "cancelled"
                /\ r \in Ancestors[d]
                /\ \A a \in {d} \cup Ancestors[d] : r \in Ancestors[a] => Open(a)
                => status'[d] = "CANCELLED" \/ abort'[d] # "none"]_vars
    BY <1>1, CancellationStep DEF OpenBetween
<1>. QED  BY <1>1, TypeCorrect, PTL DEF Spec, CancelReachesDescendants
=============================================================================
