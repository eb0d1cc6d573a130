# Lite-Harness: verification development

TLA+ models of Lite-Harness, the TLC runs that check them on small instances, and
theorems about them that the TLAPS proof system checks for every value of the
constants. `PROJECT.json` maps each definition to the source lines it stands for
and lists the runs, the mutants that each property rejects, the findings, the
hazards and the theorems.

    tlasany M.tla                                        # parse a module
    tlc -workers 2 -config RunPair.cfg MCRunLifecycle.tla
    tlapm RunLifecycleProofs.tla

## 1. The system

Lite-Harness runs AI agents for client applications. A *Manager* process owns an
SQLite database, workspaces (Docker volumes) and the containers of tools that
execute in them; a *Gateway* in front of it authenticates clients and forwards
requests over a local socket; a *launcher* keeps both running.

| component | state it keeps | operations | hard behaviour | modules |
|---|---|---|---|---|
| run coordinator (`packages/control-plane`, `packages/domain`) | queue tails, executions, abort controllers, approval waiters, steering; rows of runs, attempts, events | create, enqueue, execute, finalize, cancel, steer, approve, shutdown, reconcile | executions interleaved at awaits, timers, lost leases, crash and restart | RunLifecycle, RunAdmission, ChildBudgets, Approvals, Metering, SessionTranscript |
| run store (`packages/storage-sqlite`) | the database | one transaction per operation, migrations | fencing, projections that must agree, replayed requests, two openers | WorkspaceLease, RunAdmission, SchemaMigration (and the rows of the others) |
| agent runtime and providers (`packages/agent-runtime`, `packages/provider-*`) | the turn loop, routes, plans, usage | run, route, stream, record usage, refresh credentials | streams that end early, fallbacks, aborts between any two events | AgentTurn, Metering, ProviderConnections |
| tool runtime (`packages/runtime`, `packages/runtime-docker`) | container rows, live containers, volumes | run a tool, reap, reconcile, import, export | a container outlives its command and its process | ToolContainers, WorkspaceVolumes, WorkspaceArchive |
| workspace storage (`packages/workspace`) | snapshot generations, workspace rows, artifacts, caches | prepare, checkpoint, create, restore, publish, promote, collect | a crash between two renames, calls that overlap, reads that fail | SnapshotStore over SnapshotRegister, WorkspaceLifecycle, ArtifactStore, CacheCatalog |
| automation (`packages/automation`) | triggers and firings with leases | tick, claim, complete, fail | takeover after an expired lease, missed occurrences, clock changes | Automation |
| plugins (`apps/manager/src/plugin-lifecycle.ts`, `packages/plugin-core`, `packages/process-rpc`) | lockfile, package trees, pins of runs, workers, pending requests | install, upgrade, roll back, invoke, stop, recover | durable debts, versions used by old runs, workers that do not stop | PluginLifecycle, PluginPackages, PluginSupervisor, ProcessRpc |
| mcp, delegated runtime, browser | shared transports, processes, sessions | call, start, stop, close, reap | late answers, processes that outlive their caller | McpSupervisor, McpTransports, DelegatedTurn, BrowserSessions |
| integrations (`packages/integrations`) | inbound rows, outbox | route, deliver, retry | lost answers, duplicated messages, crashes in between | Integrations |
| operations, cli, launcher | instance lock, bundles, unit | acquire, export, import, start, stop | stale locks, a Manager that writes meanwhile, children that die | InstanceLock, Installation |
| credentials, gateway, manager http server, sdks | secrets, tokens, connections, streams | store, bootstrap, mint, authenticate, route, stream | state read before an await, breaks and reconnections | CredentialStore, AccessTokens, ProviderConnections, RequestRoutes, EventStream |

Clients talk to the Gateway, the Gateway to the Manager's routes; the routes call
`RunService`, which stores rows, drives `AgentRunner`, and calls the workspace
lifecycle before and after it; the agent calls tools through the broker, which
reach docker, plugins, MCP servers and browsers. Timers, exits of processes and
answers come back as callbacks. JavaScript runs a callback to its end, so in every
module **an action is the code between two awaits**, and program counters name
awaits.

What makes each component correct is listed with its module below; the hazards at
their source lines are in `PROJECT.json`.

## 2. The modules

Every module has its assumptions on constants, its state, one action per operation
or step, its properties, and where a mutant needs one, a mutated definition beside
the original. Histories (variables that record what happened for a property to
speak about) are marked in the declarations.

### Runs and their workspaces

**WorkspaceLease** - the fenced write lease: the row of `workspace_leases` and the
transactions `acquireWorkspaceLease`, `validateWorkspaceLease`,
`renewWorkspaceLease`, `releaseWorkspaceLease`, against contenders that keep a copy
of what they were granted and may act on it after it expired. Time is one bit per
row, "not expired yet"; a successful renewal is a stutter. `fence` is the last token
under which a mutation was accepted. It is also the abstract specification of the
coordinator's use of leases: `RunLifecycle` implements it (`ImplementsLease`).

**RunLifecycle** - `RunService` with the rows it moves.

| state | code |
|---|---|
| `status`, `attempt`, `lease` | `runs.status`, `run_attempts.status`, `workspace_leases` |
| `pc`, `held`, `terminal` | the await of `#execute`, its locals `lease` and `terminal` |
| `pred`, `tail` | the predecessor promise of `#enqueue`, `#queueTails` |
| `abort`, `lossSignal`, `phase` | `controller.signal.reason`, `leaseLoss.signal`, `#accepting` and whether the process lives |
| `tool` | a tool call is executing, in a container that survives the process |

| action | code |
|---|---|
| `CreateRun`, `CreateChildRun`, `Enqueue`, `SkipTerminalRun`, `TimeoutQueuedRun` | `createRun`, `createChildRun`, `#enqueue`, its continuation and its timer |
| `StartTooLate`, `StartExecution`, `AcquireLease`, `LeaseWaitFails` | head of `#execute`, `#waitForWorkspaceLease` |
| `Prepare*`, `BeginToolCall`, `EndToolCall`, `AgentCompletes`, `AgentThrows` | `prepare`, `beforeToolCall`, `agent.run` |
| `Checkpoint*`, `Finalize` | the finally block of `#execute` |
| `RunTimeout`, `ExceedBudget`, `RenewalFails`, `ExpireLease` | timers, `#enforceBudget`, the renewal interval |
| `CancelRun`, `Shutdown`, `ProcessEnds`, `ReapContainers`, `Reconcile*`, `Serve` | `cancelRun`, `shutdown`, exit or crash, startup of `apps/manager` |

Deadlines are nondeterministic. The queue key of the session is left out because the
store binds a session to one workspace, so the workspace key already orders its runs.

**RunAdmission** - the one transaction of `createOrGetRun` with the profiles and
sessions it reads and fills; **ChildBudgets** - what `createChildRun` leaves of a
budget to a family of subagents while their parent spends it; **Approvals** - one
tool call with its timer, its abort listener, `resolveApproval` of the client and
`#assertApprovalExecutable`; **Metering** - the plan of a run, its requests, and the
two places its cost is written to; **SessionTranscript** - the messages of a session
and what the model of each of its runs is told, with steering and a subagent.

**WorkspaceLifecycle** - `ManagedWorkspaceLifecycle` for one workspace: `state` is the
row, `volume` and `backup` the content of the Docker volumes, `snapshot` what a
restore returns, `pc`, `fallback`, `archive`, `aborted` the locals of `prepare`;
`base`, `untouched`, `written` remember what the next run is entitled to find.
Actions are the branches of `prepare` and `checkpoint` up to their next await, the
volume operations they call, `deleteWorkspace`, and what docker and crashes do
(`Disturbances` says which). **WorkspaceVolumes** opens those volume operations:
imports and restores through staging and backup volumes, exports, deletions and tool
calls, in which every docker command may fail, be aborted, or leave its container at
work. **WorkspaceArchive** - `validateArchiveEntries` on sequences of tar blocks,
against a reference definition of the format.

**SnapshotStore** - `LocalWorkspaceSnapshotStore`: an action is one awaited file
operation of `create`. A file holds the number of its archive or `Damaged`.
`current`, `previous`, `backup` are the generations; `staged`, `archive`, `header`,
`moved`, `pc` the locals of each call. `Restorable` is `restore`: the first generation
that verifies. What a verification computes is abstracted to "is it the archive that
was meant", as AES-GCM and the digest make it. **SnapshotRegister** is what a caller
may rely on: a value that is replaced by something newer in one step, or not at all;
the store implements it for one call at a time (`ImplementsRegister`).

**ToolContainers** - `#runTool` and `#runWorkspaceMutation`: the row, the fence, the
daemon that serves a request after its client is gone, the reap, the quota measure
(`Plan` gives the containers of each tool), and `reconcileContainers` at startup.
**ArtifactStore** - publication of a file that may be rewritten meanwhile, and its
way back. **CacheCatalog** - one cache key: population under a fenced lease, readers,
quarantine, collection.

### Services

**Automation** - one trigger with its firings, `SchedulerEngine#tick` and the runs it
creates, under a clock that moves and Managers that die, and
`nextDailyOccurrence` across a change of the zone's offset. **Integrations** -
`InboundRunRouter#route`, the rows of `integration_deliveries`,
`DeliveryCoordinator#tick`, and a receiver that may get a message although its answer
is lost.

**PluginLifecycle** - versions of one plugin with workers, pins, snapshots and debts;
**PluginPackages** - several plugins: trees, lockfile, registered tools, and the
versions runs were prepared with, one step per file written; **PluginSupervisor** -
`LazyPluginSupervisor`, calls that share a worker; **ProcessRpc** -
`JsonLineRpcClient`: ids, lines, a process that the next request starts again.

**McpSupervisor** - the calls of one MCP server over a shared transport, its backoff
and its catalogue; **McpTransports** - one transport from its creation to its reap,
over docker or HTTP. **DelegatedTurn** - a turn of Codex or Claude Code: the runner,
the generator it may abandon, its queue and its process. **AgentTurn** -
`AgentRunner.run` over `RoutedModelGateway` and the three adapters, which differ in
when they yield usage. **EventStream** - the events of one run through the Gateway to
the readers of both SDKs. **BrowserSessions** - `ManagedBrowserBroker` and its driver.

### Installation and access

**InstanceLock** - `ManagerInstanceLock`, one action per await (`PromptSpec` leaves
out Managers that stall for half a minute); **Installation** - unit, launcher,
Manager, Gateway, and bundles that are exported while the Manager may write.
**CredentialStore** - the file of keys that processes share under a lock file, in its
three kinds; **AccessTokens** - app access and run tokens, every scrypt an await;
**ProviderConnections** - logins and deletions that await the credential store between
reading a row and changing it; **RequestRoutes** - a request through Gateway and
Manager, which know different things of its bearer; **SchemaMigration** - `#migrate` of
two builds on one database, one transaction per migration.

### Compositions

`RunLifecycle` instantiates `WorkspaceLease` and `SnapshotStore` instantiates
`SnapshotRegister`, as their abstract specifications. `MCServices` and
`MCInterruptions` put components *side by side*: `focus` picks one, only that one
moves, so their states are the sum of the components' and not the product. These
components share no variables: where one calls another, the callee's answer is a
nondeterministic choice of the caller's module, over the outcomes the callee's own
module shows (a tool call of `RunLifecycle` ends when `ToolContainers` says a call
may; `WorkspaceLifecycle` restores what `SnapshotStore` may return).
`MCServices` has the snapshot store a second time (`Contended`): a checkpoint beside an
administrator, with faults, flaky reads and a damaged file, or alone with the damaged
file only.

## 3. The runs

| run | instance | asks |
|---|---|---|
| `RunPair` | two client runs of one managed workspace, with fairness | one writer at a time, first in first out, rows that agree, awaits that find the row they expect, the refinement of the lease, and that every run ends |
| `RunFamily` | a client run, its subagent and the subagent of that, each in a workspace of its own | final terminal rows, cancellation that reaches what runs below at every depth |
| `Services` | twenty-three components side by side, with crashes, failures and races of each | the safety of each: fences, accounted containers, verified generations, one firing per occurrence, budgets, owners, credentials, plugins, stored bytes |
| `Interruptions` | eleven components side by side, with fairness | replies sent once, truthful answers, accounted processes and browsers, readers that miss nothing, restorable snapshots, and that every wait ends |
| eight `violation` runs | the same modules, one property each | statements of the documentation and the tests that the code does not keep (section 4) |

A property of a composition may be a conjunction (`ProcessesAreAccounted`,
`RowsKeepTheirOwners`, `BudgetsHold`, `PluginsHold`, `StoresAreSound`, `CredentialsHold`,
`ReadersSeeTheRun`): its conjuncts are stated in the components' modules, with the code
they are about.

### Bounds

*Runs.* Each run has one attempt, one lease copy and one tool call at most, so two runs of
one workspace show every conflict over the lease, and a queue whose tail is replaced while
its head runs. Fencing tokens grow by one per acquisition and are bounded by the runs;
`WorkspaceLease` bounds them by `MaxEpoch` because its contenders acquire again and again.
Crashes and restarts of `RunLifecycle` are not bounded. The family of three is the least with
a run between two others, at which a cancellation may stop; it has no workspace lifecycle
(`Managed = FALSE`: no prepare, no checkpoint), because `RunPair` has its steps.

*Snapshots.* There are three generations, so five archives rotate every file out and leave
room for interrupted creates between; four faults interrupt all but the last of them. A
workspace has a volume and a snapshot, so four versions (0 to `MaxVersions`) tell a new
volume, the snapshot, the volume and a write that must not be lost apart.

*The others.* Two of each party that can meet (Managers, publishers, processes, openers,
sessions, plugins), or one where the second brings nothing new, and three where a third
waits behind two (calls that share a worker or a transport). Counters that the code leaves
unbounded (time, restarts, rewrites, lost answers, faults, crashes) stop at the named bound
in the guard of their action; each is at least one more than a single accident takes, so
that an accident may follow the recovery of another, except `MaxCrashes = 1` in
`WorkspaceVolumes`, whose accidents are already possible at every docker command.
Sequences of tar blocks reach four blocks, a link or long-name prefix, its data, a file and
its end, which is where the cases of the validator differ. Three runs with two bearers per
kind tell the owner, agent and workspace of a token apart.

*Symmetry.* TLC's symmetry is not used. Where identities are interchangeable the
compositions fix the first one instead: `FirstConnection`, `FirstGateway` (the first
connection, gateway or token used is a given one). `Fortunate` trims the instance of the
credential store only: two processes of which none fails, or one that may;
`InstanceLockRace` and `CredentialUpdateLost` check the two-process races with failures on
the modules themselves. `Disturbed` leaves cancelled restores and deletions out of the
focus `undisturbed`, because the finding `WorkspaceHalfRestored` refutes the property with
them.

Deadlock is checked in the runs of `RunLifecycle` and in `PublishRefused` and
`DelegatedOutlives`. It is off where the bounds, a finished behaviour or the state
`CORRUPT` end one.

### Fairness

*`RunLifecycle`.* Weak fairness of every await of an execution: callbacks run, timers fire,
awaited operations are bounded by a timeout or by their signal. Strong fairness of leaving
an aborted agent, because the tool calls of its turn come first and are finitely many, and
of reconciliation, because the Manager is not killed during every startup. Nothing makes a
client create or cancel a run, a lease expire, or a process die.

*`Interruptions`.* In every component: timers fire, a killed process is gone, callbacks
run, operations end by answer, failure or timeout. In detail:

| fairness | assumed | because |
|---|---|---|
| `IntegrationFairness` | a run of a message ends, a claimed reply's lease expires (weak); a reply is claimed, sent and marked (strong) | `RunLifecycle` ends runs; the tick is an interval, and answers are lost finitely often |
| `SupervisorFairness` | starts settle, calls end, timers and drains happen (weak); a stop succeeds (strong) | calls have deadlines; a stop is retried, and a reap fails finitely often |
| `RpcFairness` | timeouts and aborts of requests, the grace period and the failure of a reap | they are timers of the client |
| `McpFairness` | a call in progress goes on, a failed start is noticed, the idle timer fires | promises and timers |
| `AgentFairness` | turns start, the idle timeout fires, an abort is noticed, an adapter yields what it has, tool calls go on | nothing makes a provider answer |
| `StreamFairness` | relay and reader take their next step | nothing makes the run end or the Manager stay |
| `BrowserFairness` | starts, closings and operations go on, or time out | requests and docker commands have timeouts |
| `InstallationFairness` | the launcher sees an exit, kills after the grace period, ends | exits of children are events, the grace period a timer |
| `TranscriptFairness` | a parent's wait is answered or times out | the wait has a deadline |
| `TransportsFairness` | requests time out, processes are killed and reaped, stages of a stop end | timers and exits |

Nothing makes clients act, servers answer or processes crash.

`EveryWaitEnds` is one formula `[]<>(... /\ ...)` and not one `~>` per component: only one
component moves, the others rest in their initial states, and calls, processes and launches
are bounded, so a wait of the one in focus ends exactly if there is always a later state in
which nothing waits.

## 4. What the code does not keep

Eight statements of the documentation, the comments or the tests are refuted, each by one
run; `findings` in `PROJECT.json` quotes them.

1. `RunStranded`: a lease lost during `prepare` makes the finally block attempt
   `PREPARING -> ORPHANED`, which the table of `packages/domain` refuses. The run stays
   `PREPARING` until the next restart. `RowsAgree` says, and `RowsAlwaysAgree` proves, that
   this is the only way to lose a run.
2. `RunCancelLateChild`: a subagent spawned after its parent was cancelled, in the same
   turn, is not cancelled. Nor is an open one below a subagent that has ended, where
   `cancelRun` (443-445) returns: `maxSubagentDepth` is 3 by default, and
   `docs/SUBAGENTS_AND_MEMORY.md:7-8` says that cancellation propagates through descendants.
   `CancellationPropagates` speaks of both, the trace shows the first; what does hold is
   `CancelReachesDescendants`, at any depth but for the runs below one that has ended.
3. `SnapshotOverlap`: the administrator's snapshot beside a checkpoint. Header and body of
   one read come from two generations, and the good one is deleted as corrupt; two calls and
   no fault leave nothing to restore.
4. `WorkspaceHalfRestored`: a restore resumed after a crash and then cancelled falls back to
   `WARM`; the next run starts in an empty or half restored volume, and its checkpoint
   publishes that. Without the cancellation every run starts where it should
   (`UndisturbedRunsStartFromBase`, proved as `UndisturbedRunsFindTheirBase`).
5. `InstanceLockRace`: `ManagerInstanceLock.acquire` probes the owner of the lock and then
   removes the lock *by its path*; of two Managers that start beside a dead one's lock the
   slower removes the lock the faster has just taken.
6. `CredentialUpdateLost`: the same of the recovery lock of the credential file. Two processes
   write, and a value that a caller was given is written over.
7. `DelegatedOutlives`: `nextWithIdleTimeout` rejects while the generator's `return()` is not
   awaited; the run ends and releases its lease while the delegated process works on in the
   directory of the workspace.
8. `PublishRefused`: the artifact route passes `getWorkspaceLease` its two arguments in the
   other order, so every publication through the API answers 409. The test that expects 201
   stubs the method; the tool `artifact_publish` of the agent works.

### Remarks

What the models showed beside these, and why properties are no stronger than they are.

*Runs.* A run that awaits the release of its plugins has no controller any more and cannot
be cancelled from `CHECKPOINTING`; the exception of `cancelRun` also ends the cancel loop of
`shutdown` (`Refuses`). Startup does not expire the leases of the runs it orphans. An
approval of an orphaned run stays `PENDING` for ever. A family of subagents may use the root's budget once per level; a child is refused when the
usage of its parent is unknown. Steering that arrives between the release of the lease and the
terminal transition is accepted, stored and never told.

*Transcript.* A run queued behind another stores its prompt at creation, so it lands among the
earlier run's messages, even between a tool call and its result, is not last when the run
starts, and may fall out of the window of 1,000 messages. A cancelled or crashed run leaves tool
calls without results, which nothing repairs; the window may cut calls off from their
results. Steering stored before a run loads its history reaches its first turn twice.

*Metering and budgets.* `allowUnmeteredUsage` is process-wide and reaches priced models of user
connections; the Gateway bounds a request with `DEFAULT_RUN_BUDGET` where the store fills in
the agent's default; a gateway may record usage the run no longer counts; a plan evicted among
1,024 makes its run fail as already frozen.

*Workspaces.* Any error of reading the current generation but `ENOENT` deletes it before the
next one is in place. After an interrupted rotation the prior generation is lost one create
later (`PromotionKeepsPrior` speaks of promotions). A failing import marks a workspace with a
good snapshot `CORRUPT`, which nothing leaves, and the check of `deleteWorkspace` is stale when
the volume goes. Two imports, which take neither lock nor lease, may mix in one volume. A
deletion between `ensureVolume` and `docker run` lets Docker create an unlabelled volume that
later operations refuse. Staging and backup volumes of a crash are collected by nobody. A
volume lost while it is in `#readyVolumes` fails every operation until a restart. A failed
staging write of `publish()` leaves its file, and a crash between a rename and its `COMMIT` a
blob nobody collects; the same crash in the cache catalogue blocks later promotions, and its
fencing tokens restart at 1 after a collection (docs/CACHES.md:14).

*Plugins.* `install` of an installed `id@version` with other bytes deletes that version's state
snapshots. A late call of a run that was released would pin its version again. `#stdout` of the
RPC client keeps the partial line of a dead process, and an answer to a request of the server
may go to a newer process. `child.stdin` has no `error` listener.

*MCP.* A stop that fails is never retried, and a call held up by a stop skips the backoff.
`#started` outlives the process: after a silent death or one cancelled request the next request
respawns a server nobody initializes while its catalogue counts as checked; with Docker the
container's name makes that spawn fail, so one call fails and the backoff begins (docs/PLUGINS.md
says an abort stops only that server). An `initialize` whose answer is lost leaves a session at
the server, and so does one that answers 405 to DELETE. Every answer may give the session another
id (355-356); a server that does so is taken to answer under the new id alone.

*Browser.* Stopping the RPC client of a browser ends the `docker run` client (SIGKILL at once
when a request timed out, process-rpc 161-185); the container has no name, so it may live on
beside the one that the next request starts; its `server.mjs` does not exit at the end of its input.
A client that is not reaped is dropped with its driver, and silently when the start had failed
(browser 564). What is left is found by its label at the next startup and not before, although
LITE_HARNESS_ARCHITECTURE_PLAN.md:2736 has no container remain after its idle TTL. So
`BrowsersAreBounded` counts clients and not containers, and `InterruptedAreGone` says what the
startup clears. Networks and proxies are left out.

*Delegated runs, providers.* A Codex process that dies in a turn is unnoticed until the
idle timeout, and an interrupt after it spawns a new one without validating the lease. A profile
is saved by moving the old one to `.previous`, which `load` never reads; of two sessions of one
profile the last to close wins; a download published while its session closes is reported as
failed. Chat completions cut at `length` and Anthropic's `max_tokens` count as a stop where
Responses' `incomplete` is an error; registered tools ignore an aborted signal; a credential
revoked during its refresh is restored by it.

*Automation and integrations.* A tick that fails after its run was created moves the occurrence,
which then fires again; the firing row of a trigger taken over stays `CLAIMED`. A duplicated
message after a restart returns the original run except in the window between the creation of
the run and its row. Replies whose connection fails are retried without limit, and only the hundred oldest
are looked at. A 200 whose body breaks off, comes late or is no JSON, and a `markReply` that throws,
leave a row FAILED although the receiver has the reply (integrations 326-331, 518-522).

*Access.* A second Gateway with another token rotates before its `listen` fails, and revokes the
first one's tokens; concurrent bootstraps may be handed equal generations, and a slow one rotates
after one that began later, so a generation does not say which token is in force; of two starts
that each bring more scopes than the row has, the smaller may write last and leave run tokens
wider than their issuer (`OneUpgrade` excludes two such builds from `RunTokensStayNarrow`);
`authenticate` and `mint` use a row read before an await; a rotated-out token is refused for ever while run tokens
survive the rotation of their issuer. A login that races a deletion leaves a secret without a
row and answers success; a deletion cut short leaves a ready row without its secret; with a
re-created id a stale login marks the new row ready, and a stale deletion removes it. Recovery of
the credential file never reads `.bak`, so a crash between its two renames loses the other keys
at the next write; a holder of the lock that is slower than 30 s is robbed of it. Owner-wide
routes answer for the owner, not for the binding of the token.

*Installation and migration.* `recovery export` does not check the lock although
docs/RECOVERY.md asks for a stopped installation: a bundle is whole only if no Manager wrote
meanwhile (`BundleIsWhole`). SIGTERM during startup kills a child without cleanup. History is
read outside the migration's transaction and `BEGIN IMMEDIATE` does not wait, so a second opener
fails and may retry; a usage of exactly zero becomes unknown by migration 16; a session without
runs whose owner lacks its profile is dropped by migration 7.

*Events.* An event above the byte limit of a batch fails its request for ever; the Python client
does not retry an `IncompleteRead`; retries count over the whole stream.

## 5. The proofs

The theorems hold for all values of the constants that satisfy the named assumptions of the
modules (`RunAssumption`, `LeaseAssumption`, `SnapshotAssumption`, ...): numbers are natural, a
"none" value is not one of the things it stands for, parents are older than their children.
Where a theorem needs more it says so by name: `OneCaller` and `Reliable` (no damage, no flaky
reads) for the refinement of the register, no `Disturbed` step (no cancellation, no deletion)
for `RunsStartFromBase`, `OneCaller` and no faults for `OneDamageLeavesAnother`,
and, inside the properties, `OneUpgrade` for the scopes of run tokens and open runs between for
`CancelReachesDescendants`. Section 4 shows why they are needed. `SnapshotTypeCorrect` and
`GenerationsAreVerified` need none of them: any callers, damage and flaky reads. The ids of users in `MigrationAssumption` have
one to three characters, since a length is one digit there; `DailyAssumption` says that no zone
skips or repeats more than a day. Each proof module explains its
inductive invariants definition by definition. In short:

| module | theorems | inductive invariant and why it is needed |
|---|---|---|
| RunLifecycleProofs | `TypeCorrect`, `CoordinatorImplementsLease`, `OneWriterPerWorkspace`, `QueueIsFirstInFirstOut`, `QueueInvariant`, `AwaitsMatchStatuses`, `TerminalStaysFinal`, `RowsAlwaysAgree`, `CancellationReachesSubagents` | `QueueInv`: callbacks not yet fired are newer than all enqueued, the tail is the newest unsettled run, and a run with older unsettled ones is queued behind the newest of them; a tool call belongs to a running agent or to a dead process. `RowsInv`: an execution that is resumed finds the status and the attempt it left, a terminal run has no lease. For the cancellation: every child of a run in the tree that `cancelRun` walks is visited after it, whatever the order of the rows |
| WorkspaceProofs | `LeaseTypeCorrect`, `EpochsUnique`, `FencingMonotone`, `GrantsFenced`, `NewOwnerStartsEpoch`, `LifecycleTypeCorrect`, `RowAlwaysFollowsRun`, `ColdAlwaysHoldsTheVolume`, `RunsStartFromBase`, `ToolWorkStaysAccounted` | `LeaseInv`: a copy is at most the row's token, and one with that token is the owner's. `LifecycleInv`, `ContentInv`: no await of a checkpoint admits a change of what it exported; outside a restore the volume holds the base or is gone. `ContainersInv`: a container that lives was recorded, or its daemon request is on its way. `VolumesInv`: at each await of an import or a deletion, which volume holds the bytes of the workspace. `ArtifactInv`: a row follows its blob, and what is staged is its publisher's |
| SnapshotStoreProofs | `SnapshotTypeCorrect`, `LatestStaysRestorable`, `PromotionLeavesPrior`, `StoreImplementsRegister`, `GenerationsAreVerified`, `OneDamageLeavesAnother` | `StoreInv`: which of the three files holds the last promotion at each await, and that what waits is newer. `VerifiedInv`: what is staged past its verification is an archive, for any number of callers. `SerialInv`: which other file is whole when one decays |
| ServiceProofs | `SchedulesFireOnce`, `SchedulesFireDaily`, `WaitersAgreeWithRows`, `ApprovalsAreExecutedAsGiven`, `HeldEntriesStay`, `OldRowsStay` | `AutomationInv`: a tick works on the occurrence it claimed and the next lies beyond all that fired. `DailyInv`: what was served is what the corrections settle on for its local time; six of them settle on one of two instants, whatever the zone does. `ApprovalInv`: a resolved promise carries what its row says. `CacheInv`: a reader's entry is listed or quarantined under it, tokens of populations differ. `StoreInv`: the lock is of the one that works, and between two renames of a write what the file misses is in its backup or with the writer. `TokensInv`: one app token is in force from the first rotation on, and a start that waits for its scrypt finds the scopes that it saw or brings. `ConnectionInv`: an operation nobody disturbed finds the row that it read, and a secret its row. `AdmissionInv`: a session has one profile and one workspace, those of its runs. `RoutesInv`: at each await of a request, what it is about to use was compared with the binding of its token. `MigrationInv`: a version says which of the rewritings each old row went through, an opener's next one is at most one ahead, and the owner parsed from a key is the owner it was put together with. `ArchiveInv`: a reader at a block of an archive has followed the one layout that fits so far. `BudgetInv`: what a level was given and what is left over above it are the level above. `MeteringInv`: each cost is in the ledger before it reaches the run. `FamilyBounds`, `CatalogBounds`, `KeyBounds`, `FailureBounds`: what the types need beyond these |
| AgentProofs | `AgentsAskOnce`, `ToolsNeedWholeAnswers`, `SessionsStayAccounted`, `DriversStayWithOperations`, `ReadersMissNothing`, `TranscriptStaysSound` | `AskingInv`: what was accepted is visible, an instruction that waits was not read. `ToolsInv`: tools belong to an answer that came to its end. `BrowserInv`: sessions, rows, drivers and clients at each step of a start or a close. `StreamInv`: frames, page and cursor have no gap between them. `TranscriptInv`: runs of a session follow one another, an instruction is in the inbox, taken or in the messages, each call waits for its own answer; and the message that a run is told next has the rank in the messages that it keeps which the number of messages it was told says, so that an append by another run moves nothing |
| ProcessProofs | `MessagesAreDeliveredOnce`, `RequestsSettleTruthfully`, `AnswersComeVerified`, `DelegatedRunsSucceedAsReported` | `IntegrationInv`: what the receiver has got and what the row, the tick in progress and the replies given up say add up. `RpcInv`: ids are unique over all processes, and the live one is the last spawned. `McpInv`: a lease of a transport that answers was validated. `DelegatedInv`: a success in the queue came from the process of that turn |
| CompositionProofs | `PluginsAlwaysHold`, `UndisturbedRunsFindTheirBase`, `ContendedGenerationsAreVerified`, `LoneDamageLeavesAnother`, `CredentialsAlwaysHold`, `RowsStayWithTheirOwners`, `StoresStaySound`, `BudgetsAlwaysHold`, `ServicesKeepTheirTypes` | in the composition of the services: `VersionsInv`, a worker and a debt are of a verified version, and no debt is of a version in a run's pins; `PackagesInv`, the lockfile refers to verified versions whose tools collide with no other, the tools of active versions and of runs keep their owners, and what an operation left is its own; the others lift `ContentInv`, `VerifiedInv`, `SerialInv`, `MigrationInv`, the invariants of the credentials, of the stores and of the budgets, and, for `ServicesTypeOK`, those of every service at once (`ServicesInv`): while one moves, the others stay |
| InterruptionsProofs | `ProcessesStayAccounted`, `ReadersAlwaysSeeTheRun` | in the composition: `SupervisorInv`, worker, start and cleanup exclude each other; `InstallationInv`, a Manager that works owns the lock, and an undisturbed export has read what is there; `TransportsInv`, a stop is the last that happens to a transport, one container has its name, one session is known |

Two theorems state refinements: each action of the coordinator is an action of `WorkspaceLease`
or leaves its variables alone, and each file operation of a create is a step of
`SnapshotRegister` or a stutter. `GrantsFenced`, `TerminalStaysFinal`,
`CancellationReachesSubagents`, `ColdAlwaysHoldsTheVolume`, `PromotionLeavesPrior` and those of
ServiceProofs and AgentProofs that speak of a step are action properties.

## 6. What is only model-checked

| property | why there is no theorem |
|---|---|
| `EveryRunEnds`, `EveryWaitEnds` | liveness: fairness and ENABLED are out of the prover's reach |

Sums over sets of runs, budgets and blocks are folds (`SumFunctionOnSet`), and the theorems about
them use no induction over data: `ServiceProofs` takes the smallest set, or the least number, for
which a statement about a sum fails, and removes one element from it.

## 7. What is not modelled

- durability: the code calls no `fsync` (`packages/workspace/src/index.ts:226`), so every file
  operation is taken to last when it returns, and a power failure is outside the models;
- cryptography (AES-GCM, scrypt, signatures): it decides "is it the one that was meant";
- configuration and its validation, readiness checks, docker images and arguments, HTTP headers and
  bodies, the text of prompts, skills and memory (single statements on one table), observability,
  page and network policy of the browser, the import of openclaw data;
- the subagent library of `packages/subagents`, which the Manager does not use;
- a package tree damaged while its worker runs, two trees of one `id@version`, a worker's own
  behaviour; the publication after the fence check of a request that is in flight twice.

`PROJECT.json` lists the parts and their status.

## 8. Plan

Every safety property of the passing runs is a theorem. A third refinement, `WorkspaceLifecycle`
over `SnapshotRegister`, has no mapping as the two stand: the register numbers archives in the
order of their export, the lifecycle names them by their contents, and a checkpoint without a
write in between exports the same contents again. It needs a history of exports first.
