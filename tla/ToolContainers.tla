--------------------------- MODULE ToolContainers ---------------------------
(* The containers of tool calls: DockerToolRuntime#execute, #runTool and      *)
(* #runWorkspaceMutation, the Docker daemon that serves a request after the   *)
(* CLI that made it is gone, the rows of runtime_containers, and              *)
(* reconcileContainers at startup, for one workspace.                         *)
(*                                                                            *)
(* RunLifecycle shows that the coordinator runs one execution of a workspace  *)
(* at a time, and AgentRunner#run makes its tool calls one after the other:   *)
(* one program counter is enough.  RunLifecycle takes a tool call to be over  *)
(* when it returns; here its container may survive it.                        *)
EXTENDS Naturals, Sequences

CONSTANT MaxContainers  \* bound on docker create

ASSUME ContainerAssumption == MaxContainers \in Nat

Ids == 1 .. MaxContainers

\* The containers a tool call needs, in order.  "quota" measures the volume:
\* before a write_file, and after every mutation; patch_apply tries first.
\* read_file stands for the other readers, shell_exec for the other mutations.
Plan == [read_file        |-> <<"read">>,
         artifact_publish |-> <<"read">>,
         write_file       |-> <<"quota", "mutate", "quota">>,
         shell_exec       |-> <<"mutate", "quota">>,
         patch_apply      |-> <<"check", "mutate", "quota">>]
Tools == DOMAIN Plan
Mutations == {"write_file", "shell_exec", "patch_apply"}

VARIABLES
  docker,    \* state of each container at the daemon
  record,    \* its row in runtime_containers, or "none"
  last,      \* containers asked for so far
  writers,   \* those of mutations
  toolPc,    \* what the execution, or the startup, awaits
  tool,      \* name of the call
  step,      \* index into its plan
  outcome,   \* of the mutation, while the quota is measured: #runWorkspaceMutation
  answer,    \* what execute returned or threw
  toolFence, \* the run's lease is active
  over,      \* the volume holds more than workspaceQuotaBytes
  todo,      \* containers startup has left to reap
  unreaped,  \* history: containers whose reap failed in this process
  bad        \* some reap of this startup failed

daemon == <<docker, record, last, writers>>
execution == <<tool, step, outcome, answer>>
startup == <<todo, unreaped, bad>>
toolVars == <<daemon, toolPc, execution, toolFence, over, startup>>

Visible == {"created", "launching", "running", "exited"}
Alive == {"launching", "running"}
Operation == Plan[tool][step]
Stopped == {"down", "reconciling"}

Container(state) == docker' = [docker EXCEPT ![last] = state]
RecordIs(state) == record' = [record EXCEPT ![last] = state]
Await(from, to) == toolPc = from /\ toolPc' = to

NoCall == tool' = "read_file" /\ step' = 1 /\ outcome' = "none" /\ answer' = "none"

ContainersInit ==
  /\ docker = [n \in Ids |-> "unused"] /\ record = [n \in Ids |-> "none"]
  /\ last = 0 /\ writers = {} /\ toolPc = "idle"
  /\ tool = "read_file" /\ step = 1 /\ outcome = "none" /\ answer = "none"
  /\ toolFence = TRUE /\ over = FALSE
  /\ todo = {} /\ unreaped = {} /\ bad = FALSE

-----------------------------------------------------------------------------
(* A tool call *)

\* The agent calls a tool; execute checks the signal and the fence.
BeginTool(t) ==
  /\ Await("idle", "next") /\ toolFence
  /\ tool' = t /\ step' = 1 /\ outcome' = "none" /\ answer' = "none"
  /\ UNCHANGED <<daemon, toolFence, over, startup>>

\* #runTool up to docker create: the fence is checked again.
RequestCreate ==
  /\ Await("next", "creating") /\ toolFence /\ last < MaxContainers
  /\ last' = last + 1
  /\ docker' = [docker EXCEPT ![last + 1] = "requested"]
  /\ writers' = IF Operation = "mutate" THEN writers \union {last + 1} ELSE writers
  /\ UNCHANGED <<record, execution, toolFence, over, startup>>

\* The last container ended so.  An artifact read under a fence that has changed
\* since is not published.
ToolAnswer(verdict) ==
  IF tool = "artifact_publish" /\ ~toolFence THEN "error"
  ELSE IF verdict = "ok" /\ outcome # "none" THEN outcome
  ELSE verdict

\* Mutant: the volume is not measured after a mutation.
ConcludeUnmeasured(verdict) ==
  /\ answer' = verdict /\ toolPc' = "idle" /\ step' = 1 /\ outcome' = "none"

\* How a container ended, for the call: the next of the plan, the answer, or
\* what execute throws.  A mutation that was cancelled is not measured, one that
\* failed is, and its failure is the answer.
Conclude(verdict) ==
  \/ /\ Operation = "mutate" /\ verdict # "aborted"
     /\ outcome' = verdict /\ step' = step + 1 /\ toolPc' = "next"
     /\ UNCHANGED answer
  \/ /\ Operation \in {"quota", "check"} /\ verdict = "ok" /\ step < Len(Plan[tool])
     /\ step' = step + 1 /\ toolPc' = "next" /\ UNCHANGED <<outcome, answer>>
  \/ /\ \/ Operation = "read"
        \/ Operation = "mutate" /\ verdict = "aborted"
        \/ Operation \in {"quota", "check"} /\ (verdict # "ok" \/ step = Len(Plan[tool]))
     /\ answer' = ToolAnswer(verdict)
     /\ toolPc' = "idle" /\ step' = 1 /\ outcome' = "none"

\* The fence is lost between two containers of a call: #assertExecutionLease throws.
FenceLostBetween ==
  /\ toolPc = "next" /\ ~toolFence
  /\ Conclude("error")
  /\ UNCHANGED <<daemon, tool, toolFence, over, startup>>

CreateReturns ==
  /\ Await("creating", "record") /\ docker[last] = "created"
  /\ UNCHANGED <<daemon, execution, toolFence, over, startup>>

\* The daemon refuses, or the CLI is killed by the signal while the daemon still
\* has the request.
CreateFails ==
  /\ Await("creating", "undo")
  /\ Container("removed") \/ UNCHANGED docker
  /\ UNCHANGED <<record, last, writers, execution, toolFence, over, startup>>

\* killAndReapWithRetry looks several times, because the daemon may be late.
UndoCreate ==
  /\ toolPc = "undo" /\ docker[last] = "created"
  /\ Container("removed")
  /\ UNCHANGED <<record, last, writers, toolPc, execution, toolFence, over, startup>>

\* Its last attempt; what it throws is ignored.
UndoEnds(verdict) ==
  /\ toolPc = "undo"
  /\ Conclude(verdict)
  /\ UNCHANGED <<daemon, tool, toolFence, over, startup>>

\* Mutant: the row is not written.
StartUnrecorded ==
  /\ Await("record", "attached") /\ toolFence
  /\ Container("launching")
  /\ UNCHANGED <<record, last, writers, execution, toolFence, over, startup>>

\* The row is written, set to RUNNING, and the fence checked, before docker start.
Start ==
  /\ Await("record", "attached") /\ toolFence
  /\ record' = [record EXCEPT ![last] = "RUNNING"]
  /\ Container("launching")
  /\ UNCHANGED <<last, writers, execution, toolFence, over, startup>>

\* One of these steps throws: the container stays unstarted.
StartFails ==
  /\ Await("record", "failed")
  /\ \/ UNCHANGED record
     \/ RecordIs("CREATED")
     \/ ~toolFence /\ RecordIs("RUNNING")
  /\ UNCHANGED <<docker, last, writers, execution, toolFence, over, startup>>

\* docker start --attach returns with the container, or its CLI fails or is
\* killed by the signal or the deadline.
Detach ==
  /\ \/ Await("attached", "stopped") /\ docker[last] = "exited"
     \/ Await("attached", "failed")
  /\ UNCHANGED <<daemon, execution, toolFence, over, startup>>

\* updateRuntimeContainerState, if there is a row
MarkStopping ==
  \/ record[last] # "none" /\ RecordIs("STOPPING")
  \/ UNCHANGED record

\* What a container that was reaped tells the call.  The measure of the volume is
\* what it was while "quota" ran.
Failures == IF toolPc = "failed" THEN {"error", "aborted"} ELSE {"error"}
Verdicts ==
  IF toolPc = "failed" \/ (Operation = "quota" /\ over) THEN Failures ELSE {"ok", "error"}

\* killAndReapContainer verified the removal, and the row goes with it unless the
\* database fails.
Reap ==
  /\ toolPc \in {"stopped", "failed"}
  /\ Container("removed")
  /\ \/ /\ RecordIs("none") /\ \E verdict \in Verdicts : Conclude(verdict)
     \/ /\ record[last] # "none" /\ MarkStopping
        /\ \E verdict \in Failures : Conclude(verdict)
  /\ UNCHANGED <<last, writers, tool, toolFence, over, startup>>

\* Some command of killAndReapContainer fails; the container may be alive.
ReapFails ==
  /\ toolPc \in {"stopped", "failed"}
  /\ \/ docker[last] \in Alive /\ Container("exited")
     \/ UNCHANGED docker
  /\ MarkStopping
  /\ \E verdict \in Failures : Conclude(verdict)
  /\ unreaped' = unreaped \union {last}
  /\ UNCHANGED <<last, writers, tool, toolFence, over, todo, bad>>

-----------------------------------------------------------------------------
(* The daemon, and the run around the call *)

\* The daemon serves what was asked of it, also when nobody waits any more.
DaemonCreates(n) ==
  /\ docker[n] = "requested"
  /\ docker' = [docker EXCEPT ![n] = "created"]
  /\ UNCHANGED <<record, last, writers, toolPc, execution, toolFence, over, startup>>

DaemonStarts(n) ==
  /\ docker[n] = "launching"
  /\ docker' = [docker EXCEPT ![n] = "running"]
  /\ UNCHANGED <<record, last, writers, toolPc, execution, toolFence, over, startup>>

\* The process in the container ends; that of a mutation writes and frees space.
ContainerWorks(n) ==
  /\ docker[n] = "running"
  /\ \/ n \in writers /\ over' \in BOOLEAN /\ UNCHANGED docker
     \/ docker' = [docker EXCEPT ![n] = "exited"] /\ UNCHANGED over
  /\ UNCHANGED <<record, last, writers, toolPc, execution, toolFence, startup>>

LoseFence ==
  /\ toolFence /\ toolPc \notin Stopped
  /\ toolFence' = FALSE
  /\ UNCHANGED <<daemon, toolPc, execution, over, startup>>

\* The next run of the workspace has the lease once the one before it ended.
NextRun ==
  /\ toolPc = "idle" /\ ~toolFence
  /\ toolFence' = TRUE /\ NoCall
  /\ UNCHANGED <<daemon, toolPc, over, startup>>

-----------------------------------------------------------------------------
(* The Manager dies and starts *)

\* Commands of a dead Manager stay with the daemon.
ManagerDies ==
  /\ toolPc # "down"
  /\ toolPc' = "down" /\ toolFence' = FALSE
  /\ unreaped' = {} /\ todo' = {} /\ bad' = FALSE
  /\ NoCall
  /\ UNCHANGED <<daemon, over>>

\* Mutant: only the rows that are not RUNNING are listed.
ListRecords ==
  /\ Await("down", "reconciling")
  /\ todo' = {n \in Ids : record[n] \in {"CREATED", "STOPPING"}}
  /\ UNCHANGED <<daemon, execution, toolFence, over, unreaped, bad>>

\* docker ps by label, then the rows
ListContainers ==
  /\ Await("down", "reconciling")
  /\ todo' = {n \in Ids : docker[n] \in Visible \/ record[n] # "none"}
  /\ UNCHANGED <<daemon, execution, toolFence, over, unreaped, bad>>

\* Containers with a row come first; of those without, only what was listed.
ReapOld(n) ==
  /\ toolPc = "reconciling" /\ n \in todo
  /\ record[n] # "none" \/ \A m \in todo : record[m] = "none"
  /\ todo' = todo \ {n}
  /\ \/ /\ docker' = [docker EXCEPT ![n] = "removed"]
        /\ record' = [record EXCEPT ![n] = "none"]
        /\ UNCHANGED bad
     \/ bad' = TRUE /\ UNCHANGED <<docker, record>>
  /\ UNCHANGED <<last, writers, toolPc, execution, toolFence, over, unreaped>>

\* Startup ends, or throws what failed and the process exits.
ServeTools ==
  /\ toolPc = "reconciling" /\ todo = {}
  /\ toolPc' = IF bad THEN "down" ELSE "idle"
  /\ bad' = FALSE
  /\ UNCHANGED <<daemon, execution, toolFence, over, todo, unreaped>>

ToolStep ==
  \/ \E t \in Tools : BeginTool(t)
  \/ RequestCreate \/ FenceLostBetween \/ CreateReturns \/ CreateFails \/ UndoCreate
  \/ \E verdict \in {"error", "aborted"} : UndoEnds(verdict)
  \/ Start \/ StartFails \/ Detach \/ Reap \/ ReapFails

ContainersNext ==
  \/ ToolStep
  \/ \E n \in Ids : DaemonCreates(n) \/ DaemonStarts(n) \/ ContainerWorks(n) \/ ReapOld(n)
  \/ LoseFence \/ NextRun \/ ManagerDies \/ ListContainers \/ ServeTools

ContainersSpec == ContainersInit /\ [][ContainersNext]_toolVars

-----------------------------------------------------------------------------
(* Properties *)

ToolPCs == {"idle", "next", "creating", "undo", "record", "attached", "stopped",
            "failed", "down", "reconciling"}
Verdict == {"none", "ok", "error", "aborted"}

\* Types, and the allocation of containers in order.
ContainersTypeOK ==
  /\ docker \in [Ids -> Visible \union {"unused", "requested", "removed"}]
  /\ record \in [Ids -> {"none", "CREATED", "RUNNING", "STOPPING"}]
  /\ last \in 0 .. MaxContainers /\ toolPc \in ToolPCs
  /\ tool \in Tools /\ step \in 1 .. Len(Plan[tool])
  /\ outcome \in Verdict /\ answer \in Verdict
  /\ toolFence \in BOOLEAN /\ over \in BOOLEAN /\ bad \in BOOLEAN
  /\ writers \subseteq Ids /\ todo \subseteq Ids /\ unreaped \subseteq Ids

\* #runTool and reconcileContainers: whatever was started, by this process or a
\* dead one, has a durable row, so that startup cannot miss it; and while the
\* Manager serves, what runs in the workspace is the container its one execution
\* is attached to, or one whose reap failed in this process.  Containers of dead
\* processes, and those of abandoned calls, never run.
RunningIsAccounted ==
  \A n \in Ids : docker[n] \in Alive =>
    /\ record[n] # "none"
    /\ toolPc \notin Stopped =>
         n \in unreaped \/ (n = last /\ toolPc \in {"attached", "stopped", "failed"})

\* A mutation that is answered as done left the volume within its quota, unless
\* a container whose reap failed went on writing.
NothingAcceptedOverQuota ==
  answer = "ok" /\ tool \in Mutations /\ unreaped = {} => ~over

\* Both: what runs is found and what is answered was measured.
ToolWorkIsAccounted == RunningIsAccounted /\ NothingAcceptedOverQuota
=============================================================================
