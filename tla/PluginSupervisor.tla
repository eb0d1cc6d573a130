--------------------------- MODULE PluginSupervisor ---------------------------
(* LazyPluginSupervisor: calls share one worker that starts with the first of *)
(* them and stops after a failure, when idle, or when a version is retired.   *)
(* A step runs to its next await; promises that settle resume all who wait.   *)
EXTENDS Naturals, FiniteSets

CONSTANTS
  Calls,
  MaxStarts  \* bound on the workers that are created

ASSUME SupervisorAssumption == MaxStarts \in Nat

VARIABLES
  callState, \* where invoke is: see CallStates
  callWorker,\* the worker it invokes
  worker,    \* #worker, 0 is none
  cleanup,   \* #cleanupWorker
  starting,  \* the worker of #startPromise
  stopState, \* "none", "draining" or "stopping": #stopPromise
  stopTimer, \* #idleTimer: "none", "idle" or "retry"
  failed,    \* #failedWorkers
  backoff,   \* #retryAt is in the future
  starts,    \* workers created so far
  processes  \* worker processes and containers that are not reaped

workerVars == <<worker, cleanup, starting, starts, processes>>
supervisorVars == <<callState, callWorker, workerVars, stopState, stopTimer, failed, backoff>>

\* "held" awaits the stop that was under way, "ending" the stop it caused.
CallStates == {"new", "held", "resumed", "starting", "running", "ending", "over"}
In(states) == {c \in Calls : callState[c] \in states}
Accepted == In({"starting", "running"})
Become(calls, s) == [c \in Calls |-> IF c \in calls THEN s ELSE callState[c]]

SupervisorInit ==
  /\ callState = [c \in Calls |-> "new"] /\ callWorker = [c \in Calls |-> 0]
  /\ worker = 0 /\ cleanup = 0 /\ starting = 0 /\ starts = 0 /\ processes = {}
  /\ stopState = "none" /\ stopTimer = "none" /\ failed = {} /\ backoff = FALSE

-----------------------------------------------------------------------------
(* invoke                                                                     *)

\* Mutant: only the backoff keeps a call away.
AdmittedByTime == ~backoff

Admitted == cleanup = 0 /\ ~backoff

\* #ensureWorker shares the worker, or the start of it.
Enter(c) ==
  /\ stopTimer' = "none"
  /\ callState' = Become({c}, IF worker # 0 THEN "running" ELSE "starting")
  /\ callWorker' = [callWorker EXCEPT ![c] = worker]
  /\ IF worker = 0 /\ starting = 0
     THEN /\ starts < MaxStarts /\ starts' = starts + 1
          /\ starting' = starts' /\ processes' = processes \cup {starts'}
          /\ UNCHANGED <<worker, cleanup>>
     ELSE UNCHANGED workerVars
  /\ UNCHANGED <<stopState, failed, backoff>>

Invoke(c) ==
  /\ \/ callState[c] = "new" /\ stopState = "none"
     \/ callState[c] = "resumed"
  /\ IF Admitted THEN Enter(c)
     ELSE /\ callState' = Become({c}, "over")
          /\ UNCHANGED <<callWorker, workerVars, stopState, stopTimer, failed, backoff>>

\* It looks at #stopPromise once.
AwaitStop(c) ==
  /\ callState[c] = "new" /\ stopState # "none" /\ callState' = Become({c}, "held")
  /\ UNCHANGED <<callWorker, workerVars, stopState, stopTimer, failed, backoff>>

\* stop() joins a stop that is under way.
RequestStop ==
  IF stopState = "none" THEN stopState' = "draining" /\ stopTimer' = "none"
  ELSE UNCHANGED <<stopState, stopTimer>>

WorkerStarts ==
  /\ starting # 0 /\ worker' = starting /\ starting' = 0
  /\ callState' = Become(In({"starting"}), "running")
  /\ callWorker' = [c \in Calls |-> IF callState[c] = "starting" THEN starting ELSE callWorker[c]]
  /\ UNCHANGED <<cleanup, starts, processes, stopState, stopTimer, failed, backoff>>

\* The start fails, its own stop too unless reaped: every call that waited for it
\* fails and asks for a stop.
WorkerStartFails(reaped) ==
  /\ starting # 0 /\ starting' = 0
  /\ processes' = IF reaped THEN processes \ {starting} ELSE processes
  /\ cleanup' = IF reaped THEN cleanup ELSE starting
  /\ callState' = Become(In({"starting"}), "ending")
  /\ RequestStop /\ backoff' = TRUE
  /\ UNCHANGED <<callWorker, worker, starts, failed>>

InvokeSucceeds(c) ==
  /\ callState[c] = "running" /\ callState' = Become({c}, "over")
  /\ backoff' = IF callWorker[c] \in failed THEN backoff ELSE FALSE
  /\ stopTimer' = IF worker = callWorker[c] /\ Accepted = {c} /\ stopState = "none" THEN "idle" ELSE stopTimer
  /\ UNCHANGED <<callWorker, workerVars, stopState, failed>>

\* An error, or the invocation timeout.
InvokeFails(c) ==
  /\ callState[c] = "running" /\ callState' = Become({c}, "ending")
  /\ failed' = failed \cup {callWorker[c]} /\ backoff' = TRUE
  /\ RequestStop
  /\ UNCHANGED <<callWorker, workerVars>>

BackoffPasses == backoff /\ backoff' = FALSE
  /\ UNCHANGED <<callState, callWorker, workerVars, stopState, stopTimer, failed>>
-----------------------------------------------------------------------------
(* stop                                                                       *)

\* The idle timer, and the retry of a cleanup.
TimerStops ==
  /\ stopTimer # "none" /\ stopState = "none"
  /\ stopTimer = "idle" => worker # 0 /\ Accepted = {}
  /\ stopTimer = "retry" => cleanup # 0
  /\ RequestStop /\ UNCHANGED <<callState, callWorker, workerVars, failed, backoff>>

\* The lifecycle retires the version.
LifecycleStops ==
  /\ stopState = "none"
  /\ RequestStop /\ UNCHANGED <<callState, callWorker, workerVars, failed, backoff>>

\* Mutant: a stop does not wait for the calls of the others.
DrainedAtOnce == TRUE

Drained == Accepted = {}

\* #stopWorker after #waitForInvocations.
StopDrains ==
  /\ stopState = "draining" /\ Drained
  /\ worker' = 0 /\ cleanup' = (IF worker # 0 THEN worker ELSE cleanup)
  /\ stopState' = "stopping"
  /\ UNCHANGED <<callState, callWorker, starting, starts, processes, stopTimer, failed, backoff>>

\* Mutant: a failed cleanup waits for the next stop.
RetryForgotten == "none"

Retry == IF cleanup # 0 THEN "retry" ELSE "none"

\* Calls that were held go on, or fail with the stop.
SupervisorStops(reaped) ==
  /\ stopState = "stopping" /\ stopState' = "none"
  /\ reaped \/ cleanup # 0
  /\ callState' = [c \in Calls |->
       IF callState[c] = "held" THEN (IF reaped THEN "resumed" ELSE "over")
       ELSE IF callState[c] = "ending" THEN "over" ELSE callState[c]]
  /\ IF reaped THEN processes' = processes \ {cleanup} /\ cleanup' = 0 /\ UNCHANGED stopTimer
     ELSE stopTimer' = Retry /\ UNCHANGED <<processes, cleanup>>
  /\ UNCHANGED <<callWorker, worker, starting, starts, failed, backoff>>

\* The continuations of the calls that a stop released were queued together and
\* run before anything else.
SupervisorNext ==
  \/ \E c \in In({"resumed"}) : Invoke(c)
  \/ /\ In({"resumed"}) = {}
     /\ \/ \E c \in Calls : Invoke(c) \/ AwaitStop(c) \/ InvokeSucceeds(c) \/ InvokeFails(c)
        \/ WorkerStarts \/ BackoffPasses \/ TimerStops \/ LifecycleStops \/ StopDrains
        \/ \E reaped \in BOOLEAN : WorkerStartFails(reaped) \/ SupervisorStops(reaped)

SupervisorSpec == SupervisorInit /\ [][SupervisorNext]_supervisorVars

\* Timeouts bound starts and invocations, timers fire, and a stop that is tried
\* again and again is not refused by Docker for ever.
SupervisorFairness ==
  /\ WF_supervisorVars(SupervisorNext /\ starting # 0 /\ starting' = 0)
  /\ WF_supervisorVars(SupervisorNext /\ In({"resumed"}) # {})
  /\ \A c \in Calls : WF_supervisorVars(SupervisorNext /\ callState[c] = "running" /\ callState'[c] # "running")
  /\ WF_supervisorVars(In({"resumed"}) = {} /\ (TimerStops \/ StopDrains))
  /\ SF_supervisorVars(In({"resumed"}) = {} /\ SupervisorStops(TRUE))

-----------------------------------------------------------------------------
(* Properties                                                                 *)

\* Workers are numbered in the order of their creation.
SupervisorTypeOK ==
  /\ callState \in [Calls -> CallStates] /\ callWorker \in [Calls -> 0..MaxStarts]
  /\ {worker, cleanup, starting, starts} \subseteq 0..MaxStarts
  /\ processes \subseteq 1..MaxStarts /\ failed \subseteq 1..MaxStarts
  /\ stopState \in {"none", "draining", "stopping"} /\ stopTimer \in {"none", "idle", "retry"}
  /\ backoff \in BOOLEAN

\* #ensureWorker, "a replacement cannot start": whatever fails to start or to
\* stop, a version never has two workers, and a worker is stopped only when no
\* accepted call uses it.
OneWorker ==
  /\ Cardinality(processes) <= 1
  /\ stopState = "stopping" => Accepted = {}
  /\ \A c \in In({"running"}) : callWorker[c] \in processes

\* #armCleanupRetry: no worker is left that could not be stopped.
NoCleanupDue == cleanup = 0
=============================================================================
