---------------------------- MODULE DelegatedTurn ----------------------------
(* The turns of runs of one registered workspace that are delegated to a      *)
(* Codex app-server or to Claude Code: the runner that awaits the next event  *)
(* of streamTurn, the generator behind it, its queue and its process, which   *)
(* works in the directory of the workspace.                                   *)
EXTENDS Naturals, Sequences

CONSTANTS
  DelegatedRuns,
  NoLeaseHolder,      \* no run
  MaxNotes       \* bound on the events in a queue

ASSUME DelegatedAssumption == NoLeaseHolder \notin DelegatedRuns /\ MaxNotes \in Nat

VARIABLES
  gateway,    \* "codex" or "claude"
  capped,     \* runs have a cost ceiling
  leaseOf,    \* the run that holds the lease of the workspace
  runner,     \* see RunnerStates
  stream,     \* the generator: see StreamStates
  conclusion,    \* how the generator ends once its finally block has run
  leaving,    \* runs whose runner has called return() while next() is pending
  halted,     \* runs whose signal is aborted
  process,    \* "none", "working", "idle" or "gone"
  notes,      \* #values of the queue
  broken,     \* runs whose queue has an #error
  metered,    \* sawUsage
  reported    \* runs whose process has reported that its turn succeeded (history)

delegatedVars == <<gateway, capped, leaseOf, runner, stream, conclusion, leaving, halted,
                   process, notes, broken, metered, reported>>
fixed == <<gateway, capped>>
queueVars == <<notes, broken, metered, reported>>

RunnerStates == {"queued", "awaiting", "succeeding", "failing", "succeeded", "failed"}
StreamStates == {"none", "handshake", "taking", "interrupting", "stopping", "done"}
Events == {"text", "usage", "completed", "failed"}
Over(r) == runner[r] \in {"succeeded", "failed"}
Living(r) == process[r] \in {"working", "idle"}

DelegatedInit ==
  /\ gateway \in {"codex", "claude"} /\ capped \in BOOLEAN
  /\ leaseOf = NoLeaseHolder /\ leaving = {} /\ halted = {}
  /\ runner = [r \in DelegatedRuns |-> "queued"]
  /\ stream = [r \in DelegatedRuns |-> "none"]
  /\ conclusion = [r \in DelegatedRuns |-> "failing"]
  /\ process = [r \in DelegatedRuns |-> "none"]
  /\ notes = [r \in DelegatedRuns |-> <<>>]
  /\ broken = {} /\ metered = {} /\ reported = {}

-----------------------------------------------------------------------------
(* The run                                                                    *)

\* The run acquires the lease and asks for its first event.
Lead(r) ==
  /\ runner[r] = "queued" /\ leaseOf = NoLeaseHolder
  /\ leaseOf' = r /\ runner' = [runner EXCEPT ![r] = "awaiting"]
  /\ UNCHANGED <<fixed, stream, conclusion, leaving, halted, process, queueVars>>

\* Cancellation, the timeout of the run, a lost lease.
Halt(r) ==
  /\ runner[r] = "awaiting" /\ r \notin halted /\ halted' = halted \cup {r}
  /\ UNCHANGED <<fixed, leaseOf, runner, stream, conclusion, leaving, process, queueVars>>

\* The lease expires, whether or not the run has noticed.
LeaseExpires ==
  /\ leaseOf # NoLeaseHolder /\ leaseOf' = NoLeaseHolder
  /\ UNCHANGED <<fixed, runner, stream, conclusion, leaving, halted, process, queueVars>>

\* nextWithIdleTimeout rejects: its timer or the signal.  return() is queued behind
\* the next() that is pending, and nobody awaits it.
Abandon(r) ==
  /\ runner[r] = "awaiting" /\ stream[r] # "none"
  /\ runner' = [runner EXCEPT ![r] = "failing"] /\ leaving' = leaving \cup {r}
  /\ UNCHANGED <<fixed, leaseOf, stream, conclusion, halted, process, queueVars>>

\* The lease is released; a run that succeeded without it is orphaned.
EndRun(r) ==
  /\ runner[r] \in {"succeeding", "failing"}
  /\ runner' = [runner EXCEPT ![r] = IF runner[r] = "succeeding" /\ leaseOf = r
                                     THEN "succeeded" ELSE "failed"]
  /\ leaseOf' = IF leaseOf = r THEN NoLeaseHolder ELSE leaseOf
  /\ UNCHANGED <<fixed, stream, conclusion, leaving, halted, process, queueVars>>

-----------------------------------------------------------------------------
(* The generator                                                              *)

\* The finally block has run: a runner that still awaits learns how it ended.
Finish(r, how) ==
  /\ stream' = [stream EXCEPT ![r] = "done"]
  /\ runner' = [runner EXCEPT ![r] = IF runner[r] = "awaiting" THEN how ELSE runner[r]]

\* The resolver gives the directory of the workspace to the run it is fenced to.
MayWorkIn(r) == leaseOf = r

\* workspacePathForRun asks the resolver, and the process is spawned in what it returns.
Begin(r) ==
  /\ runner[r] = "awaiting" /\ stream[r] = "none"
  /\ \/ /\ MayWorkIn(r) /\ r \notin halted /\ process' = [process EXCEPT ![r] = "working"]
        /\ stream' = [stream EXCEPT ![r] = IF gateway = "codex" THEN "handshake" ELSE "taking"]
        /\ UNCHANGED runner
     \/ Finish(r, "failing") /\ UNCHANGED process
  /\ UNCHANGED <<fixed, leaseOf, conclusion, leaving, halted, queueVars>>

\* initialize, thread/start and turn/start of Codex.
Greeted(r) ==
  /\ stream[r] = "handshake" /\ process[r] = "working"
  /\ stream' = [stream EXCEPT ![r] = "taking"]
  /\ UNCHANGED <<fixed, leaseOf, runner, conclusion, leaving, halted, process, queueVars>>

\* An error, the process is gone, the request timed out or was aborted.
GreetingFails(r) ==
  /\ stream[r] = "handshake" /\ stream' = [stream EXCEPT ![r] = "stopping"]
  /\ UNCHANGED <<fixed, leaseOf, runner, conclusion, leaving, halted, process, queueVars>>

Turned(r, how) ==
  /\ stream' = [stream EXCEPT ![r] = "stopping"] /\ conclusion' = [conclusion EXCEPT ![r] = how]

\* take() returns the oldest event.  After a yield the generator goes on, unless
\* return() was queued meanwhile.
Take(r) ==
  /\ stream[r] = "taking" /\ r \notin halted /\ notes[r] # <<>>
  /\ notes' = [notes EXCEPT ![r] = Tail(@)]
  /\ IF Head(notes[r]) = "completed" THEN Turned(r, "succeeding")
     ELSE IF Head(notes[r]) = "failed" \/ r \in leaving THEN Turned(r, "failing")
     ELSE UNCHANGED <<stream, conclusion>>
  /\ UNCHANGED <<fixed, leaseOf, runner, leaving, halted, process, broken, metered, reported>>

TakeFails(r) ==
  /\ stream[r] = "taking" /\ r \notin halted /\ notes[r] = <<>> /\ r \in broken
  /\ Turned(r, "failing")
  /\ UNCHANGED <<fixed, leaseOf, runner, leaving, halted, process, queueVars>>

\* An aborted Codex turn is interrupted first, by a request that starts the process
\* again when it is gone.
TakeAborted(r) ==
  /\ stream[r] = "taking" /\ r \in halted
  /\ IF gateway = "codex"
     THEN /\ stream' = [stream EXCEPT ![r] = "interrupting"]
          /\ process' = [process EXCEPT ![r] = IF @ = "gone" THEN "idle" ELSE @]
     ELSE stream' = [stream EXCEPT ![r] = "stopping"] /\ UNCHANGED process
  /\ UNCHANGED <<fixed, leaseOf, runner, conclusion, leaving, halted, queueVars>>

Interrupted(r) ==
  /\ stream[r] = "interrupting" /\ stream' = [stream EXCEPT ![r] = "stopping"]
  /\ \/ process[r] = "working" /\ process' = [process EXCEPT ![r] = "idle"]
     \/ UNCHANGED process
  /\ UNCHANGED <<fixed, leaseOf, runner, conclusion, leaving, halted, queueVars>>

\* Codex is stopped, Claude is awaited.
ReapProcess(r) ==
  /\ stream[r] = "stopping"
  /\ gateway = "claude" => ~Living(r)
  /\ Finish(r, conclusion[r]) /\ process' = [process EXCEPT ![r] = "gone"]
  /\ UNCHANGED <<fixed, leaseOf, conclusion, leaving, halted, queueVars>>

\* process_reap_failed
StopFails(r) ==
  /\ stream[r] = "stopping" /\ gateway = "codex" /\ Living(r)
  /\ Finish(r, "failing")
  /\ UNCHANGED <<fixed, leaseOf, conclusion, leaving, halted, process, queueVars>>

-----------------------------------------------------------------------------
(* The process                                                                *)

\* Mutant: what comes after an error is queued as well.
PushAnyway(r, note) == notes' = [notes EXCEPT ![r] = Append(@, note)]

\* The queue takes nothing after an error, nor once it is closed.
Push(r, note) ==
  notes' = IF r \in broken \/ (gateway = "codex" /\ stream[r] \in {"stopping", "done"})
           THEN notes ELSE [notes EXCEPT ![r] = Append(@, note)]

Speaks(r, note) ==
  /\ process[r] = "working" /\ Len(notes[r]) < MaxNotes /\ Push(r, note)
  /\ metered' = IF note = "usage" THEN metered \cup {r} ELSE metered
  /\ UNCHANGED <<fixed, leaseOf, runner, stream, conclusion, leaving, halted, process, broken,
                 reported>>

\* turn/completed, with either status.  The app-server waits for the next turn.
CodexEndsTurn(r, note) ==
  /\ gateway = "codex" /\ process[r] = "working" /\ stream[r] # "handshake"
  /\ Len(notes[r]) < MaxNotes /\ Push(r, note)
  /\ process' = [process EXCEPT ![r] = "idle"]
  /\ reported' = IF note = "completed" THEN reported \cup {r} ELSE reported
  /\ UNCHANGED <<fixed, leaseOf, runner, stream, conclusion, leaving, halted, broken, metered>>

\* Nobody listens for the exit of the app-server.
CodexDies(r) ==
  /\ gateway = "codex" /\ Living(r) /\ process' = [process EXCEPT ![r] = "gone"]
  /\ UNCHANGED <<fixed, leaseOf, runner, stream, conclusion, leaving, halted, queueVars>>

\* A result with is_error.
ClaudeErrs(r) ==
  /\ gateway = "claude" /\ process[r] = "working" /\ r \notin broken
  /\ broken' = broken \cup {r}
  /\ UNCHANGED <<fixed, leaseOf, runner, stream, conclusion, leaving, halted, process, notes,
                 metered, reported>>

\* With a ceiling, an exit without usage is an error.
ClaudeExits(r) ==
  /\ gateway = "claude" /\ process[r] = "working"
  /\ process' = [process EXCEPT ![r] = "gone"]
  /\ \/ /\ r \notin halted
        /\ IF r \notin metered /\ capped THEN broken' = broken \cup {r} /\ UNCHANGED <<notes,
                                                                                       reported>>
           ELSE /\ Push(r, "completed") /\ UNCHANGED broken
                /\ reported' = IF r \in broken THEN reported ELSE reported \cup {r}
     \/ broken' = broken \cup {r} /\ UNCHANGED <<notes, reported>>
  /\ UNCHANGED <<fixed, leaseOf, runner, stream, conclusion, leaving, halted, metered>>

DelegatedNext ==
  \/ LeaseExpires
  \/ \E r \in DelegatedRuns :
       \/ Lead(r) \/ Halt(r) \/ Abandon(r) \/ EndRun(r)
       \/ Begin(r) \/ Greeted(r) \/ GreetingFails(r) \/ Take(r) \/ TakeFails(r)
       \/ TakeAborted(r) \/ Interrupted(r) \/ ReapProcess(r) \/ StopFails(r)
       \/ Speaks(r, "text") \/ Speaks(r, "usage")
       \/ CodexEndsTurn(r, "completed") \/ CodexEndsTurn(r, "failed")
       \/ CodexDies(r) \/ ClaudeErrs(r) \/ ClaudeExits(r)

DelegatedSpec == DelegatedInit /\ [][DelegatedNext]_delegatedVars

-----------------------------------------------------------------------------
(* Properties *)

\* A run succeeds only when its process has reported the success of the turn, with
\* the usage that a cost ceiling needs: whatever is queued, fails or exits first.
SucceedsAsReported ==
  \A r \in DelegatedRuns :
    runner[r] = "succeeded" => r \in reported /\ (gateway = "claude" /\ capped => r \in metered)

\* A run that is cancelled or times out does not return before the process that
\* worked for it is reaped (docs/DELEGATED_RUNTIMES.md).
ReapedBeforeReturn == \A r \in DelegatedRuns : Over(r) => process[r] # "working"
=============================================================================
