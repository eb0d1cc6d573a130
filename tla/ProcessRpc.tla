------------------------------ MODULE ProcessRpc ------------------------------
(* JsonLineRpcClient: requests and answers as lines on the stdin and stdout of *)
(* a child process that the next request starts again when it is gone.        *)
(* A request that times out or is aborted stops the process it was sent to.   *)
EXTENDS Naturals, FiniteSets

CONSTANTS
  Requests,
  MaxProcesses, \* bound on the processes that are spawned
  MaxLines      \* bound on the lines in a pipe

ASSUME RpcAssumption == MaxProcesses \in Nat /\ MaxLines \in Nat

VARIABLES
  request,   \* where request() is: see RequestStates
  requestId, \* the id it was sent with
  sentTo,    \* the process it was sent to
  nextId,    \* #nextId
  child,     \* #child, 0 is none
  spawned,   \* processes spawned so far
  live,      \* processes that have not exited
  closed,    \* processes whose stdin has ended
  reaping,   \* #stopPromise: "none", "term" in the grace period, "kill" after it
  expected,  \* #stopping
  lines,     \* what processes have written and no data event has brought yet
  torn       \* #stdout holds the start of a line of a process that is gone

rpcVars == <<request, requestId, sentTo, nextId, child, spawned, live, closed, reaping,
             expected, lines, torn>>
processVars == <<child, spawned, live, closed, reaping, expected>>

\* "cancelling" has left #pending and awaits the stop; "reaped" rejected with the
\* timeout or the abort, "unreaped" with the failure of the stop as well.
RequestStates == {"new", "pending", "cancelling", "resolved", "rejected", "reaped", "unreaped"}
Are(state) == {r \in Requests : request[r] = state}
Moved(rs, state) == [r \in Requests |-> IF r \in rs THEN state ELSE request[r]]

\* A line that is no JSON, or too long, answers nothing.
Garbage == 0

RpcInit ==
  /\ request = [r \in Requests |-> "new"]
  /\ requestId = [r \in Requests |-> 0] /\ sentTo = [r \in Requests |-> 0]
  /\ nextId = 1 /\ child = 0 /\ spawned = 0 /\ live = {} /\ closed = {}
  /\ reaping = "none" /\ expected = FALSE /\ lines = {} /\ torn = FALSE

-----------------------------------------------------------------------------
(* request                                                                    *)

\* Mutant: every process counts its requests from one.
IdRestarts == IF child = 0 THEN 1 ELSE nextId

IdFor == nextId

\* start() does nothing while a process runs.
Start ==
  IF child # 0 THEN UNCHANGED <<child, spawned, live, expected>>
  ELSE /\ spawned < MaxProcesses /\ spawned' = spawned + 1
       /\ child' = spawned' /\ live' = live \cup {spawned'} /\ expected' = FALSE

\* A process whose stdin has ended takes no request.
Request(r) ==
  /\ request[r] = "new" /\ Start
  /\ requestId' = [requestId EXCEPT ![r] = IdFor] /\ nextId' = IdFor + 1
  /\ IF child' \in closed
     THEN request' = Moved({r}, "rejected") /\ UNCHANGED sentTo
     ELSE request' = Moved({r}, "pending") /\ sentTo' = [sentTo EXCEPT ![r] = child']
  /\ UNCHANGED <<closed, reaping, lines, torn>>

Notify ==
  /\ child = 0 /\ Start
  /\ UNCHANGED <<request, requestId, sentTo, nextId, closed, reaping, lines, torn>>

\* The command cannot be spawned: every pending request fails.
SpawnFails(r) ==
  /\ request[r] = "new" /\ child = 0
  /\ request' = Moved({r} \cup Are("pending"), "rejected")
  /\ nextId' = nextId + 1 /\ expected' = FALSE
  /\ UNCHANGED <<requestId, sentTo, child, spawned, live, closed, reaping, lines, torn>>

\* stop() joins a stop that is under way; there is nothing to stop without a child.
\* kill is what a grace period of zero has already passed.
Stop(kill) ==
  IF child = 0 \/ reaping # "none" THEN UNCHANGED <<reaping, expected, closed>>
  ELSE /\ reaping' = IF kill THEN "kill" ELSE "term"
       /\ expected' = TRUE /\ closed' = closed \cup {child}

\* #cancelAndStop, by the timer or the signal.  The process may have gone after a
\* stop that failed.
Cancel(r) ==
  /\ request[r] = "pending" /\ Stop(TRUE)
  /\ request' = Moved({r}, IF child = 0 THEN "reaped" ELSE "cancelling")
  /\ UNCHANGED <<requestId, sentTo, nextId, child, spawned, live, lines, torn>>

OwnerStops ==
  /\ child # 0 /\ reaping = "none" /\ Stop(FALSE)
  /\ UNCHANGED <<request, requestId, sentTo, nextId, child, spawned, live, lines, torn>>

GraceEnds ==
  /\ reaping = "term" /\ reaping' = "kill"
  /\ UNCHANGED <<request, requestId, sentTo, nextId, child, spawned, live, closed, expected,
                 lines, torn>>

\* Whatever is cancelled awaits the one stop, which fails the pending requests.
ProcessExits ==
  \E p \in live :
    /\ live' = live \ {p} /\ child' = 0 /\ reaping' = "none"
    /\ request' = [r \in Requests |->
         IF request[r] = "cancelling" THEN "reaped"
         ELSE IF request[r] = "pending" /\ (~expected \/ reaping # "none") THEN "rejected"
         ELSE request[r]]
    /\ UNCHANGED <<requestId, sentTo, nextId, spawned, closed, expected, lines, torn>>

\* Mutant: the client forgets the process it could not reap.
ChildForgotten == 0

ChildAfterFailure == child

WhoLearns == Are("cancelling")

\* Two seconds after SIGKILL the process is still there; the others stay pending.
ReapFails ==
  /\ reaping = "kill" /\ reaping' = "none"
  /\ request' = Moved(WhoLearns, "unreaped") /\ child' = ChildAfterFailure
  /\ UNCHANGED <<requestId, sentTo, nextId, spawned, live, closed, expected, lines, torn>>
-----------------------------------------------------------------------------
(* stdout                                                                     *)

\* The process answers a request it has received, or writes something else.
Answers(r) ==
  /\ sentTo[r] \in live /\ Cardinality(lines) < MaxLines
  /\ \E id \in {requestId[r], Garbage} :
       lines' = lines \cup {[from |-> sentTo[r], for |-> r, id |-> id]}
  /\ lines' # lines
  /\ UNCHANGED <<request, requestId, sentTo, nextId, processVars, torn>>

\* A line too long stays in #stdout when it has no end yet.
RejectLine(line, leaves) ==
  /\ line.id = Garbage \/ torn
  /\ request' = Moved(Are("pending"), "rejected") /\ Stop(FALSE)
  /\ torn' = leaves

\* #settle looks the id up among the pending requests.
Settle(line) ==
  /\ line.id # Garbage /\ ~torn /\ UNCHANGED torn
  /\ request' = Moved({r \in Are("pending") : requestId[r] = line.id}, "resolved")
  /\ UNCHANGED <<reaping, expected, closed>>

\* Data may come after the exit.
Data(line) ==
  /\ lines' = lines \ {line}
  /\ Settle(line) \/ \E leaves \in BOOLEAN : RejectLine(line, leaves)
  /\ UNCHANGED <<requestId, sentTo, nextId, child, spawned, live>>

\* A process that died in the middle of a line; start() does not clear #stdout.
DataTorn(line) ==
  /\ line.from \notin live /\ lines' = lines \ {line} /\ torn' = TRUE
  /\ UNCHANGED <<request, requestId, sentTo, nextId, processVars>>

RpcNext ==
  \/ \E r \in Requests : Request(r) \/ SpawnFails(r) \/ Cancel(r) \/ Answers(r)
  \/ \E line \in lines : Data(line) \/ DataTorn(line)
  \/ Notify \/ OwnerStops \/ GraceEnds \/ ProcessExits \/ ReapFails

RpcSpec == RpcInit /\ [][RpcNext]_rpcVars

\* Timers fire.
RpcFairness ==
  /\ \A r \in Requests : WF_rpcVars(Cancel(r))
  /\ WF_rpcVars(GraceEnds) /\ WF_rpcVars(ReapFails)

-----------------------------------------------------------------------------
(* Properties                                                                 *)

RpcTypeOK ==
  /\ request \in [Requests -> RequestStates] /\ requestId \in [Requests -> Nat]
  /\ sentTo \in [Requests -> 0..MaxProcesses] /\ nextId \in Nat
  /\ {child, spawned} \subseteq 0..MaxProcesses /\ live \cup closed \subseteq 1..MaxProcesses
  /\ reaping \in {"none", "term", "kill"}
  /\ expected \in BOOLEAN /\ torn \in BOOLEAN
  /\ lines \subseteq [from : 1..MaxProcesses, for : Requests, id : Nat]

\* "RPC request timed out and its process was reaped": it was, also when a process
\* could not be reaped before; and across restarts a request is resolved only by
\* the answer to it.
SettledTruthfully ==
  [][\A r \in Requests :
       /\ request[r] # "resolved" /\ request'[r] = "resolved" =>
            \E line \in lines \ lines' : line.for = r /\ line.from = sentTo[r]
       /\ request'[r] = "reaped" => sentTo[r] \notin live']_rpcVars

\* request: every request that was made is settled.
RequestsAreSettled == \A r \in Requests : request[r] \notin {"pending", "cancelling"}
=============================================================================
