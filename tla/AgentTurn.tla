------------------------------ MODULE AgentTurn ------------------------------
(* AgentRunner.run over a RoutedModelGateway: in each turn the model is asked, *)
(* over the routes of the plan until a provider accepts, what it streams is    *)
(* gathered, and the tools it asks for run one after the other.  An answer     *)
(* without a tool ends the run.  A step runs to its next await.                *)
EXTENDS Naturals, FiniteSets

CONSTANTS
  Routes,       \* number of models of the plan: the selected and its fallbacks
  MaxTurns,     \* budget.maxTurns
  MaxCalls,     \* bound on the tool calls of an answer
  Instructions, \* what clients steer with
  Tokens        \* number of answers that the token budget covers

ASSUME AgentAssumption ==
  /\ Routes \in Nat \ {0} /\ MaxTurns \in Nat /\ MaxCalls \in Nat /\ Tokens \in Nat

VARIABLES
  agent,     \* where run() is: see AgentStates
  adapter,   \* that of the route: they differ in when they yield the usage
  turn,
  route,     \* the route that is tried
  accepted,  \* the routes whose provider accepted a request in this turn
  visible,   \* externallyVisible
  answer,    \* what the provider has sent: calls, whole, metered and ended
  metered,   \* the runner has its usage (sawUsageEvent)
  pending,   \* tool calls of the turn that have not ended
  started,   \* the tool that executes: see Tools
  cause,     \* what the signal was aborted for, "none" before
  spent,     \* answers whose usage was recorded
  steering,  \* instructions queued for the run
  reads      \* how often an instruction is in the messages

turnVars == <<turn, route, accepted, visible, answer, metered, pending>>
agentVars == <<agent, adapter, turnVars, started, cause, spent, steering, reads>>

AgentStates == {"preparing", "turn", "resolve", "request", "stream", "tools", "authorize", "execute",
                "succeeded", "failed"}
Adapters == {"chat", "responses", "anthropic"}
\* A workspace tool looks at its signal before it starts, a tool that the Manager
\* registers (memory, subagents) does not.
Tools == {"none", "workspace", "registered"}
Going == agent \notin {"succeeded", "failed"}
Nothing == [calls |-> 0, whole |-> TRUE, metered |-> FALSE, ended |-> FALSE]

AgentInit ==
  /\ agent = "preparing" /\ adapter = "chat" /\ turn = 0
  /\ route = 1 /\ accepted = {} /\ visible = FALSE
  /\ answer = Nothing /\ metered = FALSE
  /\ pending = 0 /\ started = "none" /\ cause = "none" /\ spent = 0
  /\ steering = {} /\ reads = [i \in Instructions |-> 0]

RunFails == agent' = "failed" /\ UNCHANGED <<turnVars, started, spent, steering, reads>>

-----------------------------------------------------------------------------
(* The run around it                                                          *)

\* The controller of the run: its timer, a cancellation, a lost lease.
AbortAgent ==
  /\ Going /\ cause = "none" /\ cause' = "run"
  /\ UNCHANGED <<agent, adapter, turnVars, started, spent, steering, reads>>

\* steerRun of a run that is RUNNING.
Steer(i) ==
  /\ Going /\ i \notin steering /\ reads[i] = 0 /\ steering' = steering \cup {i}
  /\ UNCHANGED <<agent, adapter, turnVars, started, cause, spent, reads>>

Prepare ==
  /\ agent = "preparing" /\ UNCHANGED <<adapter, cause>>
  /\ \/ agent' = "turn" /\ UNCHANGED <<turnVars, started, spent, steering, reads>>
     \/ RunFails

LeftAfterTurn == {}

\* The top of the loop: throwIfAborted, takeSteering, assertModelContextFits.
StartTurn ==
  /\ agent = "turn" /\ UNCHANGED <<adapter, cause>>
  /\ IF cause # "none" \/ turn = MaxTurns THEN RunFails
     ELSE \/ /\ agent' = "resolve" /\ turn' = turn + 1
             /\ route' = 1 /\ accepted' = {} /\ visible' = FALSE
             /\ answer' = Nothing /\ metered' = FALSE
             /\ reads' = [i \in Instructions |-> IF i \in steering THEN reads[i] + 1 ELSE reads[i]]
             /\ steering' = LeftAfterTurn /\ UNCHANGED <<pending, started, spent>>
          \/ RunFails

-----------------------------------------------------------------------------
(* RoutedModelGateway                                                         *)

\* Mutant: only output makes a request visible.
SeenByOutput == FALSE

SeenByAcceptance == TRUE

Fallback ==
  /\ ~visible /\ route < Routes
  /\ agent' = "resolve" /\ route' = route + 1 /\ answer' = Nothing
  /\ UNCHANGED <<turn, accepted, visible, metered, pending, started, spent, steering, reads>>

\* A model without a price or an adapter is passed over.
SkipRoute ==
  /\ agent = "resolve" /\ UNCHANGED <<adapter, cause>>
  /\ IF route < Routes
     THEN /\ agent' = "resolve" /\ route' = route + 1
          /\ UNCHANGED <<turn, accepted, visible, answer, metered, pending, started, spent, steering, reads>>
     ELSE RunFails

ResolveCredential ==
  /\ agent = "resolve" /\ UNCHANGED <<adapter, cause>>
  /\ \/ agent' = "request" /\ UNCHANGED <<turnVars, started, spent, steering, reads>>
     \/ Fallback \/ RunFails

\* HTTP 408, 429 or 5xx is retryable, another status or a broken connection is not.
RequestRefused ==
  /\ agent = "request" /\ (Fallback \/ RunFails) /\ UNCHANGED <<adapter, cause>>

RequestAccepted ==
  /\ agent = "request" /\ agent' = "stream" /\ adapter' \in Adapters
  /\ accepted' = accepted \cup {route} /\ visible' = (visible \/ SeenByAcceptance)
  /\ UNCHANGED <<turn, route, answer, metered, pending, started, cause, spent, steering, reads>>

\* nextWithIdleTimeout: the race is with an abort that comes while it waits.
\* Mutant: an abort before the wait is not noticed.
AwaitsAnyway == TRUE

MayAwait == cause = "none"

\* usage.updated: #enforceBudget aborts the run when it is over.
Meter ==
  /\ spent' = spent + 1 /\ metered' = TRUE
  /\ cause' = IF spent' > Tokens /\ cause = "none" THEN "budget" ELSE cause

\* What arrives: text, (a part of) a tool call, the usage, an end.
ReceiveText ==
  /\ agent = "stream" /\ MayAwait /\ ~answer.ended /\ ~visible /\ visible' = TRUE
  /\ UNCHANGED <<agent, adapter, turn, route, accepted, answer, metered, pending, started, cause, spent, steering, reads>>

ReceiveCall ==
  /\ agent = "stream" /\ MayAwait /\ ~answer.ended /\ answer.calls < MaxCalls
  /\ \E complete \in BOOLEAN :
       answer' = [answer EXCEPT !.calls = @ + 1, !.whole = @ /\ complete]
  /\ UNCHANGED <<agent, adapter, turn, route, accepted, visible, metered, pending, started, cause, spent, steering, reads>>

\* Chat Completions yields the usage when it comes, the others at the end.
ReceiveUsage ==
  /\ agent = "stream" /\ MayAwait /\ ~answer.ended /\ ~answer.metered
  /\ answer' = [answer EXCEPT !.metered = TRUE]
  /\ IF adapter = "chat" THEN Meter ELSE UNCHANGED <<metered, cause, spent>>
  /\ visible' = (visible \/ adapter = "chat")
  /\ UNCHANGED <<agent, adapter, turn, route, accepted, pending, started, steering, reads>>

\* The terminal event of the provider; the calls are yielded now.
ReceiveEnd ==
  /\ agent = "stream" /\ MayAwait /\ ~answer.ended
  /\ answer' = [answer EXCEPT !.ended = TRUE]
  /\ UNCHANGED <<agent, adapter, turn, route, accepted, visible, metered, pending, started, cause, spent, steering, reads>>

UsableCalls == answer.whole

\* A call is incomplete: the turn fails, whatever was yielded.
YieldIncomplete ==
  /\ agent = "stream" /\ MayAwait /\ answer.ended /\ ~UsableCalls
  /\ RunFails /\ UNCHANGED <<adapter, cause>>

UsageDue ==
  ~metered /\ (adapter = "anthropic" \/ (adapter = "responses" /\ answer.metered))

YieldUsage ==
  /\ agent = "stream" /\ MayAwait /\ answer.ended /\ UsableCalls /\ UsageDue
  /\ Meter
  /\ UNCHANGED <<agent, adapter, turn, route, accepted, visible, answer, pending, started, steering, reads>>

\* "completed", and the end of the stream: sawTerminalEvent.  Chat Completions and
\* Anthropic may call for tools and name none: the next turn follows.
YieldCompleted ==
  /\ agent = "stream" /\ MayAwait /\ answer.ended /\ UsableCalls
  /\ ~UsageDue
  /\ pending' = answer.calls
  /\ \/ answer.calls = 0 /\ agent' = "succeeded"
     \/ answer.calls = 0 /\ adapter # "responses" /\ agent' = "turn"
     \/ answer.calls > 0 /\ agent' = "tools"
  /\ UNCHANGED <<adapter, turn, route, accepted, visible, answer, metered, started, cause, spent, steering, reads>>

UsageMissing ==
  /\ agent = "stream" /\ answer.ended /\ ~metered /\ ~UsageDue
  /\ RunFails /\ UNCHANGED <<adapter, cause>>

\* The stream is cut or reports an error, which an adapter may call retryable.
StreamFails ==
  /\ agent = "stream" /\ ~answer.ended
  /\ (Fallback \/ RunFails) /\ UNCHANGED <<adapter, cause>>

\* Mutant: the timer runs from the first event.
WaitsForEvents == {"stream"}

\* next() of the stream spans the credential and the request.
Waits == {"resolve", "request", "stream"}

IdleTimesOut ==
  /\ agent \in Waits /\ ~answer.ended /\ RunFails /\ UNCHANGED <<adapter, cause>>

\* A response that failed or is incomplete still reports its usage.
ResponseFails ==
  /\ agent = "stream" /\ MayAwait /\ ~answer.ended /\ adapter = "responses"
  /\ agent' = "failed" /\ Meter
  /\ UNCHANGED <<adapter, turn, route, accepted, visible, answer, pending, started, steering, reads>>

\* nextWithIdleTimeout of an aborted run.
NoticeAbort ==
  /\ agent \in {"resolve", "request", "stream"} /\ ~MayAwait /\ RunFails /\ UNCHANGED <<adapter, cause>>

-----------------------------------------------------------------------------
(* The tools of a turn                                                        *)

\* validateAdvertisedToolArguments, the event that counts the call, and the call
\* that is over the budget of calls.
RequestTool ==
  /\ agent = "tools" /\ pending > 0 /\ UNCHANGED adapter
  /\ \/ /\ agent' = "authorize" /\ cause' \in {cause, IF cause = "none" THEN "calls" ELSE cause}
        /\ UNCHANGED <<turnVars, started, spent, steering, reads>>
     \/ RunFails /\ UNCHANGED cause

\* beforeToolCall: the fence, the profile, the approval.
AuthorizeTool ==
  /\ agent = "authorize" /\ UNCHANGED <<adapter, cause>>
  /\ \/ \E t \in Tools \ {"none"} :
          IF t = "workspace" /\ cause # "none" THEN RunFails
          ELSE agent' = "execute" /\ started' = t /\ UNCHANGED <<turnVars, spent, steering, reads>>
     \/ RunFails

ToolEnds ==
  /\ agent = "execute" /\ started' = "none" /\ pending' = pending - 1
  /\ agent' = IF pending' = 0 THEN "turn" ELSE "tools"
  /\ UNCHANGED <<adapter, turn, route, accepted, visible, answer, metered, cause, spent, steering, reads>>

\* The command times out, or throws.
ToolThrows ==
  /\ agent = "execute" /\ agent' = "failed" /\ started' = "none"
  /\ UNCHANGED <<adapter, turnVars, cause, spent, steering, reads>>

AgentNext ==
  \/ AbortAgent \/ (\E i \in Instructions : Steer(i))
  \/ Prepare \/ StartTurn \/ SkipRoute \/ ResolveCredential \/ RequestRefused \/ RequestAccepted
  \/ ReceiveText \/ ReceiveCall \/ ReceiveUsage \/ ReceiveEnd
  \/ YieldIncomplete \/ YieldUsage \/ YieldCompleted \/ UsageMissing
  \/ StreamFails \/ IdleTimesOut \/ ResponseFails \/ NoticeAbort
  \/ RequestTool \/ AuthorizeTool \/ ToolEnds \/ ToolThrows

AgentSpec == AgentInit /\ [][AgentNext]_agentVars

\* Timers fire, tools and approvals end at theirs, and what has arrived is read.
AgentFairness ==
  /\ WF_agentVars(StartTurn) /\ WF_agentVars(IdleTimesOut) /\ WF_agentVars(NoticeAbort)
  /\ WF_agentVars(YieldIncomplete \/ YieldUsage \/ YieldCompleted)
  /\ WF_agentVars(RequestTool) /\ WF_agentVars(AuthorizeTool) /\ WF_agentVars(ToolEnds)

-----------------------------------------------------------------------------
(* Properties                                                                 *)

AgentTypeOK ==
  /\ agent \in AgentStates /\ adapter \in Adapters /\ turn \in 0..MaxTurns
  /\ route \in 1..Routes /\ accepted \subseteq 1..Routes /\ visible \in BOOLEAN
  /\ answer.calls \in 0..MaxCalls /\ metered \in BOOLEAN /\ pending \in 0..MaxCalls
  /\ started \in Tools /\ cause \in {"none", "run", "budget", "calls"}
  /\ spent \in 0..MaxTurns /\ steering \subseteq Instructions

\* "Once any of those boundaries is crossed, the route is never replayed through a
\* fallback": a turn is accepted, and billed, by one provider at most, and an
\* instruction of a client reaches the model once.
AskedOnce == Cardinality(accepted) <= 1 /\ \A i \in Instructions : reads[i] <= 1

\* A tool starts only for an answer that came to its end with every call complete,
\* never after the tokens ran out, and, in the workspace, never after an abort.
ToolsFollowWholeAnswers ==
  [][started = "none" /\ started' # "none" =>
       /\ answer.whole /\ answer.ended /\ cause # "budget"
       /\ started' = "workspace" => cause = "none"]_agentVars

\* run: the agent has not begun or has ended.
AgentRests == agent # "preparing" => ~Going
=============================================================================
