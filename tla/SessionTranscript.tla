-------------------------- MODULE SessionTranscript --------------------------
(***************************************************************************)
(* The messages of one session and what the model is told.  The session's  *)
(* runs execute one after the other; each loads the session as its history *)
(* when it starts, keeps its own messages in memory, and appends what it   *)
(* says and what its tools answer to the session, after the event of the   *)
(* run.  Prompts of later runs and instructions arrive at any time.  One   *)
(* of the runs may spawn a child, wait for it and cancel it.               *)
(*                                                                         *)
(* A message is known by its role, its run, its turn, and, for an answer   *)
(* of the model, the number of its calls, for a tool's, the call.          *)
(***************************************************************************)
EXTENDS Naturals, FiniteSets, Sequences, SequencesExt

CONSTANTS
  SessionRuns,   \* runs of the session
  NoParent,      \* of a child that is not there
  History,       \* messages that are loaded, 1,000 in the code
  TurnLimit,     \* maxTurns of a run
  ShortRuns,     \* runs whose budget is one turn
  CallLimit,     \* bound on the calls of one turn
  MaxSteering,   \* bound on the instructions of a client
  MaxSaid        \* bound on what a child says

ASSUME TranscriptAssumption ==
  /\ NoParent \notin SessionRuns
  /\ History \in Nat \ {0} /\ TurnLimit \in Nat \ {0}
  /\ CallLimit \in Nat /\ MaxSteering \in Nat /\ MaxSaid \in Nat

VARIABLES
  messages,   \* session_messages in the order of their sequence
  recorded,   \* messages whose event the run has appended
  stage,      \* where each run is
  told,       \* messages of its AgentRunner
  inbox,      \* #steering
  turnOf,
  calls,      \* calls of the turn, and how many are answered
  childRun,   \* its parent, whether it ended, how much it said
  heard,      \* what the parent was told of the child
  loadedAt    \* length of the session when the executing run loaded it (history)

transcriptVars ==
  <<messages, recorded, stage, told, inbox, turnOf, calls, childRun, heard, loadedAt>>
runState == <<told, inbox, turnOf, calls, loadedAt>>

TurnsOf(r) == IF r \in ShortRuns THEN 1 ELSE TurnLimit
Speakers == {"user", "steering", "assistant", "tool"}
Message(role, r, n, k) == [role |-> role, run |-> r, turn |-> n, call |-> k]
\* a run holds the lease of its workspace while it executes, and is open until its row says
\* otherwise, which is after the lease is released and the run's tools are
Executing(r) == stage[r] \in {"turn", "model", "tools", "waiting", "finishing"}
Ending(r) == stage[r] \in {"finished", "failing"}
Open(r) == stage[r] = "queued" \/ Executing(r) \/ Ending(r)

NoCalls == [asked |-> 0, answered |-> 0]
NoChild == [parent |-> NoParent, ended |-> FALSE, said |-> 0]

TranscriptInit ==
  /\ messages = <<>> /\ recorded = {}
  /\ stage = [r \in SessionRuns |-> "none"]
  /\ told = [r \in SessionRuns |-> <<>>] /\ inbox = told
  /\ turnOf = [r \in SessionRuns |-> 0]
  /\ calls = [r \in SessionRuns |-> NoCalls]
  /\ childRun = NoChild
  /\ heard = NoParent
  /\ loadedAt = [r \in SessionRuns |-> 0]

SteeringOf(r) == {k \in DOMAIN messages : messages[k].role = "steering" /\ messages[k].run = r}
AllInstructions == UNION {SteeringOf(r) : r \in SessionRuns}

\* the next row of the session
Keep(m) == messages' = Append(messages, m)

\* the newest messages, oldest first
Newest(s) == IF Len(s) > History THEN SubSeq(s, Len(s) - History + 1, Len(s)) ELSE s

-----------------------------------------------------------------------------
\* createOrGetRun: the prompt is appended with the row of the run
CreateSessionRun(r) ==
  /\ stage[r] = "none"
  /\ stage' = [stage EXCEPT ![r] = "queued"]
  /\ Keep(Message("user", r, 0, 0))
  /\ UNCHANGED <<recorded, runState, childRun, heard>>

\* Mutant: the history is what the session holds of the run itself.
LoadOwn(r) ==
  /\ stage[r] = "queued" /\ \A q \in SessionRuns : ~Executing(q)
  /\ stage' = [stage EXCEPT ![r] = "turn"]
  /\ told' = [told EXCEPT ![r] = SelectSeq(messages, LAMBDA m : m.run = r)]
  /\ loadedAt' = [loadedAt EXCEPT ![r] = Len(messages)]
  /\ UNCHANGED <<messages, recorded, inbox, turnOf, calls, childRun, heard>>

\* runs of a session hold its lease in turn
StartRun(r) ==
  /\ stage[r] = "queued" /\ \A q \in SessionRuns : ~Executing(q)
  /\ stage' = [stage EXCEPT ![r] = "turn"]
  /\ told' = [told EXCEPT ![r] = Newest(messages)]
  /\ loadedAt' = [loadedAt EXCEPT ![r] = Len(messages)]
  /\ UNCHANGED <<messages, recorded, inbox, turnOf, calls, childRun, heard>>

TakeTurn(r) ==
  /\ stage[r] = "turn" /\ turnOf[r] < TurnsOf(r)
  /\ stage' = [stage EXCEPT ![r] = "model"]
  /\ turnOf' = [turnOf EXCEPT ![r] = @ + 1]
  /\ told' = [told EXCEPT ![r] = @ \o inbox[r]]
  /\ inbox' = [inbox EXCEPT ![r] = <<>>]
  /\ UNCHANGED <<messages, recorded, calls, childRun, heard, loadedAt>>

\* the event, the message and the memory of one step of the agent
Say(r, m) ==
  /\ recorded' = recorded \union {m}
  /\ Keep(m)
  /\ told' = [told EXCEPT ![r] = Append(@, m)]

\* Mutant: what the model says before it calls a tool is not kept.
AnswerAtEnd(r, n) ==
  /\ stage[r] = "model"
  /\ IF n = 0 THEN Say(r, Message("assistant", r, turnOf[r], n))
     ELSE /\ told' = [told EXCEPT ![r] = Append(@, Message("assistant", r, turnOf[r], n))]
          /\ UNCHANGED <<messages, recorded>>
  /\ calls' = [calls EXCEPT ![r] = [asked |-> n, answered |-> 0]]
  /\ stage' = [stage EXCEPT ![r] = IF n = 0 THEN "finishing" ELSE "tools"]
  /\ UNCHANGED <<inbox, turnOf, childRun, heard, loadedAt>>

\* a turn without calls is the last
AnswerOfModel(r, n) ==
  /\ stage[r] = "model"
  /\ Say(r, Message("assistant", r, turnOf[r], n))
  /\ calls' = [calls EXCEPT ![r] = [asked |-> n, answered |-> 0]]
  /\ stage' = [stage EXCEPT ![r] = IF n = 0 THEN "finishing" ELSE "tools"]
  /\ UNCHANGED <<inbox, turnOf, childRun, heard, loadedAt>>

AnswerTool(r, from) ==
  LET k == calls[r].answered + 1 IN
  /\ stage[r] = from
  /\ Say(r, Message("tool", r, turnOf[r], k))
  /\ calls' = [calls EXCEPT ![r].answered = k]
  /\ stage' = [stage EXCEPT ![r] = IF k = calls[r].asked THEN "turn" ELSE "tools"]
  /\ UNCHANGED <<inbox, turnOf, loadedAt>>

ToolAnswers(r) == AnswerTool(r, "tools")

\* The lease is released and what the run keeps in memory forgotten; its child is
\* cancelled or goes on, and nobody is told any more.
Closes(r, as) ==
  /\ stage' = [stage EXCEPT ![r] = as]
  /\ inbox' = [inbox EXCEPT ![r] = <<>>] /\ told' = [told EXCEPT ![r] = <<>>]
  /\ calls' = [calls EXCEPT ![r] = NoCalls] /\ loadedAt' = [loadedAt EXCEPT ![r] = 0]
  /\ IF childRun.parent = r THEN childRun' = NoChild /\ heard' = NoParent
     ELSE UNCHANGED <<childRun, heard>>
  /\ UNCHANGED <<messages, recorded, turnOf>>

PlainTool(r) == ToolAnswers(r) /\ UNCHANGED <<childRun, heard>>

-----------------------------------------------------------------------------
(* Subagents: a child run in a session of its own *)

SpawnChild(r) ==
  /\ childRun.parent = NoParent
  /\ ToolAnswers(r)
  /\ childRun' = [childRun EXCEPT !.parent = r] /\ UNCHANGED heard

BeginWait(r) ==
  /\ stage[r] = "tools" /\ childRun.parent = r
  /\ stage' = [stage EXCEPT ![r] = "waiting"]
  /\ UNCHANGED <<messages, recorded, runState, childRun, heard>>

\* Mutant: the wait ends with any news of the child.
ChildHasNews == childRun.ended \/ childRun.said > 0

\* waitForTerminal
ChildHasEnded == childRun.ended

\* getLastEvent: what the child said last
LastWord == childRun.said

WaitAnswered(r) ==
  /\ ChildHasEnded
  /\ AnswerTool(r, "waiting")
  /\ heard' = LastWord /\ UNCHANGED childRun

\* the deadline of the wait, or of the command
ChildWaitTimesOut(r) ==
  /\ stage[r] = "waiting"
  /\ Closes(r, "failing")

\* cancelRun: a child that executes ends later
CancelChild(r) ==
  /\ childRun.parent = r
  /\ ToolAnswers(r)
  /\ childRun' \in {childRun, [childRun EXCEPT !.ended = TRUE]} /\ UNCHANGED heard

ChildProceeds ==
  /\ childRun.parent # NoParent /\ ~childRun.ended
  /\ \/ childRun.said < MaxSaid /\ childRun' = [childRun EXCEPT !.said = @ + 1]
     \/ childRun' = [childRun EXCEPT !.ended = TRUE]
  /\ UNCHANGED <<messages, recorded, stage, runState, heard>>

-----------------------------------------------------------------------------
(* The client and the Manager *)

\* Mutant: an instruction is told to the run and not kept in the session.
SteerUnkept(r) ==
  /\ Open(r) /\ Cardinality(AllInstructions) < MaxSteering
  /\ inbox' = [inbox EXCEPT ![r] = Append(@, Message("steering", r, turnOf[r], Len(messages) + 1))]
  /\ UNCHANGED <<messages, recorded, stage, told, turnOf, calls, loadedAt, childRun, heard>>

SteerRun(r) ==
  /\ Open(r) /\ Cardinality(AllInstructions) < MaxSteering
  /\ LET m == Message("steering", r, turnOf[r], Len(messages) + 1) IN
       /\ inbox' = [inbox EXCEPT ![r] = Append(@, m)] /\ Keep(m)
  /\ UNCHANGED <<recorded, stage, told, turnOf, calls, loadedAt, childRun, heard>>

FinishRun(r) ==
  /\ stage[r] = "finishing"
  /\ Closes(r, "finished")

\* cancelled, timed out, over its budget or its turns, or a tool or the model failed
FailRun(r) ==
  \/ Executing(r) /\ Closes(r, "failing")
  \/ stage[r] = "queued" /\ Closes(r, "ended")

\* The end of a run is written when its tools are released; a release that fails
\* makes it an orphan.
CloseRun(r) ==
  /\ Ending(r)
  /\ stage' \in {[stage EXCEPT ![r] = end] :
                  end \in {"ended"} \union (IF stage[r] = "finished" THEN {"succeeded"} ELSE {})}
  /\ UNCHANGED <<messages, recorded, runState, childRun, heard>>

\* what the run says next
NextSaid(r) ==
  {Message("assistant", r, turnOf[r], n) : n \in IF stage[r] = "model" THEN 0 .. CallLimit ELSE {}}
  \union {Message("tool", r, turnOf[r], calls[r].answered + 1) :
          s \in {stage[r]} \intersect {"tools", "waiting"}}

\* The Manager dies, perhaps between an event and its message; at the next start
\* every open run is orphaned.
ManagerRestarts ==
  /\ \E r \in SessionRuns : Executing(r) \/ Ending(r)
  /\ stage' = [r \in SessionRuns |-> IF Open(r) THEN "ended" ELSE stage[r]]
  /\ inbox' = [r \in SessionRuns |-> <<>>] /\ told' = inbox'
  /\ calls' = [r \in SessionRuns |-> NoCalls] /\ loadedAt' = [r \in SessionRuns |-> 0]
  /\ childRun' = NoChild /\ heard' = NoParent
  /\ \/ UNCHANGED recorded
     \/ \E r \in SessionRuns : \E m \in NextSaid(r) : recorded' = recorded \union {m}
  /\ UNCHANGED <<messages, turnOf>>

TranscriptNext ==
  \/ \E r \in SessionRuns :
       \/ CreateSessionRun(r) \/ StartRun(r) \/ TakeTurn(r)
       \/ \E n \in 0 .. CallLimit : AnswerOfModel(r, n)
       \/ PlainTool(r) \/ SpawnChild(r) \/ BeginWait(r) \/ WaitAnswered(r) \/ ChildWaitTimesOut(r)
       \/ CancelChild(r) \/ SteerRun(r) \/ FinishRun(r) \/ FailRun(r) \/ CloseRun(r)
  \/ ChildProceeds
  \/ ManagerRestarts

\* A wait has a deadline.
TranscriptFairness ==
  \A r \in SessionRuns : WF_transcriptVars(WaitAnswered(r)) /\ WF_transcriptVars(ChildWaitTimesOut(r))

TranscriptSpec == TranscriptInit /\ [][TranscriptNext]_transcriptVars /\ TranscriptFairness

-----------------------------------------------------------------------------
TranscriptTypeOK ==
  /\ \A k \in DOMAIN messages : messages[k].role \in Speakers /\ messages[k].run \in SessionRuns
  /\ \A r \in SessionRuns :
       /\ stage[r] \in {"none", "queued", "turn", "model", "tools", "waiting", "finishing",
                         "finished", "failing", "succeeded", "ended"}
       /\ turnOf[r] \in 0 .. TurnLimit /\ loadedAt[r] \in 0 .. Len(messages)
  /\ childRun.said \in 0 .. MaxSaid /\ heard \in 0 .. MaxSaid \union {NoParent}

\* What a run appends to its session was first an event of the run
\* (#appendAgentEvent, control-plane/src/index.ts:1078-1112).
MessagesHaveEvents ==
  \A k \in DOMAIN messages : messages[k].role \in {"assistant", "tool"} => messages[k] \in recorded

\* Positions of the session: what a run that works loaded, what it appended since.
Loaded(r) == {k \in DOMAIN messages : k <= loadedAt[r] /\ loadedAt[r] < k + History}
Own(r) == {k \in DOMAIN messages : loadedAt[r] < k /\ messages[k].run = r}
Said(S) == {messages[k] : k \in S}
Rank(k, S) == Cardinality({j \in S : j <= k})

\* The model of a run that works is told what the session held when the run started,
\* what the run itself appended since, and the instructions that it has taken; without
\* instructions, in the order of the session.  Prompts of later runs are theirs.
ToldWhatIsKept ==
  \A r \in SessionRuns : Executing(r) =>
    LET due == Loaded(r) \union Own(r) IN
    /\ ToSet(told[r]) = Said(Loaded(r)) \union (Said(Own(r) \union SteeringOf(r)) \ ToSet(inbox[r]))
    /\ SteeringOf(r) = {} =>
         /\ Len(told[r]) = Cardinality(due)
         /\ \A k \in due : told[r][Rank(k, due)] = messages[k]

\* In a history that is loaded whole, only runs that were interrupted left calls of the
\* model without an answer, and no answer lacks its call.
CallsAreAnswered ==
  \A k \in DOMAIN messages :
    LET m == messages[k] IN
    /\ m.role = "assistant" /\ stage[m.run] \in {"succeeded", "turn", "model"} =>
         \A c \in 1 .. m.call :
           \E l \in k + 1 .. Len(messages) : messages[l] = Message("tool", m.run, m.turn, c)
    /\ m.role = "tool" =>
         \E l \in 1 .. k - 1 : messages[l].role = "assistant" /\ messages[l].run = m.run
                               /\ messages[l].turn = m.turn /\ m.call \in 1 .. messages[l].call

\* What the next run loads is all that the models and tools of its predecessors ever
\* left: later the session only gets prompts and instructions of others (a terminal run
\* is refused by appendSessionMessage, and one that released its lease has no agent).
HistoryIsSettled ==
  \A r \in SessionRuns : Executing(r) =>
    \A k \in loadedAt[r] + 1 .. Len(messages) :
      messages[k].run = r \/ messages[k].role \in {"user", "steering"}

\* A wait is answered with the last word of the child (subagent_wait, main.ts:342-353).
WaitHearsTheEnd == heard # NoParent => childRun.ended /\ heard = childRun.said

TranscriptIsSound ==
  /\ MessagesHaveEvents /\ ToldWhatIsKept /\ CallsAreAnswered /\ HistoryIsSettled /\ WaitHearsTheEnd

\* No parent waits for a child for ever.
NoParentWaits == \A r \in SessionRuns : stage[r] # "waiting"
=============================================================================
