----------------------------- MODULE AgentProofs -----------------------------
(* What a turn of the agent asks and answers, the browsers and the plugin     *)
(* workers it is given, and the events its readers follow, for any number of  *)
(* routes, calls, sessions and events.                                        *)
EXTENDS AgentTurn, BrowserSessions, EventStream, PluginSupervisor, SessionTranscript,
        FiniteSetTheorems, SequenceTheorems, TLAPS

-----------------------------------------------------------------------------
(* A turn of the agent                                                        *)

\* A request that was accepted is visible, and is not followed by another; an
\* instruction that waits was not read.
AskingInv ==
  /\ \E one \in 1 .. Routes : accepted \subseteq {one}
  /\ visible \in BOOLEAN /\ (~visible => accepted = {})
  /\ agent \in {"resolve", "request"} => accepted = {}
  /\ route \in 1 .. Routes
  /\ reads \in [Instructions -> 0 .. 1] /\ steering \subseteq Instructions
  /\ \A i \in steering : reads[i] = 0

\* Tools belong to an answer that came to its end, and the tokens lasted for it.
ToolsInv ==
  /\ agent \in {"tools", "authorize", "execute"} =>
       answer.whole /\ answer.ended /\ cause # "budget"
  /\ agent # "execute" => started = "none"

\* A tool call that arrives changes what was gathered of the answer, only.
LEMMA CallArrives ==
  ASSUME ReceiveCall
  PROVE  /\ agent = "stream"
         /\ UNCHANGED <<agent, adapter, turn, route, accepted, visible, metered, pending,
                        started,
                        cause, spent, steering, reads>>
  BY Zenon DEF ReceiveCall

\* A fallback is for a turn that nobody accepted.
LEMMA FallbackAsksAgain ==
  ASSUME AskingInv, Fallback, UNCHANGED adapter
  PROVE  AskingInv'
  <1>1. /\ accepted = {} /\ route' \in 1 .. Routes
        /\ UNCHANGED <<accepted, visible, reads, steering>>
    BY AgentAssumption DEF Fallback, AskingInv
  <1>. QED  BY <1>1 DEF AskingInv

\* Every step keeps it: a route is left only before anything of its answer was accepted.
LEMMA AskingStep ==
  ASSUME AskingInv, [AgentNext]_agentVars
  PROVE  AskingInv'
  <1> USE AgentAssumption
  <1>1. ASSUME RunFails PROVE AskingInv'
    BY <1>1 DEF AskingInv, RunFails, turnVars
  <1>2. CASE StartTurn
    <2>1. CASE RunFails
      BY <1>1, <2>1
    <2>2. CASE ~RunFails
      <3>1. /\ accepted' = {} /\ route' = 1 /\ steering' = {}
            /\ reads' = [i \in Instructions |-> IF i \in steering THEN reads[i] + 1 ELSE reads[i]]
        BY <1>2, <2>2 DEF StartTurn, LeftAfterTurn
      <3>0. visible' = FALSE
        BY <1>2, <2>2 DEF StartTurn
      <3>2. reads' \in [Instructions -> 0 .. 1]
        BY <3>1 DEF AskingInv
      <3>3. accepted' \subseteq {1} /\ 1 \in 1 .. Routes
        BY <3>1
      <3>. QED  BY <3>0, <3>1, <3>2, <3>3 DEF AskingInv
    <2>. QED  BY <2>1, <2>2
  <1>3. CASE RequestAccepted
    <2>1. /\ accepted' = {route} /\ agent' = "stream" /\ route' = route
          /\ UNCHANGED <<reads, steering>>
      BY <1>3 DEF RequestAccepted, AskingInv
    <2>2. visible' = TRUE
      BY <1>3 DEF RequestAccepted, SeenByAcceptance
    <2>. QED  BY <2>1, <2>2 DEF AskingInv
  <1>4. CASE SkipRoute \/ ResolveCredential \/ RequestRefused \/ StreamFails
    <2>1. \/ RunFails \/ Fallback
          \/ /\ agent' \in {"resolve", "request"} /\ agent = "resolve" /\ route' \in 1 .. Routes
             /\ UNCHANGED <<accepted, visible, reads, steering>>
      BY <1>4 DEF SkipRoute, ResolveCredential, RequestRefused, StreamFails, turnVars, AskingInv
    <2>2. UNCHANGED adapter
      BY <1>4 DEF SkipRoute, ResolveCredential, RequestRefused, StreamFails
    <2>. QED  BY <1>1, <2>1, <2>2, FallbackAsksAgain DEF AskingInv
  <1>5. CASE \E i \in Instructions : Steer(i)
    BY <1>5 DEF Steer, turnVars, AskingInv
  <1>6. CASE \/ AbortAgent \/ Prepare \/ RequestTool \/ AuthorizeTool \/ ToolEnds \/ ToolThrows
             \/ UNCHANGED agentVars
    BY <1>1, <1>6
    DEF AbortAgent, Prepare, RequestTool, AuthorizeTool, ToolEnds, ToolThrows, agentVars,
        turnVars,
        AskingInv
  <1>7. CASE ReceiveCall
    BY <1>7, CallArrives DEF AskingInv
  <1>8. CASE ReceiveText \/ ReceiveUsage \/ ReceiveEnd \/ YieldUsage \/ YieldCompleted
    <2> USE <1>8 DEF ReceiveText, ReceiveUsage, ReceiveEnd, YieldUsage, YieldCompleted, Meter
    <2>1. /\ agent' \notin {"resolve", "request"}
          /\ UNCHANGED <<accepted, route, reads, steering>>
      OBVIOUS
    <2>2. visible' \in BOOLEAN
      BY DEF AskingInv
    <2>3. visible => visible'
      BY DEF AskingInv
    <2>. QED  BY <2>1, <2>2, <2>3 DEF AskingInv
  <1>9. CASE YieldIncomplete \/ UsageMissing \/ IdleTimesOut \/ ResponseFails \/ NoticeAbort
    BY <1>1, <1>9
    DEF YieldIncomplete, UsageMissing, IdleTimesOut, ResponseFails, NoticeAbort, Meter,
        AskingInv
  <1>. QED  BY <1>2, <1>3, <1>4, <1>5, <1>6, <1>7, <1>8, <1>9 DEF AgentNext

\* A turn is accepted by one provider at most and an instruction reaches the model
\* once, for any number of routes, turns and instructions (RoutedModelGateway, takeSteering).
THEOREM AgentsAskOnce == AgentSpec => []AskedOnce
  <1>1. AgentInit => AskingInv
    <2> SUFFICES ASSUME AgentInit PROVE AskingInv
      OBVIOUS
    <2>1. /\ accepted \subseteq {1} /\ 1 \in 1 .. Routes /\ accepted = {} /\ route = 1
          /\ reads = [i \in Instructions |-> 0] /\ steering = {}
      BY AgentAssumption DEF AgentInit
    <2>2. visible = FALSE
      BY DEF AgentInit
    <2>3. reads \in [Instructions -> 0 .. 1]
      BY <2>1
    <2>4. \E one \in 1 .. Routes : accepted \subseteq {one}
      BY <2>1
    <2>. QED  BY <2>1, <2>2, <2>3, <2>4 DEF AskingInv
  <1>2. AskingInv => AskedOnce
    <2> SUFFICES ASSUME AskingInv PROVE AskedOnce
      OBVIOUS
    <2>1. PICK one \in 1 .. Routes : accepted \subseteq {one}
      BY DEF AskingInv
    <2>2. Cardinality(accepted) <= 1
      <3>1. CASE accepted = {}
        BY <3>1, FS_EmptySet
      <3>2. CASE accepted = {one}
        BY <3>2, FS_Singleton
      <3>. QED  BY <2>1, <3>1, <3>2
    <2>. QED  BY <2>2 DEF AskingInv, AskedOnce
  <1>. QED  BY <1>1, <1>2, AskingStep, PTL DEF AgentSpec

\* Only an answer that was read to its end hands tool calls on.
LEMMA ToolsStep ==
  ASSUME ToolsInv, [AgentNext]_agentVars
  PROVE  ToolsInv'
  <1> USE DEF ToolsInv
  <1>1. ASSUME RunFails, agent # "execute" PROVE ToolsInv'
    BY <1>1 DEF RunFails
  <1>2. ASSUME Fallback, agent # "execute" PROVE ToolsInv'
    BY <1>2 DEF Fallback
  <1>3. CASE StartTurn \/ SkipRoute \/ ResolveCredential \/ RequestRefused \/ StreamFails \/ Prepare
    BY <1>1, <1>2, <1>3
    DEF StartTurn, SkipRoute, ResolveCredential, RequestRefused, StreamFails, Prepare
  <1>4. CASE RequestAccepted \/ (\E i \in Instructions : Steer(i)) \/ AbortAgent \/ UNCHANGED agentVars
    BY <1>4 DEF RequestAccepted, Steer, AbortAgent, agentVars, turnVars
  <1>5. CASE ReceiveText \/ ReceiveCall \/ ReceiveUsage \/ ReceiveEnd \/ YieldUsage \/ ResponseFails
    <2>1. agent = "stream" /\ agent' \in {"stream", "failed"} /\ started' = started
      BY <1>5, CallArrives DEF ReceiveText, ReceiveUsage, ReceiveEnd, YieldUsage, ResponseFails
    <2>. QED  BY <2>1
  <1>6. CASE YieldCompleted
    BY <1>6 DEF YieldCompleted, UsableCalls, MayAwait
  <1>7. CASE YieldIncomplete \/ UsageMissing \/ IdleTimesOut \/ NoticeAbort
    BY <1>1, <1>7 DEF YieldIncomplete, UsageMissing, IdleTimesOut, NoticeAbort, Waits
  <1>8. CASE RequestTool \/ AuthorizeTool \/ ToolEnds \/ ToolThrows
    BY <1>1, <1>8 DEF RequestTool, AuthorizeTool, ToolEnds, ToolThrows, turnVars
  <1>. QED  BY <1>3, <1>4, <1>5, <1>6, <1>7, <1>8 DEF AgentNext

\* A tool starts only for a whole answer that ended, never after the tokens ran out
\* and, in the workspace, never after an abort (#runTurn, assertToolCallsComplete).
THEOREM ToolsNeedWholeAnswers == AgentSpec => ToolsFollowWholeAnswers
  <1> DEFINE Follows ==
        started = "none" /\ started' # "none" =>
          /\ answer.whole /\ answer.ended /\ cause # "budget"
          /\ started' = "workspace" => cause = "none"
  <1>1. AgentInit => ToolsInv
    BY DEF AgentInit, ToolsInv
  <1>2. ToolsInv /\ [AgentNext]_agentVars => [Follows]_agentVars
    <2> SUFFICES ASSUME ToolsInv, AgentNext, started = "none", started' # "none"
                 PROVE  /\ answer.whole /\ answer.ended /\ cause # "budget"
                        /\ started' = "workspace" => cause = "none"
      OBVIOUS
    <2>2. AuthorizeTool
      BY CallArrives
      DEF AgentNext, AbortAgent, Steer, Prepare, StartTurn, SkipRoute, ResolveCredential,
             RequestRefused, RequestAccepted, ReceiveText, ReceiveUsage, ReceiveEnd,
             YieldIncomplete, YieldUsage, YieldCompleted, UsageMissing, StreamFails,
             IdleTimesOut,
             ResponseFails, NoticeAbort, RequestTool, ToolEnds, ToolThrows, RunFails, Fallback
    <2>. QED  BY <2>2 DEF AuthorizeTool, ToolsInv, RunFails
  <1>. QED  BY <1>1, <1>2, ToolsStep, PTL DEF AgentSpec, ToolsFollowWholeAnswers

-----------------------------------------------------------------------------
(* Browser sessions                                                           *)

\* The states of a client
Clients == {"none", "raw", "ready", "wedged"}

\* The types of the rows, of what the Manager remembers and of the clients.
BrowserTypes ==
  /\ broker \in {"serving", "stopping", "down"} /\ present \subseteq Sessions
  /\ operation \in [Operations -> {"none", "starting", "driving"}]
  /\ usedBy \in [Operations -> Sessions]
  /\ row \in [Sessions -> {"none", "OPEN", "CLOSED", "EXPIRED", "FAILED", "INTERRUPTED"}]
  /\ startup \in [Sessions -> {"no", "egress", "process", "profile", "yes"}]
  /\ ending \in [Sessions -> {"no", "draining", "exporting", "stopping", "failing"}]
  /\ endsAs \in [Sessions -> {"CLOSED", "EXPIRED"}]
  /\ browser \in [Sessions -> Clients]

\* Timers, drivers, starts, closes and operations are those of sessions that are present.
WorkIsPresent ==
  /\ armed \subseteq present /\ driver \subseteq present /\ (broker = "down" => present = {})
  /\ \A s \in Sessions : startup[s] # "no" \/ ending[s] # "no" => s \in present
  /\ \A o \in Operations : operation[o] # "none" => usedBy[o] \in present

\* A close gets past its draining only when no operation is left, and a start that has
\* come to the profile has a driver.
DriversAreInUse ==
  /\ \A o \in Operations : operation[o] # "none" => ending[usedBy[o]] \in {"no", "draining"}
  /\ \A o \in Operations : operation[o] = "driving" => usedBy[o] \in driver
  /\ \A s \in Sessions : startup[s] \in {"profile", "yes"} => s \in driver

\* While the Manager serves, every open row is a session it remembers, and neither such a
\* session nor a container that is left is one that a crash interrupted.
RowsArePresent ==
  broker # "down" => \A s \in Sessions :
    /\ row[s] = "OPEN" => s \in present
    /\ row[s] = "INTERRUPTED" => s \notin present /\ s \notin left

\* Clients belong to the sessions, of which there are not too many.
ClientsAreBounded ==
  /\ IsFiniteSet(present) /\ Cardinality(present) <= MaxSessions
  /\ \A s \in Sessions : browser[s] # "none" => s \in present

\* The inductive invariant: a session is accounted for only together with its driver, its
\* timers and the bound on the clients.
BrowserInv ==
  BrowserTypes /\ WorkIsPresent /\ DriversAreInUse /\ RowsArePresent /\ ClientsAreBounded

USE BrowserAssumption
USE DEF browserVars, sessionVars, callVars, driverVars, Active, Each, Clients

\* A Manager begins with no session.
LEMMA BrowserInvInit == BrowserInit => BrowserInv
<1> SUFFICES ASSUME BrowserInit PROVE BrowserInv
  OBVIOUS
<1>1. BrowserTypes
  BY DEF BrowserInit, BrowserTypes
<1>2. WorkIsPresent /\ DriversAreInUse /\ RowsArePresent
  BY DEF BrowserInit, WorkIsPresent, DriversAreInUse, RowsArePresent
<1>3. ClientsAreBounded
  <2>1. present = {} /\ \A s \in Sessions : browser[s] = "none"
    BY DEF BrowserInit
  <2> QED
    BY <2>1, FS_EmptySet DEF ClientsAreBounded
<1> QED
  BY <1>1, <1>2, <1>3 DEF BrowserInv

\* Operations that finish leave, and only a session that is present and does not close
\* gets its timer back.
LEMMA Finishing ==
  ASSUME BrowserTypes, WorkIsPresent, NEW s \in Sessions, NEW os, Finish(s, os)
  PROVE  /\ operation' \in [Operations -> {"none", "starting", "driving"}]
         /\ \A o \in Operations : operation'[o] \in {operation[o], "none"}
         /\ armed' \subseteq present /\ UNCHANGED <<usedBy, present, row, ending, endsAs>>
BY DEF Finish, BrowserTypes, WorkIsPresent

\* A client that ends, stays, starts or is asked is that of one session, and so is what it
\* leaves behind.
LEMMA OneClient ==
  ASSUME BrowserTypes, NEW s \in Sessions,
         \/ ClientEnds(s) \/ ClientStays(s) \/ OwnRequestFails(s) \/ UNCHANGED <<browser, left>>
         \/ browser' = Respawned(s) /\ UNCHANGED left
         \/ browser' = [browser EXCEPT ![s] = "raw"] /\ UNCHANGED left
  PROVE  /\ browser' \in [Sessions -> Clients] /\ left' \subseteq left \cup {s}
         /\ \A t \in Sessions : t # s => browser'[t] = browser[t]
BY DEF ClientEnds, ClientStays, OwnRequestFails, Respawned, BrowserTypes

\* What a step may do that neither opens nor closes a session, nor starts or stops a driver.
LEMMA CallingKeepsBrowserInv ==
  ASSUME BrowserInv, UNCHANGED <<broker, present, row, ending, endsAs, usedBy, driver>>,
         NEW s \in present,
         operation' \in [Operations -> {"none", "starting", "driving"}],
         startup' \in [Sessions -> {"no", "egress", "process", "profile", "yes"}],
         armed' \subseteq present,
         \A o \in Operations : \/ operation'[o] \in {operation[o], "none"}
                               \/ operation[o] # "none" /\ usedBy[o] \in driver,
         \A t \in Sessions : \/ startup'[t] \in {startup[t], "no"}
                             \/ t = s /\ (s \in driver \/ startup'[t] \in {"egress", "process"}),
         browser' \in [Sessions -> Clients], left' \subseteq left \cup {s},
         \A t \in Sessions : t # s => browser'[t] = browser[t]
  PROVE  BrowserInv'
<1> USE DEF BrowserInv
<1>1. BrowserTypes'
  BY DEF BrowserTypes
<1>2. WorkIsPresent'
  BY DEF WorkIsPresent
<1>3. DriversAreInUse'
  BY DEF DriversAreInUse
<1>4. RowsArePresent'
  BY DEF RowsArePresent
<1>5. ClientsAreBounded'
  BY DEF ClientsAreBounded
<1> QED
  BY <1>1, <1>2, <1>3, <1>4, <1>5

\* The steps of a start that give a session no driver keep the invariant.
LEMMA StartKeepsBrowserInv ==
  ASSUME BrowserInv, NEW s \in Sessions,
         \/ BeginStart(s) \/ StartEgress(s) \/ RestoreProfile(s)
         \/ StartProcess(s) /\ UNCHANGED driver
  PROVE  BrowserInv'
<1> USE DEF BrowserInv
<1>1. s \in present /\ UNCHANGED <<broker, driver>>
  BY DEF BeginStart, StartEgress, StartProcess, RestoreProfile, WorkIsPresent, Waiting
<1>2. \/ UNCHANGED <<sessionVars, callVars>>
      \/ /\ Finish(s, Waiting(s)) /\ startup' = [startup EXCEPT ![s] = "no"]
         /\ ClientEnds(s) \/ OwnRequestFails(s) \/ UNCHANGED <<browser, left>>
  BY DEF BeginStart, StartEgress, StartProcess, RestoreProfile, BrowserStartFails
<1>3. CASE UNCHANGED <<sessionVars, callVars>>
  <2>1. \/ /\ startup' = [startup EXCEPT ![s] = IF s \in driver THEN "profile" ELSE "egress"]
           /\ UNCHANGED <<browser, left>>
        \/ /\ startup' = [startup EXCEPT ![s] = "process"]
           /\ browser' = [browser EXCEPT ![s] = "raw"] /\ UNCHANGED left
        \/ /\ startup' = [startup EXCEPT ![s] = "yes"] /\ UNCHANGED <<browser, left>>
           /\ s \in driver
        \/ /\ startup' = [startup EXCEPT ![s] = "profile"] /\ s \in driver
           /\ browser' = [browser EXCEPT ![s] = "ready"] /\ UNCHANGED left
        \/ /\ startup' = [startup EXCEPT ![s] = "no"]
           /\ ClientEnds(s) \/ OwnRequestFails(s) \/ UNCHANGED <<browser, left>>
    BY DEF BeginStart, StartEgress, StartProcess, RestoreProfile, BrowserStartFails,
           DriversAreInUse
  <2>2. startup' \in [Sessions -> {"no", "egress", "process", "profile", "yes"}]
    BY <2>1 DEF BrowserTypes
  <2>3. \A t \in Sessions : \/ startup'[t] \in {startup[t], "no"}
                            \/ t = s /\ (s \in driver \/ startup'[t] \in {"egress", "process"})
    BY <2>1 DEF BrowserTypes
  <2>4. /\ browser' \in [Sessions -> Clients] /\ left' \subseteq left \cup {s}
        /\ \A t \in Sessions : t # s => browser'[t] = browser[t]
    <3>1. CASE browser' = [browser EXCEPT ![s] = "ready"] /\ UNCHANGED left
      BY <3>1 DEF BrowserTypes
    <3> QED
      BY <2>1, <3>1, OneClient
  <2>5. armed' \subseteq present /\ operation' = operation
    BY <1>3 DEF WorkIsPresent
  <2> QED
    BY <1>1, <1>3, <2>2, <2>3, <2>4, <2>5, CallingKeepsBrowserInv DEF BrowserTypes
<1>4. CASE /\ Finish(s, Waiting(s)) /\ startup' = [startup EXCEPT ![s] = "no"]
           /\ ClientEnds(s) \/ OwnRequestFails(s) \/ UNCHANGED <<browser, left>>
  <2>1. /\ operation' \in [Operations -> {"none", "starting", "driving"}]
        /\ \A o \in Operations : operation'[o] \in {operation[o], "none"}
        /\ armed' \subseteq present /\ UNCHANGED <<usedBy, present, row, ending, endsAs>>
    BY <1>4, Finishing
  <2>2. startup' \in [Sessions -> {"no", "egress", "process", "profile", "yes"}]
        /\ \A t \in Sessions : startup'[t] \in {startup[t], "no"}
    BY <1>4 DEF BrowserTypes
  <2>3. /\ browser' \in [Sessions -> Clients] /\ left' \subseteq left \cup {s}
        /\ \A t \in Sessions : t # s => browser'[t] = browser[t]
    BY <1>4, OneClient
  <2> QED
    BY <1>1, <2>1, <2>2, <2>3, CallingKeepsBrowserInv
<1> QED
  BY <1>2, <1>3, <1>4

\* The one step of a start that gives a session its driver.
LEMMA StartProcessKeepsBrowserInv ==
  ASSUME BrowserInv, NEW s \in Sessions, StartProcess(s)
  PROVE  BrowserInv'
<1> USE DEF BrowserInv
<1>1. s \in present /\ UNCHANGED broker
  BY DEF StartProcess, WorkIsPresent
<1>2. CASE UNCHANGED driver
  BY <1>2, StartKeepsBrowserInv
<1>3. CASE driver' # driver
  <2>1. /\ driver' = driver \cup {s} /\ browser' = [browser EXCEPT ![s] = "ready"]
        /\ startup' = [startup EXCEPT ![s] = "profile"]
        /\ UNCHANGED <<left, sessionVars, callVars>>
    BY <1>3 DEF StartProcess
  <2>2. BrowserTypes'
    BY <1>1, <2>1 DEF BrowserTypes
  <2>3. WorkIsPresent'
    BY <1>1, <2>1 DEF WorkIsPresent, BrowserTypes
  <2>4. DriversAreInUse'
    BY <1>1, <2>1 DEF DriversAreInUse, BrowserTypes
  <2>5. RowsArePresent'
    BY <1>1, <2>1 DEF RowsArePresent
  <2>6. ClientsAreBounded'
    BY <1>1, <2>1 DEF ClientsAreBounded, BrowserTypes
  <2> QED
    BY <2>2, <2>3, <2>4, <2>5, <2>6
<1> QED
  BY <1>2, <1>3

\* A client that dies, with the requests that fail with it or are not heard of any more.
LEMMA DyingKeepsBrowserInv ==
  ASSUME BrowserInv, NEW s \in Sessions,
         \/ Killed(s) /\ s \in present
         \/ ProcessDies(s)
  PROVE  BrowserInv'
<1> USE DEF BrowserInv
<1>1. /\ s \in present /\ ClientEnds(s) /\ UNCHANGED <<broker, startup, driver>>
      /\ Finish(s, Driving(s)) \/ UNCHANGED <<sessionVars, operation, usedBy>>
  BY DEF Killed, ProcessDies, WorkIsPresent
<1>2. /\ operation' \in [Operations -> {"none", "starting", "driving"}]
      /\ \A p \in Operations : operation'[p] \in {operation[p], "none"}
      /\ armed' \subseteq present /\ UNCHANGED <<usedBy, present, row, ending, endsAs>>
  <2>1. CASE Finish(s, Driving(s))
    BY <2>1, Finishing
  <2>2. CASE UNCHANGED <<sessionVars, operation, usedBy>>
    BY <2>2 DEF BrowserTypes, WorkIsPresent
  <2> QED
    BY <1>1, <2>1, <2>2
<1>3. /\ browser' \in [Sessions -> Clients] /\ left' \subseteq left \cup {s}
      /\ \A t \in Sessions : t # s => browser'[t] = browser[t]
  BY <1>1, OneClient
<1> QED
  BY <1>1, <1>2, <1>3, CallingKeepsBrowserInv DEF BrowserTypes

\* Operations that enter, drive and leave keep the invariant.
LEMMA DrivingKeepsBrowserInv ==
  ASSUME BrowserInv, NEW o \in Operations, EnterDriver(o) \/ Answered(o) \/ RequestTimesOut(o)
  PROVE  BrowserInv'
<1> USE DEF BrowserInv
<1> DEFINE s == usedBy[o]
<1>1. s \in Sessions /\ s \in present
  BY DEF EnterDriver, Answered, RequestTimesOut, WorkIsPresent, BrowserTypes
<1>2. CASE Killed(s)
  BY <1>1, <1>2, DyingKeepsBrowserInv
<1>3. CASE /\ Finish(s, {o}) /\ UNCHANGED <<broker, startup, driver>>
           /\ ClientStays(s) \/ UNCHANGED <<browser, left>>
  <2>1. /\ operation' \in [Operations -> {"none", "starting", "driving"}]
        /\ \A p \in Operations : operation'[p] \in {operation[p], "none"}
        /\ armed' \subseteq present /\ UNCHANGED <<usedBy, present, row, ending, endsAs>>
    BY <1>1, <1>3, Finishing
  <2>2. /\ browser' \in [Sessions -> Clients] /\ left' \subseteq left \cup {s}
        /\ \A t \in Sessions : t # s => browser'[t] = browser[t]
    BY <1>1, <1>3, OneClient
  <2> QED
    BY <1>1, <1>3, <2>1, <2>2, CallingKeepsBrowserInv DEF BrowserTypes
<1>4. CASE /\ operation[o] = "starting" /\ startup[s] = "yes"
           /\ operation' = [operation EXCEPT ![o] = "driving"] /\ browser' = Respawned(s)
           /\ UNCHANGED <<broker, startup, driver, left, sessionVars, usedBy, unheard>>
  <2>1. s \in driver
    BY <1>1, <1>4 DEF DriversAreInUse
  <2>2. operation' \in [Operations -> {"none", "starting", "driving"}]
        /\ \A p \in Operations : p # o => operation'[p] = operation[p]
    BY <1>4 DEF BrowserTypes
  <2>3. /\ browser' \in [Sessions -> Clients] /\ left' \subseteq left \cup {s}
        /\ \A t \in Sessions : t # s => browser'[t] = browser[t]
    BY <1>1, <1>4, OneClient
  <2>4. armed' \subseteq present
    BY <1>4 DEF WorkIsPresent
  <2> QED
    BY <1>1, <1>4, <2>1, <2>2, <2>3, <2>4, CallingKeepsBrowserInv DEF BrowserTypes
<1> QED
  BY <1>2, <1>3, <1>4 DEF EnterDriver, Answered, RequestTimesOut

\* A session is opened within the limit, and used while it does not close.
LEMMA OpeningKeepsBrowserInv ==
  ASSUME BrowserInv, NEW s \in Sessions,
         CreateSession(s) \/ \E o \in Operations : BeginOperation(o, s)
  PROVE  BrowserInv'
<1> USE DEF BrowserInv
<1>1. CASE CreateSession(s)
  <2>1. /\ broker = "serving" /\ row[s] = "none" /\ Cardinality(present) < MaxSessions
        /\ present' = present \cup {s} /\ armed' = armed \cup {s}
        /\ row' = [row EXCEPT ![s] = "OPEN"]
        /\ UNCHANGED <<broker, operation, usedBy, startup, ending, endsAs, driver, browser,
                       left>>
    BY <1>1 DEF CreateSession, Counted
  <2>2. BrowserTypes'
    BY <2>1 DEF BrowserTypes
  <2>3. WorkIsPresent'
    BY <2>1 DEF WorkIsPresent
  <2>4. DriversAreInUse'
    BY <2>1 DEF DriversAreInUse
  <2>5. RowsArePresent'
    BY <2>1 DEF RowsArePresent, BrowserTypes
  <2>6. IsFiniteSet(present') /\ Cardinality(present') <= MaxSessions
    <3>1. IsFiniteSet(present) /\ Cardinality(present) \in Nat
      BY FS_CardinalityType DEF ClientsAreBounded
    <3>2. /\ IsFiniteSet(present \cup {s})
          /\ Cardinality(present \cup {s}) = IF s \in present THEN Cardinality(present)
                                             ELSE Cardinality(present) + 1
      BY <3>1, FS_AddElement
    <3> QED
      BY <2>1, <3>1, <3>2
  <2>7. ClientsAreBounded'
    BY <2>1, <2>6 DEF ClientsAreBounded
  <2> QED
    BY <2>2, <2>3, <2>4, <2>5, <2>7
<1>2. ASSUME NEW o \in Operations, BeginOperation(o, s) PROVE BrowserInv'
  <2>1. /\ s \in present /\ ending[s] = "no" /\ operation[o] = "none"
        /\ operation' = [operation EXCEPT ![o] = "starting"] /\ usedBy' = [usedBy EXCEPT ![o] = s]
        /\ armed' = armed \ {s}
        /\ UNCHANGED <<broker, present, row, ending, endsAs, startup, driver, browser, left>>
    BY <1>2 DEF BeginOperation, Owned, Closing
  <2>2. BrowserTypes'
    BY <2>1 DEF BrowserTypes
  <2>3. WorkIsPresent'
    BY <2>1 DEF WorkIsPresent, BrowserTypes
  <2>4. DriversAreInUse'
    BY <2>1 DEF DriversAreInUse, BrowserTypes
  <2>5. RowsArePresent' /\ ClientsAreBounded'
    BY <2>1 DEF RowsArePresent, ClientsAreBounded
  <2> QED
    BY <2>2, <2>3, <2>4, <2>5
<1> QED
  BY <1>1, <1>2

\* A close begins for sessions that are present, and gets on when they are not used.
LEMMA ClosingKeepsBrowserInv ==
  ASSUME BrowserInv,
         \/ CloseAll
         \/ \E s \in Sessions : CloseSession(s) \/ IdleTimer(s) \/ OperationsEnd(s)
  PROVE  BrowserInv'
<1> USE DEF BrowserInv
<1>1. ASSUME NEW ss \in SUBSET present, NEW state \in {"CLOSED", "EXPIRED"}, Close(ss, state),
             broker' \in {broker, "stopping"}, broker # "down",
             UNCHANGED <<present, row, callVars, startup, driverVars>>
      PROVE  BrowserInv'
  <2>1. /\ ending' \in [Sessions -> {"no", "draining", "exporting", "stopping", "failing"}]
        /\ \A s \in Sessions : ending'[s] = ending[s] \/ (s \in present /\ ending'[s] = "draining")
        /\ armed' \subseteq armed
    BY <1>1 DEF Close, BrowserTypes
  <2>2. endsAs' \in [Sessions -> {"CLOSED", "EXPIRED"}]
    BY <1>1 DEF Close, BrowserTypes
  <2>3. BrowserTypes'
    BY <1>1, <2>1, <2>2 DEF BrowserTypes
  <2>4. WorkIsPresent'
    BY <1>1, <2>1 DEF WorkIsPresent
  <2>5. DriversAreInUse'
    BY <1>1, <2>1 DEF DriversAreInUse, BrowserTypes
  <2>6. RowsArePresent' /\ ClientsAreBounded'
    BY <1>1 DEF RowsArePresent, ClientsAreBounded
  <2> QED
    BY <2>3, <2>4, <2>5, <2>6
<1>2. CASE CloseAll
  BY <1>1, <1>2 DEF CloseAll
<1>3. ASSUME NEW s \in Sessions, CloseSession(s) \/ IdleTimer(s) PROVE BrowserInv'
  <2>1. s \in present /\ broker # "down"
    BY <1>3 DEF CloseSession, IdleTimer, Owned, WorkIsPresent
  <2>2. PICK state \in {"CLOSED", "EXPIRED"} : Close({s}, state)
    BY <1>3 DEF CloseSession, IdleTimer
  <2>3. UNCHANGED <<broker, present, row, callVars, startup, driverVars>>
    BY <1>3 DEF CloseSession, IdleTimer
  <2> QED
    BY <1>1, <2>1, <2>2, <2>3
<1>4. ASSUME NEW s \in Sessions, OperationsEnd(s) PROVE BrowserInv'
  <2>1. /\ ending[s] = "draining" /\ \A o \in Operations : operation[o] # "none" => usedBy[o] # s
        /\ \E state \in {"exporting", "stopping"} : ending' = [ending EXCEPT ![s] = state]
        /\ UNCHANGED <<broker, present, armed, row, endsAs, callVars, startup, driverVars>>
    BY <1>4 DEF OperationsEnd
  <2>2. BrowserTypes'
    BY <2>1 DEF BrowserTypes
  <2>3. WorkIsPresent'
    BY <2>1 DEF WorkIsPresent, BrowserTypes
  <2>4. DriversAreInUse'
    BY <2>1 DEF DriversAreInUse, BrowserTypes
  <2>5. RowsArePresent' /\ ClientsAreBounded'
    BY <2>1 DEF RowsArePresent, ClientsAreBounded
  <2> QED
    BY <2>2, <2>3, <2>4, <2>5
<1> QED
  BY <1>2, <1>3, <1>4

\* The end of a close, when no operation uses the session.
LEMMA StoppingKeepsBrowserInv ==
  ASSUME BrowserInv, NEW s \in Sessions, ExportProfile(s) \/ StopDriver(s)
  PROVE  BrowserInv'
<1> USE DEF BrowserInv
<1>1. /\ s \in present /\ UNCHANGED <<broker, endsAs, callVars>>
      /\ ending[s] \in {"exporting", "stopping", "failing"}
      /\ \A o \in Operations : operation[o] # "none" => usedBy[o] # s
  BY DEF ExportProfile, StopDriver, WorkIsPresent, DriversAreInUse
<1>2. /\ row' \in [Sessions -> {"none", "OPEN", "CLOSED", "EXPIRED", "FAILED", "INTERRUPTED"}]
      /\ \A t \in Sessions : row'[t] \in {"OPEN", "INTERRUPTED"} => row[t] = row'[t]
  BY DEF ExportProfile, StopDriver, ClosedAs, BrowserTypes
<1>3. /\ browser' \in [Sessions -> Clients] /\ left' \subseteq left \cup {s}
      /\ \A t \in Sessions : t # s => browser'[t] = browser[t]
  <2>1. ClientEnds(s) \/ OwnRequestFails(s) \/ UNCHANGED <<browser, left>>
    BY DEF ExportProfile, StopDriver
  <2> QED
    BY <2>1, OneClient
<1>4. CASE ExportProfile(s)
  <2>1. /\ UNCHANGED <<present, armed, driver>>
        /\ \E state \in {"stopping", "failing"} : ending' = [ending EXCEPT ![s] = state]
        /\ UNCHANGED startup \/ startup' = [startup EXCEPT ![s] = "no"]
    BY <1>4 DEF ExportProfile
  <2>2. ending' \in [Sessions -> {"no", "draining", "exporting", "stopping", "failing"}]
        /\ \A t \in Sessions : t # s => ending'[t] = ending[t]
    BY <2>1 DEF BrowserTypes
  <2>3. startup' \in [Sessions -> {"no", "egress", "process", "profile", "yes"}]
        /\ \A t \in Sessions : startup'[t] \in {startup[t], "no"}
    BY <2>1 DEF BrowserTypes
  <2>4. BrowserTypes'
    BY <1>1, <1>2, <1>3, <2>1, <2>2, <2>3 DEF BrowserTypes
  <2>5. WorkIsPresent'
    BY <1>1, <2>1, <2>2, <2>3 DEF WorkIsPresent
  <2>6. DriversAreInUse'
    BY <1>1, <2>1, <2>2, <2>3 DEF DriversAreInUse, BrowserTypes
  <2>7. RowsArePresent'
    BY <1>1, <1>2, <1>3, <2>1 DEF RowsArePresent
  <2>8. ClientsAreBounded'
    BY <1>1, <1>3, <2>1 DEF ClientsAreBounded
  <2> QED
    BY <2>4, <2>5, <2>6, <2>7, <2>8
<1>5. CASE StopDriver(s)
  <2>1. /\ driver' = driver \ {s} /\ present' = present \ {s} /\ armed' = armed \ {s}
        /\ startup' = [startup EXCEPT ![s] = "no"] /\ ending' = [ending EXCEPT ![s] = "no"]
    BY <1>5 DEF StopDriver
  <2>2. row'[s] # "OPEN" /\ browser'[s] = "none"
    BY <1>5 DEF StopDriver, ClosedAs, ClientEnds, BrowserTypes
  <2>3. BrowserTypes'
    BY <1>1, <1>2, <1>3, <2>1 DEF BrowserTypes
  <2>4. WorkIsPresent'
    BY <1>1, <2>1 DEF WorkIsPresent, BrowserTypes
  <2>5. DriversAreInUse'
    BY <1>1, <2>1 DEF DriversAreInUse, BrowserTypes
  <2>6. RowsArePresent'
    BY <1>1, <1>2, <1>3, <2>1, <2>2 DEF RowsArePresent
  <2>7. IsFiniteSet(present') /\ Cardinality(present') <= MaxSessions
    <3>1. IsFiniteSet(present) /\ Cardinality(present) \in Nat
      BY FS_CardinalityType DEF ClientsAreBounded
    <3>2. /\ IsFiniteSet(present \ {s})
          /\ Cardinality(present \ {s}) = IF s \in present THEN Cardinality(present) - 1
                                          ELSE Cardinality(present)
      BY <3>1, FS_RemoveElement
    <3> QED
      BY <2>1, <3>1, <3>2 DEF ClientsAreBounded
  <2>8. ClientsAreBounded'
    BY <1>3, <2>1, <2>2, <2>7 DEF ClientsAreBounded
  <2> QED
    BY <2>3, <2>4, <2>5, <2>6, <2>8
<1> QED
  BY <1>4, <1>5

\* A Manager that goes down forgets its sessions and their clients, and the next one serves
\* when no container is left.
LEMMA GoingDownKeepsBrowserInv ==
  ASSUME BrowserInv, Exit \/ ManagerCrashes \/ Restart \/ \E s \in Sessions : ContainerEnds(s)
  PROVE  BrowserInv'
<1> USE DEF BrowserInv
<1>1. CASE Exit \/ \E s \in Sessions : ContainerEnds(s)
  <2>1. /\ broker' = broker \/ (broker' = "down" /\ present = {})
        /\ left' \subseteq left
        /\ UNCHANGED <<sessionVars, callVars, startup, driver, browser>>
    BY <1>1 DEF Exit, ContainerEnds
  <2>2. BrowserTypes' /\ WorkIsPresent'
    BY <2>1 DEF BrowserTypes, WorkIsPresent
  <2>3. DriversAreInUse' /\ RowsArePresent' /\ ClientsAreBounded'
    BY <2>1 DEF DriversAreInUse, RowsArePresent, ClientsAreBounded
  <2> QED
    BY <2>2, <2>3
<1>2. CASE ManagerCrashes
  <2>1. /\ broker' = "down" /\ present' = {} /\ armed' = {} /\ driver' = {}
        /\ ending' = [s \in Sessions |-> "no"] /\ operation' = [o \in Operations |-> "none"]
        /\ startup' = [s \in Sessions |-> "no"] /\ browser' = [s \in Sessions |-> "none"]
        /\ UNCHANGED <<row, endsAs, usedBy>>
    BY <1>2 DEF ManagerCrashes
  <2>2. BrowserTypes' /\ WorkIsPresent'
    BY <2>1 DEF BrowserTypes, WorkIsPresent
  <2>3. DriversAreInUse' /\ RowsArePresent'
    BY <2>1 DEF DriversAreInUse, RowsArePresent
  <2>4. ClientsAreBounded'
    BY <2>1, FS_EmptySet DEF ClientsAreBounded
  <2> QED
    BY <2>2, <2>3, <2>4
<1>3. CASE Restart
  <2>1. /\ broker = "down" /\ broker' = "serving" /\ row' = Reconciled /\ left = {}
        /\ UNCHANGED <<present, armed, ending, endsAs, callVars, startup, driverVars>>
    BY <1>3 DEF Restart
  <2>2. BrowserTypes'
    BY <2>1 DEF BrowserTypes, Reconciled
  <2>3. WorkIsPresent' /\ DriversAreInUse'
    BY <2>1 DEF WorkIsPresent, DriversAreInUse
  <2>4. RowsArePresent'
    BY <2>1 DEF RowsArePresent, WorkIsPresent, Reconciled
  <2>5. ClientsAreBounded'
    BY <2>1 DEF ClientsAreBounded
  <2> QED
    BY <2>2, <2>3, <2>4, <2>5
<1> QED
  BY <1>1, <1>2, <1>3

\* Every step keeps the invariant of the browser sessions.
LEMMA BrowserInvStep == BrowserInv /\ [BrowserNext]_browserVars => BrowserInv'
<1> SUFFICES ASSUME BrowserInv, [BrowserNext]_browserVars PROVE BrowserInv'
  OBVIOUS
<1>1. CASE UNCHANGED browserVars
  BY <1>1 DEF BrowserInv, BrowserTypes, WorkIsPresent, DriversAreInUse, RowsArePresent,
              ClientsAreBounded
<1>2. CASE BrowserNext
  <2>1. CASE \E s \in Sessions :
               \/ CreateSession(s) \/ CloseSession(s) \/ IdleTimer(s) \/ ProcessDies(s)
               \/ ContainerEnds(s) \/ BeginStart(s) \/ StartEgress(s) \/ StartProcess(s)
               \/ RestoreProfile(s) \/ OperationsEnd(s) \/ ExportProfile(s) \/ StopDriver(s)
               \/ \E o \in Operations : BeginOperation(o, s)
    BY <2>1, StartKeepsBrowserInv, StartProcessKeepsBrowserInv, OpeningKeepsBrowserInv,
       DyingKeepsBrowserInv, ClosingKeepsBrowserInv, StoppingKeepsBrowserInv,
       GoingDownKeepsBrowserInv
  <2>2. CASE \E o \in Operations : EnterDriver(o) \/ Answered(o) \/ RequestTimesOut(o)
    BY <2>2, DrivingKeepsBrowserInv
  <2>3. CASE CloseAll \/ Exit \/ ManagerCrashes \/ Restart
    BY <2>3, ClosingKeepsBrowserInv, GoingDownKeepsBrowserInv
  <2> QED
    BY <1>2, <2>1, <2>2, <2>3 DEF BrowserNext
<1> QED
  BY <1>1, <1>2

\* The clients are within the limit, and what the invariant says of the rows and drivers
\* is what the properties say.
LEMMA BrowserInvSuffices ==
  BrowserInv => SessionsAreAccounted /\ OperationsKeepTheirDriver
<1> SUFFICES ASSUME BrowserInv PROVE SessionsAreAccounted /\ OperationsKeepTheirDriver
  OBVIOUS
<1>1. BrowsersAreBounded
  <2> DEFINE live == {s \in Sessions : browser[s] # "none"}
  <2>1. IsFiniteSet(present) /\ live \in SUBSET present /\ Cardinality(present) <= MaxSessions
    BY DEF BrowserInv, ClientsAreBounded
  <2>2. IsFiniteSet(live) /\ Cardinality(live) <= Cardinality(present)
    BY <2>1, FS_Subset
  <2>3. Cardinality(live) \in Nat /\ Cardinality(present) \in Nat
    BY <2>1, <2>2, FS_CardinalityType
  <2>4. Cardinality(live) <= MaxSessions
    BY <2>1, <2>2, <2>3
  <2> QED
    BY <2>4 DEF BrowsersAreBounded
<1>2. OpenRowsAreLive
  BY DEF BrowserInv, RowsArePresent, OpenRowsAreLive
<1>3. InterruptedAreGone
  BY DEF BrowserInv, RowsArePresent, ClientsAreBounded, InterruptedAreGone
<1>4. OperationsKeepTheirDriver
  BY DEF BrowserInv, DriversAreInUse, OperationsKeepTheirDriver, BrowserTypes
<1> QED
  BY <1>1, <1>2, <1>3, <1>4 DEF SessionsAreAccounted

\* ManagedBrowserBroker: the limit holds for the clients it has to stop, no open row is
\* left to a session that is gone, and nothing of a session that a crash interrupted runs
\* on, for any sessions and calls and through crashes and restarts.
THEOREM SessionsStayAccounted == BrowserSpec => []SessionsAreAccounted
BY BrowserInvInit, BrowserInvStep, BrowserInvSuffices, PTL DEF BrowserSpec

\* closeManagedSession awaits the operations: no driver is stopped under one.
THEOREM DriversStayWithOperations == BrowserSpec => []OperationsKeepTheirDriver
BY BrowserInvInit, BrowserInvStep, BrowserInvSuffices, PTL DEF BrowserSpec

-----------------------------------------------------------------------------
(* The workers of a plugin                                                    *)

\* What runs is the worker, one that starts, or one that waits for its cleanup, and
\* never two of these; calls keep the worker, and one that starts, alive.
SupervisorInv ==
  /\ callState \in [Calls -> CallStates] /\ callWorker \in [Calls -> Nat]
  /\ worker \in Nat /\ cleanup \in Nat /\ starting \in Nat /\ starts \in Nat
  /\ processes = {worker, cleanup, starting} \ {0}
  /\ worker # 0 => cleanup = 0 /\ starting = 0
  /\ cleanup # 0 => starting = 0
  /\ starting # 0 <=> \E c \in Calls : callState[c] = "starting"
  /\ \A c \in Calls : callState[c] = "running" => worker # 0 /\ callWorker[c] = worker
  /\ stopState \in {"none", "draining", "stopping"}
  /\ stopState = "stopping" =>
       worker = 0 /\ \A c \in Calls : callState[c] \notin {"starting", "running"}
  /\ (\E c \in Calls : callState[c] = "resumed") => stopState = "none"

\* At first no worker runs and no call was made.
LEMMA SupervisorInitial == SupervisorInit => SupervisorInv
  BY DEF SupervisorInit, SupervisorInv, CallStates

\* A call is given a worker only when the one before it was reaped.
LEMMA EnterKeeps ==
  ASSUME SupervisorInv, NEW c \in Calls, Invoke(c)
  PROVE  SupervisorInv'
  BY DEF SupervisorInv, Invoke, Admitted, Enter, Become, workerVars, CallStates

\* Worker, start and cleanup exclude each other through every start, stop and failure.
LEMMA SupervisorStep ==
  ASSUME SupervisorInv, [SupervisorNext]_supervisorVars
  PROVE  SupervisorInv'
  <1>1. CASE UNCHANGED supervisorVars
    BY <1>1 DEF SupervisorInv, supervisorVars, workerVars
  <1>2. ASSUME NEW c \in Calls, Invoke(c)
        PROVE  SupervisorInv'
    BY <1>2, EnterKeeps
  <1>3. ASSUME NEW c \in Calls, AwaitStop(c)
        PROVE  SupervisorInv'
    BY <1>3 DEF SupervisorInv, AwaitStop, Become, workerVars, CallStates
  <1>4. ASSUME NEW c \in Calls, InvokeSucceeds(c)
        PROVE  SupervisorInv'
    BY <1>4 DEF SupervisorInv, InvokeSucceeds, Become, workerVars, CallStates
  <1>5. ASSUME NEW c \in Calls, InvokeFails(c), In({"resumed"}) = {}
        PROVE  SupervisorInv'
    BY <1>5 DEF SupervisorInv, InvokeFails, RequestStop, Become, workerVars, CallStates, In
  <1>6. ASSUME WorkerStarts
        PROVE  SupervisorInv'
    BY <1>6 DEF SupervisorInv, WorkerStarts, Become, In, CallStates
  <1>7. ASSUME BackoffPasses \/ ((TimerStops \/ LifecycleStops) /\ In({"resumed"}) = {})
        PROVE  SupervisorInv'
    BY <1>7 DEF SupervisorInv, BackoffPasses, TimerStops, LifecycleStops, RequestStop, workerVars, In
  <1>8. ASSUME StopDrains
        PROVE  SupervisorInv'
    BY <1>8 DEF SupervisorInv, StopDrains, Drained, Accepted, In
  <1>9. ASSUME NEW reaped \in BOOLEAN, WorkerStartFails(reaped), In({"resumed"}) = {}
        PROVE  SupervisorInv'
    BY <1>9 DEF SupervisorInv, WorkerStartFails, RequestStop, Become, In, CallStates
  <1>10. ASSUME NEW reaped \in BOOLEAN, SupervisorStops(reaped)
         PROVE  SupervisorInv'
    BY <1>10 DEF SupervisorInv, SupervisorStops, Retry, CallStates
  <1>. QED
    BY <1>1, <1>2, <1>3, <1>4, <1>5, <1>6, <1>7, <1>8, <1>9, <1>10 DEF SupervisorNext, In

\* What lies within one element has no two.
LEMMA AtMostOneIsOne ==
  ASSUME NEW S, NEW x, S \subseteq {x}
  PROVE  Cardinality(S) <= 1
  <1>1. S = {} \/ S = {x}
    OBVIOUS
  <1>2. Cardinality({}) = 0 /\ Cardinality({x}) = 1
    BY FS_EmptySet, FS_Singleton
  <1>. QED  BY <1>1, <1>2

\* Of processes that exclude each other there is one at most.
LEMMA SupervisorInvHasOneWorker ==
  ASSUME SupervisorInv
  PROVE  OneWorker
  <1>1. \E p \in Nat : processes \subseteq {p}
    BY DEF SupervisorInv
  <1>2. Cardinality(processes) <= 1
    BY <1>1, AtMostOneIsOne
  <1>. QED  BY <1>2 DEF SupervisorInv, OneWorker, Accepted, In

-----------------------------------------------------------------------------
(* The events of a run                                                        *)

\* What is on its way to the reader goes on from its cursor without a gap: the frames,
\* then the page that the relay writes.  A frame 0, an error, is the last.
StreamInv ==
  /\ last \in Nat /\ endedAt \in 0 .. last /\ cursor \in Nat /\ relayed \in Nat
  /\ frames \in Seq(Nat) /\ page \in Seq(Nat)
  /\ relay # "none" =>
       /\ reader = "streaming" /\ connection = "open" /\ relayed = cursor + Len(frames)
       /\ \A i \in 1 .. Len(frames) : frames[i] = cursor + i
  /\ relay = "writing" => \A i \in 1 .. Len(page) : page[i] = relayed + i
  /\ reader = "streaming" =>
       \A i \in 1 .. Len(frames) :
         frames[i] = cursor + i \/ (frames[i] = 0 /\ i = Len(frames))
  /\ NothingIsMissed

\* At first nothing is on its way.
LEMMA StreamInitial == StreamInit => StreamInv
  BY DEF StreamInit, StreamInv, NothingIsMissed

\* The page of a listing goes on from what was relayed.
LEMMA PagesGoOn ==
  ASSUME StreamAssumption, last \in Nat, relayed \in Nat, last > relayed,
         NEW batch \in Batches(PageAfter(relayed))
  PROVE  batch \in Seq(Nat) /\ \A i \in 1 .. Len(batch) : batch[i] = relayed + i
  <1> DEFINE k == Smaller(Page, last - relayed)
             events == [i \in 1 .. k |-> relayed + i]
  <1>1. k \in Nat \ {0} /\ PageAfter(relayed) = events
    BY DEF PageAfter, Smaller, StreamAssumption
  <1> HIDE DEF k
  <1>2. events \in Seq(Nat) /\ Len(events) = k /\ events # <<>>
    BY <1>1
  <1>3. PICK n \in 1 .. k : batch = SubSeq(events, 1, n)
    <2>1. batch \in {SubSeq(events, 1, n) : n \in 1 .. Len(events)}
      BY <1>1, <1>2 DEF Batches
    <2>. QED  BY <1>2, <2>1
  <1>. QED  BY <1>1, <1>2, <1>3

\* What is left of a sequence that goes on from n goes on from n + 1.
LEMMA TailGoesOn ==
  ASSUME NEW s \in Seq(Nat), s # <<>>, NEW n \in Nat
  PROVE  /\ (\A i \in 1 .. Len(s) : s[i] = n + i) =>
              \A i \in 1 .. Len(Tail(s)) : Tail(s)[i] = n + 1 + i
         /\ (\A i \in 1 .. Len(s) : s[i] = n + i \/ (s[i] = 0 /\ i = Len(s))) =>
              \A i \in 1 .. Len(Tail(s)) :
                Tail(s)[i] = n + 1 + i \/ (Tail(s)[i] = 0 /\ i = Len(Tail(s)))
  <1> DEFINE t == Tail(s)
  <1>1. Len(s) \in Nat /\ Len(t) = Len(s) - 1
    OBVIOUS
  <1>2. \A i \in 1 .. Len(t) : t[i] = s[i + 1]
    OBVIOUS
  <1> HIDE DEF t
  <1>3. \A i \in 1 .. Len(t) : i + 1 \in 1 .. Len(s) /\ i \in Nat
    BY <1>1
  <1>4. ASSUME \A i \in 1 .. Len(s) : s[i] = n + i
        PROVE \A i \in 1 .. Len(t) : t[i] = n + 1 + i
    BY <1>1, <1>2, <1>3, <1>4
  <1>5. ASSUME \A i \in 1 .. Len(s) : s[i] = n + i \/ (s[i] = 0 /\ i = Len(s))
        PROVE  \A i \in 1 .. Len(t) : t[i] = n + 1 + i \/ (t[i] = 0 /\ i = Len(t))
    <2> TAKE i \in 1 .. Len(t)
    <2>1. s[i + 1] = n + (i + 1) \/ (s[i + 1] = 0 /\ i + 1 = Len(s))
      BY <1>3, <1>5
    <2>. QED  BY <1>1, <1>2, <1>3, <2>1
  <1>. QED  BY <1>4, <1>5 DEF t

\* The next event moves the cursor, an error ends the stream.
LEMMA FramesAreRead ==
  ASSUME cursor \in Nat, ReadFrame
  PROVE  /\ Head(frames) = cursor + 1 => cursor' = cursor + 1 /\ reader' = reader
         /\ Head(frames) = 0 => cursor' = cursor /\ reader' \in {"exhausted", "connecting"}
  BY DEF ReadFrame, Pause

\* Frames and page go on from the cursor, however the connection is cut and resumed.
LEMMA StreamStep ==
  ASSUME StreamInv, [StreamNext]_streamVars
  PROVE  StreamInv'
  <1> USE DEF StreamInv, NothingIsMissed, readerVars, relayVars
  <1>1. CASE UNCHANGED streamVars
    BY <1>1 DEF streamVars
  <1>2. CASE AppendEvent
    BY <1>2 DEF AppendEvent
  <1>3. CASE Ask \/ WaitTimesOut
    BY <1>3 DEF Ask, WaitTimesOut
  <1>4. CASE List
    <2>1. page' \in Seq(Nat) /\ \A i \in 1 .. Len(page') : page'[i] = relayed + i
      <3>1. CASE last > relayed
        BY <1>4, <3>1, PagesGoOn, StreamAssumption DEF List
      <3>2. CASE ~(last > relayed)
        BY <1>4, <3>2 DEF List, Batches
      <3>. QED  BY <3>1, <3>2
    <2>. QED  BY <1>4, <2>1 DEF List
  <1>5. CASE WriteFrame
    <2>1. /\ relay = "writing" /\ page # <<>> /\ frames' = Append(frames, Head(page))
          /\ relayed' = Head(page) /\ page' = Tail(page)
          /\ UNCHANGED <<last, endedAt, cursor, reader, relay, connection>>
      BY <1>5 DEF WriteFrame
    <2>2. Head(page) = relayed + 1 /\ Len(page) \in Nat \ {0}
      BY <2>1
    <2>3. \A i \in 1 .. Len(frames') : frames'[i] = cursor + i
      BY <2>1, <2>2
    <2>4. \A i \in 1 .. Len(page') : page'[i] = relayed' + i
      BY <2>1, <2>2
    <2>5. frames' \in Seq(Nat) /\ page' \in Seq(Nat) /\ relayed' \in Nat
      BY <2>1, <2>2
    <2>6. relayed' = cursor' + Len(frames')
      BY <2>1, <2>2
    <2>7. reader' = reader /\ connection' = connection /\ cursor' = cursor /\ relay' = relay
          /\ last' = last /\ endedAt' = endedAt /\ NothingIsMissed'
      BY <2>1
    <2> HIDE DEF NothingIsMissed
    <2>. QED  BY <2>1, <2>3, <2>4, <2>5, <2>6, <2>7
  <1>6. CASE PageWritten \/ CheckRun
    BY <1>6 DEF PageWritten, CheckRun, IsComplete
  <1>7. CASE RequestFails
    BY <1>7 DEF RequestFails, Break
  <1>8. CASE CutConnection
    <2>1. PICK n \in 0 .. Len(frames) : frames' = SubSeq(frames, 1, n)
      BY <1>8 DEF CutConnection
    <2>. QED  BY <1>8, <2>1 DEF CutConnection, Break
  <1>9. CASE Connect
    BY <1>9 DEF Connect, ResumesAfter
  <1>10. CASE ConnectFails
    BY <1>10 DEF ConnectFails, Pause, Break
  <1>11. CASE ReadFrame
    <2>1. /\ reader = "streaming" /\ frames # <<>> /\ frames' = Tail(frames)
          /\ UNCHANGED <<last, endedAt, connection, relay, relayed, page>>
      BY <1>11 DEF ReadFrame
    <2>2. Len(frames) \in Nat \ {0} /\ Head(frames) = frames[1]
          /\ Len(frames') = Len(frames) - 1 /\ frames' \in Seq(Nat)
          /\ \A i \in 1 .. Len(frames') : frames'[i] = frames[i + 1]
      BY <2>1
    <2>3. CASE frames[1] = cursor + 1
      <3>1. cursor' = cursor + 1 /\ reader' = reader
        <4>1. cursor \in Nat /\ Head(frames) = cursor + 1
          BY <2>2, <2>3
        <4>. QED  BY <1>11, <4>1, FramesAreRead
      <3>2. /\ relay # "none" => \A i \in 1 .. Len(frames') : frames'[i] = cursor' + i
            /\ \A i \in 1 .. Len(frames') :
                 frames'[i] = cursor' + i \/ (frames'[i] = 0 /\ i = Len(frames'))
        <4>1. frames \in Seq(Nat) /\ frames # <<>> /\ cursor \in Nat
          BY <2>1
        <4>2. \A i \in 1 .. Len(frames) :
                frames[i] = cursor + i \/ (frames[i] = 0 /\ i = Len(frames))
          BY <2>1
        <4>3. relay # "none" => \A i \in 1 .. Len(frames) : frames[i] = cursor + i
          BY <2>1
        <4> HIDE DEF StreamInv, NothingIsMissed, readerVars, relayVars
        <4>. QED  BY <2>1, <3>1, <4>1, <4>2, <4>3, TailGoesOn
      <3>3. relay # "none" => relayed = cursor' + Len(frames')
        <4>1. relay # "none" => relayed = cursor + Len(frames)
          BY <2>1
        <4>2. cursor \in Nat /\ relayed \in Nat
          BY <2>1
        <4> HIDE DEF StreamInv, NothingIsMissed, readerVars, relayVars
        <4>. QED  BY <2>2, <3>1, <4>1, <4>2
      <3>4. /\ cursor' \in Nat
            /\ relay' = "writing" => \A i \in 1 .. Len(page') : page'[i] = relayed' + i
            /\ relay' # "none" => connection' = "open"
            /\ last' \in Nat /\ endedAt' \in 0 .. last' /\ relayed' \in Nat /\ page' \in Seq(Nat)
        BY <2>1, <3>1
      <3> HIDE DEF StreamInv, NothingIsMissed, readerVars, relayVars
      <3>. QED  BY <2>1, <2>2, <3>1, <3>2, <3>3, <3>4 DEF StreamInv, NothingIsMissed
    <2>4. CASE frames[1] # cursor + 1
      <3>1. frames[1] = 0 /\ Len(frames) = 1 /\ relay = "none"
        <4>1. 1 \in 1 .. Len(frames)
          BY <2>2
        <4>. QED  BY <2>1, <2>4, <4>1
      <3>2. cursor' = cursor /\ reader' \in {"exhausted", "connecting"}
        BY <1>11, <2>2, <3>1, FramesAreRead
      <3>. QED  BY <2>1, <2>2, <3>1, <3>2
    <2>. QED  BY <2>3, <2>4
  <1>12. CASE StreamEnds
    BY <1>12 DEF StreamEnds
  <1>13. CASE StreamIsCut
    BY <1>13 DEF StreamIsCut, Pause
  <1>14. CASE CheckEnd
    BY <1>14 DEF CheckEnd, IsComplete, Pause
  <1>15. CASE CheckFails
    BY <1>15 DEF CheckFails, Pause, Break
  <1>. QED
    BY <1>1, <1>2, <1>3, <1>4, <1>5, <1>6, <1>7, <1>8, <1>9, <1>10, <1>11, <1>12, <1>13,
       <1>14, <1>15 DEF StreamNext

\* docs/API.md, resuming a stream: a reader that says it is done has yielded every event up
\* to the one that ended the run, through any number of lost connections, restarts and pages,
\* and no reconnection makes it miss one (events() of both SDKs, the relay of the Gateway).
THEOREM ReadersMissNothing == StreamSpec => []NothingIsMissed
<1>1. StreamInv => NothingIsMissed
  BY DEF StreamInv
<1> QED
  BY <1>1, StreamInitial, StreamStep, PTL DEF StreamSpec

-----------------------------------------------------------------------------
(* The transcript of a session                                                *)

Messages == [role : Speakers, run : SessionRuns, turn : Nat, call : Nat]
RunStages == {"none", "queued", "turn", "model", "tools", "waiting", "finishing",
              "finished", "failing", "succeeded", "ended"}

TranscriptTypes ==
  /\ messages \in Seq(Messages)
  /\ stage \in [SessionRuns -> RunStages]
  /\ told \in [SessionRuns -> Seq(Messages)] /\ inbox \in [SessionRuns -> Seq(Messages)]
  /\ turnOf \in [SessionRuns -> Nat] /\ loadedAt \in [SessionRuns -> Nat]
  /\ calls \in [SessionRuns -> [asked : Nat, answered : Nat]]

\* One run of the session executes at a time, from what the session then held.
RunsInTurn ==
  /\ \A q, r \in SessionRuns : Executing(q) /\ Executing(r) => q = r
  /\ \A r \in SessionRuns : loadedAt[r] <= Len(messages)

\* What a run that waits or is not there has in the session, and its inbox.
InboxInv ==
  /\ \A k \in DOMAIN messages : messages[k].role = "steering" => messages[k].call = k
  /\ \A k \in DOMAIN messages : messages[k].role \in {"assistant", "tool"} =>
       stage[messages[k].run] \notin {"none", "queued"}
  /\ \A k \in DOMAIN messages : stage[messages[k].run] # "none"
  /\ \A r \in SessionRuns :
       /\ ToSet(inbox[r]) \subseteq Said(SteeringOf(r))
       /\ stage[r] = "queued" => ToSet(inbox[r]) = Said(SteeringOf(r))

AnsweredUpTo(k, n) ==
  \A c \in 1 .. n : \E l \in k + 1 .. Len(messages) :
    messages[l] = Message("tool", messages[k].run, messages[k].turn, c)

WorksOut(r) == stage[r] \in {"turn", "model", "tools", "waiting", "finishing", "finished", "succeeded"}
Calling(r) == stage[r] \in {"tools", "waiting"}

\* What the model called in its last turns is answered; of the turn that is on, what was
\* answered so far.
TurnsAnswered ==
  \A k \in DOMAIN messages : messages[k].role = "assistant" =>
    LET r == messages[k].run IN
    /\ messages[k].turn <= turnOf[r]
    /\ stage[r] = "model" => messages[k].turn < turnOf[r]
    /\ Calling(r) /\ messages[k].turn = turnOf[r] =>
         messages[k].call = calls[r].asked /\ AnsweredUpTo(k, calls[r].answered)
    /\ WorksOut(r) /\ ~(Calling(r) /\ messages[k].turn = turnOf[r]) => AnsweredUpTo(k, messages[k].call)

HasCall(l, m) ==
  /\ messages[l].role = "assistant" /\ messages[l].run = m.run
  /\ messages[l].turn = m.turn /\ m.call \in 1 .. messages[l].call

AnswersAreAsked ==
  \A k \in DOMAIN messages : messages[k].role = "tool" => \E l \in 1 .. k - 1 : HasCall(l, messages[k])

\* Tools run for calls of the model that are not answered.
CallsAreOpen ==
  \A r \in SessionRuns : Calling(r) =>
    /\ calls[r].answered < calls[r].asked
    /\ \E k \in DOMAIN messages :
         messages[k] = Message("assistant", r, turnOf[r], calls[r].asked)

CallsInv == TurnsAnswered /\ AnswersAreAsked /\ CallsAreOpen

\* What a run was told of its child.
ChildInv ==
  /\ childRun.ended \in BOOLEAN
  /\ \A f \in {"parent", "ended", "said"} : f \in DOMAIN childRun
  /\ WaitHearsTheEnd

TranscriptInv ==
  /\ TranscriptTypes /\ RunsInTurn /\ InboxInv /\ CallsInv /\ ChildInv
  /\ MessagesHaveEvents /\ ToldWhatIsKept /\ HistoryIsSettled

\* The next message comes after all the others.
LEMMA KeepEffect ==
  ASSUME messages \in Seq(Messages), NEW m \in Messages, Keep(m)
  PROVE  /\ messages' \in Seq(Messages) /\ Len(messages') = Len(messages) + 1
         /\ DOMAIN messages = 1 .. Len(messages) /\ DOMAIN messages' = 1 .. Len(messages) + 1
         /\ \A k \in DOMAIN messages : messages'[k] = messages[k]
         /\ messages'[Len(messages) + 1] = m
  BY DEF Keep

\* What is loaded are the last messages, in their order.
LEMMA NewestAre ==
  ASSUME NEW s \in Seq(Messages)
  PROVE  LET n == IF Len(s) > History THEN History ELSE Len(s) IN
         /\ Newest(s) \in Seq(Messages) /\ Len(Newest(s)) = n
         /\ \A i \in 1 .. n : Newest(s)[i] = s[i + (Len(s) - n)]
  <1> USE TranscriptAssumption
  <1>1. CASE Len(s) > History
    <2>1. /\ Newest(s) = SubSeq(s, Len(s) - History + 1, Len(s))
          /\ Len(s) \in Nat /\ Len(s) - History + 1 \in 1 .. Len(s) + 1
      BY <1>1 DEF Newest
    <2>2. /\ SubSeq(s, Len(s) - History + 1, Len(s)) \in Seq(Messages)
          /\ Len(SubSeq(s, Len(s) - History + 1, Len(s))) = History
          /\ \A i \in 1 .. History :
               SubSeq(s, Len(s) - History + 1, Len(s))[i] = s[(Len(s) - History + 1) + i - 1]
      BY <2>1, <1>1, SubSeqProperties
    <2>. QED  BY <2>1, <2>2, <1>1
  <1>2. CASE ~(Len(s) > History)
    BY <1>2 DEF Newest
  <1>. QED  BY <1>1, <1>2

\* Messages are of those who speak, and all that is told of is a message.
LEMMA MessageTypes ==
  ASSUME NEW role \in Speakers, NEW r \in SessionRuns, NEW n \in Nat, NEW k \in Nat
  PROVE  Message(role, r, n, k) \in Messages
  BY DEF Message, Messages

\* Steps of runs, clients and the Manager keep the types.
LEMMA TranscriptTypesStep ==
  ASSUME TranscriptTypes, [TranscriptNext]_transcriptVars
  PROVE  TranscriptTypes'
  <1> USE TranscriptAssumption DEF TranscriptTypes, RunStages, runState
  <1>1. CASE UNCHANGED transcriptVars
    BY <1>1 DEF transcriptVars
  <1>2. ASSUME NEW r \in SessionRuns, CreateSessionRun(r)
        PROVE  TranscriptTypes'
    <2>1. messages' \in Seq(Messages)
      BY <1>2, MessageTypes, KeepEffect DEF CreateSessionRun, Speakers
    <2>. QED  BY <1>2, <2>1 DEF CreateSessionRun
  <1>3. ASSUME NEW r \in SessionRuns, StartRun(r)
        PROVE  TranscriptTypes'
    <2>1. Newest(messages) \in Seq(Messages) /\ Len(messages) \in Nat
      <3>1. messages \in Seq(Messages)
        OBVIOUS
      <3> HIDE DEF TranscriptTypes
      <3>2. Newest(messages) \in Seq(Messages)
        BY <3>1, NewestAre
      <3>. QED  BY <3>1, <3>2
    <2>. QED  BY <1>3, <2>1 DEF StartRun
  <1>4. ASSUME NEW r \in SessionRuns, TakeTurn(r)
        PROVE  TranscriptTypes'
    <2>1. told[r] \o inbox[r] \in Seq(Messages) /\ <<>> \in Seq(Messages)
      BY ConcatProperties
    <2>. QED  BY <1>4, <2>1 DEF TakeTurn
  <1>5. ASSUME NEW r \in SessionRuns, NEW n \in Nat, AnswerOfModel(r, n)
        PROVE  TranscriptTypes'
    <2>1. Message("assistant", r, turnOf[r], n) \in Messages
      BY MessageTypes DEF Speakers
    <2>2. /\ messages' \in Seq(Messages)
          /\ told' = [told EXCEPT ![r] = Append(told[r], Message("assistant", r, turnOf[r], n))]
      BY <1>5, <2>1, KeepEffect DEF AnswerOfModel, Say
    <2>3. told' \in [SessionRuns -> Seq(Messages)]
      BY <2>1, <2>2
    <2>. QED  BY <1>5, <2>2, <2>3 DEF AnswerOfModel
  <1>6. ASSUME NEW r \in SessionRuns, NEW from \in {"tools", "waiting"}, AnswerTool(r, from)
        PROVE  TranscriptTypes'
    <2>1. /\ calls[r].answered + 1 \in Nat
          /\ Message("tool", r, turnOf[r], calls[r].answered + 1) \in Messages
      BY MessageTypes DEF Speakers
    <2>2. /\ messages' \in Seq(Messages)
          /\ told' = [told EXCEPT ![r] =
                        Append(told[r], Message("tool", r, turnOf[r], calls[r].answered + 1))]
      BY <1>6, <2>1, KeepEffect DEF AnswerTool, Say
    <2>3. told' \in [SessionRuns -> Seq(Messages)]
      BY <2>1, <2>2
    <2>4. calls' \in [SessionRuns -> [asked : Nat, answered : Nat]]
      BY <1>6, <2>1 DEF AnswerTool
    <2>. QED  BY <1>6, <2>2, <2>3, <2>4 DEF AnswerTool
  <1>7. ASSUME NEW r \in SessionRuns, SteerRun(r)
        PROVE  TranscriptTypes'
    <2> DEFINE m == Message("steering", r, turnOf[r], Len(messages) + 1)
    <2>1. m \in Messages
      BY MessageTypes DEF Speakers
    <2>2. /\ messages' \in Seq(Messages) /\ inbox' = [inbox EXCEPT ![r] = Append(inbox[r], m)]
      BY <1>7, <2>1, KeepEffect DEF SteerRun
    <2>3. inbox' \in [SessionRuns -> Seq(Messages)]
      BY <2>1, <2>2
    <2>. QED  BY <1>7, <2>2, <2>3 DEF SteerRun
  <1>8. ASSUME NEW r \in SessionRuns, NEW as \in {"failing", "ended", "finished"}, Closes(r, as)
        PROVE  TranscriptTypes'
    <2>1. NoCalls \in [asked : Nat, answered : Nat]
      BY DEF NoCalls
    <2>2. /\ stage' = [stage EXCEPT ![r] = as]
          /\ inbox' = [inbox EXCEPT ![r] = <<>>] /\ told' = [told EXCEPT ![r] = <<>>]
          /\ calls' = [calls EXCEPT ![r] = NoCalls] /\ loadedAt' = [loadedAt EXCEPT ![r] = 0]
          /\ UNCHANGED <<messages, turnOf>>
      BY <1>8 DEF Closes
    <2>3. stage' \in [SessionRuns -> RunStages]
      BY <2>2
    <2>4. told' \in [SessionRuns -> Seq(Messages)] /\ inbox' \in [SessionRuns -> Seq(Messages)]
      BY <2>2
    <2>5. /\ calls' \in [SessionRuns -> [asked : Nat, answered : Nat]]
          /\ turnOf' \in [SessionRuns -> Nat] /\ loadedAt' \in [SessionRuns -> Nat]
          /\ messages' \in Seq(Messages)
      BY <2>1, <2>2
    <2> HIDE DEF RunStages
    <2>. QED  BY <2>3, <2>4, <2>5
  <1>9. CASE ManagerRestarts
    BY <1>9 DEF ManagerRestarts, NoCalls
  <1>10. ASSUME NEW r \in SessionRuns, BeginWait(r) \/ CloseRun(r)
         PROVE  TranscriptTypes'
    <2>1. \E end \in RunStages : stage' = [stage EXCEPT ![r] = end]
      BY <1>10 DEF BeginWait, CloseRun
    <2>2. UNCHANGED <<messages, recorded, runState, childRun, heard>>
      BY <1>10 DEF BeginWait, CloseRun
    <2>3. stage' \in [SessionRuns -> RunStages]
      BY <2>1
    <2> HIDE DEF RunStages
    <2>. QED  BY <2>2, <2>3
  <1>11. CASE ChildProceeds
    BY <1>11 DEF ChildProceeds
  <1> HIDE DEF TranscriptTypes, RunStages, runState
  <1>12. CallLimit \in Nat
    OBVIOUS
  <1>. QED
    BY <1>1, <1>2, <1>3, <1>4, <1>5, <1>6, <1>7, <1>8, <1>9, <1>10, <1>11, <1>12
       DEF TranscriptNext, PlainTool, ToolAnswers, SpawnChild, WaitAnswered, CancelChild,
           ChildWaitTimesOut, FinishRun, FailRun

\* What is appended is one more element, and two sequences have the elements of both.
LEMMA ElementsOf ==
  ASSUME NEW s \in Seq(Messages), NEW t \in Seq(Messages), NEW m \in Messages
  PROVE  /\ ToSet(Append(s, m)) = ToSet(s) \union {m} /\ ToSet(s \o t) = ToSet(s) \union ToSet(t)
         /\ ToSet(<<>>) = {} /\ (ToSet(t) = {} => t = <<>> /\ s \o t = s)
  <1>1. /\ Append(s, m) \in Seq(Messages) /\ DOMAIN Append(s, m) = 1 .. Len(s) + 1
        /\ Append(s, m)[Len(s) + 1] = m /\ \A i \in 1 .. Len(s) : Append(s, m)[i] = s[i]
    BY AppendProperties
  <1>2. ToSet(Append(s, m)) = ToSet(s) \union {m}
    <2>1. DOMAIN s = 1 .. Len(s) /\ Len(s) \in Nat
      OBVIOUS
    <2>. QED  BY <1>1, <2>1 DEF ToSet
  <1>3. /\ s \o t \in Seq(Messages) /\ DOMAIN (s \o t) = 1 .. Len(s) + Len(t)
        /\ \A i \in 1 .. Len(s) + Len(t) : (s \o t)[i] = IF i <= Len(s) THEN s[i] ELSE t[i - Len(s)]
    BY ConcatProperties
  <1>4. ToSet(s \o t) = ToSet(s) \union ToSet(t)
    <2>1. /\ DOMAIN s = 1 .. Len(s) /\ Len(s) \in Nat /\ DOMAIN t = 1 .. Len(t) /\ Len(t) \in Nat
      OBVIOUS
    <2>2. \A j \in 1 .. Len(t) : (s \o t)[j + Len(s)] = t[j]
      BY <1>3, <2>1
    <2>3. \A j \in 1 .. Len(s) : (s \o t)[j] = s[j]
      BY <1>3, <2>1
    <2>4. \A i \in 1 .. Len(s) + Len(t) : (i <= Len(s) /\ i \in 1 .. Len(s)) \/ i - Len(s) \in 1 .. Len(t)
      BY <2>1
    <2>5. \A i \in 1 .. Len(s) + Len(t) : (s \o t)[i] \in ToSet(s) \union ToSet(t)
      BY <1>3, <2>1, <2>4 DEF ToSet
    <2>6. ToSet(s \o t) \subseteq ToSet(s) \union ToSet(t)
      BY <1>3, <2>5 DEF ToSet
    <2>7. ToSet(s) \subseteq ToSet(s \o t)
      <3>1. \A j \in 1 .. Len(s) : j \in DOMAIN (s \o t)
        BY <1>3, <2>1
      <3>. QED  BY <2>1, <2>3, <3>1 DEF ToSet
    <2>8. ToSet(t) \subseteq ToSet(s \o t)
      <3>1. \A j \in 1 .. Len(t) : j + Len(s) \in DOMAIN (s \o t)
        BY <1>3, <2>1
      <3>. QED  BY <2>1, <2>2, <3>1 DEF ToSet
    <2>. QED  BY <2>6, <2>7, <2>8
  <1>5. ToSet(<<>>) = {}
    BY DEF ToSet
  <1>6. ToSet(t) = {} => t = <<>>
    <2>1. ToSet(t) = {} => DOMAIN t = {}
      BY DEF ToSet
    <2>2. DOMAIN t = 1 .. Len(t) /\ Len(t) \in Nat
      OBVIOUS
    <2>3. Len(t) # 0 => 1 \in DOMAIN t
      BY <2>2
    <2>4. ToSet(t) = {} => Len(t) = 0
      BY <2>1, <2>3
    <2>. QED  BY <2>4
  <1>7. s \o <<>> = s
    BY ConcatEmptySeq
  <1>. QED  BY <1>2, <1>4, <1>5, <1>6, <1>7

\* What a message that is appended adds to the positions of a run.
LEMMA PositionsAfter ==
  ASSUME messages \in Seq(Messages), NEW m \in Messages, Keep(m)
  PROVE  /\ \A q \in SessionRuns :
              SteeringOf(q)' = IF m.role = "steering" /\ m.run = q
                               THEN SteeringOf(q) \union {Len(messages) + 1} ELSE SteeringOf(q)
         /\ \A S \in SUBSET DOMAIN messages : Said(S)' = Said(S)
         /\ \A S \in SUBSET DOMAIN messages : \A n \in {Len(messages) + 1} :
              Said(S \union {n})' = Said(S) \union {m}
  <1>1. /\ Len(messages) \in Nat
        /\ DOMAIN messages = 1 .. Len(messages) /\ DOMAIN messages' = 1 .. Len(messages) + 1
        /\ \A k \in DOMAIN messages : messages'[k] = messages[k]
        /\ messages'[Len(messages) + 1] = m
    BY KeepEffect
  <1>2. DOMAIN messages' = DOMAIN messages \union {Len(messages) + 1} /\ Len(messages) + 1 \notin DOMAIN messages
    BY <1>1
  <1>3. \A q \in SessionRuns :
          SteeringOf(q)' = IF m.role = "steering" /\ m.run = q
                           THEN SteeringOf(q) \union {Len(messages) + 1} ELSE SteeringOf(q)
    BY <1>1, <1>2 DEF SteeringOf
  <1>4. \A S \in SUBSET DOMAIN messages : Said(S)' = Said(S)
    BY <1>1 DEF Said
  <1>5. \A S \in SUBSET DOMAIN messages : \A n \in {Len(messages) + 1} :
          Said(S \union {n})' = Said(S) \union {m}
    BY <1>1 DEF Said
  <1>. QED  BY <1>3, <1>4, <1>5

\* A step of the agent of a run: an answer of its model or of a tool.
Speaks(r, m, next) ==
  /\ Executing(r) /\ next \in {"turn", "tools", "finishing"}
  /\ m \in Messages /\ m.run = r /\ m.role \in {"assistant", "tool"} /\ m.turn = turnOf[r]
  /\ Keep(m) /\ recorded' = recorded \union {m}
  /\ told' = [told EXCEPT ![r] = Append(told[r], m)]
  /\ stage' = [stage EXCEPT ![r] = next]
  /\ UNCHANGED <<inbox, turnOf, loadedAt>>

\* Both speak for the run.
LEMMA BothSpeak ==
  ASSUME TranscriptTypes, NEW r \in SessionRuns
  PROVE  /\ \A n \in Nat : AnswerOfModel(r, n) =>
              Speaks(r, Message("assistant", r, turnOf[r], n), IF n = 0 THEN "finishing" ELSE "tools")
         /\ \A from \in {"tools", "waiting"} : AnswerTool(r, from) =>
              Speaks(r, Message("tool", r, turnOf[r], calls[r].answered + 1),
                     IF calls[r].answered + 1 = calls[r].asked THEN "turn" ELSE "tools")
  <1>1. turnOf[r] \in Nat /\ calls[r].answered + 1 \in Nat
    BY DEF TranscriptTypes
  <1>2. \A n \in Nat : Message("assistant", r, turnOf[r], n) \in Messages
    BY <1>1, MessageTypes DEF Speakers
  <1>3. Message("tool", r, turnOf[r], calls[r].answered + 1) \in Messages
    BY <1>1, MessageTypes DEF Speakers
  <1>4. ASSUME NEW n \in Nat, AnswerOfModel(r, n)
        PROVE  Speaks(r, Message("assistant", r, turnOf[r], n), IF n = 0 THEN "finishing" ELSE "tools")
    BY <1>2, <1>4 DEF AnswerOfModel, Say, Speaks, Message, Executing
  <1>5. ASSUME NEW from \in {"tools", "waiting"}, AnswerTool(r, from)
        PROVE  Speaks(r, Message("tool", r, turnOf[r], calls[r].answered + 1),
                     IF calls[r].answered + 1 = calls[r].asked THEN "turn" ELSE "tools")
    BY <1>3, <1>5 DEF AnswerTool, Say, Speaks, Message, Executing
  <1>. QED  BY <1>4, <1>5

\* The end of a run that executes, or of one that waits.
Ends(r, as) ==
  /\ Closes(r, as)
  /\ \/ stage[r] = "finishing" /\ as = "finished"
     \/ Executing(r) /\ as = "failing"
     \/ stage[r] = "queued" /\ as = "ended"

\* What a step is to the messages: new ones come from clients and agents.
LEMMA TranscriptCases ==
  ASSUME TranscriptTypes, [TranscriptNext]_transcriptVars
  PROVE  \/ UNCHANGED transcriptVars
         \/ \E r \in SessionRuns :
              \/ CreateSessionRun(r) \/ StartRun(r) \/ TakeTurn(r) \/ SteerRun(r)
              \/ BeginWait(r) \/ CloseRun(r)
         \/ \E r \in SessionRuns : \E m \in Messages : \E next \in RunStages : Speaks(r, m, next)
         \/ \E r \in SessionRuns : \E as \in RunStages : Ends(r, as)
         \/ ChildProceeds
         \/ ManagerRestarts
  <1>1. CallLimit \in Nat
    BY TranscriptAssumption
  <1>2. \A r \in SessionRuns : \A m, next : Speaks(r, m, next) => m \in Messages /\ next \in RunStages
    BY DEF Speaks, RunStages
  <1>3. \A r \in SessionRuns : \A as : Ends(r, as) => as \in RunStages
    BY DEF Ends, RunStages
  <1>4. \A r \in SessionRuns : \A n \in 0 .. CallLimit : AnswerOfModel(r, n) =>
          \E m, next : Speaks(r, m, next)
    BY <1>1, BothSpeak
  <1>5. \A r \in SessionRuns :
          PlainTool(r) \/ SpawnChild(r) \/ WaitAnswered(r) \/ CancelChild(r) =>
            \E m, next : Speaks(r, m, next)
    BY BothSpeak DEF PlainTool, ToolAnswers, SpawnChild, WaitAnswered, CancelChild
  <1>6. \A r \in SessionRuns :
          ChildWaitTimesOut(r) \/ FinishRun(r) \/ FailRun(r) => \E as : Ends(r, as)
    BY DEF ChildWaitTimesOut, FinishRun, FailRun, Ends, Executing
  <1>. QED
    BY <1>2, <1>3, <1>4, <1>5, <1>6 DEF TranscriptNext

\* The lease lets one run execute, from what the session holds by then.
LEMMA RunsInTurnStep ==
  ASSUME TranscriptTypes, RunsInTurn, [TranscriptNext]_transcriptVars
  PROVE  RunsInTurn'
  <1> USE DEF TranscriptTypes, RunsInTurn
  <1>1. CASE UNCHANGED transcriptVars
    BY <1>1 DEF transcriptVars, Executing
  <1>2. ASSUME NEW r \in SessionRuns, CreateSessionRun(r)
        PROVE  RunsInTurn'
    <2>1. Message("user", r, 0, 0) \in Messages
      BY MessageTypes DEF Speakers
    <2>2. Len(messages') = Len(messages) + 1 /\ Len(messages) \in Nat
      BY <1>2, <2>1, KeepEffect DEF CreateSessionRun
    <2>3. \A q \in SessionRuns : (Executing(q)' => Executing(q)) /\ loadedAt'[q] = loadedAt[q]
      BY <1>2 DEF CreateSessionRun, Executing, runState
    <2>. QED  BY <2>2, <2>3, SMTT(30)
  <1>3. ASSUME NEW r \in SessionRuns, StartRun(r)
        PROVE  RunsInTurn'
    BY <1>3 DEF StartRun, Executing
  <1>4. ASSUME NEW r \in SessionRuns, TakeTurn(r)
        PROVE  RunsInTurn'
    BY <1>4 DEF TakeTurn, Executing
  <1>5. ASSUME NEW r \in SessionRuns, SteerRun(r)
        PROVE  RunsInTurn'
    <2>1. Message("steering", r, turnOf[r], Len(messages) + 1) \in Messages
      BY MessageTypes DEF Speakers
    <2>2. Len(messages') = Len(messages) + 1 /\ Len(messages) \in Nat
      BY <1>5, <2>1, KeepEffect DEF SteerRun
    <2>3. \A q \in SessionRuns : (Executing(q)' => Executing(q)) /\ loadedAt'[q] = loadedAt[q]
      BY <1>5 DEF SteerRun, Executing
    <2>. QED  BY <2>2, <2>3, SMTT(30)
  <1>6. ASSUME NEW r \in SessionRuns, BeginWait(r) \/ CloseRun(r)
        PROVE  RunsInTurn'
    BY <1>6 DEF BeginWait, CloseRun, Ending, Executing, runState
  <1>7. ASSUME NEW r \in SessionRuns, NEW m \in Messages, NEW next, Speaks(r, m, next)
        PROVE  RunsInTurn'
    <2>1. Len(messages') = Len(messages) + 1 /\ Len(messages) \in Nat
      BY <1>7, KeepEffect DEF Speaks
    <2>2. \A q \in SessionRuns : (Executing(q)' => Executing(q)) /\ loadedAt'[q] = loadedAt[q]
      BY <1>7 DEF Speaks, Executing
    <2>3. \A q \in SessionRuns : loadedAt[q] \in Nat
      OBVIOUS
    <2> HIDE DEF TranscriptTypes
    <2>. QED  BY <2>1, <2>2, <2>3
  <1>8. ASSUME NEW r \in SessionRuns, NEW as, Ends(r, as)
        PROVE  RunsInTurn'
    <2>1. \A q \in SessionRuns : Executing(q)' => Executing(q)
      BY <1>8 DEF Ends, Closes, Executing
    <2>2. messages' = messages /\ \A q \in SessionRuns : loadedAt'[q] \in {loadedAt[q], 0}
      BY <1>8 DEF Ends, Closes
    <2>3. (\A q \in SessionRuns : loadedAt[q] \in Nat) /\ Len(messages) \in Nat
      OBVIOUS
    <2> HIDE DEF TranscriptTypes
    <2>. QED  BY <2>1, <2>2, <2>3
  <1>9. CASE ChildProceeds
    BY <1>9 DEF ChildProceeds, Executing, runState
  <1>10. CASE ManagerRestarts
    BY <1>10 DEF ManagerRestarts, Open, Executing
  <1>. QED
    BY <1>1, <1>2, <1>3, <1>4, <1>5, <1>6, <1>7, <1>8, <1>9, <1>10, TranscriptCases

\* Events come first, later messages are those of the run that executes or of clients,
\* and a wait ends with the child.
LEMMA HistoryStep ==
  ASSUME TranscriptTypes, RunsInTurn, MessagesHaveEvents, HistoryIsSettled,
         [TranscriptNext]_transcriptVars
  PROVE  MessagesHaveEvents' /\ HistoryIsSettled'
  <1> USE DEF TranscriptTypes, RunsInTurn, MessagesHaveEvents, HistoryIsSettled
  <1>1. CASE UNCHANGED transcriptVars
    BY <1>1 DEF transcriptVars, Executing
  <1>2. ASSUME NEW r \in SessionRuns, CreateSessionRun(r)
        PROVE  MessagesHaveEvents' /\ HistoryIsSettled'
    <2>1. Message("user", r, 0, 0) \in Messages
      BY MessageTypes DEF Speakers
    <2>2. /\ Len(messages) \in Nat /\ Len(messages') = Len(messages) + 1
          /\ DOMAIN messages = 1 .. Len(messages) /\ DOMAIN messages' = 1 .. Len(messages) + 1
          /\ \A k \in DOMAIN messages : messages'[k] = messages[k]
          /\ messages'[Len(messages) + 1].role = "user"
      BY <1>2, <2>1, KeepEffect DEF CreateSessionRun, Message
    <2>3. /\ \A q \in SessionRuns : (Executing(q)' => Executing(q)) /\ loadedAt'[q] = loadedAt[q]
          /\ recorded' = recorded
      BY <1>2 DEF CreateSessionRun, Executing, runState
    <2>4. \A k \in DOMAIN messages' : k \in DOMAIN messages \/ k = Len(messages) + 1
      BY <2>2
    <2>5. \A q \in SessionRuns : loadedAt[q] \in Nat
      OBVIOUS
    <2> HIDE DEF TranscriptTypes
    <2>6. MessagesHaveEvents'
      BY <2>2, <2>3, <2>4
    <2>7. HistoryIsSettled'
      BY <2>2, <2>3, <2>4, <2>5
    <2>. QED  BY <2>6, <2>7
  <1>3. ASSUME NEW r \in SessionRuns, StartRun(r)
        PROVE  MessagesHaveEvents' /\ HistoryIsSettled'
    BY <1>3 DEF StartRun, Executing
  <1>4. ASSUME NEW r \in SessionRuns, TakeTurn(r)
        PROVE  MessagesHaveEvents' /\ HistoryIsSettled'
    BY <1>4 DEF TakeTurn, Executing
  <1>5. ASSUME NEW r \in SessionRuns, SteerRun(r)
        PROVE  MessagesHaveEvents' /\ HistoryIsSettled'
    <2>1. Message("steering", r, turnOf[r], Len(messages) + 1) \in Messages
      BY MessageTypes DEF Speakers
    <2>2. /\ Len(messages) \in Nat /\ Len(messages') = Len(messages) + 1
          /\ DOMAIN messages = 1 .. Len(messages) /\ DOMAIN messages' = 1 .. Len(messages) + 1
          /\ \A k \in DOMAIN messages : messages'[k] = messages[k]
          /\ messages'[Len(messages) + 1].role = "steering"
      BY <1>5, <2>1, KeepEffect DEF SteerRun, Message
    <2>3. /\ \A q \in SessionRuns : (Executing(q)' => Executing(q)) /\ loadedAt'[q] = loadedAt[q]
          /\ recorded' = recorded
      BY <1>5 DEF SteerRun, Executing
    <2>4. \A k \in DOMAIN messages' : k \in DOMAIN messages \/ k = Len(messages) + 1
      BY <2>2
    <2>5. \A q \in SessionRuns : loadedAt[q] \in Nat
      OBVIOUS
    <2> HIDE DEF TranscriptTypes
    <2>6. MessagesHaveEvents'
      BY <2>2, <2>3, <2>4
    <2>7. HistoryIsSettled'
      BY <2>2, <2>3, <2>4, <2>5
    <2>. QED  BY <2>6, <2>7
  <1>6. ASSUME NEW r \in SessionRuns, BeginWait(r) \/ CloseRun(r)
        PROVE  MessagesHaveEvents' /\ HistoryIsSettled'
    BY <1>6 DEF BeginWait, CloseRun, Ending, Executing, runState
  <1>7. ASSUME NEW r \in SessionRuns, NEW m \in Messages, NEW next, Speaks(r, m, next)
        PROVE  MessagesHaveEvents' /\ HistoryIsSettled'
    <2>1. /\ Len(messages) \in Nat /\ Len(messages') = Len(messages) + 1
          /\ DOMAIN messages = 1 .. Len(messages) /\ DOMAIN messages' = 1 .. Len(messages) + 1
          /\ \A k \in DOMAIN messages : messages'[k] = messages[k]
          /\ messages'[Len(messages) + 1] = m
      BY <1>7, KeepEffect DEF Speaks
    <2>2. \A q \in SessionRuns : Executing(q)' => Executing(q) /\ q = r
      BY <1>7 DEF Speaks, Executing
    <2>3. loadedAt' = loadedAt /\ recorded' = recorded \union {m} /\ m.run = r
      BY <1>7 DEF Speaks
    <2>4. \A k \in DOMAIN messages' : k \in DOMAIN messages \/ k = Len(messages) + 1
      BY <2>1
    <2>5. MessagesHaveEvents'
      BY <2>1, <2>3, <2>4
    <2>6. \A q \in SessionRuns : loadedAt[q] \in Nat
      OBVIOUS
    <2> HIDE DEF TranscriptTypes
    <2>7. HistoryIsSettled'
      BY <2>1, <2>2, <2>3, <2>4, <2>6
    <2>. QED  BY <2>5, <2>7
  <1>8. ASSUME NEW r \in SessionRuns, NEW as, Ends(r, as)
        PROVE  MessagesHaveEvents' /\ HistoryIsSettled'
    BY <1>8 DEF Ends, Closes, Executing
  <1>9. CASE ChildProceeds
    BY <1>9 DEF ChildProceeds, Executing, runState
  <1>10. CASE ManagerRestarts
    <2>1. \A q \in SessionRuns : ~Executing(q)'
      BY <1>10 DEF ManagerRestarts, Open, Executing
    <2>2. messages' = messages /\ recorded \subseteq recorded'
      BY <1>10 DEF ManagerRestarts
    <2>. QED  BY <2>1, <2>2
  <1>. QED
    BY <1>1, <1>2, <1>3, <1>4, <1>5, <1>6, <1>7, <1>8, <1>9, <1>10, TranscriptCases

\* What the session holds are messages of its runs.
LEMMA MessagesTyped ==
  ASSUME TranscriptTypes
  PROVE  /\ messages \in Seq(Messages) /\ Len(messages) \in Nat
         /\ DOMAIN messages = 1 .. Len(messages)
         /\ \A k \in DOMAIN messages : messages[k] \in Messages
         /\ \A m \in Messages : m.run \in SessionRuns /\ m.role \in Speakers
                                /\ m.turn \in Nat /\ m.call \in Nat
         /\ \A k \in DOMAIN messages : messages[k].run \in SessionRuns
  <1>1. messages \in Seq(Messages)
    BY DEF TranscriptTypes
  <1>2. \A m \in Messages : m.run \in SessionRuns /\ m.role \in Speakers
                           /\ m.turn \in Nat /\ m.call \in Nat
    BY DEF Messages
  <1>3. \A k \in DOMAIN messages : messages[k] \in Messages
    BY <1>1
  <1>. QED  BY <1>1, <1>2, <1>3

\* Inboxes that are read or emptied, while nobody appends a message.
LEMMA InboxKept ==
  ASSUME TranscriptTypes, InboxInv, UNCHANGED messages,
         \A q \in SessionRuns :
           /\ inbox'[q] \in {inbox[q], <<>>}
           /\ stage'[q] = "none" => stage[q] = "none"
           /\ stage'[q] = "queued" => stage[q] = "queued" /\ inbox'[q] = inbox[q]
  PROVE  InboxInv'
  <1>1. \A k \in DOMAIN messages : messages[k] \in Messages /\ messages[k].run \in SessionRuns
    BY MessagesTyped
  <1>2. \A q \in SessionRuns : SteeringOf(q)' = SteeringOf(q)
    BY DEF SteeringOf
  <1>3. \A q \in SessionRuns : Said(SteeringOf(q))' = Said(SteeringOf(q))
    BY <1>2 DEF Said
  <1>4. ToSet(<<>>) = {}
    BY DEF ToSet
  <1>5. \A q \in SessionRuns : ToSet(inbox[q])' \subseteq ToSet(inbox[q])
    BY <1>4
  <1>6. \A q \in SessionRuns :
          /\ ToSet(inbox[q])' \subseteq Said(SteeringOf(q))'
          /\ stage'[q] = "queued" => ToSet(inbox[q])' = Said(SteeringOf(q))'
    BY <1>3, <1>5 DEF InboxInv
  <1>7. /\ \A k \in DOMAIN messages' : messages'[k].role = "steering" => messages'[k].call = k
        /\ \A k \in DOMAIN messages' : messages'[k].role \in {"assistant", "tool"} =>
             stage'[messages'[k].run] \notin {"none", "queued"}
        /\ \A k \in DOMAIN messages' : stage'[messages'[k].run] # "none"
    BY <1>1 DEF InboxInv
  <1>. QED  BY <1>6, <1>7 DEF InboxInv

\* A message that is no instruction is appended for a run that is there.
LEMMA InboxBeside ==
  ASSUME TranscriptTypes, InboxInv, UNCHANGED inbox,
         NEW m \in Messages, Keep(m), m.role # "steering",
         stage'[m.run] # "none",
         m.role \in {"assistant", "tool"} => stage'[m.run] # "queued",
         \A q \in SessionRuns : /\ stage'[q] = "none" => stage[q] = "none"
                                /\ stage'[q] = "queued" => stage[q] \in {"none", "queued"}
  PROVE  InboxInv'
  <1>1. \A k \in DOMAIN messages : messages[k] \in Messages /\ messages[k].run \in SessionRuns
    BY MessagesTyped
  <1>2. messages \in Seq(Messages)
    BY DEF TranscriptTypes
  <1>3. \A q \in SessionRuns : SteeringOf(q) \in SUBSET DOMAIN messages
    BY DEF SteeringOf
  <1>4. \A q \in SessionRuns : SteeringOf(q)' = SteeringOf(q)
    BY <1>2, PositionsAfter
  <1>5. \A S \in SUBSET DOMAIN messages : Said(S)' = Said(S)
    BY <1>2, PositionsAfter
  <1>6. \A q \in SessionRuns : Said(SteeringOf(q))' = Said(SteeringOf(q))
    <2> SUFFICES ASSUME NEW q \in SessionRuns
                 PROVE  {messages'[k] : k \in SteeringOf(q)'} = {messages[k] : k \in SteeringOf(q)}
      BY DEF Said
    <2>1. {messages'[k] : k \in SteeringOf(q)} = {messages[k] : k \in SteeringOf(q)}
      BY <1>3, <1>5 DEF Said
    <2>. QED  BY <2>1, <1>4
  <1>7. \A q \in SessionRuns : stage[q] = "none" => Said(SteeringOf(q)) = {}
    BY DEF InboxInv, SteeringOf, Said
  <1>8. \A q \in SessionRuns :
          /\ ToSet(inbox[q])' \subseteq Said(SteeringOf(q))'
          /\ stage'[q] = "queued" => ToSet(inbox[q])' = Said(SteeringOf(q))'
    BY <1>6, <1>7 DEF InboxInv
  <1>9. \A k \in DOMAIN messages' : \/ k \in DOMAIN messages /\ messages'[k] = messages[k]
                                    \/ messages'[k] = m
    BY <1>2, KeepEffect
  <1>10. /\ \A k \in DOMAIN messages' : messages'[k].role = "steering" => messages'[k].call = k
         /\ \A k \in DOMAIN messages' : messages'[k].role \in {"assistant", "tool"} =>
              stage'[messages'[k].run] \notin {"none", "queued"}
         /\ \A k \in DOMAIN messages' : stage'[messages'[k].run] # "none"
    BY <1>1, <1>9 DEF InboxInv
  <1>. QED  BY <1>8, <1>10 DEF InboxInv

\* An instruction is in the session when it is in the inbox.
LEMMA InboxSteered ==
  ASSUME TranscriptTypes, InboxInv, NEW r \in SessionRuns, SteerRun(r)
  PROVE  InboxInv'
  <1> DEFINE m == Message("steering", r, turnOf[r], Len(messages) + 1)
  <1>1. /\ messages \in Seq(Messages) /\ inbox \in [SessionRuns -> Seq(Messages)]
        /\ turnOf[r] \in Nat /\ Len(messages) + 1 \in Nat
    BY DEF TranscriptTypes
  <1>2. m \in Messages /\ m.role = "steering" /\ m.run = r /\ m.call = Len(messages) + 1
    BY <1>1, MessageTypes DEF Speakers, Message
  <1>3. /\ Keep(m) /\ inbox' = [inbox EXCEPT ![r] = Append(inbox[r], m)]
        /\ UNCHANGED stage /\ stage[r] # "none"
    BY DEF SteerRun, Open, Executing, Ending
  <1> HIDE DEF m
  <1>4. \A k \in DOMAIN messages : messages[k] \in Messages /\ messages[k].run \in SessionRuns
    BY MessagesTyped
  <1>5. \A q \in SessionRuns : SteeringOf(q) \in SUBSET DOMAIN messages
    BY DEF SteeringOf
  <1>6. \A q \in SessionRuns :
          SteeringOf(q)' = IF q = r THEN SteeringOf(q) \union {Len(messages) + 1} ELSE SteeringOf(q)
    BY <1>1, <1>2, <1>3, PositionsAfter
  <1>7. /\ \A S \in SUBSET DOMAIN messages : {messages'[k] : k \in S} = {messages[k] : k \in S}
        /\ \A S \in SUBSET DOMAIN messages : \A n \in {Len(messages) + 1} :
             {messages'[k] : k \in S \union {n}} = {messages[k] : k \in S} \union {m}
    BY <1>1, <1>2, <1>3, PositionsAfter DEF Said
  <1>8. \A q \in SessionRuns :
          Said(SteeringOf(q))' = IF q = r THEN Said(SteeringOf(q)) \union {m} ELSE Said(SteeringOf(q))
    <2> SUFFICES ASSUME NEW q \in SessionRuns
                 PROVE  {messages'[k] : k \in SteeringOf(q)'}
                          = IF q = r THEN {messages[k] : k \in SteeringOf(q)} \union {m}
                            ELSE {messages[k] : k \in SteeringOf(q)}
      BY DEF Said
    <2>. QED  BY <1>5, <1>6, <1>7
  <1>9. \A q \in SessionRuns :
          ToSet(inbox[q])' = IF q = r THEN ToSet(inbox[q]) \union {m} ELSE ToSet(inbox[q])
    <2>1. ToSet(Append(inbox[r], m)) = ToSet(inbox[r]) \union {m}
      BY <1>1, <1>2, ElementsOf
    <2>. QED  BY <1>1, <1>3, <2>1
  <1>10. \A q \in SessionRuns :
           /\ ToSet(inbox[q])' \subseteq Said(SteeringOf(q))'
           /\ stage'[q] = "queued" => ToSet(inbox[q])' = Said(SteeringOf(q))'
    <2>1. \A q \in SessionRuns :
            /\ ToSet(inbox[q]) \subseteq Said(SteeringOf(q))
            /\ stage'[q] = "queued" => ToSet(inbox[q]) = Said(SteeringOf(q))
      BY <1>3 DEF InboxInv
    <2>. QED  BY <2>1, <1>8, <1>9
  <1>11. \A k \in DOMAIN messages' : \/ k \in DOMAIN messages /\ messages'[k] = messages[k]
                                     \/ k = Len(messages) + 1 /\ messages'[k] = m
    BY <1>1, <1>2, <1>3, KeepEffect
  <1>12. /\ \A k \in DOMAIN messages' : messages'[k].role = "steering" => messages'[k].call = k
         /\ \A k \in DOMAIN messages' : messages'[k].role \in {"assistant", "tool"} =>
              stage'[messages'[k].run] \notin {"none", "queued"}
         /\ \A k \in DOMAIN messages' : stage'[messages'[k].run] # "none"
    BY <1>2, <1>3, <1>4, <1>11 DEF InboxInv
  <1>. QED  BY <1>10, <1>12 DEF InboxInv

\* Instructions in an inbox are in the session, all of them while their run waits.
LEMMA InboxStep ==
  ASSUME TranscriptTypes, InboxInv, [TranscriptNext]_transcriptVars
  PROVE  InboxInv'
  <1>0. /\ stage \in [SessionRuns -> RunStages] /\ inbox \in [SessionRuns -> Seq(Messages)]
    BY DEF TranscriptTypes
  <1>1. CASE UNCHANGED transcriptVars
    BY <1>1, InboxKept DEF transcriptVars
  <1>2. ASSUME NEW r \in SessionRuns, CreateSessionRun(r)
        PROVE  InboxInv'
    <2>1. /\ Message("user", r, 0, 0) \in Messages
          /\ Message("user", r, 0, 0).role = "user" /\ Message("user", r, 0, 0).run = r
      BY MessageTypes DEF Speakers, Message
    <2>2. /\ Keep(Message("user", r, 0, 0)) /\ UNCHANGED inbox
          /\ stage[r] = "none" /\ stage' = [stage EXCEPT ![r] = "queued"]
      BY <1>2 DEF CreateSessionRun, runState
    <2>3. \A q \in SessionRuns : /\ stage'[q] = "none" => stage[q] = "none"
                                 /\ stage'[q] = "queued" => stage[q] \in {"none", "queued"}
      BY <1>0, <2>2
    <2>4. stage'[r] = "queued"
      BY <1>0, <2>2
    <2>. QED  BY <2>1, <2>2, <2>3, <2>4, InboxBeside
  <1>3. ASSUME NEW r \in SessionRuns, StartRun(r)
        PROVE  InboxInv'
    BY <1>0, <1>3, InboxKept DEF StartRun
  <1>4. ASSUME NEW r \in SessionRuns, TakeTurn(r)
        PROVE  InboxInv'
    BY <1>0, <1>4, InboxKept DEF TakeTurn
  <1>5. ASSUME NEW r \in SessionRuns, BeginWait(r)
        PROVE  InboxInv'
    BY <1>0, <1>5, InboxKept DEF BeginWait, runState
  <1>6. ASSUME NEW r \in SessionRuns, CloseRun(r)
        PROVE  InboxInv'
    BY <1>0, <1>6, InboxKept DEF CloseRun, Ending, runState
  <1>7. ASSUME NEW r \in SessionRuns, NEW m \in Messages, NEW next \in RunStages, Speaks(r, m, next)
        PROVE  InboxInv'
    <2>1. /\ Keep(m) /\ UNCHANGED inbox /\ stage' = [stage EXCEPT ![r] = next]
          /\ next \notin {"none", "queued"} /\ stage[r] \notin {"none", "queued"}
          /\ m.run = r /\ m.role # "steering"
      BY <1>7 DEF Speaks, Executing
    <2>2. /\ stage'[r] \notin {"none", "queued"}
          /\ \A q \in SessionRuns : /\ stage'[q] = "none" => stage[q] = "none"
                                    /\ stage'[q] = "queued" => stage[q] \in {"none", "queued"}
      BY <1>0, <2>1
    <2>. QED  BY <2>1, <2>2, InboxBeside
  <1>8. ASSUME NEW r \in SessionRuns, NEW as \in RunStages, Ends(r, as)
        PROVE  InboxInv'
    BY <1>0, <1>8, InboxKept DEF Ends, Closes, Executing
  <1>9. CASE ChildProceeds
    BY <1>9, InboxKept DEF ChildProceeds, runState
  <1>10. CASE ManagerRestarts
    BY <1>10, InboxKept DEF ManagerRestarts, Open
  <1>11. ASSUME NEW r \in SessionRuns, SteerRun(r)
         PROVE  InboxInv'
    BY <1>11, InboxSteered
  <1>. QED
    BY <1>1, <1>2, <1>3, <1>4, <1>5, <1>6, <1>7, <1>8, <1>9, <1>10, <1>11, TranscriptCases

\* Answers stay where they are.
LEMMA AnswersStay ==
  ASSUME messages \in Seq(Messages), NEW m \in Messages, Keep(m)
  PROVE  /\ \A k \in DOMAIN messages : \A n \in Nat : AnsweredUpTo(k, n) => AnsweredUpTo(k, n)'
         /\ \A k \in DOMAIN messages : \A n \in Nat :
              AnsweredUpTo(k, n) /\ m = Message("tool", messages[k].run, messages[k].turn, n + 1)
                => AnsweredUpTo(k, n + 1)'
         /\ \A k \in DOMAIN messages : \A x : (\E l \in 1 .. k - 1 : HasCall(l, x))
                => (\E l \in 1 .. k - 1 : messages'[l].role = "assistant" /\ messages'[l].run = x.run
                       /\ messages'[l].turn = x.turn /\ x.call \in 1 .. messages'[l].call)
  <1>1. /\ Len(messages) \in Nat /\ Len(messages') = Len(messages) + 1
        /\ DOMAIN messages = 1 .. Len(messages)
        /\ \A k \in DOMAIN messages : messages'[k] = messages[k]
        /\ messages'[Len(messages) + 1] = m
    BY KeepEffect
  <1>2. ASSUME NEW k \in DOMAIN messages, NEW n \in Nat, AnsweredUpTo(k, n)
        PROVE  \A c \in 1 .. n : \E l \in k + 1 .. Len(messages') :
                 messages'[l] = Message("tool", messages'[k].run, messages'[k].turn, c)
    <2> TAKE c \in 1 .. n
    <2>1. PICK l \in k + 1 .. Len(messages) :
            messages[l] = Message("tool", messages[k].run, messages[k].turn, c)
      BY <1>2 DEF AnsweredUpTo
    <2>2. l \in DOMAIN messages /\ l \in k + 1 .. Len(messages')
      BY <1>1
    <2>. QED  BY <1>1, <2>1, <2>2
  <1>3. ASSUME NEW k \in DOMAIN messages, NEW n \in Nat, AnsweredUpTo(k, n),
               m = Message("tool", messages[k].run, messages[k].turn, n + 1)
        PROVE  \A c \in 1 .. n + 1 : \E l \in k + 1 .. Len(messages') :
                 messages'[l] = Message("tool", messages'[k].run, messages'[k].turn, c)
    <2> TAKE c \in 1 .. n + 1
    <2>1. CASE c \in 1 .. n
      BY <1>2, <1>3, <2>1
    <2>2. CASE c = n + 1
      <3>1. Len(messages) + 1 \in k + 1 .. Len(messages')
        BY <1>1
      <3>. QED  BY <1>1, <1>3, <2>2, <3>1
    <2>. QED  BY <2>1, <2>2
  <1>4. ASSUME NEW k \in DOMAIN messages, NEW x, NEW l \in 1 .. k - 1, HasCall(l, x)
        PROVE  \E i \in 1 .. k - 1 : messages'[i].role = "assistant" /\ messages'[i].run = x.run
                       /\ messages'[i].turn = x.turn /\ x.call \in 1 .. messages'[i].call
    <2>1. l \in DOMAIN messages
      BY <1>1
    <2>2. messages'[l] = messages[l]
      BY <1>1, <2>1
    <2>. QED  BY <1>4, <2>2 DEF HasCall
  <1>. QED  BY <1>2, <1>3, <1>4 DEF AnsweredUpTo

\* Steps of runs that add no message and call no tool.
LEMMA CallsKept ==
  ASSUME TranscriptTypes, InboxInv, CallsInv, UNCHANGED messages,
         \A q \in SessionRuns :
           \/ /\ turnOf'[q] = turnOf[q] /\ calls'[q] = calls[q] /\ (Calling(q)' <=> Calling(q))
              /\ (stage'[q] = "model" => stage[q] = "model") /\ (WorksOut(q)' => WorksOut(q))
           \/ /\ turnOf'[q] = turnOf[q] /\ ~Calling(q)' /\ stage'[q] # "model"
              /\ WorksOut(q)' => WorksOut(q) /\ ~Calling(q)
           \/ stage[q] = "queued" /\ ~Calling(q)'
           \/ stage[q] = "turn" /\ stage'[q] = "model" /\ turnOf'[q] = turnOf[q] + 1
  PROVE  CallsInv'
  <1>1. /\ \A k \in DOMAIN messages : messages[k] \in Messages
        /\ \A k \in DOMAIN messages : messages[k].run \in SessionRuns /\ messages[k].turn \in Nat
        /\ \A q \in SessionRuns : turnOf[q] \in Nat
    <2>1. \A q \in SessionRuns : turnOf[q] \in Nat
      BY DEF TranscriptTypes
    <2>. QED  BY <2>1, MessagesTyped
  <1>2. \A k, n : AnsweredUpTo(k, n)' <=> AnsweredUpTo(k, n)
    BY DEF AnsweredUpTo
  <1>3. \A k \in DOMAIN messages : messages[k].role = "assistant" => stage[messages[k].run] # "queued"
    BY DEF InboxInv
  <1>4. TurnsAnswered'
    <2> SUFFICES ASSUME NEW k \in DOMAIN messages, messages[k].role = "assistant",
                        NEW r \in {messages[k].run}
                 PROVE  /\ messages[k].turn <= turnOf'[r]
                        /\ stage'[r] = "model" => messages[k].turn < turnOf'[r]
                        /\ Calling(r)' /\ messages[k].turn = turnOf'[r] =>
                             messages[k].call = calls'[r].asked /\ AnsweredUpTo(k, calls'[r].answered)
                        /\ WorksOut(r)' /\ ~(Calling(r)' /\ messages[k].turn = turnOf'[r]) =>
                             AnsweredUpTo(k, messages[k].call)
      BY <1>2 DEF TurnsAnswered
    <2>1. /\ messages[k].turn <= turnOf[r] /\ messages[k].turn \in Nat /\ turnOf[r] \in Nat
          /\ stage[r] = "model" => messages[k].turn < turnOf[r]
          /\ Calling(r) /\ messages[k].turn = turnOf[r] =>
               messages[k].call = calls[r].asked /\ AnsweredUpTo(k, calls[r].answered)
          /\ WorksOut(r) /\ ~(Calling(r) /\ messages[k].turn = turnOf[r]) =>
               AnsweredUpTo(k, messages[k].call)
          /\ r \in SessionRuns /\ stage[r] # "queued"
      BY <1>1, <1>3 DEF CallsInv, TurnsAnswered
    <2>2. \/ /\ turnOf'[r] = turnOf[r] /\ calls'[r] = calls[r] /\ (Calling(r)' <=> Calling(r))
             /\ (stage'[r] = "model" => stage[r] = "model") /\ (WorksOut(r)' => WorksOut(r))
          \/ /\ turnOf'[r] = turnOf[r] /\ ~Calling(r)' /\ stage'[r] # "model"
             /\ WorksOut(r)' => WorksOut(r) /\ ~Calling(r)
          \/ stage[r] = "turn" /\ stage'[r] = "model" /\ turnOf'[r] = turnOf[r] + 1
      BY <2>1
    <2>3. stage[r] = "turn" => WorksOut(r) /\ ~Calling(r)
      BY DEF WorksOut, Calling
    <2>4. stage'[r] = "model" => ~Calling(r)'
      BY DEF Calling
    <2>. QED  BY <2>1, <2>2, <2>3, <2>4
  <1>5. AnswersAreAsked'
    BY DEF CallsInv, AnswersAreAsked, HasCall
  <1>6. CallsAreOpen'
    <2> SUFFICES ASSUME NEW r \in SessionRuns, Calling(r)'
                 PROVE  /\ calls'[r].answered < calls'[r].asked
                        /\ \E k \in DOMAIN messages :
                             messages[k] = Message("assistant", r, turnOf'[r], calls'[r].asked)
      BY DEF CallsAreOpen
    <2>1. stage'[r] # "model"
      BY DEF Calling
    <2>2. turnOf'[r] = turnOf[r] /\ calls'[r] = calls[r] /\ Calling(r)
      BY <2>1
    <2>. QED  BY <2>2 DEF CallsInv, CallsAreOpen
  <1>. QED  BY <1>4, <1>5, <1>6 DEF CallsInv

\* A prompt or an instruction is appended.
LEMMA CallsBeside ==
  ASSUME TranscriptTypes, CallsInv, UNCHANGED <<turnOf, calls>>,
         NEW m \in Messages, Keep(m), m.role \in {"user", "steering"},
         \A q \in SessionRuns :
           /\ (Calling(q)' <=> Calling(q)) /\ (stage'[q] = "model" => stage[q] = "model")
           /\ (WorksOut(q)' => WorksOut(q))
  PROVE  CallsInv'
  <1>1. /\ Len(messages) \in Nat /\ Len(messages') = Len(messages) + 1
        /\ DOMAIN messages = 1 .. Len(messages) /\ DOMAIN messages' = 1 .. Len(messages) + 1
        /\ \A k \in DOMAIN messages : messages'[k] = messages[k]
        /\ messages'[Len(messages) + 1] = m
    BY MessagesTyped, KeepEffect
  <1>2. /\ \A k \in DOMAIN messages' : k \in DOMAIN messages \/ messages'[k] = m
        /\ \A k \in DOMAIN messages : messages[k].run \in SessionRuns /\ messages[k].call \in Nat
        /\ \A q \in SessionRuns : calls[q].answered \in Nat
    <2>1. \A q \in SessionRuns : calls[q].answered \in Nat
      BY DEF TranscriptTypes
    <2>. QED  BY <1>1, <2>1, MessagesTyped
  <1>3. /\ \A k \in DOMAIN messages : \A n \in Nat : AnsweredUpTo(k, n) => AnsweredUpTo(k, n)'
        /\ \A k \in DOMAIN messages : \A x : (\E l \in 1 .. k - 1 : HasCall(l, x))
                => (\E l \in 1 .. k - 1 : messages'[l].role = "assistant" /\ messages'[l].run = x.run
                       /\ messages'[l].turn = x.turn /\ x.call \in 1 .. messages'[l].call)
    BY MessagesTyped, AnswersStay
  <1>4. TurnsAnswered'
    <2> SUFFICES ASSUME NEW k \in DOMAIN messages', messages'[k].role = "assistant",
                        NEW r \in {messages'[k].run}
                 PROVE  /\ messages'[k].turn <= turnOf'[r]
                        /\ stage'[r] = "model" => messages'[k].turn < turnOf'[r]
                        /\ Calling(r)' /\ messages'[k].turn = turnOf'[r] =>
                             messages'[k].call = calls'[r].asked /\ AnsweredUpTo(k, calls[r].answered)'
                        /\ WorksOut(r)' /\ ~(Calling(r)' /\ messages'[k].turn = turnOf'[r]) =>
                             AnsweredUpTo(k, messages[k].call)'
      BY DEF TurnsAnswered
    <2>1. k \in DOMAIN messages /\ messages'[k] = messages[k]
      BY <1>1, <1>2
    <2>2. /\ messages[k].turn <= turnOf[r]
          /\ stage[r] = "model" => messages[k].turn < turnOf[r]
          /\ Calling(r) /\ messages[k].turn = turnOf[r] =>
               messages[k].call = calls[r].asked /\ AnsweredUpTo(k, calls[r].answered)
          /\ WorksOut(r) /\ ~(Calling(r) /\ messages[k].turn = turnOf[r]) =>
               AnsweredUpTo(k, messages[k].call)
      BY <2>1 DEF CallsInv, TurnsAnswered
    <2>3. /\ AnsweredUpTo(k, calls[r].answered) => AnsweredUpTo(k, calls[r].answered)'
          /\ AnsweredUpTo(k, messages[k].call) => AnsweredUpTo(k, messages[k].call)'
      <3>1. r \in SessionRuns /\ calls[r].answered \in Nat /\ messages[k].call \in Nat
        BY <1>2, <2>1
      <3>2. \A n \in {calls[r].answered, messages[k].call} : AnsweredUpTo(k, n) => AnsweredUpTo(k, n)'
        BY <1>3, <2>1, <3>1
      <3>. QED  BY <2>1, <3>2 DEF AnsweredUpTo
    <2>. QED  BY <1>2, <2>1, <2>2, <2>3
  <1>5. AnswersAreAsked'
    <2>1. \A k \in DOMAIN messages : messages[k].role = "tool" => \E l \in 1 .. k - 1 : HasCall(l, messages[k])
      BY DEF CallsInv, AnswersAreAsked
    <2>2. \A k \in DOMAIN messages' : messages'[k].role = "tool" =>
            k \in DOMAIN messages /\ messages'[k] = messages[k]
      BY <1>1, <1>2
    <2>. QED  BY <1>3, <2>1, <2>2 DEF AnswersAreAsked, HasCall
  <1>6. CallsAreOpen'
    <2>1. \A k \in DOMAIN messages : k \in DOMAIN messages' /\ messages'[k] = messages[k]
      BY <1>1
    <2>. QED  BY <2>1 DEF CallsInv, CallsAreOpen
  <1>. QED  BY <1>4, <1>5, <1>6 DEF CallsInv

\* The model answers: what it called before is answered.
LEMMA CallsOfModel ==
  ASSUME TranscriptTypes, CallsInv, NEW r \in SessionRuns, NEW n \in Nat, AnswerOfModel(r, n)
  PROVE  CallsInv'
  <1> DEFINE m == Message("assistant", r, turnOf[r], n)
             N == Len(messages)
  <1>1. /\ m \in Messages /\ Keep(m) /\ UNCHANGED turnOf /\ stage[r] = "model"
        /\ stage' = [stage EXCEPT ![r] = IF n = 0 THEN "finishing" ELSE "tools"]
        /\ calls' = [calls EXCEPT ![r] = [asked |-> n, answered |-> 0]]
    BY BothSpeak DEF AnswerOfModel, Speaks
  <1>2. m.role = "assistant" /\ m.run = r /\ m.turn = turnOf[r] /\ m.call = n
    BY DEF Message
  <1>3. /\ N \in Nat /\ Len(messages') = N + 1
        /\ DOMAIN messages = 1 .. N /\ DOMAIN messages' = 1 .. N + 1
        /\ \A k \in DOMAIN messages : messages'[k] = messages[k]
        /\ messages'[N + 1] = m
    BY <1>1, MessagesTyped, KeepEffect
  <1>4. /\ \A k \in DOMAIN messages : messages[k].run \in SessionRuns /\ messages[k].call \in Nat
                                      /\ messages[k].turn \in Nat
        /\ \A q \in SessionRuns : calls[q].answered \in Nat /\ turnOf[q] \in Nat
    <2>1. \A q \in SessionRuns : calls[q].answered \in Nat /\ turnOf[q] \in Nat
      BY DEF TranscriptTypes
    <2>. QED  BY <2>1, MessagesTyped
  <1>5. /\ \A q \in SessionRuns \ {r} : stage'[q] = stage[q] /\ calls'[q] = calls[q]
        /\ stage'[r] = IF n = 0 THEN "finishing" ELSE "tools"
        /\ calls'[r].asked = n /\ calls'[r].answered = 0
    <2>1. stage \in [SessionRuns -> RunStages] /\ calls \in [SessionRuns -> [asked : Nat, answered : Nat]]
      BY DEF TranscriptTypes
    <2>. QED  BY <1>1, <2>1
  <1>6. /\ \A k \in DOMAIN messages : \A i \in Nat : AnsweredUpTo(k, i) => AnsweredUpTo(k, i)'
        /\ \A k \in DOMAIN messages : \A x : (\E l \in 1 .. k - 1 : HasCall(l, x))
                => (\E l \in 1 .. k - 1 : messages'[l].role = "assistant" /\ messages'[l].run = x.run
                       /\ messages'[l].turn = x.turn /\ x.call \in 1 .. messages'[l].call)
    BY <1>1, MessagesTyped, AnswersStay
  <1> HIDE DEF m
  <1>7. TurnsAnswered'
    <2> SUFFICES ASSUME NEW k \in DOMAIN messages', messages'[k].role = "assistant",
                        NEW q \in {messages'[k].run}
                 PROVE  /\ messages'[k].turn <= turnOf'[q]
                        /\ stage'[q] = "model" => messages'[k].turn < turnOf'[q]
                        /\ Calling(q)' /\ messages'[k].turn = turnOf'[q] =>
                             messages'[k].call = calls'[q].asked /\ AnsweredUpTo(k, calls[q].answered)'
                        /\ WorksOut(q)' /\ ~(Calling(q)' /\ messages'[k].turn = turnOf'[q]) =>
                             AnsweredUpTo(k, messages[k].call)'
      BY DEF TurnsAnswered
    <2>1. CASE k = N + 1
      <3>1. /\ messages'[k] = m /\ q = r /\ stage'[r] # "model"
            /\ Calling(r)' => n # 0 /\ stage'[r] = "tools"
            /\ n # 0 => Calling(r)'
        BY <1>2, <1>3, <1>5, <2>1 DEF Calling
      <3>2. AnsweredUpTo(k, 0)'
        BY DEF AnsweredUpTo
      <3>3. AnsweredUpTo(k, calls[q].answered)'
        BY <3>1, <3>2, <1>5 DEF AnsweredUpTo
      <3>4. n = 0 => AnsweredUpTo(k, messages[k].call)'
        BY <3>1, <3>2, <1>2 DEF AnsweredUpTo
      <3>5. turnOf[r] \in Nat
        BY <1>4
      <3>. QED  BY <1>1, <1>2, <1>5, <3>1, <3>3, <3>4, <3>5
    <2>2. CASE k # N + 1
      <3>1. k \in DOMAIN messages /\ messages'[k] = messages[k] /\ q \in SessionRuns
        BY <1>3, <1>4, <2>2
      <3>2. /\ messages[k].turn <= turnOf[q]
            /\ stage[q] = "model" => messages[k].turn < turnOf[q]
            /\ Calling(q) /\ messages[k].turn = turnOf[q] =>
                 messages[k].call = calls[q].asked /\ AnsweredUpTo(k, calls[q].answered)
            /\ WorksOut(q) /\ ~(Calling(q) /\ messages[k].turn = turnOf[q]) =>
                 AnsweredUpTo(k, messages[k].call)
        BY <3>1 DEF CallsInv, TurnsAnswered
      <3>3. AnsweredUpTo(k, messages[k].call) => AnsweredUpTo(k, messages[k].call)'
        BY <1>4, <1>6, <3>1 DEF AnsweredUpTo
      <3>4. CASE q = r
        <4>1. /\ AnsweredUpTo(k, messages[k].call)' /\ messages[k].turn < turnOf[q]
              /\ stage'[q] # "model"
          BY <1>1, <1>5, <3>2, <3>3, <3>4 DEF WorksOut, Calling
        <4>. QED  BY <1>1, <1>4, <3>1, <4>1
      <3>5. CASE q # r
        <4>1. /\ stage'[q] = stage[q] /\ calls'[q] = calls[q]
              /\ (Calling(q)' <=> Calling(q)) /\ (WorksOut(q)' <=> WorksOut(q))
          BY <1>5, <3>1, <3>5 DEF WorksOut, Calling
        <4>2. AnsweredUpTo(k, calls[q].answered) => AnsweredUpTo(k, calls[q].answered)'
          <5>1. PICK i \in Nat : i = calls[q].answered
            BY <1>4, <3>1
          <5>2. AnsweredUpTo(k, i) => AnsweredUpTo(k, i)'
            BY <1>6, <3>1
          <5>3. i = calls'[q].answered
            BY <4>1, <5>1
          <5>. QED  BY <5>1, <5>2, <5>3 DEF AnsweredUpTo
        <4>. QED  BY <1>1, <3>1, <3>2, <3>3, <4>1, <4>2
      <3>. QED  BY <3>4, <3>5
    <2>. QED  BY <2>1, <2>2
  <1>8. AnswersAreAsked'
    <2>1. \A k \in DOMAIN messages : messages[k].role = "tool" => \E l \in 1 .. k - 1 : HasCall(l, messages[k])
      BY DEF CallsInv, AnswersAreAsked
    <2>2. \A k \in DOMAIN messages' : messages'[k].role = "tool" =>
            k \in DOMAIN messages /\ messages'[k] = messages[k]
      BY <1>2, <1>3
    <2>. QED  BY <1>6, <2>1, <2>2 DEF AnswersAreAsked, HasCall
  <1>9. CallsAreOpen'
    <2> SUFFICES ASSUME NEW q \in SessionRuns, Calling(q)'
                 PROVE  /\ calls'[q].answered < calls'[q].asked
                        /\ \E k \in DOMAIN messages' :
                             messages'[k] = Message("assistant", q, turnOf'[q], calls'[q].asked)
      BY DEF CallsAreOpen
    <2>1. CASE q = r
      <3>1. n # 0 /\ n \in Nat
        BY <1>5, <2>1 DEF Calling
      <3>2. N + 1 \in DOMAIN messages' /\ messages'[N + 1] = Message("assistant", q, turnOf'[q], calls'[q].asked)
        BY <1>1, <1>3, <1>5, <2>1 DEF m
      <3>. QED  BY <1>5, <2>1, <3>1, <3>2
    <2>2. CASE q # r
      <3>1. Calling(q) /\ calls'[q] = calls[q] /\ turnOf'[q] = turnOf[q]
        BY <1>1, <1>5, <2>2 DEF Calling
      <3>. QED  BY <1>3, <3>1 DEF CallsInv, CallsAreOpen
    <2>. QED  BY <2>1, <2>2
  <1>. QED  BY <1>7, <1>8, <1>9 DEF CallsInv

\* A tool answers the next of the calls that are open.
LEMMA CallsOfTool ==
  ASSUME TranscriptTypes, CallsInv, NEW r \in SessionRuns, NEW from \in {"tools", "waiting"},
         AnswerTool(r, from)
  PROVE  CallsInv'
  <1> DEFINE c == calls[r].answered + 1
             m == Message("tool", r, turnOf[r], c)
             N == Len(messages)
  <1>1. /\ m \in Messages /\ Keep(m) /\ UNCHANGED turnOf /\ stage[r] = from
        /\ stage' = [stage EXCEPT ![r] = IF c = calls[r].asked THEN "turn" ELSE "tools"]
        /\ calls' = [calls EXCEPT ![r].answered = c]
    BY BothSpeak DEF AnswerTool, Speaks
  <1>2. m.role = "tool" /\ m.run = r /\ m.turn = turnOf[r] /\ m.call = c
    BY DEF Message
  <1>3. /\ N \in Nat /\ Len(messages') = N + 1
        /\ DOMAIN messages = 1 .. N /\ DOMAIN messages' = 1 .. N + 1
        /\ \A k \in DOMAIN messages : messages'[k] = messages[k]
        /\ messages'[N + 1] = m
    BY <1>1, MessagesTyped, KeepEffect
  <1>4. /\ \A k \in DOMAIN messages : messages[k].run \in SessionRuns /\ messages[k].call \in Nat
                                      /\ messages[k].turn \in Nat
        /\ \A q \in SessionRuns : calls[q].answered \in Nat /\ calls[q].asked \in Nat /\ turnOf[q] \in Nat
        /\ calls[r].answered < calls[r].asked /\ c \in 1 .. calls[r].asked /\ c \in Nat
    <2>1. \A q \in SessionRuns : calls[q].answered \in Nat /\ calls[q].asked \in Nat /\ turnOf[q] \in Nat
      BY DEF TranscriptTypes
    <2>2. calls[r].answered < calls[r].asked
      BY <1>1 DEF CallsInv, CallsAreOpen, Calling
    <2>. QED  BY <2>1, <2>2, MessagesTyped
  <1>5. /\ \A q \in SessionRuns \ {r} : stage'[q] = stage[q] /\ calls'[q] = calls[q]
        /\ stage'[r] = IF c = calls[r].asked THEN "turn" ELSE "tools"
        /\ calls'[r].asked = calls[r].asked /\ calls'[r].answered = c
    <2>1. stage \in [SessionRuns -> RunStages] /\ calls \in [SessionRuns -> [asked : Nat, answered : Nat]]
      BY DEF TranscriptTypes
    <2>. QED  BY <1>1, <2>1
  <1>6. /\ \A k \in DOMAIN messages : \A i \in Nat : AnsweredUpTo(k, i) => AnsweredUpTo(k, i)'
        /\ \A k \in DOMAIN messages : \A i \in Nat :
             AnsweredUpTo(k, i) /\ m = Message("tool", messages[k].run, messages[k].turn, i + 1)
               => AnsweredUpTo(k, i + 1)'
        /\ \A k \in DOMAIN messages : \A x : (\E l \in 1 .. k - 1 : HasCall(l, x))
                => (\E l \in 1 .. k - 1 : messages'[l].role = "assistant" /\ messages'[l].run = x.run
                       /\ messages'[l].turn = x.turn /\ x.call \in 1 .. messages'[l].call)
    BY <1>1, MessagesTyped, AnswersStay
  <1>11. \A k \in DOMAIN messages : \A i \in Nat : AnsweredUpTo(k, i) => AnsweredUpTo(k, i)'
    BY <1>6
  <1>10. \A k \in DOMAIN messages :
           AnsweredUpTo(k, calls[r].answered) /\ messages[k].run = r /\ messages[k].turn = turnOf[r]
             => \A i \in {c} : AnsweredUpTo(k, i)'
    BY <1>4, <1>6
  <1> HIDE DEF m, c
  <1>7. TurnsAnswered'
    <2> SUFFICES ASSUME NEW k \in DOMAIN messages', messages'[k].role = "assistant",
                        NEW q \in {messages'[k].run}
                 PROVE  /\ messages'[k].turn <= turnOf'[q]
                        /\ stage'[q] = "model" => messages'[k].turn < turnOf'[q]
                        /\ Calling(q)' /\ messages'[k].turn = turnOf'[q] =>
                             messages'[k].call = calls'[q].asked /\ AnsweredUpTo(k, calls[q].answered)'
                        /\ WorksOut(q)' /\ ~(Calling(q)' /\ messages'[k].turn = turnOf'[q]) =>
                             AnsweredUpTo(k, messages[k].call)'
      BY DEF TurnsAnswered
    <2>1. k \in DOMAIN messages /\ messages'[k] = messages[k] /\ q \in SessionRuns
      BY <1>2, <1>3, <1>4
    <2>2. /\ messages[k].turn <= turnOf[q]
          /\ stage[q] = "model" => messages[k].turn < turnOf[q]
          /\ Calling(q) /\ messages[k].turn = turnOf[q] =>
               messages[k].call = calls[q].asked /\ AnsweredUpTo(k, calls[q].answered)
          /\ WorksOut(q) /\ ~(Calling(q) /\ messages[k].turn = turnOf[q]) =>
               AnsweredUpTo(k, messages[k].call)
      BY <2>1 DEF CallsInv, TurnsAnswered
    <2>3. AnsweredUpTo(k, messages[k].call) => AnsweredUpTo(k, messages[k].call)'
      BY <1>4, <1>11, <2>1 DEF AnsweredUpTo
    <2>4. CASE q = r /\ messages[k].turn = turnOf[r]
      <3>1. messages[k].call = calls[r].asked /\ AnsweredUpTo(k, calls[r].answered)
        BY <1>1, <2>2, <2>4 DEF Calling
      <3>2. \A i \in {c} : AnsweredUpTo(k, i)'
        BY <1>10, <2>1, <2>4, <3>1
      <3>3. AnsweredUpTo(k, calls[q].answered)'
        BY <1>5, <2>4, <3>2 DEF AnsweredUpTo
      <3>4. c = calls[r].asked => AnsweredUpTo(k, messages[k].call)'
        BY <2>1, <3>1, <3>2 DEF AnsweredUpTo
      <3>5. stage'[r] # "model" /\ (~Calling(r)' => c = calls[r].asked)
        BY <1>5 DEF Calling
      <3>. QED  BY <1>1, <1>5, <2>1, <2>2, <2>4, <3>1, <3>3, <3>4, <3>5
    <2>5. CASE q = r /\ messages[k].turn # turnOf[r]
      <3>1. /\ AnsweredUpTo(k, messages[k].call)' /\ stage'[q] # "model"
        BY <1>1, <1>5, <2>2, <2>3, <2>5 DEF WorksOut
      <3>. QED  BY <1>1, <2>1, <2>2, <2>5, <3>1
    <2>6. CASE q # r
      <3>1. /\ stage'[q] = stage[q] /\ calls'[q] = calls[q]
            /\ (Calling(q)' <=> Calling(q)) /\ (WorksOut(q)' <=> WorksOut(q))
        BY <1>5, <2>1, <2>6 DEF WorksOut, Calling
      <3>2. AnsweredUpTo(k, calls[q].answered) => AnsweredUpTo(k, calls[q].answered)'
        BY <1>4, <1>11, <2>1, <3>1 DEF AnsweredUpTo
      <3>. QED  BY <1>1, <2>1, <2>2, <2>3, <3>1, <3>2
    <2>. QED  BY <2>4, <2>5, <2>6
  <1>8. AnswersAreAsked'
    <2>1. \A k \in DOMAIN messages : messages[k].role = "tool" => \E l \in 1 .. k - 1 : HasCall(l, messages[k])
      BY DEF CallsInv, AnswersAreAsked
    <2>2. PICK l \in DOMAIN messages : messages[l] = Message("assistant", r, turnOf[r], calls[r].asked)
      BY <1>1 DEF CallsInv, CallsAreOpen, Calling
    <2>3. /\ messages'[l].role = "assistant" /\ messages'[l].run = r /\ messages'[l].turn = turnOf[r]
          /\ c \in 1 .. messages'[l].call /\ l \in 1 .. (N + 1) - 1
      <3>1. /\ messages'[l].role = "assistant" /\ messages'[l].run = r /\ messages'[l].turn = turnOf[r]
            /\ messages'[l].call = calls[r].asked
        BY <1>3, <2>2 DEF Message
      <3>2. l \in 1 .. (N + 1) - 1
        BY <1>3
      <3>. QED  BY <1>4, <3>1, <3>2
    <2>4. ASSUME NEW k \in DOMAIN messages', messages'[k].role = "tool"
          PROVE  \E i \in 1 .. k - 1 :
                   /\ messages'[i].role = "assistant" /\ messages'[i].run = messages'[k].run
                   /\ messages'[i].turn = messages'[k].turn /\ messages'[k].call \in 1 .. messages'[i].call
      <3>1. CASE k = N + 1
        BY <1>2, <1>3, <2>3, <3>1
      <3>2. CASE k # N + 1
        <4>1. k \in DOMAIN messages /\ messages'[k] = messages[k]
          BY <1>3, <3>2
        <4>. QED  BY <1>6, <2>1, <2>4, <4>1
      <3>. QED  BY <3>1, <3>2
    <2>. QED  BY <2>4 DEF AnswersAreAsked, HasCall
  <1>9. CallsAreOpen'
    <2> SUFFICES ASSUME NEW q \in SessionRuns, Calling(q)'
                 PROVE  /\ calls'[q].answered < calls'[q].asked
                        /\ \E k \in DOMAIN messages' :
                             messages'[k] = Message("assistant", q, turnOf'[q], calls'[q].asked)
      BY DEF CallsAreOpen
    <2>1. Calling(q) /\ calls'[q].asked = calls[q].asked /\ turnOf'[q] = turnOf[q]
      BY <1>1, <1>5 DEF Calling
    <2>2. calls'[q].answered < calls'[q].asked
      <3>1. CASE q = r
        <4>1. c # calls[r].asked
          BY <1>5, <3>1 DEF Calling
        <4>. QED  BY <1>4, <1>5, <3>1, <4>1
      <3>2. CASE q # r
        BY <1>5, <2>1, <3>2 DEF CallsInv, CallsAreOpen
      <3>. QED  BY <3>1, <3>2
    <2>3. PICK k \in DOMAIN messages : messages[k] = Message("assistant", q, turnOf[q], calls[q].asked)
      BY <2>1 DEF CallsInv, CallsAreOpen
    <2>4. k \in DOMAIN messages' /\ messages'[k] = messages[k]
      BY <1>3
    <2>. QED  BY <2>1, <2>2, <2>3, <2>4
  <1>. QED  BY <1>7, <1>8, <1>9 DEF CallsInv

\* Every call is answered before the run goes on, and no answer lacks its call.
LEMMA CallsStep ==
  ASSUME TranscriptTypes, InboxInv, CallsInv, [TranscriptNext]_transcriptVars
  PROVE  CallsInv'
  <1>0. /\ stage \in [SessionRuns -> RunStages] /\ turnOf \in [SessionRuns -> Nat]
        /\ calls \in [SessionRuns -> [asked : Nat, answered : Nat]]
        /\ CallLimit \in Nat
    BY TranscriptAssumption DEF TranscriptTypes
  <1>1. CASE UNCHANGED transcriptVars
    BY <1>1, CallsKept DEF transcriptVars, Calling, WorksOut
  <1>2. ASSUME NEW r \in SessionRuns, CreateSessionRun(r)
        PROVE  CallsInv'
    <2>1. Message("user", r, 0, 0) \in Messages /\ Message("user", r, 0, 0).role = "user"
      BY MessageTypes DEF Speakers, Message
    <2>2. /\ Keep(Message("user", r, 0, 0)) /\ UNCHANGED <<turnOf, calls>>
          /\ stage[r] = "none" /\ stage' = [stage EXCEPT ![r] = "queued"]
      BY <1>2 DEF CreateSessionRun, runState
    <2>3. \A q \in SessionRuns :
            /\ (Calling(q)' <=> Calling(q)) /\ (stage'[q] = "model" => stage[q] = "model")
            /\ (WorksOut(q)' => WorksOut(q))
      BY <1>0, <2>2 DEF Calling, WorksOut
    <2>. QED  BY <2>1, <2>2, <2>3, CallsBeside
  <1>3. ASSUME NEW r \in SessionRuns, StartRun(r)
        PROVE  CallsInv'
    <2>1. /\ UNCHANGED <<messages, turnOf, calls>>
          /\ stage[r] = "queued" /\ stage' = [stage EXCEPT ![r] = "turn"]
      BY <1>3 DEF StartRun
    <2>. QED  BY <1>0, <2>1, CallsKept DEF Calling, WorksOut
  <1>4. ASSUME NEW r \in SessionRuns, TakeTurn(r)
        PROVE  CallsInv'
    <2>1. /\ UNCHANGED <<messages, calls>>
          /\ stage[r] = "turn" /\ stage' = [stage EXCEPT ![r] = "model"]
          /\ turnOf' = [turnOf EXCEPT ![r] = turnOf[r] + 1]
      BY <1>4 DEF TakeTurn
    <2>. QED  BY <1>0, <2>1, CallsKept DEF Calling, WorksOut
  <1>5. ASSUME NEW r \in SessionRuns, BeginWait(r)
        PROVE  CallsInv'
    <2>1. /\ UNCHANGED <<messages, turnOf, calls>>
          /\ stage[r] = "tools" /\ stage' = [stage EXCEPT ![r] = "waiting"]
      BY <1>5 DEF BeginWait, runState
    <2>. QED  BY <1>0, <2>1, CallsKept DEF Calling, WorksOut
  <1>6. ASSUME NEW r \in SessionRuns, CloseRun(r)
        PROVE  CallsInv'
    <2>1. /\ UNCHANGED <<messages, turnOf, calls>>
          /\ \/ stage[r] \in {"finished", "failing"} /\ stage' = [stage EXCEPT ![r] = "ended"]
             \/ stage[r] = "finished" /\ stage' = [stage EXCEPT ![r] = "succeeded"]
      BY <1>6 DEF CloseRun, Ending, runState
    <2>2. \A q \in SessionRuns :
            /\ (Calling(q)' <=> Calling(q)) /\ (stage'[q] = "model" => stage[q] = "model")
            /\ (WorksOut(q)' => WorksOut(q))
      BY <1>0, <2>1 DEF Calling, WorksOut
    <2>. QED  BY <2>1, <2>2, CallsKept
  <1>7. ASSUME NEW r \in SessionRuns, NEW as \in RunStages, Ends(r, as)
        PROVE  CallsInv'
    <2>1. /\ UNCHANGED <<messages, turnOf>> /\ calls' = [calls EXCEPT ![r] = NoCalls]
          /\ stage' = [stage EXCEPT ![r] = as]
          /\ \/ stage[r] = "finishing" /\ as = "finished"
             \/ as \in {"failing", "ended"}
      BY <1>7 DEF Ends, Closes
    <2>2. \A q \in SessionRuns :
            IF q = r THEN ~Calling(q)' /\ stage'[q] # "model" /\ (WorksOut(q)' => WorksOut(q) /\ ~Calling(q))
            ELSE calls'[q] = calls[q] /\ stage'[q] = stage[q]
      BY <1>0, <2>1 DEF Calling, WorksOut
    <2>3. \A q \in SessionRuns : stage'[q] = stage[q] =>
            (Calling(q)' <=> Calling(q)) /\ (WorksOut(q)' <=> WorksOut(q))
      BY DEF Calling, WorksOut
    <2>. QED  BY <2>1, <2>2, <2>3, CallsKept
  <1>8. CASE ChildProceeds
    BY <1>8, CallsKept DEF ChildProceeds, runState, Calling, WorksOut
  <1>9. CASE ManagerRestarts
    <2>1. UNCHANGED <<messages, turnOf>>
      BY <1>9 DEF ManagerRestarts
    <2>2. \A q \in SessionRuns :
            ~Calling(q)' /\ stage'[q] # "model" /\ (WorksOut(q)' => WorksOut(q) /\ ~Calling(q))
      BY <1>0, <1>9 DEF ManagerRestarts, Open, Executing, Ending, Calling, WorksOut
    <2>. QED  BY <2>1, <2>2, CallsKept
  <1>10. ASSUME NEW r \in SessionRuns, SteerRun(r)
         PROVE  CallsInv'
    <2> DEFINE m == Message("steering", r, turnOf[r], Len(messages) + 1)
    <2>1. m \in Messages /\ m.role = "steering"
      BY <1>0, MessagesTyped, MessageTypes DEF Speakers, Message
    <2>2. Keep(m) /\ UNCHANGED <<turnOf, calls, stage>>
      BY <1>10 DEF SteerRun
    <2> HIDE DEF m
    <2>. QED  BY <2>1, <2>2, CallsBeside DEF Calling, WorksOut
  <1>11. ASSUME NEW r \in SessionRuns, NEW n \in 0 .. CallLimit, AnswerOfModel(r, n)
         PROVE  CallsInv'
    BY <1>0, <1>11, CallsOfModel
  <1>12. ASSUME NEW r \in SessionRuns, NEW from \in {"tools", "waiting"}, AnswerTool(r, from)
         PROVE  CallsInv'
    BY <1>12, CallsOfTool
  <1>13. ASSUME NEW r \in SessionRuns, ChildWaitTimesOut(r) \/ FinishRun(r) \/ FailRun(r)
         PROVE  CallsInv'
    <2>1. \E as \in RunStages : Ends(r, as)
      BY <1>13 DEF ChildWaitTimesOut, FinishRun, FailRun, Ends, Executing, RunStages
    <2>. QED  BY <1>7, <2>1
  <1>14. ASSUME NEW r \in SessionRuns, PlainTool(r) \/ SpawnChild(r) \/ CancelChild(r) \/ WaitAnswered(r)
         PROVE  CallsInv'
    BY <1>12, <1>14 DEF PlainTool, SpawnChild, CancelChild, WaitAnswered, ToolAnswers
  <1>. QED
    BY <1>1, <1>2, <1>3, <1>4, <1>5, <1>6, <1>8, <1>9, <1>10, <1>11, <1>13, <1>14 DEF TranscriptNext

\* A wait ends with the child, which says nothing after its end.
LEMMA ChildStep ==
  ASSUME ChildInv, [TranscriptNext]_transcriptVars
  PROVE  ChildInv'
  <1> USE DEF ChildInv, WaitHearsTheEnd
  <1>1. CASE UNCHANGED <<childRun, heard>>
    BY <1>1
  <1>2. CASE childRun' = NoChild /\ heard' = NoParent
    BY <1>2 DEF NoChild
  <1>3. ASSUME NEW r \in SessionRuns, SpawnChild(r)
        PROVE  ChildInv'
    BY <1>3 DEF SpawnChild
  <1>4. ASSUME NEW r \in SessionRuns, WaitAnswered(r)
        PROVE  ChildInv'
    BY <1>4 DEF WaitAnswered, ChildHasEnded, LastWord
  <1>5. ASSUME NEW r \in SessionRuns, CancelChild(r)
        PROVE  ChildInv'
    BY <1>5 DEF CancelChild
  <1>6. CASE ChildProceeds
    BY <1>6 DEF ChildProceeds
  <1>7. ASSUME NEW r \in SessionRuns, NEW as, Closes(r, as)
        PROVE  UNCHANGED <<childRun, heard>> \/ (childRun' = NoChild /\ heard' = NoParent)
    BY <1>7 DEF Closes
  <1>8. ASSUME NEW r \in SessionRuns,
               \/ CreateSessionRun(r) \/ StartRun(r) \/ TakeTurn(r) \/ BeginWait(r) \/ SteerRun(r)
               \/ CloseRun(r) \/ PlainTool(r) \/ (\E n \in 0 .. CallLimit : AnswerOfModel(r, n))
        PROVE  UNCHANGED <<childRun, heard>>
    BY <1>8 DEF CreateSessionRun, StartRun, TakeTurn, BeginWait, SteerRun, CloseRun, PlainTool,
                AnswerOfModel
  <1>9. CASE ManagerRestarts
    BY <1>2, <1>9 DEF ManagerRestarts
  <1>10. UNCHANGED transcriptVars => UNCHANGED <<childRun, heard>>
    BY DEF transcriptVars
  <1>. QED
    BY <1>1, <1>2, <1>3, <1>4, <1>5, <1>6, <1>7, <1>8, <1>9, <1>10
       DEF TranscriptNext, ChildWaitTimesOut, FinishRun, FailRun

\* The rank of a position does not change with the positions after it.
LEMMA RankAfter ==
  ASSUME NEW N \in Nat, NEW S \in SUBSET (1 .. N), NEW n \in {N + 1}
  PROVE  /\ IsFiniteSet(S) /\ Cardinality(S) \in Nat
         /\ \A k \in S : Rank(k, S) \in 1 .. Cardinality(S)
         /\ \A k \in S : Rank(k, S \union {n}) = Rank(k, S)
         /\ Cardinality(S \union {n}) = Cardinality(S) + 1
         /\ Rank(n, S \union {n}) = Cardinality(S) + 1
  <1>1. IsFiniteSet(1 .. N)
    BY FS_Interval
  <1>2. IsFiniteSet(S)
    BY <1>1, FS_Subset
  <1>3. Cardinality(S) \in Nat
    BY <1>2, FS_CardinalityType
  <1>4. ASSUME NEW k \in S
        PROVE  Rank(k, S) \in 1 .. Cardinality(S) /\ Rank(k, S \union {n}) = Rank(k, S)
    <2> DEFINE upTo == {j \in S : j <= k}
    <2>1. upTo \subseteq S /\ k \in upTo
      <3>1. k \in Nat
        OBVIOUS
      <3>. QED  BY <3>1
    <2>2. IsFiniteSet(upTo) /\ Cardinality(upTo) <= Cardinality(S)
      BY <1>2, <2>1, FS_Subset
    <2>3. Cardinality(upTo) \in Nat /\ Cardinality(upTo) # 0
      BY <2>1, <2>2, FS_CardinalityType, FS_EmptySet
    <2>4. {j \in S \union {n} : j <= k} = upTo
      BY SMT
    <2>. QED  BY <1>3, <2>2, <2>3, <2>4 DEF Rank
  <1>5. n \notin S
    OBVIOUS
  <1>6. Cardinality(S \union {n}) = Cardinality(S) + 1
    BY <1>2, <1>5, FS_AddElement
  <1>7. {j \in S \union {n} : j <= n} = S \union {n}
    <2>1. \A j \in S \union {n} : j <= n
      OBVIOUS
    <2>. QED  BY <2>1
  <1>. QED  BY <1>2, <1>3, <1>4, <1>6, <1>7 DEF Rank

\* The ranks of what was loaded are its places.
LEMMA RankLoaded ==
  ASSUME NEW N \in Nat, NEW n \in 0 .. N
  PROVE  LET S == N - n + 1 .. N IN
         /\ Cardinality(S) = n
         /\ \A k \in S : Rank(k, S) = k - (N - n) /\ k - (N - n) \in 1 .. n
  <1> DEFINE S == N - n + 1 .. N
  <1>1. \A a, b \in Int : a <= b => Cardinality(a .. b) = b - a + 1
    BY FS_Interval
  <1>2. Cardinality(S) = n
    <2>1. CASE n = 0
      <3>1. S = {}
        BY <2>1
      <3>. QED  BY <2>1, <3>1, FS_EmptySet
    <2>2. CASE n # 0
      <3>1. N - n + 1 \in Int /\ N \in Int /\ N - n + 1 <= N
        BY <2>2
      <3>2. Cardinality(S) = N - (N - n + 1) + 1
        BY <1>1, <3>1
      <3>. QED  BY <3>2
    <2>. QED  BY <2>1, <2>2
  <1>3. ASSUME NEW k \in S
        PROVE  Rank(k, S) = k - (N - n) /\ k - (N - n) \in 1 .. n
    <2>1. {j \in S : j <= k} = N - n + 1 .. k
      BY SMT
    <2>2. N - n + 1 \in Int /\ k \in Int /\ N - n + 1 <= k
      BY SMT
    <2>3. Cardinality(N - n + 1 .. k) = k - (N - n + 1) + 1
      BY <1>1, <2>2
    <2>4. Rank(k, S) = k - (N - n + 1) + 1
      BY <2>1, <2>3 DEF Rank
    <2>5. k \in Int /\ N - n + 1 <= k /\ k <= N
      OBVIOUS
    <2> HIDE DEF S
    <2>. QED  BY <2>4, <2>5
  <1>. QED  BY <1>2, <1>3

ToldAll(r) ==
  ToSet(told[r]) = Said(Loaded(r)) \union (Said(Own(r) \union SteeringOf(r)) \ ToSet(inbox[r]))

ToldInOrder(r) ==
  SteeringOf(r) = {} =>
    /\ Len(told[r]) = Cardinality(Loaded(r) \union Own(r))
    /\ \A k \in Loaded(r) \union Own(r) : told[r][Rank(k, Loaded(r) \union Own(r))] = messages[k]

LEMMA ToldIs ==
  ToldWhatIsKept <=> \A r \in SessionRuns : Executing(r) => ToldAll(r) /\ ToldInOrder(r)
  BY DEF ToldWhatIsKept, ToldAll, ToldInOrder

\* What a message that is appended is to a run that works.
LEMMA KeptPositions ==
  ASSUME TranscriptTypes, RunsInTurn, NEW r \in SessionRuns, NEW m \in Messages, Keep(m),
         loadedAt'[r] = loadedAt[r], NEW n \in {Len(messages) + 1}
  PROVE  /\ Loaded(r) \in SUBSET DOMAIN messages /\ Own(r) \in SUBSET DOMAIN messages
         /\ SteeringOf(r) \in SUBSET DOMAIN messages
         /\ Loaded(r)' = Loaded(r)
         /\ Own(r)' = IF m.run = r THEN Own(r) \union {n} ELSE Own(r)
         /\ SteeringOf(r)' = IF m.role = "steering" /\ m.run = r
                             THEN SteeringOf(r) \union {n} ELSE SteeringOf(r)
         /\ \A S \in SUBSET DOMAIN messages : {messages'[k] : k \in S} = Said(S)
         /\ \A S \in SUBSET DOMAIN messages : {messages'[k] : k \in S \union {n}} = Said(S) \union {m}
  <1>1. /\ messages \in Seq(Messages) /\ Len(messages) \in Nat /\ Len(messages') = Len(messages) + 1
        /\ DOMAIN messages = 1 .. Len(messages) /\ DOMAIN messages' = 1 .. Len(messages) + 1
        /\ \A k \in DOMAIN messages : messages'[k] = messages[k]
        /\ messages'[n] = m
    BY MessagesTyped, KeepEffect
  <1>2. loadedAt[r] \in Nat /\ loadedAt[r] <= Len(messages) /\ History \in Nat
    BY TranscriptAssumption DEF TranscriptTypes, RunsInTurn
  <1>3. DOMAIN messages' = DOMAIN messages \union {n} /\ n > loadedAt[r]
    BY <1>1, <1>2
  <1>4. Loaded(r)' = Loaded(r)
    BY <1>1, <1>2, <1>3 DEF Loaded
  <1>5. Own(r)' = IF m.run = r THEN Own(r) \union {n} ELSE Own(r)
    BY <1>1, <1>2, <1>3 DEF Own
  <1>6. SteeringOf(r)' = IF m.role = "steering" /\ m.run = r
                         THEN SteeringOf(r) \union {n} ELSE SteeringOf(r)
    BY <1>1, PositionsAfter
  <1>7. /\ \A S \in SUBSET DOMAIN messages : {messages'[k] : k \in S} = Said(S)
        /\ \A S \in SUBSET DOMAIN messages : {messages'[k] : k \in S \union {n}} = Said(S) \union {m}
    BY <1>1, PositionsAfter DEF Said
  <1>8. /\ Loaded(r) \in SUBSET DOMAIN messages /\ Own(r) \in SUBSET DOMAIN messages
        /\ SteeringOf(r) \in SUBSET DOMAIN messages
    BY DEF Loaded, Own, SteeringOf
  <1>. QED  BY <1>4, <1>5, <1>6, <1>7, <1>8

\* Nothing is appended.
LEMMA ToldKept ==
  ASSUME NEW r \in SessionRuns, ToldAll(r), ToldInOrder(r), UNCHANGED messages,
         told'[r] = told[r], inbox'[r] = inbox[r], loadedAt'[r] = loadedAt[r]
  PROVE  ToldAll(r)' /\ ToldInOrder(r)'
  <1>1. Loaded(r)' = Loaded(r) /\ Own(r)' = Own(r) /\ SteeringOf(r)' = SteeringOf(r)
    BY DEF Loaded, Own, SteeringOf
  <1>2. Said(Loaded(r))' = Said(Loaded(r)) /\ Said(Own(r) \union SteeringOf(r))' = Said(Own(r) \union SteeringOf(r))
    BY <1>1 DEF Said
  <1>3. ToldAll(r)'
    BY <1>2 DEF ToldAll
  <1>4. \A k, S : Rank(k, S)' = Rank(k, S)
    BY DEF Rank
  <1>5. ToldInOrder(r)'
    BY <1>1, <1>4 DEF ToldInOrder, Rank
  <1>. QED  BY <1>3, <1>5

\* A prompt or an instruction of another run is appended.
LEMMA ToldBeside ==
  ASSUME TranscriptTypes, RunsInTurn, NEW r \in SessionRuns, ToldAll(r), ToldInOrder(r),
         NEW m \in Messages, Keep(m), m.run # r,
         told'[r] = told[r], inbox'[r] = inbox[r], loadedAt'[r] = loadedAt[r]
  PROVE  ToldAll(r)' /\ ToldInOrder(r)'
  <1> DEFINE due == Loaded(r) \union Own(r)
  <1>1. /\ Loaded(r) \in SUBSET DOMAIN messages /\ Own(r) \in SUBSET DOMAIN messages
        /\ SteeringOf(r) \in SUBSET DOMAIN messages
        /\ Loaded(r)' = Loaded(r) /\ Own(r)' = Own(r) /\ SteeringOf(r)' = SteeringOf(r)
        /\ \A S \in SUBSET DOMAIN messages : {messages'[k] : k \in S} = Said(S)
    BY KeptPositions
  <1>2. /\ Said(Loaded(r))' = Said(Loaded(r))
        /\ Said(Own(r) \union SteeringOf(r))' = Said(Own(r) \union SteeringOf(r))
    <2>1. /\ {messages'[k] : k \in Loaded(r)} = Said(Loaded(r))
          /\ {messages'[k] : k \in Own(r) \union SteeringOf(r)} = Said(Own(r) \union SteeringOf(r))
      BY <1>1
    <2>. QED  BY <1>1, <2>1 DEF Said
  <1>3. ToldAll(r)'
    BY <1>2 DEF ToldAll
  <1>4. \A k \in DOMAIN messages : messages'[k] = messages[k]
    BY MessagesTyped, KeepEffect
  <1>5. due' = due /\ due \subseteq DOMAIN messages
    BY <1>1
  <1>6. ToldInOrder(r)'
    BY <1>1, <1>4, <1>5 DEF ToldInOrder, Rank
  <1>. QED  BY <1>3, <1>6

\* What the run says is told to its model next.
LEMMA ToldSpeaks ==
  ASSUME TranscriptTypes, RunsInTurn, InboxInv, NEW r \in SessionRuns, ToldAll(r), ToldInOrder(r),
         NEW m \in Messages, Keep(m), m.run = r, m.role # "steering",
         told'[r] = Append(told[r], m), inbox'[r] = inbox[r], loadedAt'[r] = loadedAt[r]
  PROVE  ToldAll(r)' /\ ToldInOrder(r)'
  <1> DEFINE due == Loaded(r) \union Own(r)
             N == Len(messages)
  <1>0. /\ N \in Nat /\ DOMAIN messages = 1 .. N /\ messages \in Seq(Messages)
        /\ told[r] \in Seq(Messages) /\ inbox[r] \in Seq(Messages)
    BY MessagesTyped DEF TranscriptTypes
  <1> SUFFICES ASSUME NEW n \in {N + 1}
               PROVE  ToldAll(r)' /\ ToldInOrder(r)'
    OBVIOUS
  <1>1. /\ Loaded(r) \in SUBSET DOMAIN messages /\ Own(r) \in SUBSET DOMAIN messages
        /\ SteeringOf(r) \in SUBSET DOMAIN messages
        /\ Loaded(r)' = Loaded(r) /\ Own(r)' = Own(r) \union {n} /\ SteeringOf(r)' = SteeringOf(r)
        /\ \A S \in SUBSET DOMAIN messages : {messages'[k] : k \in S} = Said(S)
        /\ \A S \in SUBSET DOMAIN messages : {messages'[k] : k \in S \union {n}} = Said(S) \union {m}
    <2>1. /\ Own(r)' = IF m.run = r THEN Own(r) \union {n} ELSE Own(r)
          /\ SteeringOf(r)' = IF m.role = "steering" /\ m.run = r
                              THEN SteeringOf(r) \union {n} ELSE SteeringOf(r)
      BY KeptPositions
    <2>2. Own(r)' = Own(r) \union {n} /\ SteeringOf(r)' = SteeringOf(r)
      BY <2>1
    <2>. QED  BY <2>2, KeptPositions
  <1>2. /\ Said(Loaded(r))' = Said(Loaded(r))
        /\ Said(Own(r) \union SteeringOf(r))' = Said(Own(r) \union SteeringOf(r)) \union {m}
    <2>1. /\ {messages'[k] : k \in Loaded(r)} = Said(Loaded(r))
          /\ {messages'[k] : k \in (Own(r) \union SteeringOf(r)) \union {n}}
               = Said(Own(r) \union SteeringOf(r)) \union {m}
      BY <1>1
    <2>2. (Own(r) \union {n}) \union SteeringOf(r) = (Own(r) \union SteeringOf(r)) \union {n}
      OBVIOUS
    <2>. QED  BY <1>1, <2>1, <2>2 DEF Said
  <1>3. m \notin ToSet(inbox[r])
    <2>1. ToSet(inbox[r]) \subseteq Said(SteeringOf(r))
      BY DEF InboxInv
    <2>2. \A x \in Said(SteeringOf(r)) : x.role = "steering"
      BY DEF Said, SteeringOf
    <2>. QED  BY <2>1, <2>2
  <1>4. ToSet(told[r])' = ToSet(told[r]) \union {m} /\ ToSet(inbox[r])' = ToSet(inbox[r])
    BY <1>0, ElementsOf
  <1>5. ToldAll(r)'
    BY <1>2, <1>3, <1>4 DEF ToldAll
  <1>6. due' = due \union {n} /\ due \in SUBSET (1 .. N)
    BY <1>0, <1>1
  <1> HIDE DEF due
  <1>7. /\ Cardinality(due) \in Nat
        /\ \A k \in due : Rank(k, due) \in 1 .. Cardinality(due) /\ Rank(k, due \union {n}) = Rank(k, due)
        /\ Cardinality(due \union {n}) = Cardinality(due) + 1
        /\ Rank(n, due \union {n}) = Cardinality(due) + 1
    BY <1>0, <1>6, RankAfter
  <1>8. (\A k \in DOMAIN messages : messages'[k] = messages[k]) /\ messages'[n] = m
    BY <1>0, KeepEffect
  <1>9. ASSUME SteeringOf(r) = {}
        PROVE  /\ Len(told'[r]) = Cardinality(due \union {n})
               /\ \A k \in due \union {n} : told'[r][Rank(k, due \union {n})] = messages'[k]
    <2>1. /\ Len(told[r]) = Cardinality(due)
          /\ \A k \in due : told[r][Rank(k, due)] = messages[k]
      BY <1>9 DEF ToldInOrder, due
    <2>2. /\ Len(Append(told[r], m)) = Len(told[r]) + 1
          /\ Append(told[r], m)[Len(told[r]) + 1] = m
          /\ \A i \in 1 .. Len(told[r]) : Append(told[r], m)[i] = told[r][i]
      BY <1>0, AppendProperties
    <2>3. ASSUME NEW k \in due
          PROVE  told'[r][Rank(k, due \union {n})] = messages'[k]
      <3>1. Rank(k, due) \in 1 .. Len(told[r]) /\ k \in DOMAIN messages
        BY <1>0, <1>6, <1>7, <2>1
      <3>2. Append(told[r], m)[Rank(k, due)] = told[r][Rank(k, due)]
        BY <2>2, <3>1
      <3>. QED  BY <1>7, <1>8, <2>1, <3>1, <3>2
    <2>. QED  BY <1>7, <1>8, <2>1, <2>2, <2>3
  <1>10. ToldInOrder(r)'
    <2>1. due' = Loaded(r)' \union Own(r)'
      BY DEF due
    <2>2. Loaded(r)' \union Own(r)' = due \union {n}
      BY <1>6, <2>1
    <2>. QED  BY <1>1, <1>9, <2>2 DEF ToldInOrder, Rank
  <1>. QED  BY <1>5, <1>10

\* An instruction waits in the inbox.
LEMMA ToldSteered ==
  ASSUME TranscriptTypes, RunsInTurn, InboxInv, NEW r \in SessionRuns, ToldAll(r),
         NEW m \in Messages, Keep(m), m.run = r, m.role = "steering", m.call = Len(messages) + 1,
         told'[r] = told[r], inbox'[r] = Append(inbox[r], m), loadedAt'[r] = loadedAt[r]
  PROVE  ToldAll(r)' /\ ToldInOrder(r)'
  <1> DEFINE N == Len(messages)
  <1>0. /\ N \in Nat /\ DOMAIN messages = 1 .. N /\ inbox[r] \in Seq(Messages)
    BY MessagesTyped DEF TranscriptTypes
  <1> SUFFICES ASSUME NEW n \in {N + 1}
               PROVE  ToldAll(r)' /\ ToldInOrder(r)'
    OBVIOUS
  <1>1. /\ Loaded(r) \in SUBSET DOMAIN messages /\ Own(r) \in SUBSET DOMAIN messages
        /\ SteeringOf(r) \in SUBSET DOMAIN messages
        /\ Loaded(r)' = Loaded(r) /\ Own(r)' = Own(r) \union {n}
        /\ SteeringOf(r)' = SteeringOf(r) \union {n}
        /\ \A S \in SUBSET DOMAIN messages : {messages'[k] : k \in S} = Said(S)
        /\ \A S \in SUBSET DOMAIN messages : {messages'[k] : k \in S \union {n}} = Said(S) \union {m}
    BY KeptPositions
  <1>2. /\ Said(Loaded(r))' = Said(Loaded(r))
        /\ Said(Own(r) \union SteeringOf(r))' = Said(Own(r) \union SteeringOf(r)) \union {m}
    <2>1. /\ {messages'[k] : k \in Loaded(r)} = Said(Loaded(r))
          /\ {messages'[k] : k \in (Own(r) \union SteeringOf(r)) \union {n}}
               = Said(Own(r) \union SteeringOf(r)) \union {m}
      BY <1>1
    <2>2. (Own(r) \union {n}) \union (SteeringOf(r) \union {n}) = (Own(r) \union SteeringOf(r)) \union {n}
      OBVIOUS
    <2>. QED  BY <1>1, <2>1, <2>2 DEF Said
  <1>3. m \notin Said(Own(r) \union SteeringOf(r))
    <2>1. \A k \in DOMAIN messages : messages[k].role = "steering" => messages[k].call = k
      BY DEF InboxInv
    <2>2. \A k \in DOMAIN messages : messages[k] # m
      BY <1>0, <2>1
    <2>. QED  BY <1>1, <2>2 DEF Said
  <1>4. ToSet(told[r])' = ToSet(told[r]) /\ ToSet(inbox[r])' = ToSet(inbox[r]) \union {m}
    BY <1>0, ElementsOf
  <1>5. ToldAll(r)'
    <2>1. (Said(Own(r) \union SteeringOf(r)) \union {m}) \ (ToSet(inbox[r]) \union {m})
            = Said(Own(r) \union SteeringOf(r)) \ ToSet(inbox[r])
      BY <1>3
    <2>. QED  BY <1>2, <1>4, <2>1 DEF ToldAll
  <1>6. ToldInOrder(r)'
    BY <1>1 DEF ToldInOrder
  <1>. QED  BY <1>5, <1>6

\* A run starts from the newest messages of the session.
LEMMA ToldStarts ==
  ASSUME TranscriptTypes, InboxInv, NEW r \in SessionRuns, StartRun(r)
  PROVE  ToldAll(r)' /\ ToldInOrder(r)'
  <1> DEFINE N == Len(messages)
             n == IF N > History THEN History ELSE N
             S == N - n + 1 .. N
  <1>1. /\ messages \in Seq(Messages) /\ N \in Nat /\ DOMAIN messages = 1 .. N
        /\ History \in Nat \ {0} /\ n \in 0 .. N
    BY MessagesTyped, TranscriptAssumption
  <1>2. /\ UNCHANGED <<messages, inbox>> /\ told'[r] = Newest(messages) /\ loadedAt'[r] = N
        /\ stage[r] = "queued"
    BY DEF StartRun, TranscriptTypes
  <1>3. /\ Newest(messages) \in Seq(Messages) /\ Len(Newest(messages)) = n
        /\ \A i \in 1 .. n : Newest(messages)[i] = messages[i + (N - n)]
    BY <1>1, NewestAre
  <1>4. Loaded(r)' = S /\ Own(r)' = {} /\ SteeringOf(r)' = SteeringOf(r)
    <2>1. Loaded(r)' = {k \in 1 .. N : k <= N /\ N < k + History}
      BY <1>1, <1>2 DEF Loaded
    <2>2. {k \in 1 .. N : k <= N /\ N < k + History} = S
      <3> HIDE DEF N
      <3>1. \A k \in Int : k \in 1 .. N /\ k <= N /\ N < k + History <=> k \in N - n + 1 .. N
        BY <1>1
      <3>. QED  BY <3>1
    <2>3. Own(r)' = {}
      BY <1>1, <1>2 DEF Own
    <2>4. SteeringOf(r)' = SteeringOf(r)
      BY <1>2 DEF SteeringOf
    <2>. QED  BY <2>1, <2>2, <2>3, <2>4
  <1>5. ToSet(Newest(messages)) = {messages[k] : k \in S}
    <2>1. DOMAIN Newest(messages) = 1 .. n
      BY <1>3
    <2>2. ToSet(Newest(messages)) = {messages[i + (N - n)] : i \in 1 .. n}
      BY <1>3, <2>1 DEF ToSet
    <2>3. \A i \in 1 .. n : i + (N - n) \in S
      BY <1>1
    <2>4. \A k \in S : k - (N - n) \in 1 .. n /\ k = (k - (N - n)) + (N - n)
      BY <1>1
    <2> HIDE DEF n, N, S
    <2>. QED  BY <2>2, <2>3, <2>4
  <1> HIDE DEF n
  <1>6. ToldAll(r)'
    <2>1. ToSet(inbox[r]) = Said(SteeringOf(r))
      BY <1>2 DEF InboxInv
    <2>2. Said(SteeringOf(r))' = Said(SteeringOf(r))
      BY <1>2, <1>4 DEF Said
    <2>3. Said(Own(r) \union SteeringOf(r))' = Said(SteeringOf(r))'
      BY <1>4 DEF Said
    <2>4. Said(Loaded(r))' = {messages[k] : k \in S}
      BY <1>2, <1>4 DEF Said
    <2>. QED  BY <1>2, <1>5, <2>1, <2>2, <2>3, <2>4 DEF ToldAll
  <1>7. Cardinality(S) = n /\ \A k \in S : Rank(k, S) = k - (N - n) /\ k - (N - n) \in 1 .. n
    BY <1>1, RankLoaded
  <1>8. \A k \in S : Newest(messages)[Rank(k, S)] = messages[k]
    <2>1. \A k \in S : (k - (N - n)) + (N - n) = k
      BY <1>1
    <2> HIDE DEF S, N
    <2>. QED  BY <1>3, <1>7, <2>1
  <1>9. ToldInOrder(r)'
    <2>1. Loaded(r)' \union Own(r)' = S
      BY <1>4
    <2> HIDE DEF S
    <2>. QED  BY <1>2, <1>3, <1>7, <1>8, <2>1 DEF ToldInOrder, Rank
  <1>. QED  BY <1>6, <1>9

\* A turn takes the instructions that wait.
LEMMA ToldTakes ==
  ASSUME TranscriptTypes, InboxInv, NEW r \in SessionRuns, ToldAll(r), ToldInOrder(r), TakeTurn(r)
  PROVE  ToldAll(r)' /\ ToldInOrder(r)'
  <1>1. told[r] \in Seq(Messages) /\ inbox[r] \in Seq(Messages)
    BY DEF TranscriptTypes
  <1>2. /\ UNCHANGED <<messages, loadedAt>> /\ told'[r] = told[r] \o inbox[r] /\ inbox'[r] = <<>>
    BY DEF TakeTurn, TranscriptTypes
  <1>3. Loaded(r)' = Loaded(r) /\ Own(r)' = Own(r) /\ SteeringOf(r)' = SteeringOf(r)
    BY <1>2 DEF Loaded, Own, SteeringOf
  <1>4. Said(Loaded(r))' = Said(Loaded(r)) /\ Said(Own(r) \union SteeringOf(r))' = Said(Own(r) \union SteeringOf(r))
    BY <1>2, <1>3 DEF Said
  <1>5. ToSet(inbox[r]) \subseteq Said(SteeringOf(r))
    BY DEF InboxInv
  <1>6. Said(SteeringOf(r)) \subseteq Said(Own(r) \union SteeringOf(r))
    BY DEF Said
  <1>7. /\ ToSet(told[r])' = ToSet(told[r]) \union ToSet(inbox[r]) /\ ToSet(inbox[r])' = {}
        /\ ToSet(inbox[r]) = {} => told[r] \o inbox[r] = told[r]
    <2>1. \A m \in Messages : /\ ToSet(told[r] \o inbox[r]) = ToSet(told[r]) \union ToSet(inbox[r])
                              /\ ToSet(inbox[r]) = {} => told[r] \o inbox[r] = told[r]
      BY <1>1, ElementsOf
    <2>2. Message("user", r, 0, 0) \in Messages
      BY MessageTypes DEF Speakers
    <2>3. ToSet(<<>>) = {}
      BY DEF ToSet
    <2>. QED  BY <1>2, <2>1, <2>2, <2>3
  <1>8. ToldAll(r)'
    BY <1>4, <1>5, <1>6, <1>7 DEF ToldAll
  <1>9. SteeringOf(r) = {} => told'[r] = told[r]
    <2>1. SteeringOf(r) = {} => Said(SteeringOf(r)) = {}
      BY DEF Said
    <2>. QED  BY <1>2, <1>5, <1>7, <2>1
  <1>10. ToldInOrder(r)'
    BY <1>2, <1>3, <1>9 DEF ToldInOrder, Rank
  <1>. QED  BY <1>8, <1>10

\* The model of a run is told what is kept, in its order.
LEMMA ToldStep ==
  ASSUME TranscriptTypes, RunsInTurn, InboxInv, ToldWhatIsKept, [TranscriptNext]_transcriptVars
  PROVE  ToldWhatIsKept'
  <1>0. /\ stage \in [SessionRuns -> RunStages] /\ loadedAt \in [SessionRuns -> Nat]
        /\ told \in [SessionRuns -> Seq(Messages)] /\ inbox \in [SessionRuns -> Seq(Messages)]
        /\ \A r \in SessionRuns : Executing(r) => ToldAll(r) /\ ToldInOrder(r)
        /\ \A q, r \in SessionRuns : Executing(q) /\ Executing(r) => q = r
    BY ToldIs DEF TranscriptTypes, RunsInTurn
  <1>a. \A q \in SessionRuns : stage'[q] = stage[q] => (Executing(q)' <=> Executing(q))
    BY DEF Executing
  <1> SUFFICES ASSUME NEW p \in SessionRuns, Executing(p)'
               PROVE  ToldAll(p)' /\ ToldInOrder(p)'
    BY DEF ToldWhatIsKept, ToldAll, ToldInOrder
  <1>1. CASE UNCHANGED transcriptVars
    BY <1>0, <1>1, <1>a, ToldKept DEF transcriptVars
  <1>2. ASSUME NEW r \in SessionRuns, CreateSessionRun(r)
        PROVE  ToldAll(p)' /\ ToldInOrder(p)'
    <2>1. Message("user", r, 0, 0) \in Messages /\ Message("user", r, 0, 0).run = r
      BY MessageTypes DEF Speakers, Message
    <2>2. /\ Keep(Message("user", r, 0, 0)) /\ UNCHANGED <<told, inbox, loadedAt>>
          /\ stage' = [stage EXCEPT ![r] = "queued"]
      BY <1>2 DEF CreateSessionRun, runState
    <2>3. p # r /\ Executing(p)
      BY <1>0, <2>2 DEF Executing
    <2>. QED  BY <1>0, <2>1, <2>2, <2>3, ToldBeside
  <1>3. ASSUME NEW r \in SessionRuns, StartRun(r)
        PROVE  ToldAll(p)' /\ ToldInOrder(p)'
    <2>1. p = r
      BY <1>0, <1>3 DEF StartRun, Executing
    <2>. QED  BY <1>3, <2>1, ToldStarts
  <1>4. ASSUME NEW r \in SessionRuns, TakeTurn(r)
        PROVE  ToldAll(p)' /\ ToldInOrder(p)'
    <2>1. Executing(r) /\ (Executing(p)' => Executing(p))
      BY <1>0, <1>4 DEF TakeTurn, Executing
    <2>2. p = r
      BY <1>0, <2>1
    <2>. QED  BY <1>0, <1>4, <2>1, <2>2, ToldTakes
  <1>5. ASSUME NEW r \in SessionRuns, BeginWait(r)
        PROVE  ToldAll(p)' /\ ToldInOrder(p)'
    <2>1. Executing(p) /\ UNCHANGED <<messages, told, inbox, loadedAt>>
      BY <1>0, <1>5 DEF BeginWait, Executing, runState
    <2>. QED  BY <1>0, <2>1, ToldKept
  <1>6. ASSUME NEW r \in SessionRuns, CloseRun(r)
        PROVE  ToldAll(p)' /\ ToldInOrder(p)'
    <2>1. UNCHANGED <<messages, told, inbox, loadedAt>>
      BY <1>6 DEF CloseRun, runState
    <2>2. Executing(p)
      BY <1>0, <1>6 DEF CloseRun, Executing, Ending
    <2>. QED  BY <1>0, <2>1, <2>2, ToldKept
  <1>7. ASSUME NEW r \in SessionRuns, NEW m \in Messages, NEW next \in RunStages, Speaks(r, m, next)
        PROVE  ToldAll(p)' /\ ToldInOrder(p)'
    <2>1. /\ Keep(m) /\ m.run = r /\ m.role # "steering" /\ Executing(r)
          /\ told' = [told EXCEPT ![r] = Append(told[r], m)] /\ UNCHANGED <<inbox, loadedAt>>
          /\ stage' = [stage EXCEPT ![r] = next]
      BY <1>7 DEF Speaks
    <2>2. Executing(p) /\ p = r
      BY <1>0, <2>1 DEF Executing
    <2>3. told'[r] = Append(told[r], m)
      BY <1>0, <2>1
    <2>. QED  BY <1>0, <2>1, <2>2, <2>3, ToldSpeaks
  <1>8. ASSUME NEW r \in SessionRuns, NEW as \in RunStages, Ends(r, as)
        PROVE  ToldAll(p)' /\ ToldInOrder(p)'
    <2>1. /\ UNCHANGED messages /\ stage' = [stage EXCEPT ![r] = as] /\ as \in {"finished", "failing", "ended"}
          /\ inbox' = [inbox EXCEPT ![r] = <<>>] /\ told' = [told EXCEPT ![r] = <<>>]
          /\ loadedAt' = [loadedAt EXCEPT ![r] = 0]
      BY <1>8 DEF Ends, Closes
    <2>2. p # r /\ Executing(p)
      BY <1>0, <2>1 DEF Executing
    <2>3. told'[p] = told[p] /\ inbox'[p] = inbox[p] /\ loadedAt'[p] = loadedAt[p]
      BY <1>0, <2>1, <2>2
    <2>. QED  BY <1>0, <2>1, <2>2, <2>3, ToldKept
  <1>9. CASE ChildProceeds
    <2>1. Executing(p) /\ UNCHANGED <<messages, told, inbox, loadedAt>>
      BY <1>9, <1>a DEF ChildProceeds, runState
    <2>. QED  BY <1>0, <2>1, ToldKept
  <1>10. CASE ManagerRestarts
    BY <1>0, <1>10 DEF ManagerRestarts, Open, Executing
  <1>11. ASSUME NEW r \in SessionRuns, SteerRun(r)
         PROVE  ToldAll(p)' /\ ToldInOrder(p)'
    <2> DEFINE m == Message("steering", r, turnOf[r], Len(messages) + 1)
    <2>1. m \in Messages /\ m.role = "steering" /\ m.run = r /\ m.call = Len(messages) + 1
      <3>1. turnOf[r] \in Nat /\ Len(messages) + 1 \in Nat
        BY MessagesTyped DEF TranscriptTypes
      <3>. QED  BY <3>1, MessageTypes DEF Speakers, Message
    <2>2. /\ Keep(m) /\ UNCHANGED <<stage, told, loadedAt>>
          /\ inbox' = [inbox EXCEPT ![r] = Append(inbox[r], m)]
      BY <1>11 DEF SteerRun
    <2> HIDE DEF m
    <2>3. Executing(p)
      BY <1>a, <2>2
    <2>4. CASE p = r
      <3>1. inbox'[r] = Append(inbox[r], m)
        BY <1>0, <2>2
      <3>. QED  BY <1>0, <2>1, <2>2, <2>3, <2>4, <3>1, ToldSteered
    <2>5. CASE p # r
      <3>1. inbox'[p] = inbox[p]
        BY <1>0, <2>2, <2>5
      <3>. QED  BY <1>0, <2>1, <2>2, <2>3, <2>5, <3>1, ToldBeside
    <2>. QED  BY <2>4, <2>5
  <1>. QED
    BY <1>1, <1>2, <1>3, <1>4, <1>5, <1>6, <1>7, <1>8, <1>9, <1>10, <1>11, TranscriptCases

\* The invariant of the transcript, from its beginning.
LEMMA TranscriptStarts ==
  ASSUME TranscriptInit
  PROVE  TranscriptInv
  <1> USE TranscriptAssumption DEF TranscriptInit
  <1>1. \A r \in SessionRuns : ~Executing(r)
    BY DEF Executing
  <1>2. messages \in Seq(Messages) /\ DOMAIN messages = {} /\ Len(messages) = 0
    OBVIOUS
  <1>3. TranscriptTypes
    BY <1>2 DEF TranscriptTypes, RunStages, NoCalls
  <1>4. RunsInTurn
    BY <1>1, <1>2 DEF RunsInTurn
  <1>5. InboxInv
    <2>1. \A r \in SessionRuns : ToSet(inbox[r]) = {} /\ stage[r] # "queued"
      BY DEF ToSet
    <2>. QED  BY <1>2, <2>1 DEF InboxInv
  <1>6. CallsInv
    BY <1>2 DEF CallsInv, TurnsAnswered, AnswersAreAsked, CallsAreOpen, Calling
  <1>7. MessagesHaveEvents /\ ToldWhatIsKept /\ HistoryIsSettled
    BY <1>1, <1>2 DEF MessagesHaveEvents, ToldWhatIsKept, HistoryIsSettled
  <1>8. ChildInv
    BY DEF ChildInv, WaitHearsTheEnd, NoChild
  <1>. QED  BY <1>3, <1>4, <1>5, <1>6, <1>7, <1>8 DEF TranscriptInv

LEMMA TranscriptStep ==
  ASSUME TranscriptInv, [TranscriptNext]_transcriptVars
  PROVE  TranscriptInv'
  BY TranscriptTypesStep, RunsInTurnStep, InboxStep, CallsStep, HistoryStep, ToldStep, ChildStep
     DEF TranscriptInv

LEMMA TranscriptSound ==
  ASSUME TranscriptInv
  PROVE  TranscriptIsSound
  <1>1. CallsAreAnswered
    <2> SUFFICES ASSUME NEW k \in DOMAIN messages
                 PROVE  /\ messages[k].role = "assistant" /\ stage[messages[k].run] \in {"succeeded", "turn", "model"} =>
                             \A c \in 1 .. messages[k].call : \E l \in k + 1 .. Len(messages) :
                               messages[l] = Message("tool", messages[k].run, messages[k].turn, c)
                        /\ messages[k].role = "tool" => \E l \in 1 .. k - 1 : HasCall(l, messages[k])
      BY DEF CallsAreAnswered, HasCall
    <2>1. messages[k].role = "assistant" /\ stage[messages[k].run] \in {"succeeded", "turn", "model"} =>
            AnsweredUpTo(k, messages[k].call)
      BY DEF TranscriptInv, CallsInv, TurnsAnswered, WorksOut, Calling
    <2>2. messages[k].role = "tool" => \E l \in 1 .. k - 1 : HasCall(l, messages[k])
      BY DEF TranscriptInv, CallsInv, AnswersAreAsked
    <2>. QED  BY <2>1, <2>2 DEF AnsweredUpTo
  <1>. QED  BY <1>1 DEF TranscriptInv, TranscriptIsSound, ChildInv

\* What a run says has its event, is kept and told to its model, every call of a turn is
\* answered before the next (control-plane/src/index.ts:1078-1112, agent/src/index.ts).
THEOREM TranscriptStaysSound == TranscriptSpec => []TranscriptIsSound
  <1>1. TranscriptInit => TranscriptInv
    BY TranscriptStarts
  <1>2. TranscriptInv /\ [TranscriptNext]_transcriptVars => TranscriptInv'
    BY TranscriptStep
  <1>3. TranscriptInv => TranscriptIsSound
    BY TranscriptSound
  <1>. QED  BY <1>1, <1>2, <1>3, PTL DEF TranscriptSpec

=============================================================================
