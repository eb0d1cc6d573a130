--------------------------- MODULE BrowserSessions ---------------------------
(* ManagedBrowserBroker: sessions of browsers that tool calls open, use and   *)
(* close, with the rows that outlive the Manager, and DockerBrowserDriver,    *)
(* whose process is a `docker run` client: killing it does not end the        *)
(* container, which has no name.  A step runs to its next await.  The network *)
(* and the proxy of a session are left out.                                   *)
EXTENDS Naturals, FiniteSets

CONSTANTS
  Sessions,    \* ids, each used once
  Operations,  \* tool calls that use a session, one after the other
  MaxSessions

ASSUME BrowserAssumption == MaxSessions \in Nat /\ Sessions # {}

VARIABLES
  broker,    \* "serving", "stopping" in closeAll, or "down"
  present,   \* #sessions
  armed,     \* sessions with an idle timer
  row,       \* state of the row, "none" before there is one
  operation, \* where a call is: "none", "starting" or "driving"
  usedBy,    \* the session a call uses
  startup,  \* "no", "egress", "process", "profile" or "yes"
  ending,    \* "no", "draining", "exporting", "stopping" or "failing"
  endsAs,    \* the state that a close writes
  driver,    \* sessions whose #driver is set
  browser,   \* #child, the client of a session's container: "none", "raw", "ready" when
             \* its browser is initialized, or "wedged": killed and not reaped in time
  unheard,   \* calls that neither an answer nor the end of a client will reach
  left       \* sessions that have a container without a client

browserVars == <<broker, present, armed, row, operation, usedBy, startup, ending, endsAs,
                 driver, browser, unheard, left>>
sessionVars == <<present, armed, row, ending, endsAs>>
callVars    == <<operation, usedBy, unheard>>
driverVars  == <<driver, browser, left>>

Active(s) == {o \in Operations : operation[o] # "none" /\ usedBy[o] = s}
Driving(s) == {o \in Active(s) : operation[o] = "driving"}
Closing == {s \in Sessions : ending[s] # "no"}
Each(f, ss, value) == [x \in DOMAIN f |-> IF x \in ss THEN value ELSE f[x]]

BrowserInit ==
  /\ broker = "serving" /\ present = {} /\ armed = {}
  /\ row = [s \in Sessions |-> "none"]
  /\ operation = [o \in Operations |-> "none"]
  /\ usedBy = [o \in Operations |-> CHOOSE s \in Sessions : TRUE]
  /\ startup = [s \in Sessions |-> "no"] /\ ending = [s \in Sessions |-> "no"]
  /\ endsAs = [s \in Sessions |-> "CLOSED"]
  /\ driver = {} /\ browser = [s \in Sessions |-> "none"] /\ unheard = {} /\ left = {}

-----------------------------------------------------------------------------
(* Sessions and operations                                                    *)

\* Mutant: a session that closes does not count.
CountedOpen == present \ Closing

Counted == present

CreateSession(s) ==
  /\ broker = "serving" /\ row[s] = "none" /\ Cardinality(Counted) < MaxSessions
  /\ present' = present \cup {s} /\ armed' = armed \cup {s}
  /\ row' = [row EXCEPT ![s] = "OPEN"]
  /\ UNCHANGED <<broker, callVars, startup, ending, endsAs, driverVars>>

\* Mutant: a session that closes takes operations.
OwnedWhileClosing(s) == s \in present

Owned(s) == s \in present /\ s \notin Closing

BeginOperation(o, s) ==
  /\ broker # "down" /\ operation[o] = "none" /\ Owned(s)
  /\ operation' = [operation EXCEPT ![o] = "starting"] /\ usedBy' = [usedBy EXCEPT ![o] = s]
  /\ armed' = armed \ {s}
  /\ UNCHANGED <<broker, present, row, ending, endsAs, startup, unheard, driverVars>>

\* #finishOperation of operations of s.
Finish(s, os) ==
  /\ operation' = Each(operation, os, "none") /\ unheard' = unheard \ os
  /\ armed' = IF Active(s) \subseteq os /\ os # {} /\ s \in present \ Closing
              THEN armed \cup {s} ELSE armed
  /\ UNCHANGED <<usedBy, present, row, ending, endsAs>>

-----------------------------------------------------------------------------
(* #ensureStarted: one start at a time, which the other operations join       *)

Waiting(s) == {o \in Active(s) : operation[o] = "starting"}

BeginStart(s) ==
  /\ startup[s] = "no" /\ Waiting(s) # {}
  /\ startup' = [startup EXCEPT ![s] = IF s \in driver THEN "profile" ELSE "egress"]
  /\ UNCHANGED <<broker, sessionVars, callVars, driverVars>>

BrowserStartFails(s) ==
  /\ startup' = [startup EXCEPT ![s] = "no"] /\ Finish(s, Waiting(s))

\* The egress broker is ready, and the client of the browser is spawned.
StartEgress(s) ==
  /\ startup[s] = "egress" /\ UNCHANGED <<broker, driver, left>>
  /\ \/ /\ startup' = [startup EXCEPT ![s] = "process"]
        /\ browser' = [browser EXCEPT ![s] = "raw"] /\ UNCHANGED <<sessionVars, callVars>>
     \/ BrowserStartFails(s) /\ UNCHANGED browser

\* The client exits or is killed; its container may stay.
ClientEnds(s) ==
  /\ browser' = [browser EXCEPT ![s] = "none"]
  /\ left' = left \/ left' = left \cup {s}

\* It is killed and does not exit within two seconds.
ClientStays(s) == browser' = [browser EXCEPT ![s] = "wedged"] /\ UNCHANGED left

\* A driver that cannot be initialized is stopped, whatever comes of that, and dropped.
StartProcess(s) ==
  /\ startup[s] = "process" /\ UNCHANGED broker
  /\ \/ /\ startup' = [startup EXCEPT ![s] = "profile"] /\ driver' = driver \cup {s}
        /\ browser[s] = "raw" /\ browser' = [browser EXCEPT ![s] = "ready"]
        /\ UNCHANGED <<left, sessionVars, callVars>>
     \/ BrowserStartFails(s) /\ ClientEnds(s) /\ UNCHANGED driver

\* A request starts the process again when it is gone, and it is not initialized.
Respawned(s) == [browser EXCEPT ![s] = IF @ = "none" THEN "raw" ELSE @]

\* A request ends with an error, or by its timeout, which kills the client.
OwnRequestFails(s) ==
  (browser' = Respawned(s) /\ UNCHANGED left) \/ ClientEnds(s) \/ ClientStays(s)

RestoreProfile(s) ==
  /\ startup[s] = "profile" /\ UNCHANGED <<broker, driver>>
  /\ \/ /\ startup' = [startup EXCEPT ![s] = "yes"]
        /\ UNCHANGED <<sessionVars, callVars, browser, left>>
     \/ BrowserStartFails(s) /\ OwnRequestFails(s)

-----------------------------------------------------------------------------
(* driver.execute                                                             *)

\* The request is written, unless the input of a client that was killed has ended.
EnterDriver(o) ==
  /\ operation[o] = "starting" /\ startup[usedBy[o]] = "yes"
  /\ UNCHANGED <<broker, startup, driver, left>>
  /\ \/ /\ browser[usedBy[o]] # "wedged" /\ browser' = Respawned(usedBy[o])
        /\ operation' = [operation EXCEPT ![o] = "driving"]
        /\ UNCHANGED <<sessionVars, usedBy, unheard>>
     \/ /\ browser[usedBy[o]] = "wedged" /\ Finish(usedBy[o], {o}) /\ UNCHANGED browser

\* A result, or the error of a browser that is not initialized.
Answered(o) ==
  /\ operation[o] = "driving" /\ browser[usedBy[o]] # "none" /\ o \notin unheard
  /\ Finish(usedBy[o], {o}) /\ UNCHANGED <<broker, startup, driverVars>>

\* Every request that is pending fails.
Killed(s) ==
  /\ ClientEnds(s) /\ Finish(s, Driving(s)) /\ UNCHANGED <<broker, startup, driver>>

\* The client exits by itself.  That was expected when it had been killed, and the
\* requests that are pending wait for their timeouts.
ProcessDies(s) ==
  /\ s \in driver
  /\ \/ browser[s] \in {"raw", "ready"} /\ Killed(s)
     \/ /\ browser[s] = "wedged" /\ ClientEnds(s) /\ unheard' = unheard \cup Driving(s)
        /\ UNCHANGED <<broker, sessionVars, operation, usedBy, startup, driver>>

\* The timeout or abort of a request kills the client, if there is one: SIGTERM, and
\* SIGKILL without grace.
RequestTimesOut(o) ==
  LET s == usedBy[o] IN
  /\ operation[o] = "driving"
  /\ \/ browser[s] # "none" /\ Killed(s)
     \/ /\ IF browser[s] # "none" THEN ClientStays(s) ELSE UNCHANGED <<browser, left>>
        /\ Finish(s, {o}) /\ UNCHANGED <<broker, startup, driver>>

-----------------------------------------------------------------------------
(* #closeManagedSession                                                       *)

Close(ss, state) ==
  /\ ending' = Each(ending, ss \ Closing, "draining")
  /\ endsAs' = Each(endsAs, ss \ Closing, state)
  /\ armed' = armed \ ss

CloseSession(s) ==
  /\ broker # "down" /\ Owned(s) /\ Close({s}, "CLOSED")
  /\ UNCHANGED <<broker, present, row, callVars, startup, driverVars>>

IdleTimer(s) ==
  /\ s \in armed /\ Close({s}, "EXPIRED")
  /\ UNCHANGED <<broker, present, row, callVars, startup, driverVars>>

\* stop of the capability: its tools are gone first.
CloseAll ==
  /\ broker = "serving" /\ broker' = "stopping" /\ Close(present, "CLOSED")
  /\ UNCHANGED <<present, row, callVars, startup, driverVars>>

\* Only a session that was started and has a profile exports it.
OperationsEnd(s) ==
  /\ ending[s] = "draining" /\ Active(s) = {}
  /\ \E next \in {"exporting", "stopping"} :
       /\ next = "exporting" => startup[s] = "yes"
       /\ ending' = [ending EXCEPT ![s] = next]
  /\ UNCHANGED <<broker, present, armed, row, endsAs, callVars, startup, driverVars>>

\* closeSession finds only a row that is OPEN.
ClosedAs(s, state) == [row EXCEPT ![s] = IF @ = "OPEN" THEN state ELSE @]

\* The profile is exported and saved.  When that fails the row says so first.
ExportProfile(s) ==
  /\ ending[s] = "exporting"
  /\ \/ /\ browser[s] = "ready" /\ ending' = [ending EXCEPT ![s] = "stopping"]
        /\ startup' = [startup EXCEPT ![s] = "no"] /\ UNCHANGED <<row, browser, left>>
     \/ /\ ending' = [ending EXCEPT ![s] = "failing"] /\ row' = ClosedAs(s, "FAILED")
        /\ OwnRequestFails(s) /\ UNCHANGED startup
  /\ UNCHANGED <<broker, present, armed, endsAs, callVars, driver>>

\* The driver asks the browser to shut down and stops the client.  It is dropped even
\* when the client is not reaped.
StopDriver(s) ==
  /\ ending[s] \in {"stopping", "failing"} /\ driver' = driver \ {s} /\ ClientEnds(s)
  /\ \E reaped \in BOOLEAN :
       /\ s \notin driver => reaped /\ left' = left
       /\ ~reaped => s \in left'
       /\ row' = ClosedAs(s, IF reaped THEN endsAs[s] ELSE "FAILED")
  /\ present' = present \ {s} /\ armed' = armed \ {s}
  /\ startup' = [startup EXCEPT ![s] = "no"]
  /\ ending' = [ending EXCEPT ![s] = "no"]
  /\ UNCHANGED <<broker, endsAs, callVars>>

Exit ==
  /\ broker = "stopping" /\ present = {} /\ broker' = "down"
  /\ UNCHANGED <<sessionVars, callVars, startup, driverVars>>

-----------------------------------------------------------------------------
(* Crash and restart                                                          *)

ManagerCrashes ==
  /\ broker # "down" /\ broker' = "down"
  /\ present' = {} /\ armed' = {} /\ ending' = [s \in Sessions |-> "no"]
  /\ operation' = [o \in Operations |-> "none"] /\ startup' = [s \in Sessions |-> "no"]
  /\ driver' = {} /\ unheard' = {}
  /\ browser' = [s \in Sessions |-> "none"]
  /\ left' = left \cup {s \in Sessions : browser[s] # "none"}
  /\ UNCHANGED <<row, endsAs, usedBy>>

\* Mutant: rows are left as they are.
Unreconciled == row

Reconciled == [s \in Sessions |-> IF row[s] = "OPEN" THEN "INTERRUPTED" ELSE row[s]]

\* A container without a client ends by itself, or reconcileBrowserResources removes
\* it when the Manager starts; one that stays stops the startup.
ContainerEnds(s) ==
  /\ s \in left /\ left' = left \ {s}
  /\ UNCHANGED <<broker, sessionVars, callVars, startup, driver, browser>>

Restart ==
  /\ broker = "down" /\ left = {}
  /\ broker' = "serving" /\ row' = Reconciled
  /\ UNCHANGED <<present, armed, ending, endsAs, callVars, startup, driverVars>>

CloseSteps(s) == OperationsEnd(s) \/ ExportProfile(s) \/ StopDriver(s)
StartSteps(s) == BeginStart(s) \/ StartEgress(s) \/ StartProcess(s) \/ RestoreProfile(s)

BrowserNext ==
  \/ \E s \in Sessions :
       \/ CreateSession(s) \/ CloseSession(s) \/ IdleTimer(s) \/ ProcessDies(s) \/ ContainerEnds(s)
       \/ BeginStart(s) \/ StartEgress(s) \/ StartProcess(s) \/ RestoreProfile(s)
       \/ OperationsEnd(s) \/ ExportProfile(s) \/ StopDriver(s)
       \/ \E o \in Operations : BeginOperation(o, s)
  \/ \E o \in Operations : EnterDriver(o) \/ Answered(o) \/ RequestTimesOut(o)
  \/ CloseAll \/ Exit \/ ManagerCrashes \/ Restart

BrowserSpec == BrowserInit /\ [][BrowserNext]_browserVars

\* Awaits end: requests and Docker commands have timeouts.
BrowserFairness ==
  /\ \A s \in Sessions : WF_browserVars(StartSteps(s)) /\ WF_browserVars(CloseSteps(s))
  /\ \A o \in Operations :
       WF_browserVars(EnterDriver(o)) /\ WF_browserVars(Answered(o) \/ RequestTimesOut(o))

-----------------------------------------------------------------------------
(* Properties *)

\* The limit on sessions bounds the clients that the Manager has to stop, those of
\* sessions that close or start among them.
BrowsersAreBounded == Cardinality({s \in Sessions : browser[s] # "none"}) <= MaxSessions

\* While the broker serves, a row is OPEN only as long as its session is there to
\* close it, whatever crashed before.
OpenRowsAreLive == broker = "serving" => \A s \in Sessions : row[s] = "OPEN" => s \in present

\* Of a session that a crash interrupted nothing runs any more when the Manager serves
\* again, neither a client nor a container whose client was killed or not reaped.
InterruptedAreGone ==
  broker # "down" => \A s \in Sessions :
    row[s] = "INTERRUPTED" => browser[s] = "none" /\ s \notin left

\* All three: what runs and what the rows say is accounted for by the sessions in
\* memory, but for containers whose client this Manager has killed.
SessionsAreAccounted == BrowsersAreBounded /\ OpenRowsAreLive /\ InterruptedAreGone

\* Nothing stops a driver while an operation is in it, neither a close, an idle
\* timer nor the end of another operation.
OperationsKeepTheirDriver ==
  \A o \in Operations :
    operation[o] = "driving" => usedBy[o] \in driver /\ ending[usedBy[o]] \in {"no", "draining"}

\* No session waits for its operations to end and its browser to stop.
NoneCloses == Closing = {}
=============================================================================
