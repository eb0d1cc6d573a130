---------------------------- MODULE McpSupervisor ----------------------------
(* McpSupervisor: the calls of one MCP server share a transport, which is      *)
(* stopped by a failure of any of them, by the owner, or when idle.  A step    *)
(* runs to its next await.  Transports are numbered as they are created, so    *)
(* that a lease is current when its transport is: generation adds nothing.     *)
EXTENDS Naturals, FiniteSets

CONSTANTS
  McpCalls,
  MaxTransports  \* bound on the transports that are created

ASSUME McpAssumption == MaxTransports \in Nat

VARIABLES
  mcpCall,    \* where call is: see McpStates
  lease,      \* the transport it has acquired, 0 before
  transport,  \* the current transport, 0 is none
  created,    \* transports created so far
  up,         \* transports whose start has succeeded
  validated,  \* catalogValidated
  checked,    \* transports whose catalog matched the configured one
  mcpStop,    \* the transport of stopPromise, 0 is none
  idle,       \* idleTimer is set
  mcpBackoff  \* retryAt is in the future

transportVars == <<transport, created, up, validated, checked, mcpStop>>
mcpVars == <<mcpCall, lease, transportVars, idle, mcpBackoff>>

\* "held" awaits stopPromise, "starting" the start, "catalog" the shared catalog,
\* "calling" the tool, "ending" the stop it caused.
McpStates == {"new", "held", "starting", "catalog", "calling", "ending", "answered", "failed"}
Operating == {c \in McpCalls : mcpCall[c] \notin {"new", "answered", "failed"}}
At(state) == {c \in McpCalls : mcpCall[c] = state}
Holding(state, t) == {c \in At(state) : lease[c] = t}
To(cs, state) == [c \in McpCalls |-> IF c \in cs THEN state ELSE mcpCall[c]]

McpInit ==
  /\ mcpCall = [c \in McpCalls |-> "new"] /\ lease = [c \in McpCalls |-> 0]
  /\ transport = 0 /\ created = 0 /\ up = {} /\ validated = FALSE /\ checked = {}
  /\ mcpStop = 0 /\ idle = FALSE /\ mcpBackoff = FALSE

-----------------------------------------------------------------------------
(* The transport                                                              *)

\* Mutant: the next transport inherits the validation of the last.
KeepValidated == validated

ResetValidated == FALSE

\* #stopRegistration, up to the await of the stop.
StopTransport ==
  /\ mcpStop' = transport /\ transport' = 0 /\ validated' = ResetValidated /\ idle' = FALSE
  /\ UNCHANGED <<created, up, checked>>

\* Mutant: only an operation that answered arms the timer.
ArmedByAnswer(ended) == \E c \in ended : mcpCall'[c] = "answered"

ArmedBy(ended) == TRUE

\* #endOperation of the calls that ended, with #armIdle after the last.
EndOperations(ended) ==
  idle' = IF Operating \subseteq ended /\ transport # 0 /\ mcpStop = 0 /\ ArmedBy(ended)
          THEN TRUE ELSE idle

\* #acquireTransport creates the transport for all that waited for it.
Acquire(cs) ==
  /\ transport' = (IF transport = 0 THEN created + 1 ELSE transport)
  /\ transport' <= MaxTransports
  /\ created' = (IF transport = 0 THEN transport' ELSE created)
  /\ lease' = [c \in McpCalls |-> IF c \in cs THEN transport' ELSE lease[c]]
  /\ mcpCall' = To(cs, "starting")

-----------------------------------------------------------------------------
(* call and listTools                                                         *)

Call(c) ==
  /\ mcpCall[c] = "new" /\ ~mcpBackoff /\ idle' = FALSE
  /\ IF mcpStop # 0
     THEN mcpCall' = To({c}, "held") /\ UNCHANGED <<lease, transport, created>>
     ELSE Acquire({c})
  /\ UNCHANGED <<up, validated, checked, mcpStop, mcpBackoff>>

\* What a call whose lease is current does when it fails, and it alone: the others
\* that fail with it find a lease that is not current any more.
FailAll(cs, t) ==
  IF cs # {} /\ t = transport
  THEN /\ \E c \in cs : mcpCall' = [To(cs, "failed") EXCEPT ![c] = "ending"]
       /\ mcpBackoff' = TRUE /\ StopTransport
  ELSE /\ mcpCall' = To(cs, "failed") /\ EndOperations(cs)
       /\ UNCHANGED <<transportVars, mcpBackoff>>

\* #awaitStarted.  The start of a transport that was stopped is of no use.
Started(t) ==
  /\ t \in {lease[c] : c \in At("starting")} /\ t \notin up
  /\ IF t = transport
     THEN /\ up' = up \cup {t}
          /\ UNCHANGED <<mcpCall, transport, created, validated, checked, mcpStop, idle,
                         mcpBackoff>>
     ELSE FailAll(Holding("starting", t), t)
  /\ UNCHANGED lease

StartFails(t) ==
  /\ t \in {lease[c] : c \in At("starting")} /\ t \notin up
  /\ FailAll(Holding("starting", t), t) /\ UNCHANGED lease

\* What the catalog is for: the calls go on to their tools, and those of listTools
\* are answered by it.
CallGoesOn(cs) ==
  \E lists \in SUBSET cs :
    /\ mcpCall' = [c \in McpCalls |-> IF c \in lists THEN "answered" ELSE To(cs, "calling")[c]]
    /\ mcpBackoff' = (lists = {} /\ mcpBackoff) /\ EndOperations(lists)

\* After the start: the catalog when it is not validated yet.
GoOn(c) ==
  /\ mcpCall[c] = "starting" /\ lease[c] \in up
  /\ \/ lease[c] # transport /\ FailAll({c}, lease[c])
     \/ lease[c] = transport /\ validated /\ CallGoesOn({c}) /\ UNCHANGED transportVars
     \/ /\ lease[c] = transport /\ ~validated /\ mcpCall' = To({c}, "catalog")
        /\ UNCHANGED <<transportVars, idle, mcpBackoff>>
  /\ UNCHANGED lease

\* Mutant: the catalog of a transport that was stopped validates the next.
AnyCatalogCounts(t) == TRUE

CatalogCounts(t) == t = transport

\* #readAndValidateCatalog, awaited by all that share catalogPromise.
CatalogMatches(t) ==
  /\ Holding("catalog", t) # {}
  /\ IF CatalogCounts(t)
     THEN /\ validated' = TRUE /\ checked' = checked \cup {t}
          /\ CallGoesOn(Holding("catalog", t))
          /\ UNCHANGED <<transport, created, up, mcpStop>>
     ELSE FailAll(Holding("catalog", t), t)
  /\ UNCHANGED lease

CatalogFails(t) ==
  /\ Holding("catalog", t) # {}
  /\ FailAll(Holding("catalog", t), t) /\ UNCHANGED lease

Answer(c) ==
  /\ mcpCall[c] = "calling" /\ lease[c] = transport
  /\ mcpCall' = To({c}, "answered") /\ mcpBackoff' = FALSE
  /\ EndOperations({c}) /\ UNCHANGED <<lease, transportVars>>

\* An error, a timeout, an output over the limit, or an answer that comes after
\* the transport was stopped.
CallFails(c) ==
  /\ mcpCall[c] = "calling" /\ FailAll({c}, lease[c]) /\ UNCHANGED lease

\* A cancelled call stops the transport only when it is alone.
Abort(c) ==
  /\ mcpCall[c] \in {"held", "starting", "catalog", "calling"}
  /\ IF lease[c] # 0 /\ lease[c] = transport /\ Operating = {c}
     THEN mcpCall' = To({c}, "ending") /\ StopTransport
     ELSE mcpCall' = To({c}, "failed") /\ EndOperations({c}) /\ UNCHANGED transportVars
  /\ UNCHANGED <<lease, mcpBackoff>>

-----------------------------------------------------------------------------
(* stop                                                                       *)

OwnerStopsServer ==
  /\ transport # 0 /\ StopTransport /\ UNCHANGED <<mcpCall, lease, mcpBackoff>>

IdleStops ==
  /\ idle /\ Operating = {} /\ StopTransport /\ UNCHANGED <<mcpCall, lease, mcpBackoff>>

\* The stop ends; whoever was held goes on with a new transport.
TransportStops ==
  /\ mcpStop # 0 /\ mcpStop' = 0
  /\ IF At("held") = {}
     THEN mcpCall' = To(At("ending"), "failed") /\ UNCHANGED <<lease, transport, created>>
     ELSE /\ created < MaxTransports /\ created' = created + 1 /\ transport' = created'
          /\ lease' = [c \in McpCalls |-> IF mcpCall[c] = "held" THEN created' ELSE lease[c]]
          /\ mcpCall' = [c \in McpCalls |-> IF mcpCall[c] = "held" THEN "starting"
                                            ELSE To(At("ending"), "failed")[c]]
  /\ UNCHANGED <<up, validated, checked, idle, mcpBackoff>>

\* A stop that fails is not tried again: whatever was held fails with it.
TransportStopFails ==
  /\ mcpStop # 0 /\ mcpStop' = 0
  /\ mcpCall' = To(At("ending") \cup At("held"), "failed")
  /\ mcpBackoff' = (At("held") # {} \/ mcpBackoff)
  /\ UNCHANGED <<lease, transport, created, up, validated, checked, idle>>

McpBackoffPasses ==
  /\ mcpBackoff /\ mcpBackoff' = FALSE /\ UNCHANGED <<mcpCall, lease, transportVars, idle>>

McpNext ==
  \/ \E c \in McpCalls : Call(c) \/ GoOn(c) \/ Answer(c) \/ CallFails(c) \/ Abort(c)
  \/ \E t \in 1..MaxTransports : Started(t) \/ StartFails(t) \/ CatalogMatches(t) \/ CatalogFails(t)
  \/ OwnerStopsServer \/ IdleStops \/ TransportStops \/ TransportStopFails \/ McpBackoffPasses

McpSpec == McpInit /\ [][McpNext]_mcpVars

\* withTimeout bounds every await of a call, and the idle timer fires.
McpFairness ==
  /\ \A c \in McpCalls : WF_mcpVars(McpNext /\ c \in Operating /\ mcpCall'[c] # mcpCall[c])
  /\ \A t \in 1..MaxTransports : WF_mcpVars(StartFails(t))
  /\ WF_mcpVars(IdleStops)

-----------------------------------------------------------------------------
(* Properties                                                                 *)

McpTypeOK ==
  /\ mcpCall \in [McpCalls -> McpStates] /\ lease \in [McpCalls -> 0..MaxTransports]
  /\ {transport, created, mcpStop} \subseteq 0..MaxTransports
  /\ up \cup checked \subseteq 1..MaxTransports
  /\ validated \in BOOLEAN /\ idle \in BOOLEAN /\ mcpBackoff \in BOOLEAN

\* "MCP server catalog did not match the configured schema": a call is answered
\* only by the current transport, and only by one whose own catalog matched,
\* however often the server was restarted while catalogs were being read.
OnlyVerifiedAnswers ==
  [][\A c \in McpCalls : mcpCall[c] # "answered" /\ mcpCall'[c] = "answered" =>
       lease[c] = transport /\ transport \in checked']_mcpVars

\* #armIdle: no transport is left, not even an idle one.
NoTransport == transport = 0
=============================================================================
