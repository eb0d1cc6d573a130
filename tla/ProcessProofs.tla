---------------------------- MODULE ProcessProofs ----------------------------
(* Those who wait for an answer of another process: requests to a child over  *)
(* its stdin, calls to MCP servers behind a shared transport, messages whose  *)
(* replies go out over the network, and runs that another runtime works for.  *)
EXTENDS ProcessRpc, McpSupervisor, Integrations, DelegatedTurn, TLAPS

-----------------------------------------------------------------------------
(* Requests to a child process                                                *)

\* The one process that may be alive is the child, and it is the last one spawned.
ChildIsLive == live \subseteq {child} /\ child <= spawned /\ \A r \in Requests : sentTo[r] <= spawned

\* No two requests share an id, whatever process they were sent to.
IdsAreUnique ==
  /\ nextId > 0
  /\ \A r \in Requests : /\ requestId[r] < nextId
                         /\ request[r] = "new" => requestId[r] = 0 /\ sentTo[r] = 0
                         /\ sentTo[r] # 0 \/ request[r] = "pending" => requestId[r] # 0
  /\ \A r, s \in Requests : requestId[r] = requestId[s] /\ requestId[r] # 0 => r = s

\* A line that names a request comes from the process that request was sent to.
LinesAnswerRequests ==
  \A line \in lines : /\ line.for \in Requests /\ line.from = sentTo[line.for] /\ line.from # 0
                      /\ line.id \in {requestId[line.for], Garbage}

\* A request is reaped only when its process is gone.
ReapedAreGone == \A r \in Requests : request[r] = "reaped" => sentTo[r] \notin live

\* The types of requests, ids and processes.
RpcTypes ==
  /\ request \in [Requests -> RequestStates] /\ requestId \in [Requests -> Nat]
  /\ sentTo \in [Requests -> Nat] /\ nextId \in Nat /\ child \in Nat /\ spawned \in Nat
  /\ live \subseteq Nat \ {0}

\* The inductive invariant: an answer is the right one because ids are unique across processes
\* and every line comes from the process its request was sent to.
RpcInv == RpcTypes /\ ChildIsLive /\ IdsAreUnique /\ LinesAnswerRequests /\ ReapedAreGone

\* What SettledTruthfully asks of one step.
RequestsAreTruthful ==
  \A r \in Requests :
    /\ request[r] # "resolved" /\ request'[r] = "resolved" =>
         \E line \in lines \ lines' : line.for = r /\ line.from = sentTo[r]
    /\ request'[r] = "reaped" => sentTo[r] \notin live'

\* Before the first request nothing is alive and nothing is sent.
LEMMA RpcInvInit == RpcInit => RpcInv
BY DEF RpcInit, RpcInv, RpcTypes, RequestStates, ChildIsLive, IdsAreUnique, LinesAnswerRequests,
       ReapedAreGone

\* What happens to a pending request while the processes and the ids stay as they are.
LEMMA SettlingKeepsRpcInv ==
  ASSUME RpcInv, UNCHANGED <<requestId, sentTo, nextId, child, spawned>>, live' \subseteq live,
         lines' \subseteq lines, request' \in [Requests -> RequestStates],
         \A r \in Requests : \/ request'[r] = request[r]
                             \/ request[r] # "new" /\ request'[r] \notin {"new", "pending", "reaped"}
                             \/ request[r] # "new" /\ request'[r] = "reaped" /\ live' = {}
  PROVE  RpcInv'
<1> USE DEF RpcInv, RpcTypes
<1>1. RpcTypes' /\ ChildIsLive'
  BY DEF ChildIsLive
<1>2. IdsAreUnique'
  BY DEF IdsAreUnique
<1>3. LinesAnswerRequests'
  BY DEF LinesAnswerRequests
<1>4. ReapedAreGone'
  BY DEF ReapedAreGone
<1> QED
  BY <1>1, <1>2, <1>3, <1>4

\* start() spawns a process only when there is none, and it is new to every request.
LEMMA StartIsFresh ==
  ASSUME RpcInv, Start
  PROVE  /\ child' \in Nat /\ spawned' \in Nat /\ child' # 0 /\ live' \subseteq {child'}
         /\ live' \subseteq Nat \ {0} /\ child' <= spawned' /\ spawned <= spawned'
         /\ \A r \in Requests : sentTo[r] \in live' => sentTo[r] \in live
<1> USE DEF RpcInv, RpcTypes, ChildIsLive
<1>1. CASE child # 0
  <2>1. child' = child /\ spawned' = spawned /\ live' = live
    BY <1>1 DEF Start
  <2> QED
    BY <1>1, <2>1
<1>2. CASE child = 0
  <2>1. live = {}
    BY <1>2
  <2>2. spawned' = spawned + 1 /\ child' = spawned + 1 /\ live' = {spawned + 1}
    BY <1>2, <2>1 DEF Start
  <2> QED
    BY <1>2, <2>1, <2>2
<1> QED
  BY <1>1, <1>2

\* A new request gets an id no other request has.
LEMMA RequestKeepsRpcInv ==
  ASSUME RpcInv, NEW r \in Requests, Request(r)
  PROVE  RpcInv' /\ RequestsAreTruthful
<1> USE DEF RpcInv, RpcTypes
<1>1. /\ request[r] = "new" /\ Start /\ UNCHANGED lines /\ nextId' = nextId + 1
      /\ requestId' = [requestId EXCEPT ![r] = nextId]
  BY DEF Request, IdFor
<1>2. /\ request' \in [Requests -> RequestStates] /\ sentTo' \in [Requests -> Nat]
      /\ \A s \in Requests : s # r => (request'[s] = request[s] /\ sentTo'[s] = sentTo[s])
      /\ request'[r] \in {"pending", "rejected"} /\ sentTo'[r] \in {sentTo[r], child'}
  BY <1>1, StartIsFresh DEF Request, Moved, RequestStates
<1>3. RpcTypes' /\ ChildIsLive'
  <2>1. /\ child' \in Nat /\ spawned' \in Nat /\ live' \subseteq {child'} /\ child' <= spawned'
        /\ live' \subseteq Nat \ {0} /\ spawned <= spawned'
    BY <1>1, StartIsFresh
  <2>2. RpcTypes'
    <3>1. requestId' \in [Requests -> Nat] /\ nextId' \in Nat
      BY <1>1
    <3> QED
      BY <1>2, <2>1, <3>1
  <2>3. \A s \in Requests : sentTo'[s] <= spawned'
    BY <1>2, <2>1 DEF ChildIsLive
  <2> QED
    BY <2>1, <2>2, <2>3 DEF ChildIsLive
<1>4. IdsAreUnique'
  BY <1>1, <1>2 DEF IdsAreUnique
<1>5. LinesAnswerRequests'
  BY <1>1, <1>2 DEF LinesAnswerRequests, IdsAreUnique
<1>6. ReapedAreGone' /\ RequestsAreTruthful
  BY <1>1, <1>2, StartIsFresh DEF ReapedAreGone, RequestsAreTruthful
<1> QED
  BY <1>3, <1>4, <1>5, <1>6

\* A notification changes no request.
LEMMA NotifyKeepsRpcInv == ASSUME RpcInv, Notify PROVE RpcInv' /\ RequestsAreTruthful
<1> USE DEF RpcInv, RpcTypes, Notify
<1>1. RpcTypes' /\ ChildIsLive'
  BY StartIsFresh DEF ChildIsLive
<1>2. IdsAreUnique' /\ LinesAnswerRequests'
  BY DEF IdsAreUnique, LinesAnswerRequests
<1>3. ReapedAreGone' /\ RequestsAreTruthful
  BY StartIsFresh DEF ReapedAreGone, RequestsAreTruthful
<1> QED
  BY <1>1, <1>2, <1>3

\* A spawn that fails makes no request new; the ones it rejects were never sent.
LEMMA SpawnFailureKeepsRpcInv ==
  ASSUME RpcInv, NEW r \in Requests, SpawnFails(r) PROVE RpcInv' /\ RequestsAreTruthful
<1> USE DEF RpcInv, RpcTypes
<1>1. /\ request' \in [Requests -> RequestStates] /\ nextId' = nextId + 1
      /\ UNCHANGED <<requestId, sentTo, child, spawned, live, lines>>
  BY DEF SpawnFails, Moved, RequestStates
<1>2. \A s \in Requests : request'[s] \in {request[s], "rejected"}
  BY DEF SpawnFails, Moved
<1>3. RpcTypes' /\ ChildIsLive'
  BY <1>1 DEF ChildIsLive
<1>4. IdsAreUnique'
  <2>1. nextId' > 0 /\ \A s \in Requests : requestId'[s] < nextId'
    BY <1>1 DEF IdsAreUnique
  <2>2. \A s \in Requests : /\ request'[s] = "new" => request[s] = "new"
                            /\ request'[s] = "pending" => request[s] = "pending"
    BY <1>2
  <2> QED
    BY <1>1, <2>1, <2>2 DEF IdsAreUnique
<1>5. LinesAnswerRequests' /\ ReapedAreGone' /\ RequestsAreTruthful
  BY <1>1, <1>2 DEF LinesAnswerRequests, ReapedAreGone, RequestsAreTruthful
<1> QED
  BY <1>3, <1>4, <1>5

\* Cancelling, stopping and reaping: a request is told that its process was reaped
\* when no process is left at all.
LEMMA StoppingKeepsRpcInv ==
  ASSUME RpcInv,
         (\E r \in Requests : Cancel(r)) \/ OwnerStops \/ GraceEnds \/ ProcessExits \/ ReapFails
  PROVE  RpcInv' /\ RequestsAreTruthful
<1> USE DEF RpcInv, RpcTypes
<1>1. ASSUME NEW r \in Requests, Cancel(r) PROVE RpcInv' /\ RequestsAreTruthful
  <2>1. /\ request[r] = "pending" /\ UNCHANGED <<requestId, sentTo, nextId, child, spawned,
                                                 live, lines>>
        /\ request' = [s \in Requests |-> IF s = r THEN IF child = 0 THEN "reaped" ELSE "cancelling"
                                          ELSE request[s]]
    BY <1>1 DEF Cancel, Moved
  <2>2. child = 0 => live = {}
    BY DEF ChildIsLive
  <2>3. request' \in [Requests -> RequestStates]
    BY <2>1 DEF RequestStates
  <2>4. RpcInv'
    BY <2>1, <2>2, <2>3, SettlingKeepsRpcInv
  <2> QED
    BY <2>1, <2>4 DEF RequestsAreTruthful, ReapedAreGone
<1>2. CASE OwnerStops \/ GraceEnds
  <2>1. UNCHANGED <<request, requestId, sentTo, nextId, child, spawned, live, lines>>
    BY <1>2 DEF OwnerStops, GraceEnds
  <2>2. RpcInv'
    BY <2>1, SettlingKeepsRpcInv
  <2> QED
    BY <2>1, <2>2 DEF RequestsAreTruthful, ReapedAreGone
<1>3. CASE ProcessExits
  <2>1. PICK p \in live :
          /\ live' = live \ {p} /\ child' = 0
          /\ request' = [r \in Requests |->
               IF request[r] = "cancelling" THEN "reaped"
               ELSE IF request[r] = "pending" /\ (~expected \/ reaping # "none") THEN "rejected"
               ELSE request[r]]
          /\ UNCHANGED <<requestId, sentTo, nextId, spawned, lines>>
    BY <1>3 DEF ProcessExits
  <2>2. live' = {}
    BY <2>1 DEF ChildIsLive
  <2>3. request' \in [Requests -> RequestStates]
    BY <2>1 DEF RequestStates
  <2>4. \A r \in Requests : \/ request'[r] = request[r]
                            \/ request[r] # "new" /\ request'[r] \in {"rejected", "reaped"}
    BY <2>1
  <2>5. RpcTypes' /\ ChildIsLive'
    BY <2>1, <2>2, <2>3 DEF ChildIsLive
  <2>6. IdsAreUnique'
    BY <2>1, <2>4 DEF IdsAreUnique
  <2>7. LinesAnswerRequests'
    BY <2>1 DEF LinesAnswerRequests
  <2>8. ReapedAreGone' /\ RequestsAreTruthful
    BY <2>1, <2>2, <2>4 DEF ReapedAreGone, RequestsAreTruthful
  <2> QED
    BY <2>5, <2>6, <2>7, <2>8
<1>4. CASE ReapFails
  <2>1. /\ UNCHANGED <<requestId, sentTo, nextId, child, spawned, live, lines>>
        /\ request' = [r \in Requests |-> IF request[r] = "cancelling" THEN "unreaped"
                                          ELSE request[r]]
    BY <1>4 DEF ReapFails, ChildAfterFailure, Moved, WhoLearns, Are
  <2>2. request' \in [Requests -> RequestStates]
    BY <2>1 DEF RequestStates
  <2>3. RpcInv'
    BY <2>1, <2>2, SettlingKeepsRpcInv
  <2> QED
    BY <2>1, <2>3 DEF RequestsAreTruthful, ReapedAreGone
<1> QED
  BY <1>1, <1>2, <1>3, <1>4

\* What a process writes to answer a request bears that request's id.
LEMMA AnsweringKeepsRpcInv ==
  ASSUME RpcInv, NEW r \in Requests, Answers(r) PROVE RpcInv' /\ RequestsAreTruthful
<1> USE DEF RpcInv, RpcTypes
<1>1. PICK id \in {requestId[r], Garbage} :
         lines' = lines \cup {[from |-> sentTo[r], for |-> r, id |-> id]}
  BY DEF Answers
<1>2. sentTo[r] # 0 /\ UNCHANGED <<request, requestId, sentTo, nextId, child, spawned, live>>
  BY DEF Answers, processVars
<1>3. RpcTypes' /\ ChildIsLive' /\ IdsAreUnique' /\ ReapedAreGone'
  BY <1>2 DEF ChildIsLive, IdsAreUnique, ReapedAreGone
<1>4. LinesAnswerRequests'
  BY <1>1, <1>2 DEF LinesAnswerRequests
<1>5. RequestsAreTruthful
  BY <1>2 DEF RequestsAreTruthful, ReapedAreGone
<1> QED
  BY <1>3, <1>4, <1>5

\* A line settles the one request whose id it bears, and it is that request's answer.
LEMMA DataKeepsRpcInv ==
  ASSUME RpcInv, NEW line \in lines, Data(line) \/ DataTorn(line)
  PROVE  RpcInv' /\ RequestsAreTruthful
<1> USE DEF RpcInv, RpcTypes
<1>1. /\ lines' = lines \ {line} /\ UNCHANGED <<requestId, sentTo, nextId, child, spawned,
                                                live>>
      /\ lines' \subseteq lines
  BY DEF Data, DataTorn, processVars
<1>2. CASE Data(line) /\ Settle(line)
  <2>1. /\ line.id # Garbage
        /\ request' = [r \in Requests |-> IF request[r] = "pending" /\ requestId[r] = line.id
                                          THEN "resolved" ELSE request[r]]
    BY <1>2 DEF Settle, Moved, Are
  <2>2. request' \in [Requests -> RequestStates]
    BY <2>1 DEF RequestStates
  <2>3. RpcInv'
    BY <1>1, <2>1, <2>2, SettlingKeepsRpcInv
  <2>4. ASSUME NEW r \in Requests, request[r] = "pending", requestId[r] = line.id
        PROVE  line.for = r /\ line.from = sentTo[r]
    BY <2>1, <2>4 DEF LinesAnswerRequests, IdsAreUnique
  <2>5. line \in lines \ lines'
    BY <1>1
  <2>6. RequestsAreTruthful
    BY <1>1, <2>1, <2>4, <2>5 DEF RequestsAreTruthful, ReapedAreGone
  <2> QED
    BY <2>3, <2>6
<1>3. CASE \E leaves \in BOOLEAN : Data(line) /\ RejectLine(line, leaves)
  <2>1. request' = [r \in Requests |-> IF request[r] = "pending" THEN "rejected" ELSE request[r]]
    BY <1>3 DEF RejectLine, Moved, Are
  <2>2. request' \in [Requests -> RequestStates]
    BY <2>1 DEF RequestStates
  <2>3. RpcInv'
    BY <1>1, <2>1, <2>2, SettlingKeepsRpcInv
  <2> QED
    BY <1>1, <2>1, <2>3 DEF RequestsAreTruthful, ReapedAreGone
<1>4. CASE DataTorn(line)
  <2>1. UNCHANGED request
    BY <1>4 DEF DataTorn
  <2>2. RpcInv'
    BY <1>1, <2>1, SettlingKeepsRpcInv
  <2> QED
    BY <1>1, <2>1, <2>2 DEF RequestsAreTruthful, ReapedAreGone
<1> QED
  BY <1>2, <1>3, <1>4 DEF Data

\* Every step keeps the invariant, and settles requests truthfully.
LEMMA RpcInvStep == RpcInv /\ [RpcNext]_rpcVars => RpcInv' /\ RequestsAreTruthful
<1> SUFFICES ASSUME RpcInv, [RpcNext]_rpcVars PROVE RpcInv' /\ RequestsAreTruthful
  OBVIOUS
<1>1. CASE UNCHANGED rpcVars
  BY <1>1 DEF rpcVars, RpcInv, RpcTypes, ChildIsLive, IdsAreUnique, LinesAnswerRequests,
              ReapedAreGone, RequestsAreTruthful
<1> QED
  BY <1>1, RequestKeepsRpcInv, NotifyKeepsRpcInv, SpawnFailureKeepsRpcInv, StoppingKeepsRpcInv,
     AnsweringKeepsRpcInv, DataKeepsRpcInv DEF RpcNext

\* "RPC request timed out and its process was reaped": a request is resolved by its own
\* answer alone, and told that its process is gone only when it is, for any number of
\* requests and processes, also when one could not be reaped.
THEOREM RequestsSettleTruthfully == RpcSpec => SettledTruthfully
<1>1. RpcInv /\ [RpcNext]_rpcVars => [RequestsAreTruthful]_rpcVars
  BY RpcInvStep
<1> QED
  BY <1>1, RpcInvInit, RpcInvStep, PTL DEF RpcSpec, SettledTruthfully, RequestsAreTruthful

-----------------------------------------------------------------------------
(* Calls of an MCP server                                                     *)

\* A call that is past its start has a transport, transports are numbered as they
\* are created, and none is current while one is being stopped.
LeasesAreCreated ==
  /\ transport <= created /\ \A c \in McpCalls : lease[c] <= created
  /\ \A c \in McpCalls : mcpCall[c] \in {"starting", "catalog", "calling"} => lease[c] # 0
  /\ mcpStop # 0 => transport = 0

\* The current transport is known to match its catalog whenever it says so, and
\* whenever a call has gone on to its tool with it.
ValidatedIsChecked ==
  /\ validated => transport \in checked
  /\ \A c \in McpCalls : mcpCall[c] = "calling" /\ lease[c] = transport => transport \in checked

\* The inductive invariant: a transport that calls are made on has had its catalogue checked.
McpInv == McpTypeOK /\ LeasesAreCreated /\ ValidatedIsChecked

USE McpAssumption

\* A supervisor begins with an unchecked transport and no call.
LEMMA McpInvInit == McpInit => McpInv
<1> SUFFICES ASSUME McpInit PROVE McpInv
  OBVIOUS
<1>1. McpTypeOK
  <2>1. mcpCall \in [McpCalls -> McpStates] /\ lease \in [McpCalls -> 0..MaxTransports]
    BY DEF McpInit, McpStates
  <2>2. {transport, created, mcpStop} \subseteq 0..MaxTransports
    BY DEF McpInit
  <2>3. up \cup checked \subseteq 1..MaxTransports
    BY DEF McpInit
  <2> QED
    BY <2>1, <2>2, <2>3 DEF McpTypeOK, McpInit
<1>2. LeasesAreCreated /\ ValidatedIsChecked
  BY DEF McpInit, LeasesAreCreated, ValidatedIsChecked
<1> QED
  BY <1>1, <1>2 DEF McpInv

\* A stop takes the current transport away and its validation with it: whatever the
\* calls do, so long as none begins to call, the invariant is kept.
LEMMA StopKeepsMcpInv ==
  ASSUME McpInv, StopTransport, UNCHANGED lease, mcpCall' \in [McpCalls -> McpStates],
         mcpBackoff' \in BOOLEAN,
         \A c \in McpCalls : mcpCall'[c] \in {mcpCall[c], "failed", "ending"}
  PROVE  McpInv'
<1> USE DEF McpInv, McpTypeOK, StopTransport, ResetValidated
<1>1. McpTypeOK'
  <2>1. lease' \in [McpCalls -> 0..MaxTransports]
    OBVIOUS
  <2>2. {transport', created', mcpStop'} \subseteq 0..MaxTransports
    OBVIOUS
  <2>3. up' \cup checked' \subseteq 1..MaxTransports
    OBVIOUS
  <2>4. validated' \in BOOLEAN /\ idle' \in BOOLEAN
    OBVIOUS
  <2> QED
    BY <2>1, <2>2, <2>3, <2>4
<1>2. LeasesAreCreated'
  BY DEF LeasesAreCreated
<1>3. ValidatedIsChecked'
  BY DEF LeasesAreCreated, ValidatedIsChecked
<1> QED
  BY <1>1, <1>2, <1>3

\* A step that leaves the transports alone keeps it, when a call goes on to its tool
\* only with a checked transport.
LEMMA QuietKeepsMcpInv ==
  ASSUME McpInv, UNCHANGED <<lease, transportVars>>, mcpCall' \in [McpCalls -> McpStates],
         mcpBackoff' \in BOOLEAN, idle' \in BOOLEAN,
         \A c \in McpCalls : \/ mcpCall'[c] \in {mcpCall[c], "failed", "ending", "answered"}
                             \/ lease[c] # 0 /\ mcpCall'[c] = "catalog"
                             \/ lease[c] # 0 /\ validated /\ mcpCall'[c] = "calling"
  PROVE  McpInv'
<1> USE DEF McpInv, McpTypeOK, transportVars
<1>1. McpTypeOK'
  OBVIOUS
<1>2. LeasesAreCreated'
  BY DEF LeasesAreCreated
<1>3. ValidatedIsChecked'
  BY DEF LeasesAreCreated, ValidatedIsChecked
<1> QED
  BY <1>1, <1>2, <1>3

\* A failure of a call stops its transport when it is current, and nothing otherwise.
LEMMA FailureKeepsMcpInv ==
  ASSUME McpInv, NEW cs \in SUBSET McpCalls, NEW t, FailAll(cs, t), UNCHANGED lease
  PROVE  McpInv' /\ \A c \in McpCalls : mcpCall'[c] \in {mcpCall[c], "failed", "ending"}
<1> USE DEF McpInv, McpTypeOK, McpStates, To
<1>1. CASE cs # {} /\ t = transport
  <2>1. PICK c \in cs : mcpCall' = [To(cs, "failed") EXCEPT ![c] = "ending"]
    BY <1>1 DEF FailAll
  <2>2. \A d \in McpCalls : mcpCall'[d] \in {mcpCall[d], "failed", "ending"}
    BY <2>1
  <2>3. mcpCall' \in [McpCalls -> McpStates]
    BY <2>1
  <2>4. StopTransport /\ mcpBackoff' \in BOOLEAN
    BY <1>1 DEF FailAll
  <2> QED
    BY <2>2, <2>3, <2>4, StopKeepsMcpInv
<1>2. CASE ~(cs # {} /\ t = transport)
  <2>1. mcpCall' = To(cs, "failed") /\ UNCHANGED <<transportVars, mcpBackoff>>
    BY <1>2 DEF FailAll
  <2>2. \A d \in McpCalls : mcpCall'[d] \in {mcpCall[d], "failed", "ending"}
    BY <2>1
  <2>3. mcpCall' \in [McpCalls -> McpStates]
    BY <2>1
  <2>4. idle' \in BOOLEAN
    BY <1>2 DEF FailAll, EndOperations
  <2> QED
    BY <2>1, <2>2, <2>3, <2>4, QuietKeepsMcpInv
<1> QED
  BY <1>1, <1>2

\* A call that goes on does so with a transport whose catalog matched, and a call of
\* listTools is answered from it.
LEMMA GoingOn ==
  ASSUME McpInv, NEW cs \in SUBSET McpCalls, CallGoesOn(cs)
  PROVE  /\ mcpCall' \in [McpCalls -> McpStates] /\ mcpBackoff' \in BOOLEAN /\ idle' \in BOOLEAN
         /\ \A c \in McpCalls : \/ mcpCall'[c] = mcpCall[c]
                                \/ c \in cs /\ mcpCall'[c] \in {"calling", "answered"}
<1> USE DEF McpInv, McpTypeOK, McpStates, To
<1>1. PICK lists \in SUBSET cs :
         /\ mcpCall' = [c \in McpCalls |-> IF c \in lists THEN "answered"
                                           ELSE To(cs, "calling")[c]]
         /\ mcpBackoff' = (lists = {} /\ mcpBackoff) /\ EndOperations(lists)
  BY DEF CallGoesOn
<1>2. mcpCall' \in [McpCalls -> McpStates]
  BY <1>1
<1>3. mcpBackoff' \in BOOLEAN
  BY <1>1
<1>4. idle' \in BOOLEAN
  BY <1>1 DEF EndOperations
<1>5. \A c \in McpCalls : \/ mcpCall'[c] = mcpCall[c]
                          \/ c \in cs /\ mcpCall'[c] \in {"calling", "answered"}
  BY <1>1
<1> QED
  BY <1>2, <1>3, <1>4, <1>5

\* What OnlyVerifiedAnswers asks of one step.
AnswersAreVerified ==
  \A c \in McpCalls : mcpCall[c] # "answered" /\ mcpCall'[c] = "answered" =>
    lease[c] = transport /\ transport \in checked'

\* The acquired transport is the current one or one that nobody has held.
LEMMA AcquiringKeepsMcpInv ==
  ASSUME McpInv, NEW c \in McpCalls, Call(c)
  PROVE  McpInv' /\ AnswersAreVerified
<1> USE DEF McpInv, McpTypeOK, McpStates, To, Call
<1>1. CASE mcpStop # 0
  <2>1. mcpCall' = [d \in McpCalls |-> IF d = c THEN "held" ELSE mcpCall[d]]
    BY <1>1
  <2>2. McpTypeOK'
    BY <1>1, <2>1
  <2>3. LeasesAreCreated' /\ ValidatedIsChecked' /\ AnswersAreVerified
    BY <1>1, <2>1 DEF LeasesAreCreated, ValidatedIsChecked, AnswersAreVerified
  <2> QED
    BY <2>2, <2>3
<1>2. CASE mcpStop = 0
  <2>1. /\ mcpCall' = [d \in McpCalls |-> IF d = c THEN "starting" ELSE mcpCall[d]]
        /\ lease' = [d \in McpCalls |-> IF d = c THEN transport' ELSE lease[d]]
        /\ transport' = (IF transport = 0 THEN created + 1 ELSE transport)
        /\ transport' <= MaxTransports
        /\ created' = (IF transport = 0 THEN transport' ELSE created)
    BY <1>2 DEF Acquire
  <2>2. McpTypeOK'
    <3>1. transport' \in 1..MaxTransports
      BY <2>1 DEF LeasesAreCreated
    <3>2. mcpCall' \in [McpCalls -> McpStates] /\ lease' \in [McpCalls -> 0..MaxTransports]
      BY <2>1, <3>1
    <3>3. {transport', created', mcpStop'} \subseteq 0..MaxTransports
      BY <2>1, <3>1
    <3> QED
      BY <3>2, <3>3
  <2>3. LeasesAreCreated'
    BY <1>2, <2>1 DEF LeasesAreCreated
  <2>4. ValidatedIsChecked' /\ AnswersAreVerified
    BY <1>2, <2>1 DEF LeasesAreCreated, ValidatedIsChecked, AnswersAreVerified
  <2> QED
    BY <2>2, <2>3, <2>4
<1> QED
  BY <1>1, <1>2

\* What the other steps of a call do.
LEMMA CallingKeepsMcpInv ==
  ASSUME McpInv, NEW c \in McpCalls, GoOn(c) \/ Answer(c) \/ CallFails(c) \/ Abort(c)
  PROVE  McpInv' /\ AnswersAreVerified
<1> USE DEF McpInv
<1>1. CASE FailAll({c}, lease[c]) /\ UNCHANGED lease
  BY <1>1, FailureKeepsMcpInv DEF AnswersAreVerified
<1>2. CASE /\ mcpCall[c] = "starting" /\ lease[c] = transport /\ validated
           /\ CallGoesOn({c}) /\ UNCHANGED <<transportVars, lease>>
  <2>1. transport \in checked /\ lease[c] # 0
    BY <1>2 DEF ValidatedIsChecked, LeasesAreCreated
  <2>2. McpInv'
    BY <1>2, <2>1, GoingOn, QuietKeepsMcpInv
  <2>3. AnswersAreVerified
    BY <1>2, <2>1, GoingOn DEF AnswersAreVerified, transportVars
  <2> QED
    BY <2>2, <2>3
<1>3. CASE /\ mcpCall[c] = "starting" /\ mcpCall' = To({c}, "catalog")
           /\ UNCHANGED <<lease, transportVars, idle, mcpBackoff>>
  <2>1. mcpCall' = [d \in McpCalls |-> IF d = c THEN "catalog" ELSE mcpCall[d]] /\ lease[c] # 0
    BY <1>3 DEF To, LeasesAreCreated
  <2>2. mcpCall' \in [McpCalls -> McpStates]
    BY <2>1 DEF McpTypeOK, McpStates
  <2>3. idle' \in BOOLEAN
    BY <1>3 DEF McpTypeOK
  <2>4. mcpBackoff' \in BOOLEAN
    BY <1>3 DEF McpTypeOK
  <2>5. McpInv'
    BY <1>3, <2>1, <2>2, <2>3, <2>4, QuietKeepsMcpInv
  <2>6. AnswersAreVerified
    BY <2>1 DEF AnswersAreVerified
  <2> QED
    BY <2>5, <2>6
<1>4. CASE Answer(c)
  <2>1. /\ mcpCall' = [d \in McpCalls |-> IF d = c THEN "answered" ELSE mcpCall[d]]
        /\ lease[c] = transport /\ transport \in checked
    BY <1>4 DEF Answer, To, ValidatedIsChecked
  <2>2. mcpCall' \in [McpCalls -> McpStates]
    BY <2>1 DEF McpTypeOK, McpStates
  <2>3. idle' \in BOOLEAN
    BY <1>4 DEF McpTypeOK, Answer, EndOperations
  <2>4. mcpBackoff' \in BOOLEAN
    BY <1>4 DEF Answer
  <2>5. McpInv'
    BY <1>4, <2>1, <2>2, <2>3, <2>4, QuietKeepsMcpInv DEF Answer
  <2>6. AnswersAreVerified
    BY <1>4, <2>1 DEF AnswersAreVerified, Answer, transportVars
  <2> QED
    BY <2>5, <2>6
<1>5. CASE Abort(c) /\ lease[c] # 0 /\ lease[c] = transport /\ Operating = {c}
  <2>1. /\ mcpCall' = [d \in McpCalls |-> IF d = c THEN "ending" ELSE mcpCall[d]]
        /\ StopTransport /\ UNCHANGED lease /\ mcpBackoff' = mcpBackoff
    BY <1>5 DEF Abort, To
  <2>2. mcpCall' \in [McpCalls -> McpStates]
    BY <2>1 DEF McpTypeOK, McpStates
  <2>3. mcpBackoff' \in BOOLEAN
    BY <2>1 DEF McpTypeOK
  <2>4. McpInv' /\ AnswersAreVerified
    BY <2>1, <2>2, <2>3, StopKeepsMcpInv DEF AnswersAreVerified
  <2> QED
    BY <2>4
<1>6. CASE Abort(c) /\ ~(lease[c] # 0 /\ lease[c] = transport /\ Operating = {c})
  <2>1. /\ mcpCall' = [d \in McpCalls |-> IF d = c THEN "failed" ELSE mcpCall[d]]
        /\ EndOperations({c}) /\ UNCHANGED <<lease, transportVars>> /\ mcpBackoff' = mcpBackoff
    BY <1>6 DEF Abort, To
  <2>2. mcpCall' \in [McpCalls -> McpStates]
    BY <2>1 DEF McpTypeOK, McpStates
  <2>3. mcpBackoff' \in BOOLEAN
    BY <2>1 DEF McpTypeOK
  <2>4. idle' \in BOOLEAN
    BY <2>1 DEF McpTypeOK, EndOperations
  <2>5. McpInv' /\ AnswersAreVerified
    BY <2>1, <2>2, <2>3, <2>4, QuietKeepsMcpInv DEF AnswersAreVerified
  <2> QED
    BY <2>5
<1> QED
  BY <1>1, <1>2, <1>3, <1>4, <1>5, <1>6 DEF GoOn, CallFails

\* The steps of a transport: its start and its catalog, for all that wait for it.
LEMMA TransportKeepsMcpInv ==
  ASSUME McpInv, NEW t \in 1..MaxTransports,
         Started(t) \/ StartFails(t) \/ CatalogMatches(t) \/ CatalogFails(t)
  PROVE  McpInv' /\ AnswersAreVerified
<1> USE DEF McpInv
<1>1. Holding("starting", t) \in SUBSET McpCalls /\ Holding("catalog", t) \in SUBSET McpCalls
  BY DEF Holding, At
<1>2. ASSUME NEW cs \in SUBSET McpCalls, FailAll(cs, t), UNCHANGED lease
      PROVE  McpInv' /\ AnswersAreVerified
  BY <1>2, FailureKeepsMcpInv DEF AnswersAreVerified
<1>3. CASE Started(t) /\ t = transport
  <2>1. /\ UNCHANGED <<mcpCall, lease, transport, created, validated, checked, mcpStop, idle>>
        /\ mcpBackoff' = mcpBackoff /\ up' = up \cup {t}
    BY <1>3 DEF Started
  <2>2. McpTypeOK'
    BY <2>1 DEF McpTypeOK
  <2>3. LeasesAreCreated' /\ ValidatedIsChecked' /\ AnswersAreVerified
    BY <2>1 DEF LeasesAreCreated, ValidatedIsChecked, AnswersAreVerified
  <2> QED
    BY <2>2, <2>3
<1>4. CASE CatalogMatches(t) /\ t = transport
  <2> DEFINE cs == Holding("catalog", t)
  <2>1. /\ validated' = TRUE /\ checked' = checked \cup {t} /\ CallGoesOn(cs)
        /\ UNCHANGED <<lease, transport, created, up, mcpStop>>
    BY <1>4 DEF CatalogMatches, CatalogCounts
  <2>2. \A c \in cs : lease[c] = t
    BY DEF Holding
  <2>3. /\ mcpCall' \in [McpCalls -> McpStates] /\ mcpBackoff' \in BOOLEAN /\ idle' \in BOOLEAN
        /\ \A c \in McpCalls : \/ mcpCall'[c] = mcpCall[c]
                               \/ c \in cs /\ mcpCall'[c] \in {"calling", "answered"}
    BY <1>1, <2>1, GoingOn
  <2> HIDE DEF cs
  <2>4. McpTypeOK'
    BY <2>1, <2>3 DEF McpTypeOK
  <2>5. LeasesAreCreated'
    BY <2>1, <2>2, <2>3 DEF LeasesAreCreated
  <2>6. ValidatedIsChecked' /\ AnswersAreVerified
    BY <1>4, <2>1, <2>2, <2>3 DEF ValidatedIsChecked, AnswersAreVerified
  <2> QED
    BY <2>4, <2>5, <2>6
<1> QED
  BY <1>1, <1>2, <1>3, <1>4 DEF Started, StartFails, CatalogMatches, CatalogFails, CatalogCounts

\* When a stop has ended, those it held go on with a transport that is new to all.
LEMMA StoppingKeepsMcpInv ==
  ASSUME McpInv,
         \/ OwnerStopsServer \/ IdleStops \/ TransportStops \/ TransportStopFails
         \/ McpBackoffPasses
  PROVE  McpInv' /\ AnswersAreVerified
<1> USE DEF McpInv
<1>1. CASE StopTransport /\ UNCHANGED <<mcpCall, lease, mcpBackoff>>
  <2>1. mcpCall' \in [McpCalls -> McpStates]
    BY <1>1 DEF McpTypeOK
  <2>2. mcpBackoff' \in BOOLEAN
    BY <1>1 DEF McpTypeOK
  <2> QED
    BY <1>1, <2>1, <2>2, StopKeepsMcpInv DEF AnswersAreVerified
<1>2. CASE TransportStops /\ At("held") # {}
  <2>1. /\ mcpStop # 0 /\ mcpStop' = 0 /\ created < MaxTransports /\ created' = created + 1
        /\ transport' = created'
        /\ lease' = [c \in McpCalls |-> IF mcpCall[c] = "held" THEN created' ELSE lease[c]]
        /\ mcpCall' = [c \in McpCalls |-> IF mcpCall[c] = "held" THEN "starting"
                         ELSE IF mcpCall[c] = "ending" THEN "failed" ELSE mcpCall[c]]
        /\ UNCHANGED <<up, validated, checked, idle, mcpBackoff>>
    BY <1>2 DEF TransportStops, To, At
  <2>2. mcpCall' \in [McpCalls -> McpStates]
    BY <2>1 DEF McpTypeOK, McpStates
  <2>3. McpTypeOK'
    BY <2>1, <2>2 DEF McpTypeOK
  <2>4. LeasesAreCreated'
    BY <2>1 DEF LeasesAreCreated, McpTypeOK
  <2>5. ~validated
    BY <2>1 DEF ValidatedIsChecked, LeasesAreCreated, McpTypeOK
  <2>6. ValidatedIsChecked' /\ AnswersAreVerified
    BY <2>1, <2>5 DEF ValidatedIsChecked, LeasesAreCreated, AnswersAreVerified, McpTypeOK
  <2> QED
    BY <2>3, <2>4, <2>6
<1>3. CASE (TransportStops /\ At("held") = {}) \/ TransportStopFails
  <2>1. /\ mcpStop' = 0 /\ UNCHANGED <<lease, transport, created, up, validated, checked, idle>>
        /\ \A c \in McpCalls : mcpCall'[c] \in {mcpCall[c], "failed"}
    BY <1>3 DEF TransportStops, TransportStopFails, To
  <2>2. mcpCall' \in [McpCalls -> McpStates]
    BY <1>3 DEF TransportStops, TransportStopFails, To, McpTypeOK, McpStates
  <2>3. mcpBackoff' \in BOOLEAN
    BY <1>3 DEF TransportStops, TransportStopFails, McpTypeOK
  <2>4. McpTypeOK'
    BY <2>1, <2>2, <2>3 DEF McpTypeOK
  <2>5. LeasesAreCreated' /\ ValidatedIsChecked' /\ AnswersAreVerified
    BY <2>1 DEF LeasesAreCreated, ValidatedIsChecked, AnswersAreVerified
  <2> QED
    BY <2>4, <2>5
<1>4. CASE McpBackoffPasses
  <2>1. UNCHANGED <<mcpCall, lease, transportVars, idle>> /\ mcpBackoff' = FALSE
    BY <1>4 DEF McpBackoffPasses
  <2>2. mcpCall' \in [McpCalls -> McpStates]
    BY <2>1 DEF McpTypeOK
  <2>3. idle' \in BOOLEAN
    BY <2>1 DEF McpTypeOK
  <2> QED
    BY <2>1, <2>2, <2>3, QuietKeepsMcpInv DEF AnswersAreVerified
<1> QED
  BY <1>1, <1>2, <1>3, <1>4 DEF OwnerStopsServer, IdleStops

\* Every step keeps the invariant, and answers only from checked transports.
LEMMA McpInvStep == McpInv /\ [McpNext]_mcpVars => McpInv' /\ AnswersAreVerified
<1> SUFFICES ASSUME McpInv, [McpNext]_mcpVars PROVE McpInv' /\ AnswersAreVerified
  OBVIOUS
<1>1. CASE UNCHANGED mcpVars
  <2>1. UNCHANGED <<mcpCall, lease, transport, created, up, validated, checked, mcpStop>>
        /\ idle' = idle /\ mcpBackoff' = mcpBackoff
    BY <1>1 DEF mcpVars, transportVars
  <2> QED
    BY <2>1 DEF McpInv, McpTypeOK, LeasesAreCreated, ValidatedIsChecked, AnswersAreVerified
<1> QED
  BY <1>1, AcquiringKeepsMcpInv, CallingKeepsMcpInv, TransportKeepsMcpInv,
     StoppingKeepsMcpInv DEF McpNext

\* "MCP server catalog did not match the configured schema": an answer comes from the
\* current transport, whose own catalog has matched, for any number of calls and
\* restarts and whatever fails, stops or is cancelled meanwhile.
THEOREM AnswersComeVerified == McpSpec => OnlyVerifiedAnswers
<1>1. McpInv /\ [McpNext]_mcpVars => [AnswersAreVerified]_mcpVars
  BY McpInvStep
<1> QED
  BY <1>1, McpInvInit, McpInvStep, PTL DEF McpSpec, OnlyVerifiedAnswers, AnswersAreVerified

-----------------------------------------------------------------------------
(* Inbound messages and their replies                                         *)

\* What the tick works on is pending: the rows it has still to visit, and the one it
\* sends, whose run has a text and which is neither routed nor listed any more.
TickWorksOnPending ==
  /\ \A d \in list : delivery[d] \in {"RUN_STARTED", "DELIVERING"}
  /\ sending # 0 => /\ delivery[sending] = "DELIVERING" /\ inboundRun[sending] = "text"
                    /\ sending \notin list

\* A message that is routed has only been received, and no run without a message.
RoutingHasReceived ==
  /\ \A d \in routing : delivery[d] = "RECEIVED"
  /\ \A d \in Deliveries : delivery[d] = "none" => inboundRun[d] = "none"

\* The inductive invariant of deliveries, routes and replies.
IntegrationInv == IntegrationTypeOK /\ TickWorksOnPending /\ RoutingHasReceived /\ DeliveredOnce

USE IntegrationAssumption

\* Nothing was delivered yet.
LEMMA IntegrationInvInit == IntegrationInit => IntegrationInv
<1> SUFFICES ASSUME IntegrationInit PROVE IntegrationInv
  OBVIOUS
<1>1. IntegrationTypeOK
  <2>1. reached \in BOOLEAN
    BY DEF IntegrationInit
  <2> QED
    BY <2>1 DEF IntegrationInit, IntegrationTypeOK, Settled
<1>2. TickWorksOnPending /\ RoutingHasReceived
  BY DEF IntegrationInit, TickWorksOnPending, RoutingHasReceived
<1>3. DeliveredOnce
  BY DEF IntegrationInit, DeliveredOnce, RepliesOnceUnlessLost, ForgottenOnlyByFailure
<1> QED
  BY <1>1, <1>2, <1>3 DEF IntegrationInv

\* A step of route touches neither a row that the tick works on nor what was received.
LEMMA RouteKeepsIntegrationInv ==
  ASSUME IntegrationInv, NEW d \in Deliveries, Route(d) \/ InboundRunEnds(d)
  PROVE  IntegrationInv'
<1> USE DEF IntegrationInv, IntegrationTypeOK, Settled
<1>1. /\ UNCHANGED <<leased, list, sending, reached, received, lost, misjudged>>
      /\ hurt \subseteq hurt' /\ hurt' \subseteq Deliveries /\ routing' \subseteq Deliveries
  BY DEF Route, ClaimInbound, StartInboundRun, MarkRun, RouteFails, InboundRunEnds, outbound
<1>2. \/ /\ delivery[d] = "none" /\ delivery' = [delivery EXCEPT ![d] = "RECEIVED"]
         /\ routing' = routing \cup {d} /\ UNCHANGED inboundRun
      \/ /\ d \in routing /\ inboundRun' = [inboundRun EXCEPT ![d] = "open"]
         /\ inboundRun[d] = "none" /\ UNCHANGED <<delivery, routing>>
      \/ /\ d \in routing /\ delivery' = [delivery EXCEPT ![d] = "RUN_STARTED"]
         /\ routing' = routing \ {d} /\ UNCHANGED inboundRun
      \/ /\ d \in routing /\ delivery' = [delivery EXCEPT ![d] = "FAILED"]
         /\ routing' = routing \ {d} /\ UNCHANGED inboundRun
         /\ inboundRun[d] = "none" \/ d \in hurt'
      \/ /\ inboundRun[d] = "open" /\ UNCHANGED <<delivery, routing>>
         /\ \E end \in {"text", "silent"} : inboundRun' = [inboundRun EXCEPT ![d] = end]
  BY DEF Route, ClaimInbound, StartInboundRun, MarkRun, RouteFails, InboundRunEnds, Mark
<1>3. d \in routing => delivery[d] = "RECEIVED"
  BY DEF RoutingHasReceived
<1>4. IntegrationTypeOK'
  BY <1>1, <1>2
<1>5. TickWorksOnPending'
  BY <1>1, <1>2, <1>3 DEF TickWorksOnPending, RoutingHasReceived
<1>6. RoutingHasReceived'
  BY <1>1, <1>2, <1>3 DEF RoutingHasReceived
<1>7. RepliesOnceUnlessLost'
  BY <1>1, <1>2, <1>3 DEF RepliesOnceUnlessLost, DeliveredOnce
<1>8. ForgottenOnlyByFailure'
  BY <1>1, <1>2, <1>3 DEF ForgottenOnlyByFailure, DeliveredOnce
<1> QED
  BY <1>4, <1>5, <1>6, <1>7, <1>8 DEF DeliveredOnce

\* The tick lists what is pending, passes over it, gives it up or claims it.
LEMMA TickKeepsIntegrationInv ==
  ASSUME IntegrationInv, ListPendingReplies \/ \E d \in Deliveries : Reply(d)
  PROVE  IntegrationInv'
<1> USE DEF IntegrationInv, IntegrationTypeOK, Settled, inbound
<1>1. CASE ListPendingReplies
  <2>1. /\ sending = 0 /\ list' \subseteq Pending
        /\ UNCHANGED <<delivery, leased, inboundRun, routing, hurt, sending, reached, received,
                       lost, misjudged>>
    BY <1>1 DEF ListPendingReplies
  <2>2. IntegrationTypeOK' /\ TickWorksOnPending'
    BY <2>1 DEF TickWorksOnPending, Pending
  <2>3. RoutingHasReceived' /\ DeliveredOnce'
    BY <2>1 DEF RoutingHasReceived, DeliveredOnce, RepliesOnceUnlessLost, ForgottenOnlyByFailure
  <2> QED
    BY <2>2, <2>3
<1>2. ASSUME NEW d \in Deliveries, Reply(d) PROVE IntegrationInv'
  <2>1. /\ sending = 0 /\ d \in list /\ list' = list \ {d}
        /\ UNCHANGED <<inboundRun, routing, hurt, received, lost, misjudged>>
        /\ delivery[d] \in {"RUN_STARTED", "DELIVERING"}
    BY <1>2 DEF Reply, SkipReply, NoReply, ClaimReply, Turn, TickWorksOnPending
  <2>2. \/ UNCHANGED <<delivery, leased, sending, reached>>
        \/ /\ inboundRun[d] = "silent" /\ delivery' = [delivery EXCEPT ![d] = "FAILED"]
           /\ UNCHANGED <<leased, sending, reached>>
        \/ /\ inboundRun[d] = "text" /\ delivery' = [delivery EXCEPT ![d] = "DELIVERING"]
           /\ leased' = leased \union {d} /\ sending' = d /\ reached' = FALSE
    BY <1>2 DEF Reply, SkipReply, NoReply, ClaimReply, Mark
  <2>3. IntegrationTypeOK'
    BY <2>1, <2>2
  <2>4. TickWorksOnPending'
    BY <2>1, <2>2 DEF TickWorksOnPending
  <2>5. RoutingHasReceived'
    BY <2>1, <2>2 DEF RoutingHasReceived
  <2>6. RepliesOnceUnlessLost'
    BY <2>1, <2>2 DEF RepliesOnceUnlessLost, DeliveredOnce
  <2>7. ForgottenOnlyByFailure'
    BY <2>1, <2>2 DEF ForgottenOnlyByFailure, DeliveredOnce
  <2> QED
    BY <2>3, <2>4, <2>5, <2>6, <2>7 DEF DeliveredOnce
<1> QED
  BY <1>1, <1>2

\* The receiver gets the message, and the attempt ends with an answer or without.
LEMMA AttemptKeepsIntegrationInv ==
  ASSUME IntegrationInv, Reach \/ MarkReply \/ ReleaseReply \/ RefuseReply
  PROVE  IntegrationInv'
<1> USE DEF IntegrationInv, IntegrationTypeOK, Settled, inbound
<1>1. /\ sending \in Deliveries /\ delivery[sending] = "DELIVERING"
      /\ inboundRun[sending] = "text" /\ sending \notin list
      /\ UNCHANGED <<inboundRun, routing, hurt, list>>
  BY DEF Reach, MarkReply, ReleaseReply, RefuseReply, AttemptEnds, TickWorksOnPending
<1>2. \/ /\ ~reached /\ reached' = TRUE
         /\ UNCHANGED <<delivery, leased, sending, lost, misjudged>>
         /\ received' = [received EXCEPT ![sending] = received[sending] + 1]
      \/ /\ reached /\ delivery' = [delivery EXCEPT ![sending] = "REPLIED"] /\ sending' = 0
         /\ leased' = leased \ {sending} /\ UNCHANGED <<reached, received, lost, misjudged>>
      \/ /\ reached /\ delivery' = [delivery EXCEPT ![sending] = "RUN_STARTED"] /\ sending' = 0
         /\ leased' = leased \ {sending} /\ UNCHANGED <<reached, received, misjudged>>
         /\ lost' = [lost EXCEPT ![sending] = lost[sending] + 1]
      \/ /\ reached /\ delivery' = [delivery EXCEPT ![sending] = "FAILED"] /\ sending' = 0
         /\ leased' = leased \ {sending} /\ UNCHANGED <<reached, received, lost>>
         /\ misjudged' = misjudged \union {sending}
      \/ \E status \in {"RUN_STARTED", "FAILED"} :
            /\ ~reached /\ delivery' = [delivery EXCEPT ![sending] = status] /\ sending' = 0
            /\ leased' = leased \ {sending} /\ UNCHANGED <<reached, received, lost, misjudged>>
  BY DEF Reach, MarkReply, ReleaseReply, RefuseReply, AttemptEnds, Unanswered, GivenUp, Mark
<1>3. IntegrationTypeOK'
  <2>1. reached' \in BOOLEAN
    BY <1>2
  <2>2. /\ delivery' \in [Deliveries -> {"none", "RECEIVED", "RUN_STARTED", "DELIVERING"} \union Settled]
        /\ sending' \in Deliveries \union {0} /\ leased' \subseteq Deliveries
    BY <1>1, <1>2
  <2>3. received' \in [Deliveries -> Nat]
    BY <1>1, <1>2
  <2>4. lost' \in [Deliveries -> Nat]
    BY <1>1, <1>2
  <2>5. misjudged' \subseteq Deliveries
    BY <1>1, <1>2
  <2> QED
    BY <1>1, <2>1, <2>2, <2>3, <2>4, <2>5
<1>4. TickWorksOnPending'
  BY <1>1, <1>2 DEF TickWorksOnPending
<1>5. RoutingHasReceived'
  BY <1>1, <1>2 DEF RoutingHasReceived
<1>6. RepliesOnceUnlessLost'
  <2>1. RepliesOnceUnlessLost /\ sending \notin misjudged
    BY <1>1 DEF RepliesOnceUnlessLost, DeliveredOnce
  <2>2. ASSUME NEW d \in misjudged' PROVE delivery'[d] = "FAILED"
    <3>1. d \in Deliveries /\ (d \in misjudged => d # sending /\ delivery[d] = "FAILED")
      BY <1>1, <1>2, <2>1 DEF RepliesOnceUnlessLost
    <3>2. CASE d \in misjudged
      BY <1>2, <3>1, <3>2
    <3>3. CASE d \notin misjudged
      BY <1>1, <1>2, <2>2, <3>3
    <3> QED
      BY <3>2, <3>3
  <2>3. ASSUME NEW d \in Deliveries, d # sending
        PROVE  /\ received'[d] = received[d] /\ lost'[d] = lost[d]
               /\ delivery'[d] = delivery[d] /\ (d \in misjudged' <=> d \in misjudged)
               /\ sending' # d
    BY <1>1, <1>2, <2>3
  <2>4. received[sending] = lost[sending] + (IF reached THEN 1 ELSE 0)
    BY <1>1, <2>1 DEF RepliesOnceUnlessLost
  <2>5. received'[sending] = lost'[sending] + (IF delivery'[sending] = "REPLIED"
          \/ (sending' = sending /\ reached') \/ sending \in misjudged' THEN 1 ELSE 0)
    <3>1. CASE reached
      <4>1. CASE delivery' = [delivery EXCEPT ![sending] = "RUN_STARTED"]
        <5>1. /\ delivery'[sending] = "RUN_STARTED" /\ received' = received
              /\ misjudged' = misjudged /\ lost'[sending] = lost[sending] + 1 /\ sending' = 0
          BY <1>1, <1>2, <3>1, <4>1
        <5> QED
          BY <1>1, <2>1, <2>4, <3>1, <5>1
      <4>2. CASE delivery' = [delivery EXCEPT ![sending] = "REPLIED"]
        BY <1>1, <1>2, <2>1, <2>4, <3>1, <4>2
      <4>3. CASE delivery' = [delivery EXCEPT ![sending] = "FAILED"]
        BY <1>1, <1>2, <2>1, <2>4, <3>1, <4>3
      <4> QED
        BY <1>2, <3>1, <4>1, <4>2, <4>3
    <3>2. CASE ~reached
      BY <1>1, <1>2, <2>1, <2>4, <3>2
    <3> QED
      BY <3>1, <3>2
  <2> QED
    BY <2>1, <2>2, <2>3, <2>5 DEF RepliesOnceUnlessLost
<1>7. ForgottenOnlyByFailure'
  BY <1>1, <1>2 DEF ForgottenOnlyByFailure, DeliveredOnce
<1> QED
  BY <1>3, <1>4, <1>5, <1>6, <1>7 DEF DeliveredOnce

\* A tick that throws leaves its list, and the row it sends as it was or written.
LEMMA ThrowKeepsIntegrationInv ==
  ASSUME IntegrationInv, TickThrows
  PROVE  IntegrationInv'
<1> USE DEF IntegrationInv, IntegrationTypeOK, Settled, inbound
<1>1. /\ sending' = 0 /\ list' = {} /\ reached' = FALSE
      /\ UNCHANGED <<inboundRun, routing, hurt, received>>
  BY DEF TickThrows
<1>2. \/ /\ sending = 0 \/ ~reached
         /\ UNCHANGED <<delivery, leased, lost, misjudged>>
      \/ /\ sending # 0 /\ reached /\ UNCHANGED <<delivery, leased, misjudged>>
         /\ lost' = [lost EXCEPT ![sending] = lost[sending] + 1]
      \/ /\ sending # 0 /\ leased' = leased \ {sending} /\ UNCHANGED lost
         /\ \/ /\ reached /\ delivery' = [delivery EXCEPT ![sending] = "REPLIED"]
               /\ UNCHANGED misjudged
            \/ /\ reached /\ delivery' = [delivery EXCEPT ![sending] = "FAILED"]
               /\ misjudged' = misjudged \union {sending}
            \/ /\ ~reached /\ delivery' = [delivery EXCEPT ![sending] = "FAILED"]
               /\ UNCHANGED misjudged
  BY DEF TickThrows, Unanswered, GivenUp, Mark
<1>3. sending # 0 => /\ sending \in Deliveries /\ delivery[sending] = "DELIVERING"
                     /\ inboundRun[sending] = "text"
  BY DEF TickWorksOnPending
<1>4. IntegrationTypeOK'
  <2>1. reached' \in BOOLEAN
    BY <1>1
  <2>2. /\ delivery' \in [Deliveries -> {"none", "RECEIVED", "RUN_STARTED", "DELIVERING"} \union Settled]
        /\ lost' \in [Deliveries -> Nat]
    BY <1>2, <1>3
  <2>3. leased' \subseteq Deliveries /\ misjudged' \subseteq Deliveries
    BY <1>2, <1>3
  <2> QED
    BY <1>1, <2>1, <2>2, <2>3
<1>5. TickWorksOnPending'
  BY <1>1 DEF TickWorksOnPending
<1>6. RoutingHasReceived'
  BY <1>1, <1>2, <1>3 DEF RoutingHasReceived
<1>7. RepliesOnceUnlessLost'
  <2>1. RepliesOnceUnlessLost /\ (sending # 0 => sending \notin misjudged)
    BY <1>3 DEF RepliesOnceUnlessLost, DeliveredOnce
  <2>2. CASE sending # 0 /\ reached
    <3>1. ASSUME NEW d \in misjudged' PROVE delivery'[d] = "FAILED"
      <4>1. d \in Deliveries /\ (d \in misjudged => d # sending /\ delivery[d] = "FAILED")
        BY <1>2, <1>3, <2>1, <2>2 DEF RepliesOnceUnlessLost
      <4>2. CASE d \in misjudged
        BY <1>2, <2>2, <4>1, <4>2
      <4>3. CASE d \notin misjudged
        BY <1>2, <1>3, <2>2, <3>1, <4>3
      <4> QED
        BY <4>2, <4>3
    <3>2. ASSUME NEW d \in Deliveries, d # sending
          PROVE  /\ received'[d] = received[d] /\ lost'[d] = lost[d]
                 /\ delivery'[d] = delivery[d] /\ (d \in misjudged' <=> d \in misjudged)
      BY <1>1, <1>2, <1>3, <2>2, <3>2
    <3>3. received[sending] = lost[sending] + 1
      BY <1>3, <2>1, <2>2 DEF RepliesOnceUnlessLost
    <3>4. received'[sending] = lost'[sending] + (IF delivery'[sending] = "REPLIED"
            \/ sending \in misjudged' THEN 1 ELSE 0)
      BY <1>1, <1>2, <1>3, <2>1, <2>2, <3>3
    <3> QED
      BY <1>1, <2>1, <2>2, <3>1, <3>2, <3>4 DEF RepliesOnceUnlessLost
  <2>3. CASE sending = 0 \/ ~reached
    BY <1>1, <1>2, <1>3, <2>1, <2>3 DEF RepliesOnceUnlessLost
  <2> QED
    BY <2>2, <2>3
<1>8. ForgottenOnlyByFailure'
  BY <1>1, <1>2, <1>3 DEF ForgottenOnlyByFailure, DeliveredOnce
<1> QED
  BY <1>4, <1>5, <1>6, <1>7, <1>8 DEF DeliveredOnce

\* A crash in the middle of an attempt loses the answer to it, and what was being
\* routed is remembered as hurt.
LEMMA RestartKeepsIntegrationInv ==
  ASSUME IntegrationInv, IntegrationsRestart \/ \E d \in Deliveries : LeaseOfReplyExpires(d)
  PROVE  IntegrationInv'
<1> USE DEF IntegrationInv, IntegrationTypeOK, Settled, inbound, outbound
<1>1. CASE IntegrationsRestart
  <2>1. /\ hurt' = hurt \union routing /\ routing' = {} /\ sending' = 0 /\ list' = {}
        /\ reached' = FALSE /\ UNCHANGED <<delivery, leased, inboundRun, received, misjudged>>
        /\ lost' = IF sending # 0 /\ reached THEN [lost EXCEPT ![sending] = lost[sending] + 1]
                   ELSE lost
    BY <1>1 DEF IntegrationsRestart
  <2>2. sending # 0 => sending \in Deliveries /\ delivery[sending] = "DELIVERING"
    BY DEF TickWorksOnPending
  <2>3. IntegrationTypeOK'
    <3>1. lost' \in [Deliveries -> Nat]
      BY <2>1, <2>2
    <3>2. reached' \in BOOLEAN
      BY <2>1
    <3> QED
      BY <2>1, <3>1, <3>2
  <2>4. TickWorksOnPending' /\ RoutingHasReceived'
    BY <2>1 DEF TickWorksOnPending, RoutingHasReceived
  <2>5. RepliesOnceUnlessLost'
    BY <2>1, <2>2 DEF RepliesOnceUnlessLost, DeliveredOnce
  <2>6. ForgottenOnlyByFailure'
    BY <2>1 DEF ForgottenOnlyByFailure, DeliveredOnce
  <2> QED
    BY <2>3, <2>4, <2>5, <2>6 DEF DeliveredOnce
<1>2. CASE \E d \in Deliveries : LeaseOfReplyExpires(d)
  BY <1>2 DEF LeaseOfReplyExpires, TickWorksOnPending, RoutingHasReceived, DeliveredOnce,
              RepliesOnceUnlessLost, ForgottenOnlyByFailure
<1> QED
  BY <1>1, <1>2

\* Every step keeps the invariant of deliveries, routes and replies.
LEMMA IntegrationInvStep == IntegrationInv /\ [IntegrationNext]_integrationVars => IntegrationInv'
<1> SUFFICES ASSUME IntegrationInv, [IntegrationNext]_integrationVars PROVE IntegrationInv'
  OBVIOUS
<1>1. CASE UNCHANGED integrationVars
  BY <1>1 DEF integrationVars, inbound, outbound, IntegrationInv, IntegrationTypeOK, Settled,
              TickWorksOnPending, RoutingHasReceived, DeliveredOnce, RepliesOnceUnlessLost,
              ForgottenOnlyByFailure
<1> QED
  BY <1>1, RouteKeepsIntegrationInv, TickKeepsIntegrationInv, AttemptKeepsIntegrationInv,
     ThrowKeepsIntegrationInv, RestartKeepsIntegrationInv DEF IntegrationNext

\* The receiver gets a reply as often as it is tried again although it had arrived, and
\* once more when the row says so or was given up too late, and no message is forgotten
\* but by the failures the property names: for any number of messages, any
\* window of the tick and any number of lost answers and restarts.
THEOREM MessagesAreDeliveredOnce == IntegrationSpec => []DeliveredOnce
<1>1. IntegrationInv => DeliveredOnce
  BY DEF IntegrationInv
<1> QED
  BY <1>1, IntegrationInvInit, IntegrationInvStep, PTL DEF IntegrationSpec

-----------------------------------------------------------------------------
(* A delegated turn                                                           *)

\* The process has reported success, with the usage that a ceiling needs.
Earned(r) == r \in reported /\ (gateway = "claude" /\ capped => r \in metered)

\* Success is queued, concluded and given to the run only after it was earned.
DelegatedInv ==
  /\ conclusion \in [DelegatedRuns -> {"succeeding", "failing"}]
  /\ runner \in [DelegatedRuns -> RunnerStates]
  /\ notes \in [DelegatedRuns -> Seq(Events)]
  /\ \A r \in DelegatedRuns :
       /\ (\E i \in 1 .. Len(notes[r]) : notes[r][i] = "completed") => Earned(r)
       /\ conclusion[r] = "succeeding" => Earned(r)
       /\ runner[r] \in {"succeeding", "succeeded"} => Earned(r)

\* What was earned stays earned.
LEMMA EarnedStays ==
  ASSUME [DelegatedNext]_delegatedVars, NEW r, Earned(r)
  PROVE  Earned(r)'
  <1> SUFFICES UNCHANGED fixed /\ reported \subseteq reported' /\ metered \subseteq metered'
    BY DEF Earned, fixed
  <1>1. CASE LeaseExpires \/ UNCHANGED delegatedVars
    BY <1>1 DEF LeaseExpires, delegatedVars, fixed, queueVars
  <1>2. ASSUME NEW d \in DelegatedRuns,
               \/ Lead(d) \/ Halt(d) \/ Abandon(d) \/ EndRun(d) \/ Begin(d) \/ Greeted(d)
               \/ GreetingFails(d) \/ Take(d) \/ TakeFails(d) \/ TakeAborted(d) \/ Interrupted(d)
               \/ ReapProcess(d) \/ StopFails(d) \/ CodexDies(d) \/ ClaudeErrs(d)
        PROVE  UNCHANGED <<fixed, metered, reported>>
    BY <1>2
    DEF Lead, Halt, Abandon, EndRun, Begin, Greeted, GreetingFails, Take, TakeFails,
        TakeAborted,
        Interrupted, ReapProcess, StopFails, CodexDies, ClaudeErrs, fixed, queueVars
  <1>3. ASSUME NEW d \in DelegatedRuns, NEW note,
               Speaks(d, note) \/ CodexEndsTurn(d, note) \/ ClaudeExits(d)
        PROVE  UNCHANGED fixed /\ reported \subseteq reported' /\ metered \subseteq metered'
    BY <1>3 DEF Speaks, CodexEndsTurn, ClaudeExits, fixed
  <1>. QED  BY <1>1, <1>2, <1>3 DEF DelegatedNext

\* What is pushed is the last event, or nothing.
LEMMA PushAppends ==
  ASSUME notes \in [DelegatedRuns -> Seq(Events)], NEW d \in DelegatedRuns, NEW note \in Events,
         Push(d, note)
  PROVE  /\ notes' \in [DelegatedRuns -> Seq(Events)]
         /\ \A r \in DelegatedRuns : \A i \in 1 .. Len(notes'[r]) :
              notes'[r][i] = "completed" =>
                (\E j \in 1 .. Len(notes[r]) : notes[r][j] = "completed")
                \/ (r = d /\ note = "completed")
         /\ d \in broken => notes' = notes
  <1>1. CASE notes' = notes
    BY <1>1
  <1>2. CASE notes' = [notes EXCEPT ![d] = Append(notes[d], note)] /\ d \notin broken
    <2>1. notes' \in [DelegatedRuns -> Seq(Events)]
      BY <1>2
    <2>2. ASSUME NEW r \in DelegatedRuns, NEW i \in 1 .. Len(notes'[r]), notes'[r][i] = "completed"
          PROVE  \/ \E j \in 1 .. Len(notes[r]) : notes[r][j] = "completed"
                 \/ r = d /\ note = "completed"
      <3>1. CASE r # d
        BY <1>2, <2>2, <3>1
      <3>2. CASE r = d
        <4>1. notes'[d] = Append(notes[d], note) /\ notes[d] \in Seq(Events)
          BY <1>2
        <4>2. CASE i = Len(notes[d]) + 1
          BY <2>2, <3>2, <4>1, <4>2
        <4>3. CASE i \in 1 .. Len(notes[d])
          BY <2>2, <3>2, <4>1, <4>3
        <4>. QED  BY <2>2, <3>2, <4>1, <4>2, <4>3
      <3>. QED  BY <3>1, <3>2
    <2>. QED  BY <1>2, <2>1, <2>2
  <1>. QED  BY <1>1, <1>2 DEF Push

\* Every step of a delegated turn keeps the invariant.
LEMMA DelegatedStep ==
  ASSUME DelegatedInv, [DelegatedNext]_delegatedVars
  PROVE  DelegatedInv'
  <1> USE DEF DelegatedInv
  <1>0. \A r \in DelegatedRuns : Earned(r) => Earned(r)'
    BY EarnedStays
  <1>1. CASE LeaseExpires \/ UNCHANGED delegatedVars
    BY <1>0, <1>1 DEF LeaseExpires, delegatedVars, queueVars
  <1>2. ASSUME NEW d \in DelegatedRuns,
               \/ Lead(d) \/ Halt(d) \/ Abandon(d) \/ Greeted(d) \/ GreetingFails(d)
               \/ TakeAborted(d) \/ Interrupted(d) \/ CodexDies(d) \/ ClaudeErrs(d)
        PROVE  DelegatedInv'
    <2>1. /\ UNCHANGED <<conclusion, notes>>
          /\ runner' = runner \/ \E to \in {"awaiting", "failing"} : runner' = [runner EXCEPT ![d] = to]
      BY <1>2 DEF Lead, Halt, Abandon, Greeted, GreetingFails, TakeAborted, Interrupted,
                  CodexDies,
                  ClaudeErrs, queueVars
    <2>. QED  BY <1>0, <2>1 DEF RunnerStates
  <1>3. ASSUME NEW d \in DelegatedRuns, EndRun(d) \/ Begin(d) \/ ReapProcess(d) \/ StopFails(d)
        PROVE  DelegatedInv'
    <2>1. /\ UNCHANGED <<conclusion, notes>>
          /\ \E to \in RunnerStates :
               /\ runner' = [runner EXCEPT ![d] = to]
               /\ to \in {"succeeding", "succeeded"} => Earned(d)
      <3>1. CASE EndRun(d)
        BY <3>1 DEF EndRun, queueVars, RunnerStates
      <3>2. CASE Begin(d)
        <4>1. UNCHANGED <<conclusion, notes>>
              /\ (runner' = [runner EXCEPT ![d] = runner[d]]
                  \/ runner' = [runner EXCEPT ![d] = "failing"])
          BY <3>2 DEF Begin, Finish, queueVars
        <4>. QED  BY <4>1 DEF RunnerStates
      <3>3. CASE ReapProcess(d) \/ StopFails(d)
        BY <3>3 DEF ReapProcess, StopFails, Finish, queueVars, RunnerStates
      <3>. QED  BY <1>3, <3>1, <3>2, <3>3
    <2>. QED  BY <1>0, <2>1
  <1>4. ASSUME NEW d \in DelegatedRuns, Take(d) PROVE DelegatedInv'
    <2>1. /\ notes[d] # <<>> /\ notes[d] \in Seq(Events) /\ runner' = runner
          /\ notes' = [notes EXCEPT ![d] = Tail(notes[d])]
          /\ \/ conclusion' = conclusion
             \/ conclusion' = [conclusion EXCEPT ![d] = "failing"]
             \/ Head(notes[d]) = "completed" /\ conclusion' = [conclusion EXCEPT ![d] = "succeeding"]
      BY <1>4 DEF Take, Turned
    <2>2. Head(notes[d]) = notes[d][1] /\ 1 \in 1 .. Len(notes[d])
      BY <2>1
    <2>3. /\ notes' \in [DelegatedRuns -> Seq(Events)]
          /\ \A r \in DelegatedRuns : \A i \in 1 .. Len(notes'[r]) :
               notes'[r][i] = "completed" => \E j \in 1 .. Len(notes[r]) : notes[r][j] = "completed"
      <3>1. Tail(notes[d]) \in Seq(Events)
            /\ \A i \in 1 .. Len(Tail(notes[d])) :
                 Tail(notes[d])[i] = notes[d][i + 1] /\ i + 1 \in 1 .. Len(notes[d])
        BY <2>1
      <3>. QED  BY <2>1, <3>1
    <2>. QED  BY <1>0, <2>1, <2>2, <2>3
  <1>5. ASSUME NEW d \in DelegatedRuns, TakeFails(d) PROVE DelegatedInv'
    BY <1>0, <1>5 DEF TakeFails, Turned, queueVars
  <1>6. ASSUME NEW d \in DelegatedRuns, NEW note \in Events, Push(d, note),
               UNCHANGED <<conclusion, runner>>, note = "completed" /\ d \notin broken => Earned(d)'
        PROVE  DelegatedInv'
    BY <1>0, <1>6, PushAppends
  <1>7. ASSUME NEW d \in DelegatedRuns, NEW note \in {"text", "usage"}, Speaks(d, note)
        PROVE  DelegatedInv'
    BY <1>6, <1>7 DEF Speaks, Events
  <1>8. ASSUME NEW d \in DelegatedRuns, NEW note \in {"completed", "failed"}, CodexEndsTurn(d, note)
        PROVE  DelegatedInv'
    BY <1>6, <1>8 DEF CodexEndsTurn, Events, Earned, fixed
  <1>9. ASSUME NEW d \in DelegatedRuns, ClaudeExits(d)
        PROVE  DelegatedInv'
    <2>1. CASE notes' = notes
      BY <1>0, <1>9, <2>1 DEF ClaudeExits
    <2>2. CASE Push(d, "completed") /\ (d \in metered \/ ~capped)
      BY <1>6, <1>9, <2>2 DEF ClaudeExits, Events, Earned, fixed
    <2>. QED  BY <1>9, <2>1, <2>2 DEF ClaudeExits
  <1>. QED  BY <1>1, <1>2, <1>3, <1>4, <1>5, <1>7, <1>8, <1>9 DEF DelegatedNext

\* A delegated run succeeds only when its process reported the success of the turn,
\* with the usage a ceiling needs, for any runs and queues (streamTurn of Codex and
\* of Claude, the event queue).
THEOREM DelegatedRunsSucceedAsReported == DelegatedSpec => []SucceedsAsReported
  <1>1. DelegatedInit => DelegatedInv
    BY DEF DelegatedInit, DelegatedInv, RunnerStates
  <1>2. DelegatedInv => SucceedsAsReported
    BY DEF DelegatedInv, SucceedsAsReported, Earned
  <1>. QED  BY <1>1, <1>2, DelegatedStep, PTL DEF DelegatedSpec
=============================================================================
