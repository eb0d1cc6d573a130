---------------------------- MODULE McpTransports ----------------------------
(***************************************************************************)
(* One transport of an MCP server, from its creation by the supervisor to  *)
(* its stop, which may begin at any moment; a transport is not used again. *)
(* A peer is what was made for it and is told to initialize: a container   *)
(* of `docker run --name`, whose client is the RPC process, or a session   *)
(* of a server over HTTP.  Peers are numbered by the requests that made    *)
(* them.  Requests of RPC processes are those of ProcessRpc.               *)
(***************************************************************************)
EXTENDS Naturals, FiniteSets

CONSTANTS
  Asks,      \* tools/list and tools/call of the supervisor
  MaxPeers   \* bound on the peers that are asked for

ASSUME TransportsAssumption == MaxPeers \in Nat \ {0}

VARIABLES
  wire,      \* "docker" or "http"
  opening,   \* #startPromise and #started
  cutOff,    \* the lifecycle signal is aborted
  ask,       \* where each request is
  by,        \* the peer that answered it
  closing,   \* how far stop is
  \* outside of the transport
  asked,     \* peers that were asked for
  making,    \* those that the daemon or the server has yet to make
  peer,      \* the container that has the name, or #sessionId; 0 is none
  box,       \* its state, of a container
  runner,    \* the docker client that runs; 0 is none
  greeted,   \* peers that were initialized
  known,     \* sessions whose id was received
  alive      \* sessions that the server keeps

outside == <<asked, making, peer, box, runner, greeted, known, alive>>
transportsVars == <<wire, opening, cutOff, ask, by, closing, outside>>

InFlight == {c \in Asks : ask[c] = "sent"}
Failed(cs) == [c \in Asks |-> IF c \in cs THEN "failed" ELSE ask[c]]
InStart == opening \in {"initialize", "notify"}
Stopped == closing \in {"stopped", "kept", "failed"}

TransportsInit ==
  /\ wire \in {"docker", "http"} /\ opening = "no" /\ cutOff = FALSE
  /\ ask = [c \in Asks |-> "new"] /\ by = [c \in Asks |-> 0] /\ closing = "no"
  /\ asked = 0 /\ making = {} /\ peer = 0 /\ box = "none" /\ runner = 0
  /\ greeted = {} /\ known = {} /\ alive = {}

-----------------------------------------------------------------------------
(* Stdio in a container *)

\* JsonLineRpcClient.start: a request spawns the client when none runs
Spawned ==
  IF runner # 0 THEN UNCHANGED <<asked, making, runner>>
  ELSE /\ asked < MaxPeers
       /\ asked' = asked + 1 /\ runner' = asked' /\ making' = making \union {asked'}

\* The client is gone: whatever waits for it fails.
ClientIsGone ==
  /\ runner' = 0 /\ ask' = Failed(InFlight)
  /\ opening' = IF opening = "initialize" THEN "failed" ELSE opening

\* the container goes with its client, or lives on
BoxMayEnd == box' \in {box} \union (IF box = "running" THEN {"exited"} ELSE {})

\* Mutant: --rm frees the name of a container that ends.
RemovedAtEnd == IF box' = "exited" THEN 0 ELSE peer

\* The name is not free until the container is removed.
NamedAtEnd == peer

\* docker run: create.  A name that is taken ends the client that asks, and a client that
\* is gone does not start what it has created.
DaemonMakes(k) ==
  /\ wire = "docker" /\ k \in making /\ making' = making \ {k}
  /\ IF peer = 0
     THEN peer' = k /\ box' = "created" /\ UNCHANGED <<opening, ask, runner>>
     ELSE /\ IF runner = k THEN ClientIsGone ELSE UNCHANGED <<opening, ask, runner>>
          /\ UNCHANGED <<peer, box>>
  /\ UNCHANGED <<wire, cutOff, by, closing, asked, greeted, known, alive>>

DaemonRuns ==
  /\ box = "created" /\ runner = peer /\ box' = "running"
  /\ UNCHANGED <<wire, opening, cutOff, ask, by, closing, asked, making, peer, runner,
                 greeted, known, alive>>

\* a crash of the server or of the client
ServerDies ==
  /\ wire = "docker" /\ runner # 0
  /\ ClientIsGone /\ BoxMayEnd /\ peer' = NamedAtEnd
  /\ UNCHANGED <<wire, cutOff, by, closing, asked, making, greeted, known, alive>>

\* #cancelAndStop of one request, aborted or timed out, stops the client of all; one that
\* SIGKILL does not end in time stays, and only that request fails.
CancelOverStdio ==
  /\ wire = "docker" /\ ~cutOff /\ (InFlight # {} \/ opening = "initialize")
  /\ \/ ClientIsGone /\ BoxMayEnd /\ peer' = NamedAtEnd
     \/ /\ runner # 0 /\ UNCHANGED <<runner, peer, box>>
        /\ \/ opening = "initialize" /\ opening' = "failed" /\ UNCHANGED ask
           \/ UNCHANGED opening /\ \E c \in InFlight : ask' = Failed({c})
  /\ UNCHANGED <<wire, cutOff, by, closing, asked, making, greeted, known, alive>>

\* initialize is answered; another version stops the client
InitializeOverStdio ==
  /\ wire = "docker" /\ opening = "initialize" /\ ~cutOff /\ runner = peer /\ box = "running"
  /\ \/ opening' = "open" /\ greeted' = greeted \union {peer} /\ UNCHANGED <<ask,
                                                                             runner, peer, box>>
     \/ ClientIsGone /\ BoxMayEnd /\ peer' = NamedAtEnd /\ UNCHANGED greeted
  /\ UNCHANGED <<wire, cutOff, by, closing, asked, making, known, alive>>

-----------------------------------------------------------------------------
(* Streamable HTTP *)

\* initialize is at the server, whether or not the transport still waits
ServerMakes(k) ==
  /\ wire = "http" /\ k \in making /\ making' = making \ {k}
  /\ alive' = alive \union {k}
  /\ \/ /\ opening = "initialize" /\ ~cutOff
        /\ peer' = k /\ known' = known \union {k} /\ opening' \in {"notify", "failed"}
     \/ UNCHANGED <<peer, known, opening>>
  /\ UNCHANGED <<wire, cutOff, ask, by, closing, asked, box, runner, greeted>>

\* Any answer may carry an id, which replaces #sessionId.  A server that gives the session
\* another id answers under that one alone from then on.
Renamed ==
  /\ wire = "http" /\ asked < MaxPeers /\ asked' = asked + 1 /\ peer' = asked'
  /\ alive' = (alive \ {peer}) \union {asked'} /\ known' = known \union {asked'}

SameOrRenamed ==
  \/ Renamed /\ greeted' = greeted \union {peer'}
  \/ UNCHANGED <<asked, peer, greeted, known, alive>>

Notified ==
  /\ opening = "notify" /\ ~cutOff /\ peer \in alive
  /\ Renamed \/ UNCHANGED <<asked, peer, known, alive>>
  /\ opening' = "open" /\ greeted' = greeted \union {peer'}
  /\ UNCHANGED <<wire, cutOff, ask, by, closing, making, box, runner>>

ServerForgets ==
  /\ \E k \in alive : alive' = alive \ {k}
  /\ UNCHANGED <<wire, opening, cutOff, ask, by, closing, asked, making, peer, box,
                 runner, greeted, known>>

\* Mutant: a start that fails forgets its session.
ForgottenWithStart == 0

KeptWithStart == peer

\* a timeout, an abort, an error, a lost or a foreign answer, or a session that is gone
StartFailsOverHttp ==
  /\ wire = "http" /\ InStart
  /\ opening' = "failed" /\ peer' = KeptWithStart
  /\ UNCHANGED <<wire, cutOff, ask, by, closing, asked, making, box, runner, greeted,
                 known, alive>>

\* before there is an answer, or in its body
AskFailsOverHttp(c) ==
  /\ wire = "http" /\ c \in InFlight /\ ask' = Failed({c})
  /\ \/ UNCHANGED <<asked, peer, greeted, known, alive>>
     \/ ~cutOff /\ peer \in alive /\ SameOrRenamed
  /\ UNCHANGED <<wire, opening, cutOff, by, closing, making, box, runner>>

-----------------------------------------------------------------------------
(* What the supervisor calls *)

StartTransport ==
  /\ opening = "no" /\ opening' = "initialize"
  /\ IF wire = "docker" THEN Spawned
     ELSE asked' = 1 /\ making' = {1} /\ UNCHANGED runner
  /\ UNCHANGED <<wire, cutOff, ask, by, closing, peer, box, greeted, known, alive>>

\* A request that meets a stop is refused before anything is spawned or sent.
AskServer(c) ==
  /\ ask[c] = "new" /\ (opening = "open" \/ cutOff) /\ closing \in {"no", "flight"}
  /\ IF cutOff
     THEN ask' = Failed({c}) /\ UNCHANGED <<asked, making, runner>>
     ELSE /\ ask' = [ask EXCEPT ![c] = "sent"]
          /\ IF wire = "docker" THEN Spawned ELSE UNCHANGED <<asked, making, runner>>
  /\ UNCHANGED <<wire, opening, cutOff, by, closing, peer, box, greeted, known, alive>>

ServerAnswers(c) ==
  /\ c \in InFlight /\ ~cutOff /\ peer # 0
  /\ IF wire = "docker" THEN runner = peer /\ box = "running" ELSE peer \in alive
  /\ ask' = [ask EXCEPT ![c] = "answered"] /\ by' = [by EXCEPT ![c] = peer]
  /\ SameOrRenamed
  /\ UNCHANGED <<wire, opening, cutOff, closing, making, box, runner>>

StopBegins ==
  /\ opening # "no" /\ closing = "no" /\ cutOff' = TRUE /\ closing' = "flight"
  /\ opening' = IF wire = "docker" THEN "closed" ELSE opening
  /\ ask' = IF wire = "docker" THEN Failed(InFlight) ELSE ask
  /\ UNCHANGED <<wire, by, outside>>

\* Mutant: the end of the client is taken for that of the container.
EndedWithClient == "stopped"

StillToReap == "box"

\* JsonLineRpcClient.stop, which fails when the client is not reaped
ProcessStops ==
  /\ wire = "docker" /\ closing = "flight" /\ ask' = Failed(InFlight)
  /\ \/ closing' = StillToReap /\ runner' = 0 /\ BoxMayEnd /\ peer' = NamedAtEnd
     \/ closing' = "unreaped" /\ runner # 0 /\ UNCHANGED <<runner, box, peer>>
  /\ UNCHANGED <<wire, opening, cutOff, by, asked, making, greeted, known, alive>>

\* killAndReapContainer, by name, whatever became of the process
Reaped ==
  /\ closing \in {"box", "unreaped"}
  /\ \/ /\ closing' = IF closing = "box" THEN "stopped" ELSE "failed"
        /\ peer' = 0 /\ box' = "none"
     \/ closing' = "failed" /\ BoxMayEnd /\ UNCHANGED peer
  /\ UNCHANGED <<wire, opening, cutOff, ask, by, asked, making, runner, greeted, known, alive>>

\* Mutant: the session is ended while requests are in flight.
AtOnce == TRUE

Quiet == InFlight = {} /\ ~InStart

FlightEnds ==
  /\ wire = "http" /\ closing = "flight" /\ Quiet
  /\ closing' = (IF peer = 0 THEN "stopped" ELSE "session") /\ opening' = "closed"
  /\ UNCHANGED <<wire, cutOff, ask, by, outside>>

\* DELETE: a session that is unknown is ended, and a server may keep it (405)
SessionEnds ==
  /\ closing = "session"
  /\ \/ closing' = "stopped" /\ alive' = alive \ {peer} /\ peer' = 0
     \/ closing' \in {"kept", "failed"} /\ UNCHANGED <<peer, alive>>
  /\ UNCHANGED <<wire, opening, cutOff, ask, by, asked, making, box, runner, greeted, known>>

TransportsNext ==
  \/ StartTransport \/ StopBegins \/ ProcessStops \/ Reaped \/ FlightEnds \/ SessionEnds
  \/ \E k \in 1 .. MaxPeers : DaemonMakes(k) \/ ServerMakes(k)
  \/ DaemonRuns \/ ServerDies \/ CancelOverStdio \/ InitializeOverStdio
  \/ Notified \/ ServerForgets \/ StartFailsOverHttp
  \/ \E c \in Asks : AskServer(c) \/ ServerAnswers(c) \/ AskFailsOverHttp(c)

\* Requests, starts and commands have timeouts, and a stop goes through its awaits.
TransportsFairness ==
  /\ WF_transportsVars(CancelOverStdio) /\ WF_transportsVars(StartFailsOverHttp)
  /\ \A c \in Asks : WF_transportsVars(AskFailsOverHttp(c))
  /\ WF_transportsVars(ProcessStops) /\ WF_transportsVars(Reaped)
  /\ WF_transportsVars(FlightEnds) /\ WF_transportsVars(SessionEnds)

TransportsSpec == TransportsInit /\ [][TransportsNext]_transportsVars /\ TransportsFairness

-----------------------------------------------------------------------------
TransportsTypeOK ==
  /\ opening \in {"no", "initialize", "notify", "open", "failed", "closed"}
  /\ closing \in {"no", "flight", "box", "unreaped", "session", "stopped", "kept", "failed"}
  /\ ask \in [Asks -> {"new", "sent", "answered", "failed"}] /\ by \in [Asks -> 0 .. MaxPeers]
  /\ {asked, peer, runner} \subseteq 0 .. MaxPeers
  /\ making \union greeted \union known \union alive \subseteq 1 .. MaxPeers

\* The client of a container may be stopped by a request that is cancelled, or die, and the
\* next request spawns another, which nobody initializes: the name of the container keeps
\* it from answering (createDockerMcpProcessSpec, mcp/src/index.ts:144-179).
OnlyGreetedAnswer == \A c \in Asks : ask[c] = "answered" => by[c] \in greeted

\* A stop that succeeds leaves nothing that runs, whatever started, died or asked
\* meanwhile (#stopAndReap, mcp/src/index.ts:136-141).
NothingRuns == wire = "docker" /\ closing = "stopped" => runner = 0 /\ box \in {"none", "created"}

\* It ends every session the transport was ever told of, and while no request uses it
\* (StreamableHttpMcpTransport.stop, mcp/src/index.ts:298-311).
NoSessionIsLeft ==
  /\ closing = "stopped" => known \intersect alive = {}
  /\ wire = "http" /\ (closing = "session" \/ Stopped) => InFlight = {} /\ ~InStart

TransportsAreSound == OnlyGreetedAnswer /\ NothingRuns /\ NoSessionIsLeft

\* No request waits, and no start or stop is under way.
TransportRests == InFlight = {} /\ ~InStart /\ closing \in {"no", "stopped", "kept", "failed"}
=============================================================================
