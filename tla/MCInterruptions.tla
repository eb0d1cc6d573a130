--------------------------- MODULE MCInterruptions ---------------------------
(* Components that wait for something that may die, fail or fall silent, side *)
(* by side: focus picks one of them, and only that one moves.                 *)
EXTENDS Integrations, PluginSupervisor, ProcessRpc, McpSupervisor, AgentTurn, EventStream,
        SnapshotStore, BrowserSessions, Installation, SessionTranscript,
        McpTransports

VARIABLE focus

InterruptionsInit ==
  /\ focus \in {"integrations", "supervisor", "rpc", "mcp", "agent", "stream", "snapshots",
                "browser", "installation", "transcript", "transports"}
  /\ IntegrationInit /\ SupervisorInit /\ RpcInit /\ McpInit /\ AgentInit /\ StreamInit /\ Init
  /\ BrowserInit /\ InstallationInit /\ TranscriptInit
  /\ TransportsInit /\ (focus # "transports" => wire = "docker")

Others(own) ==
  /\ UNCHANGED focus
  /\ IF own = "integrations" THEN TRUE ELSE UNCHANGED integrationVars
  /\ IF own = "supervisor"   THEN TRUE ELSE UNCHANGED supervisorVars
  /\ IF own = "rpc"          THEN TRUE ELSE UNCHANGED rpcVars
  /\ IF own = "mcp"          THEN TRUE ELSE UNCHANGED mcpVars
  /\ IF own = "agent"        THEN TRUE ELSE UNCHANGED agentVars
  /\ IF own = "stream"       THEN TRUE ELSE UNCHANGED streamVars
  /\ IF own = "snapshots"    THEN TRUE ELSE UNCHANGED vars
  /\ IF own = "browser"      THEN TRUE ELSE UNCHANGED browserVars
  /\ IF own = "installation" THEN TRUE ELSE UNCHANGED installationVars
  /\ IF own = "transcript"   THEN TRUE ELSE UNCHANGED transcriptVars
  /\ IF own = "transports"   THEN TRUE ELSE UNCHANGED transportsVars

InterruptionsNext ==
  \/ focus = "integrations" /\ IntegrationNext /\ Others("integrations")
  \/ focus = "supervisor"   /\ SupervisorNext  /\ Others("supervisor")
  \/ focus = "rpc"          /\ RpcNext         /\ Others("rpc")
  \/ focus = "mcp"          /\ McpNext         /\ Others("mcp")
  \/ focus = "agent"        /\ AgentNext       /\ Others("agent")
  \/ focus = "stream"       /\ StreamNext      /\ Others("stream")
  \/ focus = "snapshots"    /\ Next            /\ Others("snapshots")
  \/ focus = "browser"      /\ BrowserNext     /\ Others("browser")
  \/ focus = "installation" /\ InstallationNext /\ Others("installation")
  \/ focus = "transcript"   /\ TranscriptNext  /\ Others("transcript")
  \/ focus = "transports"   /\ TransportsNext  /\ Others("transports")

interruptionsVars ==
  <<focus, integrationVars, supervisorVars, rpcVars, mcpVars, agentVars, streamVars, vars,
    browserVars, installationVars, transcriptVars, transportsVars>>

InterruptionsSpec ==
  /\ InterruptionsInit /\ [][InterruptionsNext]_interruptionsVars
  /\ \/ focus = "integrations" /\ IntegrationFairness
     \/ focus = "supervisor"   /\ SupervisorFairness
     \/ focus = "rpc"          /\ RpcFairness
     \/ focus = "mcp"          /\ McpFairness
     \/ focus = "agent"        /\ AgentFairness
     \/ focus = "stream"       /\ StreamFairness
     \/ focus = "browser"      /\ BrowserFairness
     \/ focus = "installation" /\ InstallationFairness
     \/ focus = "transcript"   /\ TranscriptFairness
     \/ focus = "transports"   /\ TransportsFairness
     \/ focus = "snapshots"

\* The processes of the installation, of its plugins and of its MCP servers: OneWorker,
\* InstallationIsSound, TransportsAreSound.
ProcessesAreAccounted == OneWorker /\ InstallationIsSound /\ TransportsAreSound

\* Who reads what a run left sees what it did: the client of its events (NothingIsMissed),
\* and the model of a later run or of its parent (TranscriptIsSound).
ReadersSeeTheRun == NothingIsMissed /\ TranscriptIsSound

\* Nobody waits for ever: replies are settled, requests of a process answered or
\* rejected, stopped plugin workers reaped and idle transports stopped, an agent ends
\* though its provider falls silent, the reader of a stream ends with its run, a
\* browser session that closes goes, a launcher falls with its children, a parent hears
\* of its child or fails, and an MCP transport ends its requests and its stop.  Calls,
\* processes and launches are bounded, so each wait ends exactly if there is always a
\* later state in which nothing waits.
EveryWaitEnds ==
  []<>( /\ RepliesAreSettled /\ RequestsAreSettled /\ NoCleanupDue /\ NoTransport
        /\ AgentRests /\ ReaderIsDone /\ NoneCloses /\ FallsTogether
        /\ NoParentWaits /\ TransportRests )
=============================================================================
