------------------------- MODULE InterruptionsProofs -------------------------
(* The processes of the installation, of its plugins and of its MCP servers,  *)
(* in the composition that the run checks.                                    *)
EXTENDS AgentProofs, MCInterruptions

-----------------------------------------------------------------------------
(* The transports of MCP servers                                              *)

\* Types, numbers of peers and requests being unbounded here.
TransportTypes ==
  /\ wire \in {"docker", "http"}
  /\ opening \in {"no", "initialize", "notify", "open", "failed", "closed"}
  /\ closing \in {"no", "flight", "box", "unreaped", "session", "stopped", "kept", "failed"}
  /\ ask \in [Asks -> {"new", "sent", "answered", "failed"}] /\ by \in [Asks -> Nat]
  /\ asked \in Nat /\ peer \in Nat /\ runner \in Nat
  /\ making \subseteq Nat \ {0} /\ greeted \subseteq Nat
  /\ known \subseteq Nat \ {0} /\ alive \subseteq Nat \ {0}
  /\ box \in {"none", "created", "running", "exited"}

\* A stop is the last that happens to a transport, and asks are sent by one that is open.
StopInv ==
  /\ opening = "no" => closing = "no"
  /\ closing # "no" => cutOff
  /\ closing \notin {"no", "flight"} \/ (closing # "no" /\ wire = "docker") => opening = "closed"
  /\ closing \in {"box", "unreaped"} => wire = "docker"
  /\ closing = "session" => wire = "http"
  /\ (\E c \in Asks : ask[c] = "sent") /\ ~cutOff => opening = "open"
  /\ wire = "http" /\ closing \notin {"no", "flight"} => \A c \in Asks : ask[c] # "sent"

\* One container has the name until it is removed, and of the sessions whose ids were
\* received the server keeps only the last.
PeerInv ==
  /\ box # "none" => peer # 0
  /\ wire = "docker" => known = {} /\ alive = {}
  /\ wire = "docker" /\ closing \in {"box", "stopped"} => runner = 0
  /\ wire = "http" => box = "none" /\ runner = 0
  /\ opening = "open" => peer # 0 /\ peer \in greeted
  /\ opening \in {"no", "initialize"} => known = {}
  /\ making \intersect known = {}
  /\ closing # "stopped" => known \intersect alive \subseteq {peer}
  /\ making \subseteq 1 .. asked

\* All of it, with what it is for: no answer before the greeting, nothing left by a stop.
TransportsInv ==
  /\ TransportTypes /\ StopInv /\ PeerInv
  /\ OnlyGreetedAnswer /\ NothingRuns /\ (closing = "stopped" => known \intersect alive = {})

\* At first the transport was not opened.
LEMMA TransportsInitial == TransportsInit => TransportsInv
  <1> SUFFICES ASSUME TransportsInit PROVE TransportsInv
    OBVIOUS
  <1>1. TransportTypes
    BY DEF TransportsInit, TransportTypes
  <1>2. StopInv
    BY DEF TransportsInit, StopInv
  <1>3. PeerInv
    BY DEF TransportsInit, PeerInv
  <1>. QED
    BY <1>1, <1>2, <1>3 DEF TransportsInit, TransportsInv, OnlyGreetedAnswer, NothingRuns

\* A peer that is asked for has a number of its own.
LEMMA SpawnedTypes ==
  ASSUME TransportTypes, Spawned
  PROVE  /\ asked' \in Nat /\ runner' \in Nat /\ making' \subseteq Nat \ {0}
         /\ making \subseteq 1 .. asked => making' \subseteq 1 .. asked'
  <1>1. \/ UNCHANGED <<asked, making, runner>>
        \/ asked' = asked + 1 /\ runner' = asked' /\ making' = making \union {asked'}
    BY DEF Spawned
  <1>2. asked \in Nat /\ runner \in Nat /\ making \subseteq Nat \ {0}
    BY DEF TransportTypes
  <1>3. CASE UNCHANGED <<asked, making, runner>>
    BY <1>2, <1>3
  <1>4. CASE asked' = asked + 1 /\ runner' = asked' /\ making' = making \union {asked'}
    <2>1. asked' \in Nat \ {0} /\ asked' \in 1 .. asked' /\ 1 .. asked \subseteq 1 .. asked'
      BY <1>2, <1>4
    <2>. QED  BY <1>2, <1>4, <2>1
  <1>. QED  BY <1>1, <1>3, <1>4

\* An answer keeps the session, or gives it another number and ends the one it had.
LEMMA AnswersName ==
  ASSUME TransportTypes, PeerInv, peer # 0, closing # "stopped",
         \/ SameOrRenamed
         \/ Renamed /\ greeted' = greeted \union {peer'}
         \/ UNCHANGED <<asked, peer, known, alive>> /\ greeted' = greeted \union {peer'}
  PROVE  /\ asked' \in Nat /\ peer' \in Nat \ {0} /\ greeted' \subseteq Nat
         /\ greeted \subseteq greeted' /\ (peer \in greeted => peer' \in greeted')
         /\ known' \subseteq Nat \ {0} /\ alive' \subseteq Nat \ {0}
         /\ making \subseteq 1 .. asked' /\ making \intersect known' = {}
         /\ known' \intersect alive' \subseteq {peer'}
         /\ wire = "docker" => UNCHANGED <<known, alive>>
         /\ known' # known => wire = "http"
  <1>1. /\ asked \in Nat /\ peer \in Nat \ {0} /\ greeted \subseteq Nat
        /\ known \subseteq Nat \ {0} /\ alive \subseteq Nat \ {0}
        /\ making \subseteq 1 .. asked /\ making \intersect known = {}
        /\ known \intersect alive \subseteq {peer}
    BY DEF TransportTypes, PeerInv
  <1>2. CASE UNCHANGED <<asked, peer, known, alive>>
    <2>1. greeted' = greeted \/ greeted' = greeted \union {peer'}
      BY <1>2 DEF SameOrRenamed
    <2>. QED  BY <1>1, <1>2, <2>1
  <1>3. CASE Renamed /\ greeted' = greeted \union {peer'}
    <2>1. /\ wire = "http" /\ asked' = asked + 1 /\ peer' = asked'
          /\ alive' = (alive \ {peer}) \union {asked'} /\ known' = known \union {asked'}
      BY <1>3 DEF Renamed
    <2>2. asked' \in Nat \ {0} /\ asked' \notin making /\ making \subseteq 1 .. asked'
      BY <1>1, <2>1
    <2>. QED  BY <1>1, <1>3, <2>1, <2>2
  <1>. QED  BY <1>2, <1>3 DEF SameOrRenamed

\* Starts, answers, deaths and the stages of a stop keep it.
LEMMA TransportsStep ==
  ASSUME TransportsInv, [TransportsNext]_transportsVars
  PROVE  TransportsInv'
  <1> USE TransportsAssumption DEF TransportsInv, TransportTypes, StopInv, PeerInv,
          OnlyGreetedAnswer, NothingRuns, outside
  <1>1. CASE UNCHANGED transportsVars
    BY <1>1 DEF transportsVars
  <1>2. CASE StartTransport
    <2>1. TransportTypes'
      <3>1. asked' \in Nat /\ runner' \in Nat /\ making' \subseteq Nat \ {0}
        BY <1>2, SpawnedTypes DEF StartTransport
      <3>. QED  BY <1>2, <3>1 DEF StartTransport
    <2>2. StopInv'
      BY <1>2 DEF StartTransport, Spawned
    <2>3. PeerInv'
      <3>1. making' \subseteq 1 .. asked'
        <4>1. CASE wire = "docker"
          BY <1>2, <4>1, SpawnedTypes DEF StartTransport
        <4>2. CASE wire # "docker"
          BY <1>2, <4>2 DEF StartTransport
        <4>. QED  BY <4>1, <4>2
      <3>. QED  BY <1>2, <3>1 DEF StartTransport, Spawned
    <2>4. OnlyGreetedAnswer' /\ NothingRuns'
      BY <1>2 DEF StartTransport, Spawned
    <2>5. (closing = "stopped" => known \intersect alive = {})'
      BY <1>2 DEF StartTransport, Spawned
    <2>. QED  BY <2>1, <2>2, <2>3, <2>4, <2>5
  <1>3. CASE StopBegins
    BY <1>3 DEF StopBegins, Failed, InFlight
  <1>4. CASE ProcessStops
    BY <1>4 DEF ProcessStops, StillToReap, BoxMayEnd, NamedAtEnd, Failed, InFlight
  <1>5. CASE Reaped
    BY <1>5 DEF Reaped, BoxMayEnd
  <1>6. CASE FlightEnds
    BY <1>6 DEF FlightEnds, Quiet, InFlight, InStart
  <1>7. CASE SessionEnds
    <2>1. /\ closing = "session" /\ wire = "http" /\ cutOff /\ closing' \in {"stopped", "kept", "failed"}
          /\ closing' = "stopped" => alive' = alive \ {peer} /\ peer' = 0
          /\ closing' # "stopped" => UNCHANGED <<peer, alive>>
          /\ UNCHANGED <<wire, opening, cutOff, ask, by, asked, making, box, runner, greeted, known>>
      BY <1>7 DEF SessionEnds
    <2>2. TransportTypes'
      <3>1. alive \subseteq Nat \ {0} /\ peer \in Nat
        OBVIOUS
      <3>2. alive' \subseteq alive /\ peer' \in {peer, 0}
        BY <2>1
      <3>3. alive' \subseteq Nat \ {0} /\ peer' \in Nat
        BY <3>1, <3>2
      <3>. QED  BY <2>1, <3>3
    <2>5. StopInv'
      BY <2>1
    <2>3. PeerInv'
      BY <2>1
    <2>4. OnlyGreetedAnswer' /\ NothingRuns' /\ (closing = "stopped" => known \intersect alive = {})'
      BY <2>1
    <2>. QED  BY <2>2, <2>3, <2>4, <2>5
  <1>8. ASSUME NEW k \in 1 .. MaxPeers, DaemonMakes(k)
        PROVE  TransportsInv'
    BY <1>8 DEF DaemonMakes, ClientIsGone, Failed, InFlight
  <1>9. ASSUME NEW k \in 1 .. MaxPeers, ServerMakes(k)
        PROVE  TransportsInv'
    BY <1>9 DEF ServerMakes
  <1>10. CASE DaemonRuns
    BY <1>10 DEF DaemonRuns
  <1>11. CASE ServerDies
    BY <1>11 DEF ServerDies, ClientIsGone, BoxMayEnd, NamedAtEnd, Failed, InFlight
  <1>12. CASE CancelOverStdio
    BY <1>12 DEF CancelOverStdio, ClientIsGone, BoxMayEnd, NamedAtEnd, Failed, InFlight
  <1>13. CASE InitializeOverStdio
    <2>1. TransportTypes'
      <3>1. /\ UNCHANGED <<wire, by, closing, asked, making, known, alive>>
            /\ runner' \in Nat /\ peer' \in Nat
        BY <1>13 DEF InitializeOverStdio, ClientIsGone, NamedAtEnd
      <3>2. /\ opening' \in {"failed", "open"}
            /\ ask' \in [Asks -> {"new", "sent", "answered", "failed"}]
            /\ box' \in {"none", "created", "running", "exited"}
        BY <1>13 DEF InitializeOverStdio, ClientIsGone, BoxMayEnd, Failed, InFlight
      <3>3. greeted' \subseteq Nat
        BY <1>13 DEF InitializeOverStdio
      <3>. QED  BY <3>1, <3>2, <3>3
    <2>2. StopInv'
      BY <1>13 DEF InitializeOverStdio, ClientIsGone, BoxMayEnd, NamedAtEnd, Failed, InFlight
    <2>3. PeerInv'
      BY <1>13 DEF InitializeOverStdio, ClientIsGone, BoxMayEnd, NamedAtEnd, Failed, InFlight
    <2>4. OnlyGreetedAnswer' /\ NothingRuns'
      BY <1>13 DEF InitializeOverStdio, ClientIsGone, BoxMayEnd, NamedAtEnd, Failed, InFlight
    <2>5. (closing = "stopped" => known \intersect alive = {})'
      BY <1>13 DEF InitializeOverStdio, ClientIsGone, BoxMayEnd, NamedAtEnd, Failed, InFlight
    <2>. QED  BY <2>1, <2>2, <2>3, <2>4, <2>5
  <1>14. CASE Notified
    <2>1. /\ opening = "notify" /\ opening' = "open" /\ ~cutOff /\ peer # 0 /\ closing = "no"
          /\ peer' \in greeted' /\ UNCHANGED <<wire, cutOff, ask, by, closing, making, box, runner>>
          /\ Renamed \/ UNCHANGED <<asked, peer, known, alive>>
          /\ greeted' = greeted \union {peer'}
      BY <1>14 DEF Notified
    <2>2. /\ asked' \in Nat /\ peer' \in Nat \ {0} /\ greeted' \subseteq Nat
          /\ greeted \subseteq greeted'
          /\ known' \subseteq Nat \ {0} /\ alive' \subseteq Nat \ {0}
          /\ making \subseteq 1 .. asked' /\ making \intersect known' = {}
          /\ known' \intersect alive' \subseteq {peer'}
          /\ wire = "docker" => UNCHANGED <<known, alive>>
      BY <2>1, AnswersName
    <2>3. TransportTypes'
      BY <2>1, <2>2
    <2>4. StopInv'
      BY <2>1
    <2>5. PeerInv'
      BY <2>1, <2>2
    <2>6. OnlyGreetedAnswer' /\ NothingRuns' /\ (closing = "stopped" => known \intersect alive = {})'
      BY <2>1, <2>2
    <2>. QED  BY <2>3, <2>4, <2>5, <2>6
  <1>15. CASE ServerForgets
    BY <1>15 DEF ServerForgets
  <1>16. CASE StartFailsOverHttp
    BY <1>16 DEF StartFailsOverHttp, KeptWithStart, InStart
  <1>17. ASSUME NEW c \in Asks, AskServer(c)
         PROVE  TransportsInv'
    <2>1. TransportTypes'
      <3>1. asked' \in Nat /\ runner' \in Nat /\ making' \subseteq Nat \ {0}
        BY <1>17, SpawnedTypes DEF AskServer
      <3>2. /\ ask' \in [Asks -> {"new", "sent", "answered", "failed"}]
            /\ UNCHANGED <<wire, opening, by, closing, peer, box, greeted, known, alive>>
        BY <1>17 DEF AskServer, Failed
      <3>. QED  BY <3>1, <3>2
    <2>2. StopInv'
      BY <1>17 DEF AskServer, Spawned, Failed
    <2>3. PeerInv'
      <3>1. making' \subseteq 1 .. asked'
        BY <1>17, SpawnedTypes DEF AskServer
      <3>2. /\ UNCHANGED <<wire, opening, closing, peer, box, greeted, known, alive>>
            /\ closing \in {"no", "flight"} /\ (wire = "http" => UNCHANGED runner)
            /\ making' \intersect known = {}
        BY <1>17 DEF AskServer, Spawned
      <3>. QED  BY <3>1, <3>2
    <2>4. OnlyGreetedAnswer' /\ NothingRuns'
      BY <1>17 DEF AskServer, Spawned, Failed
    <2>5. (closing = "stopped" => known \intersect alive = {})'
      BY <1>17 DEF AskServer, Spawned, Failed
    <2>. QED  BY <2>1, <2>2, <2>3, <2>4, <2>5
  <1>18. ASSUME NEW c \in Asks, ServerAnswers(c)
         PROVE  TransportsInv'
    <2>1. /\ ask[c] = "sent" /\ ~cutOff /\ opening = "open" /\ closing = "no"
          /\ peer # 0 /\ peer \in greeted
          /\ ask' = [ask EXCEPT ![c] = "answered"] /\ by' = [by EXCEPT ![c] = peer]
          /\ SameOrRenamed
          /\ UNCHANGED <<wire, opening, cutOff, closing, making, box, runner>>
      BY <1>18 DEF ServerAnswers, InFlight
    <2>2. /\ asked' \in Nat /\ peer' \in Nat \ {0} /\ greeted' \subseteq Nat
          /\ greeted \subseteq greeted' /\ peer' \in greeted'
          /\ known' \subseteq Nat \ {0} /\ alive' \subseteq Nat \ {0}
          /\ making \subseteq 1 .. asked' /\ making \intersect known' = {}
          /\ known' \intersect alive' \subseteq {peer'}
          /\ wire = "docker" => UNCHANGED <<known, alive>>
      BY <2>1, AnswersName
    <2>3. /\ ask' \in [Asks -> {"new", "sent", "answered", "failed"}] /\ by' \in [Asks -> Nat]
          /\ \A d \in Asks : d # c => ask'[d] = ask[d] /\ by'[d] = by[d]
          /\ ask'[c] = "answered" /\ by'[c] = peer
      BY <2>1
    <2>4. TransportTypes'
      BY <2>1, <2>2, <2>3
    <2>5. StopInv'
      BY <2>1, <2>3
    <2>6. PeerInv'
      BY <2>1, <2>2
    <2>7. OnlyGreetedAnswer' /\ NothingRuns' /\ (closing = "stopped" => known \intersect alive = {})'
      BY <2>1, <2>2, <2>3
    <2>. QED  BY <2>4, <2>5, <2>6, <2>7
  <1>19. ASSUME NEW c \in Asks, AskFailsOverHttp(c)
         PROVE  TransportsInv'
    <2>1. /\ ask[c] = "sent" /\ wire = "http" /\ ask' = Failed({c})
          /\ UNCHANGED <<wire, opening, cutOff, by, closing, making, box, runner>>
      BY <1>19 DEF AskFailsOverHttp, InFlight
    <2>2. /\ ask' \in [Asks -> {"new", "sent", "answered", "failed"}]
          /\ \A d \in Asks : ask'[d] \in {ask[d], "failed"}
      BY <2>1 DEF Failed
    <2>3. CASE UNCHANGED <<asked, peer, greeted, known, alive>>
      BY <2>1, <2>2, <2>3
    <2>4. CASE ~cutOff /\ peer \in alive /\ SameOrRenamed
      <3>1. opening = "open" /\ closing = "no" /\ peer # 0 /\ peer \in greeted
        BY <2>1, <2>4
      <3>2. /\ asked' \in Nat /\ peer' \in Nat \ {0} /\ greeted' \subseteq Nat
            /\ greeted \subseteq greeted' /\ peer' \in greeted'
            /\ known' \subseteq Nat \ {0} /\ alive' \subseteq Nat \ {0}
            /\ making \subseteq 1 .. asked' /\ making \intersect known' = {}
            /\ known' \intersect alive' \subseteq {peer'}
        BY <2>4, <3>1, AnswersName
      <3>3. TransportTypes' /\ StopInv'
        BY <2>1, <2>2, <3>1, <3>2
      <3>4. PeerInv'
        BY <2>1, <3>1, <3>2
      <3>5. OnlyGreetedAnswer' /\ NothingRuns' /\ (closing = "stopped" => known \intersect alive = {})'
        BY <2>1, <2>2, <3>1, <3>2
      <3>. QED  BY <3>3, <3>4, <3>5
    <2>. QED  BY <1>19, <2>3, <2>4 DEF AskFailsOverHttp
  <1>. QED
    BY <1>1, <1>2, <1>3, <1>4, <1>5, <1>6, <1>7, <1>8, <1>9, <1>10, <1>11, <1>12, <1>13,
       <1>14, <1>15, <1>16, <1>17, <1>18, <1>19 DEF TransportsNext

\* It is what the run checks.
LEMMA TransportsInvIsSound == TransportsInv => TransportsAreSound
  BY DEF TransportsInv, TransportTypes, StopInv, TransportsAreSound, NoSessionIsLeft, InFlight, InStart, Stopped

-----------------------------------------------------------------------------
(* The installation                                                           *)

\* A Manager that works owns the lock.
LockInv ==
  /\ process \in [Launches -> [Roles -> {"none", "starting", "up", "stopping", "gone"}]]
  /\ lock \in Launches \union {NoHolder}
  /\ OnlyHolderWorks

\* An export that no Manager has disturbed has read what is there, and what is there is
\* named by no row too early.
BundleInv ==
  /\ blobs \in 0 .. MaxCommits /\ rows \in 0 .. blobs
  /\ export \in [blobs : 0 .. Unread, rows : 0 .. Unread]
  /\ bundle \in [blobs : 0 .. Unread, rows : 0 .. Unread]
  /\ export # NoFiles => bundle = NoFiles
  /\ export # NoFiles /\ ~mixed =>
       export.blobs \in {blobs, Unread} /\ export.rows \in {rows, Unread}
  /\ BundleIsWhole

\* The lock, the bundle and the import together.
InstallationInv == LockInv /\ BundleInv /\ ImportReplacesNothing

\* At first nothing was launched, exported or imported.
LEMMA InstallationInitial == InstallationInit => InstallationInv
  <1> SUFFICES ASSUME InstallationInit PROVE InstallationInv
    OBVIOUS
  <1>1. LockInv
    BY DEF InstallationInit, LockInv, OnlyHolderWorks, Working, Launches, Roles
  <1>2. BundleInv
    BY InstallationAssumption DEF InstallationInit, BundleInv, BundleIsWhole, NoFiles, Unread
  <1>. QED
    BY <1>1, <1>2 DEF InstallationInit, InstallationInv, ImportReplacesNothing

\* What the launchers and their children do is about the lock, only.
LEMMA LockStep ==
  ASSUME LockInv, [InstallationNext]_installationVars
  PROVE  LockInv'
  <1> USE InstallationAssumption DEF Launches, Roles, Working
  <1>1. CASE UNCHANGED <<process, lock>>
    BY <1>1 DEF LockInv, OnlyHolderWorks
  <1>2. ASSUME NEW g \in Launches, NEW gone, stopAll(g, gone), UNCHANGED lock
        PROVE  LockInv'
    BY <1>2 DEF LockInv, OnlyHolderWorks, stopAll, Told
  <1>3. ASSUME StopLauncher, UNCHANGED lock
        PROVE  LockInv'
    BY <1>1, <1>2, <1>3 DEF StopLauncher
  <1>4. ASSUME NEW g \in Launches, Launch(g)
        PROVE  LockInv'
    BY <1>4 DEF LockInv, OnlyHolderWorks, Launch
  <1>5. ASSUME NEW g \in Launches, ManagerStarts(g)
        PROVE  LockInv'
    BY <1>5 DEF LockInv, OnlyHolderWorks, ManagerStarts, Held
  <1>6. ASSUME NEW g \in Launches, GatewayStarts(g)
        PROVE  LockInv'
    BY <1>6 DEF LockInv, OnlyHolderWorks, GatewayStarts
  <1>7. ASSUME NEW g \in Launches, NEW role \in Roles, ChildDies(g, role)
        PROVE  LockInv'
    BY <1>7 DEF LockInv, OnlyHolderWorks, ChildDies
  <1>8. ASSUME NEW g \in Launches, ManagerStops(g)
        PROVE  LockInv'
    BY <1>8 DEF LockInv, OnlyHolderWorks, ManagerStops
  <1>9. ASSUME NEW g \in Launches, GatewayStops(g)
        PROVE  LockInv'
    BY <1>9 DEF LockInv, OnlyHolderWorks, GatewayStops
  <1>10. ASSUME NEW g \in Launches, Kill(g)
         PROVE  LockInv'
    BY <1>10 DEF LockInv, OnlyHolderWorks, Kill
  <1>11. ASSUME NEW g \in Launches, NEW role \in Roles, ChildExited(g, role)
         PROVE  LockInv'
    BY <1>2, <1>11 DEF ChildExited
  <1>12. CASE \E g \in Launches : LauncherEnds(g) \/ LauncherKilled(g)
    BY <1>1, <1>12 DEF LauncherEnds, LauncherKilled
  <1>13. CASE installUserService \/ startUserService
    BY <1>1, <1>13 DEF installUserService, startUserService
  <1>14. CASE stopUserService \/ uninstallUserService
    BY <1>3, <1>14 DEF stopUserService, uninstallUserService
  <1>15. CASE \/ Promotes \/ Commits \/ BeginExport \/ EndExport
              \/ BeginImport \/ EndImport \/ ImportDies \/ TargetTaken
    BY <1>1, <1>15 DEF Promotes, Commits, BeginExport, EndExport, BeginImport, EndImport,
       ImportDies, TargetTaken, serviceVars
  <1>16. CASE UNCHANGED installationVars
    BY <1>1, <1>16 DEF installationVars
  <1>. QED
    BY <1>4, <1>5, <1>6, <1>7, <1>8, <1>9, <1>10, <1>11, <1>12, <1>13, <1>14, <1>15, <1>16
    DEF InstallationNext

\* Files are written by a Manager, and read by an export.
LEMMA BundleStep ==
  ASSUME BundleInv, [InstallationNext]_installationVars
  PROVE  BundleInv'
  <1> USE InstallationAssumption DEF NoFiles, Unread
  <1>1. CASE UNCHANGED <<blobs, rows, export, bundle, mixed>>
    BY <1>1 DEF BundleInv, BundleIsWhole
  <1>2. CASE Promotes
    <2>1. blobs' = blobs + 1 /\ blobs < MaxCommits /\ UNCHANGED <<rows, export, bundle>>
          /\ (~mixed' => ~mixed /\ export = NoFiles)
      BY <1>2 DEF Promotes, Written
    <2>. QED  BY <2>1 DEF BundleInv, BundleIsWhole
  <1>3. CASE Commits
    <2>1. rows' = rows + 1 /\ rows < blobs /\ UNCHANGED <<blobs, export, bundle>>
          /\ (~mixed' => ~mixed /\ export = NoFiles)
      BY <1>3 DEF Commits, Written
    <2>. QED  BY <2>1 DEF BundleInv, BundleIsWhole
  <1>4. CASE BeginExport
    BY <1>4 DEF BeginExport, BundleInv, BundleIsWhole
  <1>5. CASE EndExport
    BY <1>5 DEF EndExport, BundleInv, BundleIsWhole
  <1>6. CASE \/ installUserService \/ startUserService \/ stopUserService \/ uninstallUserService
             \/ BeginImport \/ EndImport \/ ImportDies \/ TargetTaken
    BY <1>1, <1>6 DEF installUserService, startUserService, stopUserService,
       uninstallUserService, BeginImport, EndImport, ImportDies, TargetTaken, archiveVars
  <1>7. CASE \E g \in Launches :
               \/ Launch(g) \/ ManagerStarts(g) \/ GatewayStarts(g) \/ ManagerStops(g)
               \/ GatewayStops(g) \/ Kill(g) \/ LauncherEnds(g) \/ LauncherKilled(g)
               \/ \E role \in Roles : ChildDies(g, role) \/ ChildExited(g, role)
    BY <1>1, <1>7 DEF Launch, ManagerStarts, GatewayStarts, ManagerStops, GatewayStops, Kill,
       LauncherEnds, LauncherKilled, ChildDies, ChildExited, archiveVars
  <1>8. CASE UNCHANGED installationVars
    BY <1>1, <1>8 DEF installationVars
  <1>. QED
    BY <1>2, <1>3, <1>4, <1>5, <1>6, <1>7, <1>8 DEF InstallationNext

\* An import replaces nothing, whoever takes its target meanwhile.
LEMMA ImportStep ==
  ASSUME ImportReplacesNothing, [InstallationNext]_installationVars
  PROVE  ImportReplacesNothing'
  BY DEF ImportReplacesNothing, InstallationNext, installationVars, archiveVars,
     installUserService, startUserService, stopUserService, uninstallUserService,
     Launch, ManagerStarts, GatewayStarts, ManagerStops, GatewayStops, Kill, LauncherEnds,
     LauncherKilled, ChildDies, ChildExited, Promotes, Commits, BeginExport, EndExport,
     BeginImport, EndImport, ImportDies, TargetTaken

-----------------------------------------------------------------------------
(* What the composition keeps                                                 *)

\* What each of the three components keeps.
AccountedInv == SupervisorInv /\ InstallationInv /\ TransportsInv

\* A step of the composition is one of a component that is in focus, or none of it.
LEMMA EachTakesItsSteps ==
  ASSUME [InterruptionsNext]_interruptionsVars
  PROVE  /\ [SupervisorNext]_supervisorVars
         /\ [InstallationNext]_installationVars
         /\ [TransportsNext]_transportsVars
         /\ [StreamNext]_streamVars /\ [TranscriptNext]_transcriptVars
  BY DEF InterruptionsNext, interruptionsVars, Others

\* All three start in it, and each keeps its own.
LEMMA AccountedStep ==
  /\ InterruptionsInit => AccountedInv
  /\ AccountedInv /\ [InterruptionsNext]_interruptionsVars => AccountedInv'
  <1>1. InterruptionsInit => AccountedInv
    BY SupervisorInitial, InstallationInitial, TransportsInitial
    DEF InterruptionsInit, AccountedInv
  <1>2. ASSUME AccountedInv, [InterruptionsNext]_interruptionsVars
        PROVE  AccountedInv'
    BY <1>2, EachTakesItsSteps, SupervisorStep, LockStep, BundleStep, ImportStep, TransportsStep
    DEF AccountedInv, InstallationInv
  <1>. QED  BY <1>1, <1>2

\* #ensureWorker, ManagerInstanceLock, McpTransport.stop: whatever fails to start or to stop,
\* a version has one worker and it is not stopped under a call; whatever dies or is killed,
\* only the Manager that owns the lock works, and a bundle of files that no Manager wrote
\* meanwhile is whole; and a stop that succeeds leaves neither process nor session, for any
\* number of calls, launches, commits and peers.
THEOREM ProcessesStayAccounted == InterruptionsSpec => []ProcessesAreAccounted
<1>1. AccountedInv => ProcessesAreAccounted
  BY SupervisorInvHasOneWorker, TransportsInvIsSound
  DEF AccountedInv, ProcessesAreAccounted, InstallationInv, InstallationIsSound, LockInv,
      BundleInv
<1> QED
  BY <1>1, AccountedStep, PTL DEF InterruptionsSpec

\* What readers of a run rely on: the window of the stream, and the transcript.
ReadersInv == StreamInv /\ TranscriptInv

\* Both start in it, and each keeps its own.
LEMMA ReadersStep ==
  /\ InterruptionsInit => ReadersInv
  /\ ReadersInv /\ [InterruptionsNext]_interruptionsVars => ReadersInv'
  <1>1. InterruptionsInit => ReadersInv
    BY StreamInitial, TranscriptStarts DEF InterruptionsInit, ReadersInv
  <1>2. ASSUME ReadersInv, [InterruptionsNext]_interruptionsVars
        PROVE  ReadersInv'
    BY <1>2, EachTakesItsSteps, StreamStep, TranscriptStep DEF ReadersInv
  <1>. QED  BY <1>1, <1>2

\* #appendAgentEvent, loadSession, steerRun, subagent_wait and the event stream: a client
\* that resumes misses no event of a run, and the model of a run is told what the session
\* kept and it said itself, in that order, each call answered before the next turn and
\* each wait with the last word of the child, for any number of runs, messages and events.
THEOREM ReadersAlwaysSeeTheRun == InterruptionsSpec => []ReadersSeeTheRun
<1>1. ReadersInv => ReadersSeeTheRun
  BY TranscriptSound DEF ReadersInv, ReadersSeeTheRun, StreamInv
<1> QED
  BY <1>1, ReadersStep, PTL DEF InterruptionsSpec
=============================================================================
