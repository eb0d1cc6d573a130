----------------------------- MODULE Installation -----------------------------
(* One installation on a machine: the unit of the user service, the launcher  *)
(* that it starts with a Manager and a Gateway, the files that the Manager    *)
(* writes, and the bundles that the operator exports from them and imports    *)
(* into another directory.  The instance lock is taken in one step here.      *)
EXTENDS Naturals

CONSTANTS
  MaxLaunches, MaxCommits,  \* for the bound
  NoHolder

ASSUME InstallationAssumption ==
  MaxLaunches \in Nat /\ MaxCommits \in Nat /\ NoHolder \notin Nat

VARIABLES
  unit, wanted,     \* the unit is installed; the service manager keeps it running
  launcher, process,  \* the launchers, one after the other, and their children
  lock,             \* the launch whose Manager owns manager.lock
  blobs, rows,      \* artifacts promoted, and rows committed that name them
  export, bundle,   \* what an export has read so far; the bundle
  mixed,             \* a Manager wrote while the bundle was read
  import, target,   \* an import under way; the directory that it restores
  found             \* another installation was made in that directory

installationVars ==
  <<unit, wanted, launcher, process, lock, blobs, rows, export, bundle, mixed, import, target,
    found>>
serviceVars == <<unit, wanted, launcher, process, lock>>
archiveVars == <<export, bundle, mixed, import, target, found>>

Launches == 1 .. MaxLaunches
Roles    == {"manager", "gateway"}
Working  == {"up", "stopping"}
Unread   == MaxCommits + 1
NoFiles  == [blobs |-> Unread, rows |-> Unread]

InstallationInit ==
  /\ unit = FALSE /\ wanted = FALSE
  /\ launcher = [g \in Launches |-> "none"]
  /\ process = [g \in Launches |-> [role \in Roles |-> "none"]]
  /\ lock = NoHolder
  /\ blobs = 0 /\ rows = 0
  /\ export = NoFiles /\ bundle = NoFiles /\ mixed = FALSE
  /\ import = "none" /\ target = "absent" /\ found = FALSE

-----------------------------------------------------------------------------
(* lite service: the unit file is written first; the command may fail after it. *)

installUserService ==
  /\ unit' = TRUE /\ wanted' \in {wanted, TRUE}
  /\ UNCHANGED <<launcher, process, lock, blobs, rows, archiveVars>>

startUserService ==
  /\ unit /\ wanted' = TRUE
  /\ UNCHANGED <<unit, launcher, process, lock, blobs, rows, archiveVars>>

\* SIGTERM and SIGINT, or the exit of one: the children that run are told to stop;
\* those that still start have no handler and die.
Told(g, gone) ==
  [role \in Roles |->
     IF role = gone \/ process[g][role] = "starting" THEN "gone"
     ELSE IF process[g][role] = "up" THEN "stopping" ELSE process[g][role]]

stopAll(g, gone) ==
  /\ launcher' = [launcher EXCEPT ![g] = "stopping"]
  /\ process' = [process EXCEPT ![g] = Told(g, gone)]

\* The service manager stops what it started.
StopLauncher ==
  IF \E g \in Launches : launcher[g] = "up"
  THEN \E g \in Launches : launcher[g] = "up" /\ stopAll(g, "none")
  ELSE UNCHANGED <<launcher, process>>

stopUserService ==
  /\ unit /\ wanted /\ wanted' = FALSE
  /\ StopLauncher
  /\ UNCHANGED <<unit, lock, blobs, rows, archiveVars>>

uninstallUserService ==
  /\ unit /\ unit' = FALSE /\ wanted' = FALSE
  /\ StopLauncher
  /\ UNCHANGED <<lock, blobs, rows, archiveVars>>

\* Restart=on-failure, KeepAlive, RestartOnFailure: a launcher that is gone comes again.
Restarts(g) ==
  wanted /\ launcher[g] = "none" /\ \A h \in 1 .. g - 1 : launcher[h] \in {"gone", "killed"}

Launch(g) ==
  /\ Restarts(g)
  /\ launcher' = [launcher EXCEPT ![g] = "up"]
  /\ process' = [process EXCEPT ![g] = [role \in Roles |-> "starting"]]
  /\ UNCHANGED <<unit, wanted, lock, blobs, rows, archiveVars>>

-----------------------------------------------------------------------------
(* The launcher and its children. *)

\* The owner of the lock is alive.
Held == lock # NoHolder /\ process[lock]["manager"] \in Working

\* Mutant: a lock with an owner that lives is taken.
ManagerStartsAnyway(g) ==
  /\ process[g]["manager"] = "starting"
  /\ process' = [process EXCEPT ![g]["manager"] = "up"] /\ lock' = g
  /\ UNCHANGED <<unit, wanted, launcher, blobs, rows, archiveVars>>

ManagerStarts(g) ==
  /\ process[g]["manager"] = "starting"
  /\ IF Held
     THEN process' = [process EXCEPT ![g]["manager"] = "gone"] /\ UNCHANGED lock
     ELSE process' = [process EXCEPT ![g]["manager"] = "up"] /\ lock' = g
  /\ UNCHANGED <<unit, wanted, launcher, blobs, rows, archiveVars>>

GatewayStarts(g) ==
  /\ process[g]["gateway"] = "starting"
  /\ process' = [process EXCEPT ![g]["gateway"] =
       IF \E h \in Launches : process[h]["gateway"] \in Working THEN "gone" ELSE "up"]
  /\ UNCHANGED <<unit, wanted, launcher, lock, blobs, rows, archiveVars>>

ChildDies(g, role) ==
  /\ process[g][role] \in {"starting", "up", "stopping"}
  /\ process' = [process EXCEPT ![g][role] = "gone"]
  /\ UNCHANGED <<unit, wanted, launcher, lock, blobs, rows, archiveVars>>

\* Mutant: the launcher goes on without the child.
ChildExitedAlone(g, role) ==
  /\ launcher[g] = "up" /\ process[g][role] = "gone"
  /\ UNCHANGED installationVars

\* The exit handler of a child.
ChildExited(g, role) ==
  /\ launcher[g] = "up" /\ process[g][role] = "gone"
  /\ stopAll(g, role)
  /\ UNCHANGED <<unit, wanted, lock, blobs, rows, archiveVars>>

\* shutdownManagerStages: every stage is tried, and the lock is the last.
ManagerStops(g) ==
  /\ process[g]["manager"] = "stopping"
  /\ process' = [process EXCEPT ![g]["manager"] = "gone"]
  /\ lock' = IF lock = g THEN NoHolder ELSE lock
  /\ UNCHANGED <<unit, wanted, launcher, blobs, rows, archiveVars>>

GatewayStops(g) ==
  /\ process[g]["gateway"] = "stopping"
  /\ process' = [process EXCEPT ![g]["gateway"] = "gone"]
  /\ UNCHANGED <<unit, wanted, launcher, lock, blobs, rows, archiveVars>>

\* Ten seconds after stopAll: SIGKILL.
Kill(g) ==
  /\ launcher[g] = "stopping" /\ \E role \in Roles : process[g][role] # "gone"
  /\ process' = [process EXCEPT ![g] = [role \in Roles |-> "gone"]]
  /\ UNCHANGED <<unit, wanted, launcher, lock, blobs, rows, archiveVars>>

LauncherEnds(g) ==
  /\ launcher[g] = "stopping" /\ \A role \in Roles : process[g][role] = "gone"
  /\ launcher' = [launcher EXCEPT ![g] = "gone"]
  /\ UNCHANGED <<unit, wanted, process, lock, blobs, rows, archiveVars>>

\* Its children live on.
LauncherKilled(g) ==
  /\ launcher[g] \in {"up", "stopping"}
  /\ launcher' = [launcher EXCEPT ![g] = "killed"]
  /\ UNCHANGED <<unit, wanted, process, lock, blobs, rows, archiveVars>>

-----------------------------------------------------------------------------
(* The files: an artifact is promoted before its row is committed. *)

Written == mixed' = (mixed \/ export # NoFiles)

Promotes ==
  /\ Held /\ blobs = rows /\ blobs < MaxCommits
  /\ blobs' = blobs + 1 /\ Written
  /\ UNCHANGED <<serviceVars, rows, export, bundle, import, target, found>>

\* Mutant: the row is committed before its artifact is promoted.
CommitsFirst ==
  /\ Held /\ rows = blobs /\ rows < MaxCommits
  /\ rows' = rows + 1 /\ Written
  /\ UNCHANGED <<serviceVars, blobs, export, bundle, import, target, found>>

Commits ==
  /\ Held /\ rows < blobs
  /\ rows' = rows + 1 /\ Written
  /\ UNCHANGED <<serviceVars, blobs, export, bundle, import, target, found>>

\* recovery export: the files one after the other, whatever runs meanwhile.
BeginExport ==
  /\ export = NoFiles /\ bundle = NoFiles
  /\ \/ export' = [NoFiles EXCEPT !.blobs = blobs]
     \/ export' = [NoFiles EXCEPT !.rows = rows]
  /\ mixed' = FALSE
  /\ UNCHANGED <<serviceVars, blobs, rows, bundle, import, target, found>>

EndExport ==
  /\ export # NoFiles
  /\ bundle' = [blobs |-> IF export.blobs = Unread THEN blobs ELSE export.blobs,
                rows  |-> IF export.rows = Unread THEN rows ELSE export.rows]
  /\ export' = NoFiles
  /\ UNCHANGED <<serviceVars, blobs, rows, mixed, import, target, found>>

\* A copy of the bundle is parsed, decrypted and compared with its manifest.
Authentic(copy) == copy = "whole"

\* recovery import: authenticated, then written beside the target.
BeginImport ==
  /\ \E copy \in {"whole", "damaged"} : Authentic(copy)
  /\ bundle # NoFiles /\ import = "none" /\ target = "absent"
  /\ import' = "staged"
  /\ UNCHANGED <<serviceVars, blobs, rows, export, bundle, mixed, target, found>>

\* Mutant: a directory made meanwhile is replaced.
EndImportAnyway ==
  /\ import = "staged"
  /\ target' = "restored" /\ import' = "none"
  /\ UNCHANGED <<serviceVars, blobs, rows, export, bundle, mixed, found>>

\* The directory takes its name in one step, unless the name was taken meanwhile.
EndImport ==
  /\ import = "staged"
  /\ target' = IF target = "absent" THEN "restored" ELSE target
  /\ import' = "none"
  /\ UNCHANGED <<serviceVars, blobs, rows, export, bundle, mixed, found>>

\* The import dies and leaves its staging directory.
ImportDies ==
  /\ import = "staged" /\ import' = "dead"
  /\ UNCHANGED <<serviceVars, blobs, rows, export, bundle, mixed, target, found>>

\* Another installation is made in the target.
TargetTaken ==
  /\ target = "absent" /\ target' = "other" /\ found' = TRUE
  /\ UNCHANGED <<serviceVars, blobs, rows, export, bundle, mixed, import>>

InstallationNext ==
  \/ installUserService \/ startUserService \/ stopUserService \/ uninstallUserService
  \/ \E g \in Launches :
       \/ Launch(g) \/ ManagerStarts(g) \/ GatewayStarts(g) \/ ManagerStops(g)
       \/ GatewayStops(g) \/ Kill(g) \/ LauncherEnds(g) \/ LauncherKilled(g)
       \/ \E role \in Roles : ChildDies(g, role) \/ ChildExited(g, role)
  \/ Promotes \/ Commits \/ BeginExport \/ EndExport
  \/ BeginImport \/ EndImport \/ ImportDies \/ TargetTaken

\* The exit of a child is seen, and the timer of stopAll fires; neither a clean stop
\* nor a restart is promised.
InstallationFairness ==
  \A g \in Launches :
    /\ WF_installationVars(\E role \in Roles : ChildExited(g, role))
    /\ WF_installationVars(Kill(g)) /\ WF_installationVars(LauncherEnds(g))

-----------------------------------------------------------------------------
\* The lock: only the Manager that owns it works, through launchers that die and
\* restarts beside the children they left.
OnlyHolderWorks ==
  \A g \in Launches : process[g]["manager"] \in Working => lock = g

\* createInstallationRecoveryBundle of an installation that no Manager wrote meanwhile,
\* stopped or crashed before: every artifact that a row names is in it.
BundleIsWhole == bundle # NoFiles /\ ~mixed => bundle.rows <= bundle.blobs

\* restoreRecoveryBundle: an installation is never replaced.
ImportReplacesNothing == found => target = "other"

\* The installation: OnlyHolderWorks, BundleIsWhole, ImportReplacesNothing.
InstallationIsSound == OnlyHolderWorks /\ BundleIsWhole /\ ImportReplacesNothing

\* stopAll: a launcher that lives does not leave one child without the other.
FallsTogether ==
  \A g \in Launches :
    /\ launcher[g] # "stopping"
    /\ launcher[g] = "up" => \A role \in Roles : process[g][role] # "gone"
=============================================================================
