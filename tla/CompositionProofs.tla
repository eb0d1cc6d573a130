------------------------- MODULE CompositionProofs -------------------------
(* Proofs about the composition MCServices: versions and packages of plugins, *)
(* what a run of an undisturbed workspace starts from, the generations of a   *)
(* workspace, and the secrets, tokens and connections that open the way in,   *)
(* for every number of versions, packages, runs, tools, processes and users;  *)
(* what its stores keep, what its budgets add up to, and the types of all.    *)
EXTENDS WorkspaceProofs, ServiceProofs, MCServices

-----------------------------------------------------------------------------
(* The versions of one plugin                                                 *)

\* A version that waits for its activation is not verified yet, and a rollback goes to a
\* version that can run.
TaskInv ==
  /\ task.kind # "stop" => task.targets = {} /\ task.run = {}
  /\ task.kind \in {"install", "migrate", "verify", "switch"} =>
       task.version \in Versions /\ packages[task.version] \in {"staging", "activation-pending"}
  /\ task.kind = "rollback" =>
       /\ task.version \in Versions /\ packages[task.version] = "verified"
       /\ task.version \notin debts

\* Workers and debts are of versions that are installed, and no pinned version is in debt.
WorkersInv ==
  /\ \A v \in workers \union debts : packages[v] = "verified"
  /\ debts \intersect PinnedBy(PluginRuns) = {}

\* The inductive invariant of the versions.
VersionsInv == PluginTypeOK /\ TaskInv /\ WorkersInv /\ PackagesFollowReferences

\* At first nothing is installed.
LEMMA VersionsInitial == PluginInit => VersionsInv
  BY PluginAssumption DEF PluginInit, VersionsInv, PluginTypeOK, TaskInv, WorkersInv,
     PackagesFollowReferences, ReferencedPackagesStay, OnlyRetiredIsStopped, PinnedBy,
     Active, Idle, Tasks

\* Every operation keeps it.
LEMMA VersionsStep ==
  ASSUME VersionsInv, [PluginNext]_pluginVars
  PROVE  VersionsInv'
  <1> USE PluginAssumption DEF VersionsInv, PluginTypeOK, TaskInv, WorkersInv,
          PackagesFollowReferences, ReferencedPackagesStay, OnlyRetiredIsStopped, PinnedBy,
          Active, Idle, Tasks, files, runPins
  <1>1. CASE UNCHANGED pluginVars
    BY <1>1 DEF pluginVars
  <1>2. ASSUME NEW v \in Versions, InstallKnown(v)
        PROVE  VersionsInv'
    BY <1>2 DEF InstallKnown
  <1>3. ASSUME NEW v \in Versions, InstallPlugin(v)
        PROVE  VersionsInv'
    BY <1>3 DEF InstallPlugin, Does
  <1>4. ASSUME NEW v \in Versions, EnablePlugin(v)
        PROVE  VersionsInv'
    BY <1>4 DEF EnablePlugin, CanRun, Activated
  <1>5. ASSUME NEW v \in Versions, UpgradePlugin(v)
        PROVE  VersionsInv'
    BY <1>5 DEF UpgradePlugin, Does
  <1>6. ASSUME NEW v \in Versions, WorkerStopsIdle(v)
        PROVE  VersionsInv'
    BY <1>6 DEF WorkerStopsIdle
  <1>7. ASSUME NEW v \in Versions, RetryCleanup(v)
        PROVE  VersionsInv'
    BY <1>7 DEF RetryCleanup, Stops
  <1>8. ASSUME NEW v \in Versions, UninstallPlugin(v)
        PROVE  VersionsInv'
    <2>1. PluginTypeOK'
      BY <1>8 DEF UninstallPlugin, Uninstallable
    <2>2. TaskInv'
      BY <1>8 DEF UninstallPlugin, Uninstallable
    <2>3. WorkersInv'
      BY <1>8 DEF UninstallPlugin, Uninstallable
    <2>4. ReferencedPackagesStay' /\ OnlyRetiredIsStopped'
      BY <1>8 DEF UninstallPlugin, Uninstallable
    <2>. QED  BY <2>1, <2>2, <2>3, <2>4
  <1>9. ASSUME NEW ok \in BOOLEAN, InstallEnds(ok)
        PROVE  VersionsInv'
    BY <1>9 DEF InstallEnds
  <1>10. ASSUME NEW ok \in BOOLEAN, RollbackEnds(ok)
        PROVE  VersionsInv'
    BY <1>10 DEF RollbackEnds, Current
  <1>11. ASSUME NEW ok \in BOOLEAN, UpgradeMigrates(ok)
        PROVE  VersionsInv'
    BY <1>11 DEF UpgradeMigrates
  <1>12. CASE UpgradeVerifies
    BY <1>12 DEF UpgradeVerifies
  <1>13. CASE UpgradeSwitches
    BY <1>13 DEF UpgradeSwitches, Activated
  <1>14. CASE UpgradeFails
    BY <1>14 DEF UpgradeFails
  <1>15. CASE RollbackPlugin
    BY <1>15 DEF RollbackPlugin, CanRun, Does
  <1>16. ASSUME NEW r \in PluginRuns, PinRun(r)
        PROVE  VersionsInv'
    BY <1>16 DEF PinRun
  <1>17. ASSUME NEW r \in PluginRuns, InvokePlugin(r)
        PROVE  VersionsInv'
    BY <1>17 DEF InvokePlugin
  <1>18. ASSUME NEW r \in PluginRuns, ReleaseRun(r)
        PROVE  VersionsInv'
    BY <1>18 DEF ReleaseRun, Retired, Stops
  <1>19. CASE DisablePlugin
    <2>1. PluginTypeOK'
      BY <1>19 DEF DisablePlugin, Stops
    <2>2. TaskInv'
      BY <1>19 DEF DisablePlugin, Stops
    <2>3. WorkersInv'
      BY <1>19 DEF DisablePlugin, Stops
    <2>4. ReferencedPackagesStay' /\ OnlyRetiredIsStopped'
      BY <1>19 DEF DisablePlugin, Stops
    <2>. QED  BY <2>1, <2>2, <2>3, <2>4
  <1>20. ASSUME NEW failed \in SUBSET Versions, StopEnds(failed)
        PROVE  VersionsInv'
    BY <1>20 DEF StopEnds
  <1>21. CASE StopUnrecorded
    BY <1>21 DEF StopUnrecorded
  <1>22. CASE RestartPlugins
    BY <1>22 DEF RestartPlugins, Incomplete
  <1> HIDE DEF VersionsInv, pluginVars
  <1>. QED
    BY <1>1, <1>2, <1>3, <1>4, <1>5, <1>6, <1>7, <1>8, <1>9, <1>10, <1>11, <1>12, <1>13, <1>14,
       <1>15, <1>16, <1>17, <1>18, <1>19, <1>20, <1>21, <1>22
    DEF PluginNext

-----------------------------------------------------------------------------
(* The packages of several plugins                                            *)

Startup == {"reconcile", "orphans", "load", "refused"}
Changes == {"install", "upgrade", "register", "activate"}

\* Types, and the versions that the lockfile refers to are verified ones of their plugin.
LockInv ==
  /\ objects \subseteq Packages
  /\ entries \in [Packages -> {"absent", "staging", "activation-pending", "verified"}]
  /\ generations \in [PluginIds -> [active   : Packages \union {NoPackage},
                                    previous : Packages \union {NoPackage},
                                    resume   : Packages \union {NoPackage}]]
  /\ \A i \in PluginIds :
       /\ \A p \in {generations[i].active, generations[i].previous, generations[i].resume} :
            p # NoPackage => PluginOf[p] = i /\ entries[p] = "verified"
       /\ NoPackage \in {generations[i].active, generations[i].resume}

\* The operation and the package it is about.
ChangeInv ==
  /\ change \in [kind : {"resting", "switch", "rollback", "remove"} \union Changes \union Startup,
                 package : Packages \union {NoPackage}, created : SUBSET ToolNames]
  /\ change.kind \in Changes => change.package \in Packages \intersect objects
  /\ change.kind \in {"install", "upgrade"} => entries[change.package] \in {"absent", "staging"}
  /\ change.kind \in {"register", "activate"} => entries[change.package] = "activation-pending"
  /\ change.kind \in {"switch", "rollback"} =>
       change.package \in Packages /\ entries[change.package] = "verified"
  /\ change.kind = "remove" => change.package \in Packages /\ entries[change.package] = "absent"
  /\ change.created # {} => change.kind \in {"switch", "rollback", "activate"}

\* A tree or an entry that is left over is that of the operation, or of one that died.
TreesInv ==
  /\ Installed \subseteq objects
  /\ change.kind \in {"resting", "switch", "rollback", "load"} => objects \subseteq Installed
  /\ change.kind \in {"remove"} \union Changes =>
       objects \subseteq Installed \union {change.package}
  /\ change.kind \in Changes => Unfinished \subseteq {change.package}
  /\ change.kind \notin {"reconcile", "refused"} \union Changes => Unfinished = {}

\* The tools of a package can be registered, and are.
Registrable(p) ==
  (\A t \in GrantOf(p) : t \notin HostTools) /\ (p \in DataOnly => GrantOf(p) = {})
OwnsTools(p) == \A t \in GrantOf(p) : toolOwner[t] = PluginOf[p]
KeepsTools(p) == OwnsTools(p) /\ \A t \in GrantOf(p) : t \notin change.created

\* Active versions own their tools while the Manager runs, those of runs too, and what a
\* failure takes back belongs to neither.
OwnersInv ==
  /\ toolOwner \in [ToolNames -> PluginIds \union {NoPackage}]
  /\ \A i \in PluginIds :
       generations[i].active # NoPackage =>
         /\ Registrable(generations[i].active)
         /\ change.kind \notin Startup => KeepsTools(generations[i].active)
  /\ \A i, j \in PluginIds : \A t \in ToolNames :
       /\ generations[i].active # NoPackage /\ t \in GrantOf(generations[i].active)
       /\ generations[j].active # NoPackage /\ t \in GrantOf(generations[j].active)
       => i = j
  /\ change.kind \in {"switch", "rollback", "activate"} =>
       Registrable(change.package) /\ OwnsTools(change.package)
  /\ change.kind \in Startup => \A t \in ToolNames : toolOwner[t] = NoPackage

\* The versions that runs were prepared with.
RunsInv ==
  /\ DOMAIN runPackages = PackageRuns
  /\ \A r \in PackageRuns : \A i \in DOMAIN runPackages[r] :
       /\ i \in PluginIds /\ PluginOf[runPackages[r][i]] = i
       /\ runPackages[r][i] \in Packages /\ entries[runPackages[r][i]] = "verified"
       /\ KeepsTools(runPackages[r][i]) /\ change.kind \notin Startup

\* The inductive invariant of the packages.
PackagesInv ==
  LockInv /\ ChangeInv /\ TreesInv /\ OwnersInv /\ RunsInv /\ change.kind # "refused"

\* Tools granted to a package, and its plugin, are known.
LEMMA GrantsAreKnown ==
  ASSUME NEW p \in Packages
  PROVE  GrantOf(p) \subseteq ToolNames /\ PluginOf[p] \in PluginIds /\ PluginOf[p] # NoPackage
  BY PackageAssumption DEF ToolNames, PluginIds

\* PluginInstallLock.uninstall keeps what is active.
LEMMA WithoutForgets ==
  ASSUME LockInv, NEW p \in Packages
  PROVE  /\ Without(p) \in [PluginIds -> [active   : Packages \union {NoPackage},
                                         previous : Packages \union {NoPackage},
                                         resume   : Packages \union {NoPackage}]]
         /\ \A i \in PluginIds :
              /\ Without(p)[i].active = generations[i].active
              /\ Without(p)[i].previous \in {generations[i].previous, NoPackage} \ {p}
              /\ Without(p)[i].resume \in {generations[i].resume, NoPackage} \ {p}
  BY PackageAssumption, GrantsAreKnown DEF LockInv, Without

\* The lockfile is always valid, and an installation that was interrupted can be removed.
LEMMA LockIsValid ==
  ASSUME LockInv
  PROVE  /\ ValidLock(entries, generations)
         /\ \A p \in Unfinished : Removable(p)
  <1>1. \A p \in Refers(generations) : entries[p] # "absent"
    BY DEF LockInv, Refers
  <1>2. \A i \in PluginIds :
          /\ \A p \in {generations[i].active, generations[i].resume} \ {NoPackage} :
               entries[p] = "verified"
          /\ NoPackage \in {generations[i].active, generations[i].resume}
    BY DEF LockInv
  <1>3. \A p \in Unfinished : Removable(p)
    BY GrantsAreKnown, PackageAssumption DEF LockInv, Unfinished, Removable
  <1>. QED  BY <1>1, <1>2, <1>3 DEF ValidLock

\* #validateToolRegistrations of one package.
LEMMA OneCanRegister ==
  ASSUME NEW p \in Packages, CanRegister({p})
  PROVE  Registrable(p) /\ \A t \in GrantOf(p) : toolOwner[t] \in {NoPackage, PluginOf[p]}
  BY DEF CanRegister, NoCollision, Registrable

\* A registration takes tools that nobody has.
LEMMA RegistrationTakesFreeTools ==
  ASSUME NEW p \in Packages, CanRegister({p}), toolOwner' = RegisterTools(p),
         toolOwner \in [ToolNames -> PluginIds \union {NoPackage}]
  PROVE  /\ toolOwner' \in [ToolNames -> PluginIds \union {NoPackage}]
         /\ OwnsTools(p)'
         /\ \A t \in ToolNames : toolOwner[t] # NoPackage => toolOwner'[t] = toolOwner[t]
         /\ CreatedTools(p) \subseteq ToolNames
         /\ \A t \in CreatedTools(p) : toolOwner[t] = NoPackage
  BY OneCanRegister, GrantsAreKnown DEF RegisterTools, OwnsTools, CreatedTools

\* A disposal leaves the other tools alone.
LEMMA DisposalLeavesOthers ==
  ASSUME NEW tools, NEW owners \in [ToolNames -> PluginIds \union {NoPackage}]
  PROVE  /\ DisposeTools(tools, owners) \in [ToolNames -> PluginIds \union {NoPackage}]
         /\ \A t \in ToolNames : t \notin tools => DisposeTools(tools, owners)[t] = owners[t]
  BY DEF DisposeTools

\* #pruneToolRegistrations keeps the tools of the versions that stay.
LEMMA PruningKeepsInstalled ==
  ASSUME NEW i, NEW installs, NEW owners \in [ToolNames -> PluginIds \union {NoPackage}]
  PROVE  /\ PruneTools(i, installs, owners) \in [ToolNames -> PluginIds \union {NoPackage}]
         /\ \A q \in Packages : \A t \in GrantOf(q) :
              installs[q] # "absent" /\ owners[t] = PluginOf[q]
                => PruneTools(i, installs, owners)[t] = owners[t]
  <1> DEFINE gone == {t \in ToolNames : owners[t] = i /\ t \notin
                UNION {GrantOf(p) :
                         p \in {q \in Packages : PluginOf[q] = i /\ installs[q] # "absent"}}}
  <1>1. PruneTools(i, installs, owners) = DisposeTools(gone, owners)
    BY DEF PruneTools
  <1>2. ASSUME NEW q \in Packages, NEW t \in GrantOf(q),
               installs[q] # "absent", owners[t] = PluginOf[q]
        PROVE  t \notin gone
    BY <1>2
  <1>. HIDE DEF gone
  <1>. QED  BY <1>1, <1>2, DisposalLeavesOthers, GrantsAreKnown

\* At first nothing is installed.
LEMMA PackagesInitial == PackagesInit => PackagesInv
  <1> SUFFICES ASSUME PackagesInit PROVE PackagesInv
    OBVIOUS
  <1> USE DEF PackagesInit
  <1>1. LockInv
    BY DEF LockInv, Inactive
  <1>2. ChangeInv
    BY DEF ChangeInv, Resting, Doing, Changes
  <1>3. TreesInv
    BY DEF TreesInv, Resting, Doing, Changes, Installed, Unfinished
  <1>4. OwnersInv
    BY DEF OwnersInv, Resting, Doing, Inactive, Startup
  <1>5. RunsInv
    BY DEF RunsInv, Unpinned
  <1>. QED
    BY <1>1, <1>2, <1>3, <1>4, <1>5 DEF PackagesInv, Resting, Doing

\* Every write of a file, every registration and every restart keeps it.
LEMMA PackagesStep ==
  ASSUME PackagesInv, [PackagesNext]_packageVars
  PROVE  PackagesInv'
  <1> USE PackageAssumption, GrantsAreKnown DEF PackagesInv, LockInv, ChangeInv,
          TreesInv, Changes, Startup, Installed, Unfinished, Resting, Starting, Doing
  <1>1. CASE UNCHANGED packageVars
    BY <1>1 DEF packageVars, OwnersInv, RunsInv, KeepsTools, OwnsTools
  <1>2. ASSUME NEW p \in Packages, StageRefuses(p)
        PROVE  PackagesInv'
    <2>1. LockInv'
      BY <1>2 DEF StageRefuses
    <2>2. ChangeInv'
      BY <1>2 DEF StageRefuses
    <2>3. TreesInv'
      BY <1>2 DEF StageRefuses
    <2>4. OwnersInv'
      BY <1>2 DEF StageRefuses, OwnersInv, KeepsTools, OwnsTools
    <2>5. RunsInv'
      BY <1>2 DEF StageRefuses, OwnersInv, KeepsTools, OwnsTools, RunsInv
    <2>6. change.kind' # "refused"
      BY <1>2 DEF StageRefuses, OwnersInv
    <2>. QED  BY <2>1, <2>2, <2>3, <2>4, <2>5, <2>6
  <1>3. ASSUME NEW p \in Packages, UninstallPackage(p)
        PROVE  PackagesInv'
    <2>1. LockInv'
      BY <1>3, WithoutForgets, PruningKeepsInstalled DEF UninstallPackage, Removable, Writes
    <2>2. ChangeInv'
      BY <1>3, WithoutForgets, PruningKeepsInstalled DEF UninstallPackage, Removable, Writes
    <2>3. TreesInv'
      BY <1>3, WithoutForgets, PruningKeepsInstalled DEF UninstallPackage, Removable, Writes
    <2>4. OwnersInv'
      <3>1. /\ toolOwner' \in [ToolNames -> PluginIds \union {NoPackage}]
            /\ \A q \in Packages : \A t \in GrantOf(q) :
                 entries'[q] # "absent" /\ toolOwner[t] = PluginOf[q]
                   => toolOwner'[t] = toolOwner[t]
        BY <1>3, PruningKeepsInstalled DEF UninstallPackage, OwnersInv
      <3>2. /\ \A i \in PluginIds : generations'[i].active = generations[i].active
            /\ \A q \in Packages \ {p} : entries'[q] = entries[q]
            /\ \A i \in PluginIds : generations[i].active # p
        BY <1>3, WithoutForgets DEF UninstallPackage, Removable, Writes
      <3>3. change.kind = "resting" /\ change'.kind = "remove" /\ change'.created = {}
        BY <1>3 DEF UninstallPackage
      <3>4. \A i \in PluginIds :
              generations'[i].active # NoPackage =>
                /\ Registrable(generations'[i].active)
                /\ \A t \in GrantOf(generations'[i].active) :
                     toolOwner'[t] = PluginOf[generations'[i].active]
        BY <3>1, <3>2, <3>3 DEF OwnersInv, KeepsTools, OwnsTools
      <3>5. \A i, j \in PluginIds : \A t \in ToolNames :
              /\ generations'[i].active # NoPackage /\ t \in GrantOf(generations'[i].active)
              /\ generations'[j].active # NoPackage /\ t \in GrantOf(generations'[j].active)
              => i = j
        BY <3>2 DEF OwnersInv
      <3>. QED  BY <3>1, <3>2, <3>3, <3>4, <3>5 DEF OwnersInv, KeepsTools, OwnsTools
    <2>5. RunsInv'
      <3>1. /\ \A q \in Packages : \A t \in GrantOf(q) :
                 entries'[q] # "absent" /\ toolOwner[t] = PluginOf[q]
                   => toolOwner'[t] = toolOwner[t]
        BY <1>3, PruningKeepsInstalled DEF UninstallPackage, OwnersInv
      <3>2. /\ \A q \in Packages \ {p} : entries'[q] = entries[q]
            /\ \A r \in PackageRuns : \A i \in DOMAIN runPackages[r] : runPackages[r][i] # p
            /\ runPackages' = runPackages
        BY <1>3 DEF UninstallPackage, Removable, Writes
      <3>3. change.kind = "resting" /\ change'.kind = "remove" /\ change'.created = {}
        BY <1>3 DEF UninstallPackage
      <3>. QED  BY <3>1, <3>2, <3>3 DEF RunsInv, KeepsTools, OwnsTools
    <2>6. change.kind' # "refused"
      BY <1>3, WithoutForgets, PruningKeepsInstalled DEF UninstallPackage, Removable, Writes,
                                                         OwnersInv
    <2>. QED  BY <2>1, <2>2, <2>3, <2>4, <2>5, <2>6
  <1>4. ASSUME NEW p \in Packages, EnableTools(p)
        PROVE  PackagesInv'
    <2>1. LockInv'
      BY <1>4, OneCanRegister, RegistrationTakesFreeTools DEF EnableTools
    <2>2. ChangeInv'
      <3>1. CreatedTools(p) \in SUBSET ToolNames
        BY GrantsAreKnown DEF CreatedTools
      <3>2. /\ \/ change' = [kind |-> "resting", package |-> NoPackage, created |-> {}]
               \/ change' = [kind |-> "switch", package |-> p, created |-> CreatedTools(p)]
            /\ entries[p] = "verified" /\ entries' = entries /\ objects' = objects
        BY <1>4 DEF EnableTools
      <3>. QED  BY <3>1, <3>2
    <2>3. TreesInv'
      BY <1>4, OneCanRegister, RegistrationTakesFreeTools DEF EnableTools
    <2>4. OwnersInv'
      BY <1>4, OneCanRegister, RegistrationTakesFreeTools DEF EnableTools, OwnersInv,
                                                              KeepsTools, OwnsTools
    <2>5. RunsInv'
      BY <1>4, OneCanRegister, RegistrationTakesFreeTools DEF EnableTools, OwnersInv,
                                                              KeepsTools, OwnsTools, RunsInv
    <2>6. change.kind' # "refused"
      BY <1>4, OneCanRegister, RegistrationTakesFreeTools DEF EnableTools, OwnersInv
    <2>. QED  BY <2>1, <2>2, <2>3, <2>4, <2>5, <2>6
  <1>5. ASSUME NEW p \in Packages, NEW way \in {"install", "upgrade"}, StagePackage(p, way)
        PROVE  PackagesInv'
    <2>1. LockInv'
      BY <1>5 DEF StagePackage, StagedObjects
    <2>2. ChangeInv'
      BY <1>5 DEF StagePackage, StagedObjects
    <2>3. TreesInv'
      BY <1>5 DEF StagePackage, StagedObjects
    <2>4. OwnersInv'
      BY <1>5 DEF StagePackage, StagedObjects, OwnersInv, KeepsTools, OwnsTools
    <2>5. RunsInv'
      BY <1>5 DEF StagePackage, StagedObjects, OwnersInv, KeepsTools, OwnsTools, RunsInv
    <2>6. change.kind' # "refused"
      BY <1>5 DEF StagePackage, StagedObjects, OwnersInv
    <2>. QED  BY <2>1, <2>2, <2>3, <2>4, <2>5, <2>6
  <1>6. CASE LockPackage
    <2>1. LockInv'
      BY <1>6 DEF LockPackage, Writes
    <2>2. ChangeInv'
      BY <1>6 DEF LockPackage, Writes
    <2>3. TreesInv'
      BY <1>6 DEF LockPackage, Writes
    <2>4. OwnersInv'
      BY <1>6 DEF LockPackage, Writes, OwnersInv, KeepsTools, OwnsTools
    <2>5. RunsInv'
      BY <1>6 DEF LockPackage, Writes, OwnersInv, KeepsTools, OwnsTools, RunsInv
    <2>6. change.kind' # "refused"
      BY <1>6 DEF LockPackage, Writes, OwnersInv
    <2>. QED  BY <2>1, <2>2, <2>3, <2>4, <2>5, <2>6
  <1>7. CASE VerifyPackage
    <2>1. LockInv'
      BY <1>7 DEF VerifyPackage, Writes
    <2>2. ChangeInv'
      BY <1>7 DEF VerifyPackage, Writes
    <2>3. TreesInv'
      BY <1>7 DEF VerifyPackage, Writes
    <2>4. OwnersInv'
      BY <1>7 DEF VerifyPackage, Writes, OwnersInv, KeepsTools, OwnsTools
    <2>5. RunsInv'
      BY <1>7 DEF VerifyPackage, Writes, OwnersInv, KeepsTools, OwnsTools, RunsInv
    <2>6. change.kind' # "refused"
      BY <1>7 DEF VerifyPackage, Writes, OwnersInv
    <2>. QED  BY <2>1, <2>2, <2>3, <2>4, <2>5, <2>6
  <1>8. CASE ChangeFails
    <2>1. LockInv'
      BY <1>8, WithoutForgets, PruningKeepsInstalled, DisposalLeavesOthers DEF ChangeFails,
                                                                               TakesBack
    <2>2. ChangeInv'
      BY <1>8, WithoutForgets, PruningKeepsInstalled, DisposalLeavesOthers DEF ChangeFails,
                                                                               TakesBack
    <2>3. TreesInv'
      BY <1>8, WithoutForgets, PruningKeepsInstalled, DisposalLeavesOthers DEF ChangeFails,
                                                                               TakesBack
    <2>7. /\ toolOwner' \in [ToolNames -> PluginIds \union {NoPackage}]
          /\ \A q \in Packages : \A t \in GrantOf(q) :
               /\ entries'[q] # "absent" /\ toolOwner[t] = PluginOf[q]
               /\ t \notin change.created
               => toolOwner'[t] = toolOwner[t]
      <3> DEFINE freed == DisposeTools(change.created, toolOwner)
      <3>1. /\ freed \in [ToolNames -> PluginIds \union {NoPackage}]
            /\ \A t \in ToolNames : t \notin change.created => freed[t] = toolOwner[t]
        BY DisposalLeavesOthers DEF OwnersInv
      <3>2. \/ toolOwner' = freed
            \/ toolOwner' = PruneTools(PluginOf[change.package], entries', freed)
        BY <1>8 DEF ChangeFails, TakesBack
      <3>. HIDE DEF freed
      <3>. QED  BY <3>1, <3>2, PruningKeepsInstalled
    <2>4. OwnersInv'
      <3>1. /\ toolOwner' \in [ToolNames -> PluginIds \union {NoPackage}]
            /\ \A q \in Packages : \A t \in GrantOf(q) :
                 /\ entries'[q] # "absent" /\ toolOwner[t] = PluginOf[q]
                 /\ t \notin change.created
                 => toolOwner'[t] = toolOwner[t]
        BY <2>7
      <3>2. /\ \A i \in PluginIds : generations'[i].active = generations[i].active
            /\ \A q \in Packages \ {change.package} : entries'[q] = entries[q]
            /\ entries[change.package] # "verified"
        BY <1>8, WithoutForgets DEF ChangeFails
      <3>3. change.kind \notin Startup /\ change'.kind = "remove" /\ change'.created = {}
        BY <1>8 DEF ChangeFails
      <3>. QED  BY <3>1, <3>2, <3>3 DEF OwnersInv, KeepsTools, OwnsTools
    <2>5. RunsInv'
      <3>1. /\ \A q \in Packages \ {change.package} : entries'[q] = entries[q]
            /\ runPackages' = runPackages
        BY <1>8 DEF ChangeFails
      <3>2. \A r \in PackageRuns : \A i \in DOMAIN runPackages[r] :
              runPackages[r][i] # change.package
        BY <1>8 DEF ChangeFails, RunsInv
      <3>3. change.kind \notin Startup /\ change'.kind = "remove" /\ change'.created = {}
        BY <1>8 DEF ChangeFails
      <3>. QED  BY <2>7, <3>1, <3>2, <3>3 DEF RunsInv, KeepsTools, OwnsTools
    <2>6. change.kind' # "refused"
      BY <1>8, WithoutForgets, PruningKeepsInstalled, DisposalLeavesOthers DEF ChangeFails,
                                                                               TakesBack,
                                                                               OwnersInv
    <2>. QED  BY <2>1, <2>2, <2>3, <2>4, <2>5, <2>6
  <1>9. CASE RemoveObject
    <2>1. LockInv'
      BY <1>9 DEF RemoveObject
    <2>2. ChangeInv'
      BY <1>9 DEF RemoveObject
    <2>3. TreesInv'
      BY <1>9 DEF RemoveObject
    <2>4. OwnersInv'
      BY <1>9 DEF RemoveObject, OwnersInv, KeepsTools, OwnsTools
    <2>5. RunsInv'
      BY <1>9 DEF RemoveObject, OwnersInv, KeepsTools, OwnsTools, RunsInv
    <2>6. change.kind' # "refused"
      BY <1>9 DEF RemoveObject, OwnersInv
    <2>. QED  BY <2>1, <2>2, <2>3, <2>4, <2>5, <2>6
  <1>10. ASSUME NEW i \in PluginIds, RollbackTools(i)
        PROVE  PackagesInv'
    <2>1. LockInv'
      BY <1>10, OneCanRegister, RegistrationTakesFreeTools DEF RollbackTools
    <2>2. ChangeInv'
      <3>1. CreatedTools(generations[i].previous) \in SUBSET ToolNames
        BY <1>10, GrantsAreKnown DEF CreatedTools, RollbackTools
      <3>2. /\ change' = [kind |-> "rollback", package |-> generations[i].previous,
                          created |-> CreatedTools(generations[i].previous)]
            /\ generations[i].previous \in Packages /\ entries' = entries /\ objects' = objects
            /\ entries[generations[i].previous] = "verified"
        BY <1>10 DEF RollbackTools
      <3>. QED  BY <3>1, <3>2
    <2>3. TreesInv'
      BY <1>10, OneCanRegister, RegistrationTakesFreeTools DEF RollbackTools
    <2>4. OwnersInv'
      BY SMTT(30), <1>10, OneCanRegister, RegistrationTakesFreeTools DEF RollbackTools, OwnersInv,
                                                               KeepsTools, OwnsTools
    <2>5. RunsInv'
      BY <1>10, OneCanRegister, RegistrationTakesFreeTools DEF RollbackTools, OwnersInv,
                                                               KeepsTools, OwnsTools, RunsInv
    <2>6. change.kind' # "refused"
      BY <1>10, OneCanRegister, RegistrationTakesFreeTools DEF RollbackTools, OwnersInv
    <2>. QED  BY <2>1, <2>2, <2>3, <2>4, <2>5, <2>6
  <1>11. ASSUME NEW i \in PluginIds, DisablePackage(i)
        PROVE  PackagesInv'
    <2>1. LockInv'
      BY <1>11 DEF DisablePackage, Writes
    <2>2. ChangeInv'
      BY <1>11 DEF DisablePackage, Writes
    <2>3. TreesInv'
      BY <1>11 DEF DisablePackage, Writes
    <2>4. OwnersInv'
      BY <1>11 DEF DisablePackage, Writes, OwnersInv, KeepsTools, OwnsTools
    <2>5. RunsInv'
      BY <1>11 DEF DisablePackage, Writes, OwnersInv, KeepsTools, OwnsTools, RunsInv
    <2>6. change.kind' # "refused"
      BY <1>11 DEF DisablePackage, Writes, OwnersInv
    <2>. QED  BY <2>1, <2>2, <2>3, <2>4, <2>5, <2>6
  <1>12. CASE UpgradeTools
    <2>1. LockInv'
      BY <1>12, OneCanRegister, RegistrationTakesFreeTools DEF UpgradeTools
    <2>2. ChangeInv'
      <3>1. CreatedTools(change.package) \in SUBSET ToolNames
        BY <1>12, GrantsAreKnown DEF CreatedTools, UpgradeTools
      <3>2. /\ change' = [kind |-> "activate", package |-> change.package,
                          created |-> CreatedTools(change.package)]
            /\ change.kind = "register" /\ entries' = entries /\ objects' = objects
        BY <1>12 DEF UpgradeTools
      <3>. QED  BY <3>1, <3>2
    <2>3. TreesInv'
      BY <1>12, OneCanRegister, RegistrationTakesFreeTools DEF UpgradeTools
    <2>4. OwnersInv'
      BY <1>12, OneCanRegister, RegistrationTakesFreeTools DEF UpgradeTools, OwnersInv,
                                                               KeepsTools, OwnsTools
    <2>5. RunsInv'
      BY <1>12, OneCanRegister, RegistrationTakesFreeTools DEF UpgradeTools, OwnersInv,
                                                               KeepsTools, OwnsTools, RunsInv
    <2>6. change.kind' # "refused"
      BY <1>12, OneCanRegister, RegistrationTakesFreeTools DEF UpgradeTools, OwnersInv
    <2>. QED  BY <2>1, <2>2, <2>3, <2>4, <2>5, <2>6
  <1>13. CASE SwitchPackage
    <2>1. LockInv'
      <3> DEFINE p == change.package
                 i == PluginOf[p]
                 current == IF generations[i].active # NoPackage
                            THEN generations[i].active ELSE generations[i].resume
      <3>1. /\ p \in Packages /\ i \in PluginIds /\ objects' = objects
            /\ entries' = [entries EXCEPT ![p] = "verified"]
        BY <1>13 DEF SwitchPackage, Writes
      <3>2. \E q \in {generations[i].active, generations[i].previous,
                      generations[i].resume, NoPackage} :
              generations' = [generations EXCEPT ![i] =
                               [active |-> p, previous |-> q, resume |-> NoPackage]]
        BY <1>13 DEF SwitchPackage, Writes, ActivatedPackage
      <3>. HIDE DEF p, i
      <3>3. PluginOf[p] = i
        BY DEF i
      <3>. QED  BY <3>1, <3>2, <3>3
    <2>2. ChangeInv'
      BY <1>13 DEF SwitchPackage, Writes, ActivatedPackage
    <2>3. TreesInv'
      BY <1>13 DEF SwitchPackage, Writes, ActivatedPackage
    <2>4. OwnersInv'
      <3> DEFINE p == change.package
      <3>1. /\ p \in Packages /\ Registrable(p) /\ OwnsTools(p) /\ toolOwner' = toolOwner
            /\ change.kind \notin Startup /\ change'.kind = "resting" /\ change'.created = {}
        BY <1>13 DEF SwitchPackage, Writes, OwnersInv
      <3>2. /\ generations'[PluginOf[p]].active = p
            /\ \A i \in PluginIds :
                 i # PluginOf[p] => generations'[i].active = generations[i].active
        BY <1>13 DEF SwitchPackage, Writes, ActivatedPackage
      <3>3. /\ toolOwner' \in [ToolNames -> PluginIds \union {NoPackage}]
            /\ generations' \in [PluginIds -> [active   : Packages \union {NoPackage},
                                              previous : Packages \union {NoPackage},
                                              resume   : Packages \union {NoPackage}]]
            /\ \A i \in PluginIds : generations'[i].active # NoPackage =>
                 PluginOf[generations'[i].active] = i
        BY <2>1, <3>1 DEF OwnersInv
      <3>. HIDE DEF p
      <3>4. \A i \in PluginIds :
              generations'[i].active # NoPackage =>
                /\ Registrable(generations'[i].active)
                /\ \A t \in GrantOf(generations'[i].active) :
                     toolOwner'[t] = PluginOf[generations'[i].active]
        BY <3>1, <3>2, <3>3 DEF OwnersInv, KeepsTools, OwnsTools
      <3>5. \A i, j \in PluginIds : \A t \in ToolNames :
              /\ generations'[i].active # NoPackage /\ t \in GrantOf(generations'[i].active)
              /\ generations'[j].active # NoPackage /\ t \in GrantOf(generations'[j].active)
              => i = j
        BY <3>3, <3>4
      <3>. QED  BY <3>1, <3>2, <3>3, <3>4, <3>5 DEF OwnersInv, KeepsTools, OwnsTools
    <2>5. RunsInv'
      BY <1>13 DEF SwitchPackage, Writes, ActivatedPackage, OwnersInv, KeepsTools, OwnsTools,
                   RunsInv
    <2>6. change.kind' # "refused"
      BY <1>13 DEF SwitchPackage, Writes, ActivatedPackage, OwnersInv
    <2>. QED  BY <2>1, <2>2, <2>3, <2>4, <2>5, <2>6
  <1>14. CASE SwitchFails
    <2>1. LockInv'
      BY <1>14, DisposalLeavesOthers DEF SwitchFails, TakesBack
    <2>2. ChangeInv'
      BY <1>14, DisposalLeavesOthers DEF SwitchFails, TakesBack
    <2>3. TreesInv'
      BY <1>14, DisposalLeavesOthers DEF SwitchFails, TakesBack
    <2>4. OwnersInv'
      BY <1>14, DisposalLeavesOthers DEF SwitchFails, TakesBack, OwnersInv, KeepsTools,
                                         OwnsTools
    <2>5. RunsInv'
      BY <1>14, DisposalLeavesOthers DEF SwitchFails, TakesBack, OwnersInv, KeepsTools,
                                         OwnsTools, RunsInv
    <2>6. change.kind' # "refused"
      BY <1>14, DisposalLeavesOthers DEF SwitchFails, TakesBack, OwnersInv
    <2>. QED  BY <2>1, <2>2, <2>3, <2>4, <2>5, <2>6
  <1>15. ASSUME NEW r \in PackageRuns, PrepareRun(r)
        PROVE  PackagesInv'
    <2>1. LockInv'
      BY <1>15 DEF PrepareRun
    <2>2. ChangeInv'
      BY <1>15 DEF PrepareRun
    <2>3. TreesInv'
      BY <1>15 DEF PrepareRun
    <2>4. OwnersInv'
      BY <1>15 DEF PrepareRun, OwnersInv, KeepsTools, OwnsTools
    <2>5. RunsInv'
      BY <1>15 DEF PrepareRun, OwnersInv, KeepsTools, OwnsTools, RunsInv
    <2>6. change.kind' # "refused"
      BY <1>15 DEF PrepareRun, OwnersInv
    <2>. QED  BY <2>1, <2>2, <2>3, <2>4, <2>5, <2>6
  <1>16. ASSUME NEW r \in PackageRuns, RunReleases(r)
        PROVE  PackagesInv'
    <2>1. LockInv'
      BY <1>16 DEF RunReleases, Unpinned
    <2>2. ChangeInv'
      BY <1>16 DEF RunReleases, Unpinned
    <2>3. TreesInv'
      BY <1>16 DEF RunReleases, Unpinned
    <2>4. OwnersInv'
      BY <1>16 DEF RunReleases, Unpinned, OwnersInv, KeepsTools, OwnsTools
    <2>5. RunsInv'
      BY <1>16 DEF RunReleases, Unpinned, OwnersInv, KeepsTools, OwnsTools, RunsInv
    <2>6. change.kind' # "refused"
      BY <1>16 DEF RunReleases, Unpinned, OwnersInv
    <2>. QED  BY <2>1, <2>2, <2>3, <2>4, <2>5, <2>6
  <1>17. CASE PluginHostDies
    <2>1. LockInv'
      BY <1>17 DEF PluginHostDies, Unpinned
    <2>2. ChangeInv'
      BY <1>17 DEF PluginHostDies, Unpinned
    <2>3. TreesInv'
      BY <1>17 DEF PluginHostDies, Unpinned
    <2>4. OwnersInv'
      BY <1>17 DEF PluginHostDies, Unpinned, OwnersInv, KeepsTools, OwnsTools
    <2>5. RunsInv'
      BY <1>17 DEF PluginHostDies, Unpinned, OwnersInv, KeepsTools, OwnsTools, RunsInv
    <2>6. change.kind' # "refused"
      BY <1>17 DEF PluginHostDies, Unpinned, OwnersInv
    <2>. QED  BY <2>1, <2>2, <2>3, <2>4, <2>5, <2>6
  <1>18. CASE ReconcileInstalls
    <2>1. LockInv'
      <3>1. CASE \E p \in LeftUnfinished :
                   entries' = [entries EXCEPT ![p] = "absent"] /\ generations' = Without(p)
        <4>1. PICK p \in Unfinished :
                entries' = [entries EXCEPT ![p] = "absent"] /\ generations' = Without(p)
          BY <3>1 DEF LeftUnfinished
        <4>2. p \in Packages /\ entries[p] # "verified" /\ objects' = objects
          BY <1>18 DEF ReconcileInstalls, StartupRefused
        <4>. QED  BY <4>1, <4>2, WithoutForgets
      <3>2. CASE UNCHANGED <<entries, generations>>
        BY <1>18, <3>2 DEF ReconcileInstalls, StartupRefused
      <3>. QED  BY <1>18, <3>1, <3>2 DEF ReconcileInstalls, StartupRefused
    <2>2. ChangeInv'
      BY <1>18, LockIsValid, WithoutForgets DEF ReconcileInstalls, StartupRefused,
                                                LeftUnfinished
    <2>3. TreesInv'
      BY <1>18, LockIsValid, WithoutForgets DEF ReconcileInstalls, StartupRefused,
                                                LeftUnfinished
    <2>4. OwnersInv'
      BY <1>18, LockIsValid, WithoutForgets DEF ReconcileInstalls, StartupRefused,
                                                LeftUnfinished, OwnersInv, KeepsTools, OwnsTools
    <2>5. RunsInv'
      BY <1>18, LockIsValid, WithoutForgets DEF ReconcileInstalls, StartupRefused,
                                                LeftUnfinished, OwnersInv, KeepsTools,
                                                OwnsTools, RunsInv
    <2>6. change.kind' # "refused"
      BY <1>18, LockIsValid, WithoutForgets DEF ReconcileInstalls, StartupRefused,
                                                LeftUnfinished, OwnersInv
    <2>. QED  BY <2>1, <2>2, <2>3, <2>4, <2>5, <2>6
  <1>19. CASE ReconcileObjects
    <2>1. LockInv'
      BY <1>19 DEF ReconcileObjects
    <2>2. ChangeInv'
      BY <1>19 DEF ReconcileObjects
    <2>3. TreesInv'
      BY <1>19 DEF ReconcileObjects
    <2>4. OwnersInv'
      BY <1>19 DEF ReconcileObjects, OwnersInv, KeepsTools, OwnsTools
    <2>5. RunsInv'
      BY <1>19 DEF ReconcileObjects, OwnersInv, KeepsTools, OwnsTools, RunsInv
    <2>6. change.kind' # "refused"
      BY <1>19 DEF ReconcileObjects, OwnersInv
    <2>. QED  BY <2>1, <2>2, <2>3, <2>4, <2>5, <2>6
  <1>20. CASE LoadGenerations
    <2>1. LockInv'
      BY <1>20 DEF LoadGenerations, StartupRefused, IsIntact, CanRegister, NoCollision,
                   Registrable
    <2>2. ChangeInv'
      BY <1>20 DEF LoadGenerations, StartupRefused, IsIntact, CanRegister, NoCollision,
                   Registrable
    <2>3. TreesInv'
      BY <1>20 DEF LoadGenerations, StartupRefused, IsIntact, CanRegister, NoCollision,
                   Registrable
    <2> DEFINE running == {generations[i].active : i \in PluginIds} \ {NoPackage}
    <2>7. (\A p \in running : IsIntact(p)) /\ CanRegister(running)
      <3>1. \A p \in running : p \in Packages /\ IsIntact(p) /\ Registrable(p)
        BY <1>20 DEF LoadGenerations, OwnersInv, IsIntact
      <3>2. \A p, q \in running : \A t \in ToolNames :
              t \in GrantOf(p) /\ t \in GrantOf(q) => PluginOf[p] = PluginOf[q]
        BY DEF OwnersInv
      <3>3. \A t \in ToolNames : toolOwner[t] = NoPackage
        BY <1>20 DEF LoadGenerations, OwnersInv
      <3>. HIDE DEF running
      <3>. QED  BY <3>1, <3>2, <3>3 DEF CanRegister, NoCollision, Registrable
    <2>8. /\ toolOwner' = [t \in ToolNames |->
                IF \E p \in running : t \in GrantOf(p)
                THEN PluginOf[CHOOSE p \in running : t \in GrantOf(p)] ELSE NoPackage]
          /\ change' = Resting /\ UNCHANGED <<objects, entries, generations, runPackages>>
      BY <1>20, <2>7 DEF LoadGenerations
    <2>4. OwnersInv'
      <3>1. \A i \in PluginIds : generations[i].active # NoPackage =>
              generations[i].active \in running
        OBVIOUS
      <3>2. \A p \in running : p \in Packages
        OBVIOUS
      <3>3. \A p \in running : \A t \in GrantOf(p) : toolOwner'[t] = PluginOf[p]
        <4>1. ASSUME NEW p \in running, NEW t \in GrantOf(p)
              PROVE  toolOwner'[t] = PluginOf[p]
          <5> DEFINE q == CHOOSE q \in running : t \in GrantOf(q)
          <5>1. q \in running /\ t \in GrantOf(q) /\ t \in ToolNames
            BY <3>2, <4>1
          <5>2. PluginOf[q] = PluginOf[p]
            BY <2>7, <4>1, <5>1 DEF CanRegister, NoCollision
          <5>. HIDE DEF q
          <5>3. toolOwner'[t] = PluginOf[q]
            BY <2>8, <4>1, <5>1 DEF q
          <5>. QED  BY <5>2, <5>3
        <4>. QED  BY <4>1
      <3>4. toolOwner' \in [ToolNames -> PluginIds \union {NoPackage}]
        BY <2>8, <3>2
      <3>. HIDE DEF running
      <3>. QED  BY <1>20, <2>8, <3>1, <3>3, <3>4 DEF LoadGenerations, OwnersInv, KeepsTools,
                                                     OwnsTools
    <2>5. RunsInv'
      BY <1>20 DEF LoadGenerations, StartupRefused, IsIntact, CanRegister, NoCollision,
                   Registrable, OwnersInv, KeepsTools, OwnsTools, RunsInv
    <2>6. change.kind' # "refused"
      BY <2>8
    <2>. QED  BY <2>1, <2>2, <2>3, <2>4, <2>5, <2>6
  <1> HIDE DEF PackagesInv
  <1>. QED
    BY <1>1, <1>2, <1>3, <1>4, <1>5, <1>6, <1>7, <1>8, <1>9, <1>10, <1>11, <1>12, <1>13, <1>14,
       <1>15, <1>16, <1>17, <1>18, <1>19, <1>20
    DEF PackagesNext

-----------------------------------------------------------------------------
(* The composition                                                            *)

\* The others take no step.
LEMMA OthersStay ==
  ASSUME NEW own, Others(own)
  PROVE  /\ focus' = focus
         /\ own # "plugins" => UNCHANGED pluginVars
         /\ own # "packages" => UNCHANGED packageVars
         /\ own # "workspace" => UNCHANGED vars
         /\ own # "generations" => UNCHANGED generationVars
         /\ own # "credentials" => UNCHANGED credentialVars
         /\ own # "gateway" => UNCHANGED tokenVars
         /\ own # "connections" => UNCHANGED connectionVars
         /\ own # "admission" => UNCHANGED admissionVars
         /\ own # "routes" => UNCHANGED routingVars
         /\ own # "migration" => UNCHANGED migrationVars
         /\ own # "artifacts" => UNCHANGED artifactVars
         /\ own # "volumes" => UNCHANGED volumesVars
         /\ own # "archive" => UNCHANGED archiveVars
         /\ own # "budgets" => UNCHANGED budgetVars
         /\ own # "metering" => UNCHANGED meteringVars
         /\ own # "lease" => UNCHANGED leaseVars
         /\ own # "tools" => UNCHANGED toolVars
         /\ own # "automation" => UNCHANGED automationVars
         /\ own # "approvals" => UNCHANGED approvalVars
         /\ own # "caches" => UNCHANGED cacheVars
  BY DEF Others

\* A step is one of each component that is proved about, or leaves it alone; no step of
\* an undisturbed workspace is disturbed.
LEMMA ServicesStep ==
  ASSUME [ServicesNext]_servicesVars
  PROVE  /\ [PluginNext]_pluginVars /\ [PackagesNext]_packageVars
         /\ [CredentialNext]_credentialVars /\ [TokensNext]_tokenVars
         /\ [ConnectionNext]_connectionVars /\ [AdmissionNext]_admissionVars
         /\ [RoutesNext]_routingVars /\ [MigrationNext]_migrationVars
         /\ [ArtifactNext]_artifactVars /\ [VolumesNext]_volumesVars
         /\ [ArchiveNext]_archiveVars /\ [BudgetNext]_budgetVars
         /\ [MeteringNext]_meteringVars /\ [LeaseNext]_leaseVars
         /\ [ContainersNext]_toolVars /\ [AutomationNext]_automationVars
         /\ [ApprovalNext]_approvalVars /\ [CacheNext]_cacheVars
         /\ [Next]_vars /\ focus' = focus
         /\ focus = "undisturbed" => [Next /\ ~Disturbed]_vars
  <1>1. CASE ServicesNext
    <2>1. PICK own : Others(own) /\ \/ own = "plugins" /\ PluginNext
                                    \/ own = "packages" /\ PackagesNext
                                    \/ own = "workspace" /\ focus # "undisturbed" /\ Next
                                    \/ own = "workspace" /\ Next /\ ~Disturbed
                                    \/ own = "credentials" /\ CredentialNext
                                    \/ own = "gateway" /\ TokensNext
                                    \/ own = "connections" /\ ConnectionNext
                                    \/ own = "admission" /\ AdmissionNext
                                    \/ own = "routes" /\ RoutesNext
                                    \/ own = "migration" /\ MigrationNext
                                    \/ own = "artifacts" /\ ArtifactNext
                                    \/ own = "volumes" /\ VolumesNext
                                    \/ own = "archive" /\ ArchiveNext
                                    \/ own = "budgets" /\ BudgetNext
                                    \/ own = "metering" /\ MeteringNext
                                    \/ own = "lease" /\ LeaseNext
                                    \/ own = "tools" /\ ContainersNext
                                    \/ own = "automation" /\ AutomationNext
                                    \/ own = "approvals" /\ ApprovalNext
                                    \/ own = "caches" /\ CacheNext
                                    \/ own \notin {"plugins", "packages", "workspace",
                                                    "credentials", "gateway", "connections",
                                                    "admission", "routes", "migration",
                                                    "artifacts", "volumes", "archive",
                                                    "budgets", "metering", "lease", "tools",
                                                    "automation", "approvals", "caches"}
      BY <1>1 DEF ServicesNext
    <2>. QED  BY <2>1, OthersStay
  <1>2. CASE UNCHANGED servicesVars
    BY <1>2 DEF servicesVars
  <1>. QED  BY <1>1, <1>2

\* What is kept of the packages is that the tools of a run stay its own.
LEMMA InstalledStartAgain == PackagesInv => PluginsStartAgain
  <1> SUFFICES ASSUME PackagesInv PROVE PluginsStartAgain
    OBVIOUS
  <1>1. StartsAgain
    BY DEF PackagesInv, StartsAgain
  <1>2. OfferedToolsStay
    BY GrantsAreKnown DEF PackagesInv, RunsInv, KeepsTools, OwnsTools, OfferedToolsStay,
                          OfferedTools, Serves
  <1>3. PackagesAreThere
    BY DEF PackagesInv, ChangeInv, TreesInv, PackagesAreThere, Changes
  <1>. QED  BY <1>1, <1>2, <1>3 DEF PluginsStartAgain

\* Versions in use stay, and what was done to them never hinders a startup: for any
\* number of plugins, versions, runs and operations
\* (PluginLifecycleSupervisor, PluginInstallLock, PluginPackageInstaller).
THEOREM PluginsAlwaysHold == ServicesSpec => []PluginsHold
  <1>1. ServicesInit => VersionsInv /\ PackagesInv
    BY VersionsInitial, PackagesInitial DEF ServicesInit
  <1>2. VersionsInv /\ PackagesInv /\ [ServicesNext]_servicesVars => (VersionsInv /\ PackagesInv)'
    BY ServicesStep, VersionsStep, PackagesStep
  <1>3. VersionsInv /\ PackagesInv => PluginsHold
    BY InstalledStartAgain DEF VersionsInv, PluginsHold
  <1>. QED  BY <1>1, <1>2, <1>3, PTL DEF ServicesSpec

\* Keys outlive writes that overlap or break off, one app token is in force, and what a
\* run sends is of its own connection: for any number of keys, processes, Gateways,
\* requests, tokens, users and runs (credential-store, AccessTokenService, POST
\* /internal/provider-connections).
THEOREM CredentialsAlwaysHold == ServicesSpec => []CredentialsHold
  <1>1. ServicesInit => StoreInv /\ TokensInv /\ ConnectionInv
    BY StoreInitial, TokensInitial, ConnectionInitial DEF ServicesInit
  <1>2. StoreInv /\ TokensInv /\ ConnectionInv /\ [ServicesNext]_servicesVars
        => (StoreInv /\ TokensInv /\ ConnectionInv)'
    BY ServicesStep, StoreStep, TokensStep, ConnectionStep
  <1>3. StoreInv /\ TokensInv /\ ConnectionInv => CredentialsHold
    BY StoreKeeps, TokensKeep, ConnectionKeeps DEF CredentialsHold
  <1>. QED  BY <1>1, <1>2, <1>3, PTL DEF ServicesSpec

\* The empty database of the other components is one that was never migrated.
LEMMA MigrationStarts == ServicesInit => MigrationInv
  <1> SUFFICES ASSUME ServicesInit
               PROVE  MigrationInv
    OBVIOUS
  <1>1. CASE focus = "migration"
    BY <1>1, MigrationInitial DEF ServicesInit
  <1>2. CASE focus # "migration"
    <2>1. db = Blank /\ original = Blank /\ opener = [p \in Openers |-> Unopened]
      BY <1>2 DEF ServicesInit
    <2>2. PICK u \in UserIds : u = CHOOSE first \in Users : TRUE
      BY MigrationAssumption
    <2>3. PICK names, times : names = [r \in OldRuns |-> u] /\ times = [r \in OldRuns |-> 1]
      OBVIOUS
    <2>4. /\ \A r \in OldRuns : names[r] \in UserIds
          /\ \A r \in OldRuns : times[r] \in Nat
      BY <2>2, <2>3
    <2>5. original = Legacy(names, times, {}, {}, {}) /\ db = original
      BY <2>1, <2>2, <2>3 DEF Blank
    <2>. QED  BY <2>1, <2>4, <2>5, LegacyStarts
  <1>. QED  BY <1>1, <1>2

\* A session keeps its binding and its order of runs, a request sees what its token is
\* bound to, and an old database keeps the rows of its owners: for any number of runs,
\* sessions, tokens and openers (createOrGetRun, the routes of the Manager, #migrate).
THEOREM RowsStayWithTheirOwners == ServicesSpec => []RowsKeepTheirOwners
  <1>1. ServicesInit => AdmissionInv /\ RoutesInv /\ MigrationInv
    BY AdmissionInitial, RoutesInitial, MigrationStarts DEF ServicesInit
  <1>2. AdmissionInv /\ RoutesInv /\ MigrationInv /\ [ServicesNext]_servicesVars
        => (AdmissionInv /\ RoutesInv /\ MigrationInv)'
    BY ServicesStep, AdmissionStep, RoutesStep, MigrationStep
  <1>3. AdmissionInv /\ RoutesInv /\ MigrationInv => RowsKeepTheirOwners
    BY RoutesInvSuffices, MigrationInvSuffices DEF AdmissionInv, RowsKeepTheirOwners
  <1>. QED  BY <1>1, <1>2, <1>3, PTL DEF ServicesSpec

\* Artifacts are published whole and stay, a volume keeps the bytes of its workspace
\* through imports that fail or crash, and exactly the archives of the format are read:
\* for any number of requests, jobs, imports and files, and any length of an archive
\* (DockerArtifactStore, replaceVolumeContents, validateArchiveEntries).
THEOREM StoresStaySound == ServicesSpec => []StoresAreSound
  <1>1. ServicesInit => ArtifactInv /\ VolumesInv /\ ArchiveInv
    BY ArtifactInitial, VolumesInitial, ArchiveInitial DEF ServicesInit
  <1>2. ArtifactInv /\ VolumesInv /\ ArchiveInv /\ [ServicesNext]_servicesVars
        => (ArtifactInv /\ VolumesInv /\ ArchiveInv)'
    BY ServicesStep, ArtifactStep, VolumesStep, ArchiveStep
  <1>3. ArtifactInv /\ VolumesInv /\ ArchiveInv => StoresAreSound
    BY ArtifactSuffices, VolumesSuffices, ArchiveSuffices DEF StoresAreSound
  <1>. QED  BY <1>1, <1>2, <1>3, PTL DEF ServicesSpec

\* The subagents of a level are never given more than the root, and a run is charged what
\* its requests cost: for any budgets, sizes of a family, prices, requests and turns
\* (createChildRun, remainingChildBudget, persistRunModelUsage, #enforceBudget).
THEOREM BudgetsAlwaysHold == ServicesSpec => []BudgetsHold
  <1>1. ServicesInit => BudgetInv /\ MeteringInv
    BY BudgetInitial, MeteringInitial DEF ServicesInit
  <1>2. BudgetInv /\ MeteringInv /\ [ServicesNext]_servicesVars => (BudgetInv /\ MeteringInv)'
    BY ServicesStep, BudgetStep, MeteringStep
  <1>3. BudgetInv /\ MeteringInv => BudgetsHold
    BY BudgetSuffices, MeteringSuffices DEF BudgetsHold
  <1>. QED  BY <1>1, <1>2, <1>3, PTL DEF ServicesSpec

\* What bounds and types the variables of every component.
ServicesInv ==
  /\ LeaseInv /\ ContainersInv /\ AutomationInv /\ AdmissionInv /\ BudgetInv /\ FamilyBounds
  /\ ApprovalInv /\ VersionsInv /\ CacheInv /\ CatalogBounds /\ LifecycleInv
  /\ StoreInv /\ KeyBounds /\ ArtifactInv /\ TokensInv /\ FailureBounds
  /\ VolumesInv /\ ArchiveInv

\* The variables of every component keep their types and stay within their bounds: budgets
\* below that of the root, readers that are readers, values that were created, failures
\* below the limit (the rows, files and counters of the Manager and of the Gateway).
THEOREM ServicesKeepTheirTypes ==
  ASSUME LifecycleAssumption
  PROVE  ServicesSpec => []ServicesTypeOK
  <1>1. ServicesInit => ServicesInv
    <2> SUFFICES ASSUME ServicesInit PROVE ServicesInv
      OBVIOUS
    <2>1. /\ LeaseInit /\ ContainersInit /\ AutomationInit /\ AdmissionInit /\ BudgetInit
          /\ ApprovalInit /\ PluginInit /\ CacheInit /\ Init /\ CredentialInit /\ ArtifactInit
          /\ TokensInit /\ VolumesInit /\ ArchiveInit
      BY DEF ServicesInit
    <2>2. LeaseInv /\ ContainersInv /\ LifecycleInv /\ ArtifactInv /\ VolumesInv
      BY <2>1, LeaseInvInit, ContainersInitInv, InitLifecycleInv, ArtifactInitial, VolumesInitial
    <2>3. AutomationInv /\ AdmissionInv /\ ApprovalInv /\ CacheInv /\ CatalogBounds /\ ArchiveInv
      BY <2>1, AutomationInitial, AdmissionInitial, ApprovalInitInv, CacheInvInit, CatalogInitial,
         ArchiveInitial
    <2>4. BudgetInv /\ FamilyBounds /\ StoreInv /\ KeyBounds /\ TokensInv /\ FailureBounds
      BY <2>1, BudgetInitial, BoundsInitial, StoreInitial, KeysInitial, TokensInitial,
         FailuresInitial
    <2>5. VersionsInv
      BY <2>1, VersionsInitial
    <2>. QED  BY <2>2, <2>3, <2>4, <2>5 DEF ServicesInv
  <1>2. ServicesInv /\ [ServicesNext]_servicesVars => ServicesInv'
    <2> SUFFICES ASSUME ServicesInv, [ServicesNext]_servicesVars PROVE ServicesInv'
      OBVIOUS
    <2>1. (LeaseInv /\ ContainersInv /\ LifecycleInv /\ ArtifactInv /\ VolumesInv)'
      BY ServicesStep, LeaseInvStep, ContainersStep, LifecycleInvStep, ArtifactStep, VolumesStep
      DEF ServicesInv
    <2>2. (AutomationInv /\ AdmissionInv /\ ApprovalInv /\ CacheInv /\ CatalogBounds /\ ArchiveInv)'
      BY ServicesStep, AutomationStep, AdmissionStep, ApprovalStep, CacheInvStep, CatalogStep,
         ArchiveStep DEF ServicesInv
    <2>3. (BudgetInv /\ FamilyBounds /\ StoreInv /\ KeyBounds /\ TokensInv /\ FailureBounds)'
      BY ServicesStep, BudgetStep, BoundsStep, StoreStep, KeysStep, TokensStep, FailuresStep
      DEF ServicesInv
    <2>4. VersionsInv'
      BY ServicesStep, VersionsStep DEF ServicesInv
    <2>. QED  BY <2>1, <2>2, <2>3, <2>4 DEF ServicesInv
  <1>3. ServicesInv => ServicesTypeOK
    <2> SUFFICES ASSUME ServicesInv PROVE ServicesTypeOK
      OBVIOUS
    <2>1. LeaseTypeOK /\ ContainersTypeOK /\ LifecycleTypeOK /\ ArtifactTypeOK /\ VolumesTypeOK
      BY DEF ServicesInv, LeaseInv, ContainersInv, LifecycleInv, ArtifactInv, VolumesInv,
             VolumesShape
    <2>2. AutomationTypeOK /\ AdmissionTypeOK /\ ApprovalTypeOK /\ PluginTypeOK /\ ArchiveTypeOK
      BY DEF ServicesInv, AutomationInv, AdmissionInv, ApprovalInv, VersionsInv, ArchiveInv,
             ArchiveShape
    <2>3. BudgetTypeOK /\ CacheTypeOK /\ CredentialTypeOK /\ TokensTypeOK
      BY BoundsSuffice, CatalogSuffices, KeysSuffice, FailuresSuffice DEF ServicesInv
    <2>. QED  BY <2>1, <2>2, <2>3 DEF ServicesTypeOK
  <1>. QED  BY <1>1, <1>2, <1>3, PTL DEF ServicesSpec

\* What holds of a workspace that nobody deletes or cancels.
UndisturbedInv == LifecycleInv /\ (focus = "undisturbed" => BaseKept)

\* A run starts in what was written last or, when the volume is gone, in the last snapshot
\* (prepare).
THEOREM UndisturbedRunsFindTheirBase ==
  ASSUME LifecycleAssumption
  PROVE  ServicesSpec => []UndisturbedRunsStartFromBase
  <1>1. ASSUME ServicesInit PROVE UndisturbedInv
    BY <1>1, InitLifecycleInv, InitBaseKept DEF ServicesInit, UndisturbedInv
  <1>2. ASSUME UndisturbedInv, [ServicesNext]_servicesVars
        PROVE  UndisturbedInv'
    <2>1. /\ LifecycleInv' /\ focus' = focus
          /\ focus = "undisturbed" => [Next /\ ~Disturbed]_vars
      BY <1>2, ServicesStep, LifecycleInvStep DEF UndisturbedInv
    <2>2. ASSUME focus = "undisturbed" PROVE BaseKept'
      <3>1. CASE UNCHANGED vars
        BY <1>2, <2>2, <3>1 DEF UndisturbedInv, vars, BaseKept, hasCandidates, Surviving
      <3>2. CASE Next /\ ~Disturbed
        BY <1>2, <2>2, <3>2, ContentStep DEF UndisturbedInv, ContentInv
      <3>. QED  BY <2>1, <2>2, <3>1, <3>2
    <2>. QED  BY <2>1, <2>2 DEF UndisturbedInv
  <1>3. UndisturbedInv => UndisturbedRunsStartFromBase
    BY ContentIsWhatRunsFind DEF UndisturbedInv, UndisturbedRunsStartFromBase, ContentInv
  <1>. QED  BY <1>1, <1>2, <1>3, PTL DEF ServicesSpec

-----------------------------------------------------------------------------
(* Generations of a workspace                                                 *)

\* The proofs about the store, for the two calls of the composition.
Gen == INSTANCE SnapshotStoreProofs WITH
  Callers <- {"checkpoint", "admin"}, MaxArchives <- 3, MaxFaults <- 2, MaxDamage <- 1,
  FlakyReads <- TRUE,
  current <- genCurrent, previous <- genPrevious, backup <- genBackup, staged <- genStaged,
  archive <- genArchive, header <- genHeader, moved <- genMoved, pc <- genPc,
  exported <- genExported, published <- genPublished, faults <- genFaults, damage <- genDamage

\* They are about the same steps and the same promises.
LEMMA SameStore ==
  /\ Contended!Init <=> Gen!Init
  /\ Contended!Next <=> Gen!Next
  /\ Contended!OnlyVerifiedGenerations <=> Gen!OnlyVerifiedGenerations
  /\ Contended!OneDamageIsSurvived <=> Gen!OneDamageIsSurvived
  BY DEF Contended!Export, Gen!Export, Contended!Stage, Gen!Stage, Contended!Verify,
         Gen!Verify, Contended!Reject, Gen!Reject, Contended!ReadHeader, Gen!ReadHeader,
         Contended!ReadBody, Gen!ReadBody, Contended!ReadFails, Gen!ReadFails,
         Contended!DiscardCurrent, Gen!DiscardCurrent, Contended!DropBackup, Gen!DropBackup,
         Contended!KeepPrevious, Gen!KeepPrevious, Contended!Demote, Gen!Demote,
         Contended!DemoteMissing, Gen!DemoteMissing, Contended!DemoteError, Gen!DemoteError,
         Contended!Undo, Gen!Undo, Contended!Promote, Gen!Promote, Contended!Tidy, Gen!Tidy,
         Contended!Fail, Gen!Fail, Contended!Crash, Gen!Crash, Contended!Decay, Gen!Decay,
         Contended!Proceed, Gen!Proceed, Contended!Leave, Gen!Leave, Contended!Good, Gen!Good,
         Contended!Generations, Gen!Generations, Contended!None, Gen!None, Contended!files,
         Gen!files, Contended!locals, Gen!locals, Contended!history, Gen!history,
         Contended!vars, Gen!vars, Contended!Init, Gen!Init, Contended!Next, Gen!Next,
         Contended!Step, Gen!Step, Contended!InCreate, Gen!InCreate,
         Contended!OneDamageIsSurvived, Gen!OneDamageIsSurvived,
         Contended!OnlyVerifiedGenerations, Gen!OnlyVerifiedGenerations, Contended!Restorable,
         Gen!Restorable

\* A step of the composition is one of the store, or leaves it alone.
LEMMA GenerationsStep == ASSUME [ServicesNext]_servicesVars PROVE [Gen!Next]_(Gen!vars)
  <1>1. CASE ServicesNext
    <2>1. PICK own : Others(own) /\ (own = "generations" => Contended!Next)
      BY <1>1 DEF ServicesNext
    <2>2. CASE own = "generations"
      BY <2>1, <2>2, SameStore
    <2>3. CASE own # "generations"
      BY <2>1, <2>3, OthersStay
      DEF generationVars, Gen!vars, Gen!files, Gen!locals, Gen!history
    <2>. QED  BY <2>2, <2>3
  <1>2. CASE UNCHANGED servicesVars
    BY <1>2 DEF servicesVars, generationVars, Gen!vars, Gen!files, Gen!locals, Gen!history
  <1>. QED  BY <1>1, <1>2

\* What holds of the two calls, and of one that is alone.
GenerationsInv ==
  Gen!VerifiedInv /\ (IF Alone THEN Gen!SerialInv ELSE "admin" \in Gen!AtWork)

\* At first there are no generations.
LEMMA GenerationsInitial == ServicesInit => GenerationsInv
  <1> SUFFICES ASSUME ServicesInit PROVE GenerationsInv
    OBVIOUS
  <1> USE DEF Gen!Init, Gen!PCs, Gen!Ready, Gen!Contents, Gen!Generations, Gen!None
  <1>1. Gen!Init \/ AloneInit
    BY SameStore DEF ServicesInit, GenerationsInit
  <1>2. Gen!VerifiedInv
    BY <1>1 DEF AloneInit, Gen!VerifiedInv
  <1>3. ASSUME Alone PROVE Gen!SerialInv
    <2>1. AloneInit /\ Gen!AtWork = {"checkpoint"}
      BY <1>1, <1>3 DEF Alone, AloneInit, Gen!AtWork
    <2>. QED
      BY <2>1, GenerationsAssumption
      DEF AloneInit, Gen!SerialInv, Gen!Calm, Gen!OneIsDamaged, Gen!CallIsGood, Gen!TwoAreKept
  <1>4. ASSUME ~Alone PROVE "admin" \in Gen!AtWork
    BY <1>1, <1>4 DEF Alone, AloneInit, Gen!AtWork
  <1>. QED  BY <1>2, <1>3, <1>4 DEF GenerationsInv

\* Every step keeps it: an administrator who is not away does not go away.
LEMMA GenerationsKept ==
  ASSUME GenerationsInv, [ServicesNext]_servicesVars
  PROVE  GenerationsInv'
  <1>1. Gen!SnapshotAssumption
    BY GenerationsAssumption DEF Gen!SnapshotAssumption
  <1>2. [Gen!Next]_(Gen!vars)
    BY GenerationsStep
  <1>3. Gen!VerifiedInv'
    BY <1>1, <1>2, Gen!VerifiedStep DEF GenerationsInv
  <1>4. genPc'["admin"] = genPc["admin"] \/ "admin" \in Gen!AtWork'
    BY <1>1, <1>2, GenerationsAssumption, Gen!CallersStayAtWork
    DEF GenerationsInv, Gen!VerifiedInv
  <1>5. ASSUME Alone PROVE Gen!SerialInv'
    BY <1>1, <1>2, <1>5, Gen!SerialStep DEF GenerationsInv
  <1>. QED  BY <1>3, <1>4, <1>5 DEF GenerationsInv, Alone, Gen!AtWork, Gen!PCs

\* Nothing becomes a generation without having been verified, whatever overlaps, fails
\* or is read wrongly (createStreamingSnapshotPipeline, #verifySnapshotBeforeRotation).
THEOREM ContendedGenerationsAreVerified == ServicesSpec => []OnlyVerifiedGenerations
  <1>1. GenerationsInv => OnlyVerifiedGenerations
    BY SameStore, GenerationsAssumption
    DEF GenerationsInv, OnlyVerifiedGenerations, Gen!VerifiedInv, Gen!OnlyVerifiedGenerations
  <1>. QED  BY <1>1, GenerationsInitial, GenerationsKept, PTL DEF ServicesSpec

\* A generation that stops verifying at any moment of an uninterrupted rotation
\* leaves another one to restore (#rotateVerifiedSnapshots).
THEOREM LoneDamageLeavesAnother == ServicesSpec => []OneDamageIsSurvived
  <1>1. GenerationsInv => OneDamageIsSurvived
    <2>1. Gen!SnapshotAssumption
      BY GenerationsAssumption DEF Gen!SnapshotAssumption
    <2>. QED
      BY <2>1, SameStore, Gen!AnotherIsLeft DEF GenerationsInv, OneDamageIsSurvived
  <1>. QED  BY <1>1, GenerationsInitial, GenerationsKept, PTL DEF ServicesSpec
=============================================================================
