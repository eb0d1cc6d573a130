--------------------------- MODULE PluginPackages ---------------------------
(* PluginInstallLock, PluginPackageInstaller and the tool registrations of    *)
(* ManagerPluginLifecycle for several plugins: package trees under .objects,   *)
(* the lockfile that refers to them, the handlers that BrokeredToolRuntime     *)
(* holds, and the versions that runs were prepared with.  Every write of a     *)
(* file is a step: the Manager may die between two of them and start again.    *)
(* PluginLifecycle has the workers of one plugin.                              *)
EXTENDS Naturals, FiniteSets

CONSTANTS
  Packages,    \* trees that can be installed, one per id and version
  PluginOf,    \* the id in the manifest of each
  Declared,    \* the tools in the manifest of each
  OperatorGrant, \* the tools that the operator grants to each
  DataOnly,    \* packages of trust class data-only
  HostTools,   \* reserved names and tools of the runtime
  PackageRuns,
  NoPackage

PluginIds == {PluginOf[p] : p \in Packages}

\* grantPluginPermissions
GrantOf(p) == Declared[p] \intersect OperatorGrant[p]

ToolNames == UNION {GrantOf(p) : p \in Packages}

ASSUME PackageAssumption ==
  /\ NoPackage \notin Packages /\ NoPackage \notin PluginIds
  /\ DataOnly \subseteq Packages

VARIABLES
  objects,     \* package trees under .objects
  entries,     \* installState of the lockfile's entries
  generations, \* activations of the lockfile, by id
  toolOwner,       \* #registeredTools: the plugin whose handler a tool has
  runPackages, \* #runPins
  change       \* the operation past #exclusive, or the startup

packageVars == <<objects, entries, generations, toolOwner, runPackages, change>>

Unpinned == [i \in {} |-> NoPackage]
Doing(kind, p) == [kind |-> kind, package |-> p, created |-> {}]
Starting(kind) == Doing(kind, NoPackage)
Resting == Doing("resting", NoPackage)

Inactive == [active |-> NoPackage, previous |-> NoPackage, resume |-> NoPackage]
Installed == {p \in Packages : entries[p] # "absent"}
Unfinished == {p \in Packages : entries[p] \in {"staging", "activation-pending"}}

PackagesInit ==
  /\ objects = {} /\ entries = [p \in Packages |-> "absent"]
  /\ generations = [i \in PluginIds |-> Inactive]
  /\ toolOwner = [t \in ToolNames |-> NoPackage]
  /\ runPackages = [r \in PackageRuns |-> Unpinned] /\ change = Resting

-----------------------------------------------------------------------------
(* The lockfile                                                               *)

Refers(gens) ==
  (UNION {{gens[i].active, gens[i].previous, gens[i].resume} : i \in PluginIds}) \ {NoPackage}

\* validatePluginLock, of every read and every write.
ValidLock(state, gens) ==
  /\ \A p \in Refers(gens) : state[p] # "absent"
  /\ \A i \in PluginIds :
       /\ \A p \in {gens[i].active, gens[i].resume} \ {NoPackage} : state[p] = "verified"
       /\ NoPackage \in {gens[i].active, gens[i].resume}

Writes(state, gens) ==
  /\ ValidLock(state, gens)
  /\ entries' = state /\ generations' = gens

\* PluginInstallLock.uninstall forgets the version that goes.
Without(p) ==
  LET current == generations[PluginOf[p]]
  IN  [generations EXCEPT ![PluginOf[p]] =
        [active   |-> current.active,
         previous |-> IF current.previous = p THEN NoPackage ELSE current.previous,
         resume   |-> IF current.resume = p THEN NoPackage ELSE current.resume]]

Removable(p) == entries[p] # "absent" /\ generations[PluginOf[p]].active # p

\* PluginInstallLock.activate
ActivatedPackage(p) ==
  LET current == generations[PluginOf[p]]
  IN  [generations EXCEPT ![PluginOf[p]] =
        [active |-> p, resume |-> NoPackage,
         previous |-> IF current.active \notin {NoPackage, p} THEN current.active
                      ELSE IF current.previous # p THEN current.previous ELSE NoPackage]]

-----------------------------------------------------------------------------
(* Tools                                                                      *)

\* Mutant: only the plugins that are active hold their tools.
ActiveOwnersMatter(ps) ==
  \A p \in ps : \A t \in GrantOf(p) :
    /\ t \notin HostTools
    /\ \A q \in ps : t \in GrantOf(q) => PluginOf[q] = PluginOf[p]
    /\ toolOwner[t] \in {NoPackage, PluginOf[p]}
                         \union {i \in PluginIds : generations[i].active = NoPackage}

\* #validateToolRegistrations: a tool has one plugin, and none of the host's names.
NoCollision(ps) ==
  \A p \in ps : \A t \in GrantOf(p) :
    /\ t \notin HostTools
    /\ \A q \in ps : t \in GrantOf(q) => PluginOf[q] = PluginOf[p]
    /\ toolOwner[t] \in {NoPackage, PluginOf[p]}

CanRegister(ps) == NoCollision(ps) /\ \A p \in ps \intersect DataOnly : GrantOf(p) = {}

RegisterTools(p) ==
  [t \in ToolNames |-> IF t \in GrantOf(p) THEN PluginOf[p] ELSE toolOwner[t]]

CreatedTools(p) == {t \in GrantOf(p) : toolOwner[t] = NoPackage}

DisposeTools(tools, held) == [t \in ToolNames |-> IF t \in tools THEN NoPackage ELSE held[t]]

\* Mutant: the tools of the active version are the plugin's.
KeepsActive(i, state, held) ==
  DisposeTools({t \in ToolNames : held[t] = i /\ t \notin
    UNION {GrantOf(p) : p \in {q \in Packages : generations[i].active = q}}}, held)

\* #pruneToolRegistrations: a tool goes with the last installed version that has it.
PruneTools(i, state, held) ==
  DisposeTools({t \in ToolNames : held[t] = i /\ t \notin
    UNION {GrantOf(p) : p \in {q \in Packages : PluginOf[q] = i /\ state[q] # "absent"}}}, held)

-----------------------------------------------------------------------------
(* Installation                                                               *)

\* inspectLockedPlugin: the tree is there, with the digest of the lockfile.
IsIntact(p) == p \in objects

\* stage removes the trees that the lockfile does not know, copies the package and
\* moves it to the path of its digest.
StagedObjects(p) == (objects \intersect Installed) \union {p}

\* A package that is installed is refused, and the orphans are gone.
StageRefuses(p) ==
  /\ change = Resting /\ p \in Installed
  /\ objects' = objects \intersect Installed
  /\ UNCHANGED <<entries, generations, toolOwner, runPackages, change>>

StagePackage(p, kind) ==
  /\ change = Resting /\ p \notin Installed
  /\ kind = "upgrade" => generations[PluginOf[p]].active # NoPackage
  /\ objects' = StagedObjects(p)
  /\ change' = Doing(kind, p)
  /\ UNCHANGED <<entries, generations, toolOwner, runPackages>>

\* PluginInstallLock.install
LockPackage ==
  /\ change.kind \in {"install", "upgrade"} /\ entries[change.package] = "absent"
  /\ Writes([entries EXCEPT ![change.package] = "staging"], generations)
  /\ UNCHANGED <<objects, toolOwner, runPackages, change>>

\* The worker of the new package was verified, and migrated its predecessor's state.
VerifyPackage ==
  /\ change.kind \in {"install", "upgrade"} /\ entries[change.package] = "staging"
  /\ Writes([entries EXCEPT ![change.package] =
               IF change.kind = "upgrade" THEN "activation-pending" ELSE "verified"], generations)
  /\ change' = IF change.kind = "upgrade" THEN [change EXCEPT !.kind = "register"] ELSE Resting
  /\ UNCHANGED <<objects, toolOwner, runPackages>>

\* Mutant: an upgrade that fails disposes of every tool of its package.
AllOfPackage(p) == GrantOf(p)

\* What a failure takes back.
TakesBack(p) == change.created

\* The catch blocks of install and upgrade: the entry goes, then the tree.
ChangeFails ==
  /\ change.kind \in {"install", "upgrade", "register", "activate"}
  /\ entries' = [entries EXCEPT ![change.package] = "absent"]
  /\ generations' = Without(change.package)
  /\ toolOwner' = LET held == DisposeTools(TakesBack(change.package), toolOwner)
              IN  IF change.kind = "install" THEN held
                  ELSE PruneTools(PluginOf[change.package], entries', held)
  /\ change' = Doing("remove", change.package)
  /\ UNCHANGED <<objects, runPackages>>

RemoveObject ==
  /\ change.kind = "remove"
  /\ objects' = objects \ {change.package} /\ change' = Resting
  /\ UNCHANGED <<entries, generations, toolOwner, runPackages>>

UninstallPackage(p) ==
  /\ change = Resting /\ Removable(p)
  /\ \A r \in PackageRuns : \A i \in DOMAIN runPackages[r] : runPackages[r][i] # p
  /\ Writes([entries EXCEPT ![p] = "absent"], Without(p))
  /\ toolOwner' = PruneTools(PluginOf[p], entries', toolOwner)
  /\ change' = Doing("remove", p)
  /\ UNCHANGED <<objects, runPackages>>

-----------------------------------------------------------------------------
(* Activation                                                                 *)

EnableTools(p) ==
  LET current == generations[PluginOf[p]]
  IN  /\ change = Resting /\ entries[p] = "verified" /\ IsIntact(p)
      /\ current.active \in {NoPackage, p}
      /\ current.active = NoPackage => current.resume \in {NoPackage, p}
      /\ CanRegister({p})
      /\ toolOwner' = RegisterTools(p)
      /\ change' = IF current.active = p THEN Resting
                   ELSE [Doing("switch", p) EXCEPT !.created = CreatedTools(p)]
      /\ UNCHANGED <<objects, entries, generations, runPackages>>

RollbackTools(i) ==
  LET p == generations[i].previous
  IN  /\ change = Resting /\ p # NoPackage /\ IsIntact(p)
      /\ entries[p] = "verified" /\ CanRegister({p})
      /\ toolOwner' = RegisterTools(p)
      /\ change' = [Doing("rollback", p) EXCEPT !.created = CreatedTools(p)]
      /\ UNCHANGED <<objects, entries, generations, runPackages>>

UpgradeTools ==
  /\ change.kind = "register" /\ CanRegister({change.package})
  /\ toolOwner' = RegisterTools(change.package)
  /\ change' = [change EXCEPT !.kind = "activate", !.created = CreatedTools(change.package)]
  /\ UNCHANGED <<objects, entries, generations, runPackages>>

\* The write of activate or rollback, and the maps that follow the lockfile.
SwitchPackage ==
  LET p == change.package
      i == PluginOf[p]
      current == IF generations[i].active # NoPackage
                 THEN generations[i].active ELSE generations[i].resume
  IN  /\ change.kind \in {"switch", "activate", "rollback"}
      /\ Writes([entries EXCEPT ![p] = "verified"],
                IF change.kind = "rollback"
                THEN [generations EXCEPT ![i] =
                       [active |-> p, previous |-> current, resume |-> NoPackage]]
                ELSE ActivatedPackage(p))
      /\ change' = Resting
      /\ UNCHANGED <<objects, toolOwner, runPackages>>

SwitchFails ==
  /\ change.kind \in {"switch", "rollback"}
  /\ toolOwner' = DisposeTools(TakesBack(change.package), toolOwner)
  /\ change' = Resting
  /\ UNCHANGED <<objects, entries, generations, runPackages>>

\* PluginInstallLock.disable
DisablePackage(i) ==
  /\ change = Resting /\ generations[i].active # NoPackage
  /\ Writes(entries, [generations EXCEPT ![i] =
                       [active |-> NoPackage, resume |-> @.active,
                        previous |-> IF @.previous = @.active THEN NoPackage ELSE @.previous]])
  /\ UNCHANGED <<objects, toolOwner, runPackages, change>>

-----------------------------------------------------------------------------
(* Runs and restarts                                                          *)

\* The run preparer: a copy of #active.
PrepareRun(r) ==
  /\ change.kind \notin {"reconcile", "orphans", "load", "refused"} /\ runPackages[r] = Unpinned
  /\ runPackages' = [runPackages EXCEPT ![r] =
       [i \in {j \in PluginIds : generations[j].active # NoPackage} |-> generations[i].active]]
  /\ UNCHANGED <<objects, entries, generations, toolOwner, change>>

\* listTools, for the versions that the run is prepared with
OfferedTools(r) == UNION {GrantOf(runPackages[r][i]) : i \in DOMAIN runPackages[r]}

\* The handler of a tool calls the version that the run has of its plugin.
Serves(t, r) ==
  /\ toolOwner[t] \in DOMAIN runPackages[r]
  /\ t \in GrantOf(runPackages[r][toolOwner[t]])

RunReleases(r) ==
  /\ runPackages[r] # Unpinned /\ change = Resting
  /\ runPackages' = [runPackages EXCEPT ![r] = Unpinned]
  /\ UNCHANGED <<objects, entries, generations, toolOwner, change>>

\* The Manager stops or dies, wherever it is; what is on disk stays.
PluginHostDies ==
  /\ change' = Starting("reconcile")
  /\ toolOwner' = [t \in ToolNames |-> NoPackage]
  /\ runPackages' = [r \in PackageRuns |-> Unpinned]
  /\ UNCHANGED <<objects, entries, generations>>

StartupRefused ==
  /\ change' = Starting("refused")
  /\ UNCHANGED <<objects, entries, generations, toolOwner, runPackages>>

\* Mutant: packages that wait for their activation are finished.
LeftStaging == {p \in Packages : entries[p] = "staging"}

\* What #reconcileInterruptedInstalls uninstalls.
LeftUnfinished == Unfinished

ReconcileInstalls ==
  /\ change.kind = "reconcile"
  /\ IF ~ValidLock(entries, generations) \/ \E p \in LeftUnfinished : ~Removable(p)
     THEN StartupRefused
     ELSE /\ \/ \E p \in LeftUnfinished :
                  /\ entries' = [entries EXCEPT ![p] = "absent"]
                  /\ generations' = Without(p) /\ UNCHANGED change
             \/ /\ LeftUnfinished = {} /\ change' = Starting("orphans")
                /\ UNCHANGED <<entries, generations>>
          /\ UNCHANGED <<objects, toolOwner, runPackages>>

\* reconcileOrphans
ReconcileObjects ==
  /\ change.kind = "orphans"
  /\ objects' = objects \intersect Installed /\ change' = Starting("load")
  /\ UNCHANGED <<entries, generations, toolOwner, runPackages>>

\* #loadActiveGenerations: the packages must be there with their digest, and their
\* tools free.
LoadGenerations ==
  LET active == {generations[i].active : i \in PluginIds} \ {NoPackage}
  IN  /\ change.kind = "load"
      /\ IF (\A p \in active : IsIntact(p)) /\ CanRegister(active)
         THEN /\ toolOwner' = [t \in ToolNames |->
                   IF \E p \in active : t \in GrantOf(p)
                   THEN PluginOf[CHOOSE p \in active : t \in GrantOf(p)] ELSE NoPackage]
              /\ change' = Resting
              /\ UNCHANGED <<objects, entries, generations, runPackages>>
         ELSE StartupRefused

PackagesNext ==
  \/ \E p \in Packages :
       \/ StageRefuses(p) \/ UninstallPackage(p) \/ EnableTools(p)
       \/ \E kind \in {"install", "upgrade"} : StagePackage(p, kind)
  \/ LockPackage \/ VerifyPackage \/ ChangeFails \/ RemoveObject
  \/ \E i \in PluginIds : RollbackTools(i) \/ DisablePackage(i)
  \/ UpgradeTools \/ SwitchPackage \/ SwitchFails
  \/ \E r \in PackageRuns : PrepareRun(r) \/ RunReleases(r)
  \/ PluginHostDies \/ ReconcileInstalls \/ ReconcileObjects \/ LoadGenerations

-----------------------------------------------------------------------------
(* Properties                                                                 *)

\* ManagerPluginLifecycle.create throws when the lockfile is invalid, an active
\* package is gone or two plugins have one tool: whatever operations succeeded or
\* failed, and wherever the Manager died, the next startup is never refused.
StartsAgain == change.kind # "refused"

\* #ensureToolRegistrations: a tool that a run was offered keeps the handler of a
\* plugin that the run has, in a version that has the tool, while others are
\* installed, upgraded, rolled back, disabled or removed.
OfferedToolsStay == \A r \in PackageRuns : \A t \in OfferedTools(r) : Serves(t, r)

\* PluginPackageInstaller: the tree of every version that the lockfile knows is there;
\* between operations no tree is left that nobody knows, which the next installation
\* of the same digest would meet, and no version that is neither installed nor not.
PackagesAreThere ==
  /\ Installed \subseteq objects
  /\ change.kind \in {"resting", "switch", "rollback"} =>
       objects \subseteq Installed /\ Unfinished = {}

PluginsStartAgain == StartsAgain /\ OfferedToolsStay /\ PackagesAreThere
=============================================================================
