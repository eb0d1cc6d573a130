--------------------------- MODULE PluginLifecycle ---------------------------
(* ManagerPluginLifecycle and its PluginInstallLock for one plugin: versions  *)
(* are installed, upgraded, rolled back, disabled and uninstalled while runs  *)
(* keep the version they were prepared with.  #exclusive lets one operation   *)
(* at a time past its first statement; the preparation of runs, invocations   *)
(* and idle timers do not queue.  #active, #previous and #resume are copied   *)
(* from the lockfile in the step that writes it, and are not kept twice.      *)
EXTENDS Naturals, FiniteSets

CONSTANTS
  Versions,    \* versions of the plugin that can be installed
  PluginRuns,  \* runs that are prepared with it
  NoVersion

ASSUME PluginAssumption == NoVersion \notin Versions

VARIABLES
  packages,   \* installState in the lockfile, or "absent"
  oneWay,     \* versions with rollbackPossible = false
  activation, \* activations[id] of the lockfile
  debts,      \* versions in cleanupDebts of the lockfile
  snapshots,  \* versions whose state snapshot is on disk
  pins,       \* #runPins: NoVersion is a run without the plugin
  pinned,     \* runs that have an entry in #runPins
  released,   \* runs that have released theirs
  workers,    \* versions with a worker container
  task        \* the operation past #exclusive

files == <<packages, oneWay, activation, snapshots>>
runPins == <<pins, pinned, released>>
pluginVars == <<files, debts, runPins, workers, task>>

Tasks == {"idle", "install", "migrate", "verify", "switch", "rollback", "stop"}
Idle == [kind |-> "idle", version |-> NoVersion, targets |-> {}, run |-> {}]
Does(kind, v) == [kind |-> kind, version |-> v, targets |-> {}, run |-> {}]
Stops(targets, run) == [kind |-> "stop", version |-> NoVersion, targets |-> targets, run |-> run]

Active == activation.active
PinnedBy(runs) == {pins[r] : r \in pinned \cap runs}

PluginInit ==
  /\ packages = [v \in Versions |-> "absent"] /\ oneWay = {} /\ debts = {} /\ snapshots = {}
  /\ activation = [active |-> NoVersion, previous |-> NoVersion, resume |-> NoVersion]
  /\ pins = [r \in PluginRuns |-> NoVersion] /\ pinned = {} /\ released = {}
  /\ workers = {} /\ task = Idle

-----------------------------------------------------------------------------
(* Installation                                                               *)

\* The lock refuses a version it has.  The catch block of install then removes
\* the state directory of that version, unless the bytes were the same and
\* stage refused them first.
InstallKnown(v) ==
  /\ task = Idle /\ packages[v] # "absent"
  /\ snapshots' = snapshots \ {v}
  /\ UNCHANGED <<packages, oneWay, activation, debts, runPins, workers, task>>

InstallPlugin(v) ==
  /\ task = Idle /\ packages[v] = "absent"
  /\ packages' = [packages EXCEPT ![v] = "staging"]
  /\ oneWay' = oneWay \ {v} /\ snapshots' = snapshots \cup {v}
  /\ task' = Does("install", v)
  /\ UNCHANGED <<activation, debts, runPins, workers>>

\* #verify has run a worker of its own; a failure uninstalls the package.
InstallEnds(ok) ==
  /\ task.kind = "install" /\ task' = Idle
  /\ packages' = [packages EXCEPT ![task.version] = IF ok THEN "verified" ELSE "absent"]
  /\ snapshots' = IF ok THEN snapshots ELSE snapshots \ {task.version}
  /\ UNCHANGED <<oneWay, activation, debts, runPins, workers>>

-----------------------------------------------------------------------------
(* The switches of the lockfile                                               *)

CanRun(v) == packages[v] = "verified" /\ v \notin debts /\ v \in snapshots

\* PluginInstallLock.activate
Activated(v) ==
  [active |-> v, resume |-> NoVersion,
   previous |-> IF Active \notin {NoVersion, v} THEN Active
                ELSE IF activation.previous # v THEN activation.previous ELSE NoVersion]

EnablePlugin(v) ==
  /\ task = Idle /\ CanRun(v) /\ Active = NoVersion
  /\ activation.resume \in {NoVersion, v}
  /\ activation' = Activated(v)
  /\ UNCHANGED <<packages, oneWay, debts, snapshots, runPins, workers, task>>

UpgradePlugin(v) ==
  /\ task = Idle /\ Active \notin {NoVersion, v} /\ packages[v] = "absent"
  /\ packages' = [packages EXCEPT ![v] = "staging"] /\ oneWay' = oneWay \ {v}
  /\ task' = Does("migrate", v)
  /\ UNCHANGED <<activation, debts, snapshots, runPins, workers>>

UpgradeMigrates(reversible) ==
  /\ task.kind = "migrate" /\ Active \in snapshots
  /\ snapshots' = snapshots \cup {task.version}
  /\ oneWay' = IF reversible THEN oneWay ELSE oneWay \cup {task.version}
  /\ task' = [task EXCEPT !.kind = "verify"]
  /\ UNCHANGED <<packages, activation, debts, runPins, workers>>

\* recordVerification and activate are two writes of the lockfile: the Manager
\* may die in between.
UpgradeVerifies ==
  /\ task.kind = "verify"
  /\ packages' = [packages EXCEPT ![task.version] = "activation-pending"]
  /\ task' = [task EXCEPT !.kind = "switch"]
  /\ UNCHANGED <<oneWay, activation, debts, snapshots, runPins, workers>>

UpgradeSwitches ==
  /\ task.kind = "switch" /\ task' = Idle
  /\ packages' = [packages EXCEPT ![task.version] = "verified"]
  /\ activation' = Activated(task.version)
  /\ UNCHANGED <<oneWay, debts, snapshots, runPins, workers>>

UpgradeFails ==
  /\ task.kind \in {"migrate", "verify", "switch"} /\ task' = Idle
  /\ packages' = [packages EXCEPT ![task.version] = "absent"]
  /\ snapshots' = snapshots \ {task.version}
  /\ UNCHANGED <<oneWay, activation, debts, runPins, workers>>

Current == IF Active # NoVersion THEN Active ELSE activation.resume

RollbackPlugin ==
  /\ task = Idle /\ activation.previous # NoVersion
  /\ Current \notin oneWay /\ CanRun(activation.previous)
  /\ task' = Does("rollback", activation.previous)
  /\ UNCHANGED <<files, debts, runPins, workers>>

RollbackEnds(ok) ==
  /\ task.kind = "rollback" /\ task' = Idle
  /\ activation' = IF ok
                   THEN [active |-> task.version, previous |-> Current, resume |-> NoVersion]
                   ELSE activation
  /\ UNCHANGED <<packages, oneWay, debts, snapshots, runPins, workers>>
-----------------------------------------------------------------------------
(* Runs                                                                       *)

\* #pinRun; a run that is prepared while nothing is active keeps that too.
PinRun(r) ==
  /\ r \notin pinned \cup released
  /\ pinned' = pinned \cup {r} /\ pins' = [pins EXCEPT ![r] = Active]
  /\ UNCHANGED <<files, debts, released, workers, task>>

\* The supervisor starts the worker lazily and reads the state snapshot again.
InvokePlugin(r) ==
  /\ r \in pinned \ task.run /\ pins[r] \in snapshots \ workers
  /\ workers' = workers \cup {pins[r]}
  /\ UNCHANGED <<files, debts, runPins, task>>

\* LazyPluginSupervisor stops an idle worker and retries a failed stop.
WorkerStopsIdle(v) ==
  /\ v \in workers /\ workers' = workers \ {v}
  /\ UNCHANGED <<files, debts, runPins, task>>

\* Mutant: other runs that keep the version are not looked for.
RetiredForRun(v, run) == v \notin {Active, NoVersion}

\* Nobody but the given runs needs the version any more.
Retired(v, run) == v \notin {Active, NoVersion} \cup PinnedBy(PluginRuns \ run)

ReleaseRun(r) ==
  /\ task = Idle /\ r \in pinned
  /\ IF Retired(pins[r], {r})
     THEN task' = Stops({pins[r]}, {r}) /\ UNCHANGED runPins
     ELSE task' = Idle /\ pinned' = pinned \ {r} /\ released' = released \cup {r} /\ UNCHANGED pins
  /\ UNCHANGED <<files, debts, workers>>

DisablePlugin ==
  /\ task = Idle /\ Active # NoVersion
  /\ activation' = [activation EXCEPT !.active = NoVersion, !.resume = Active,
                      !.previous = IF @ = Active THEN NoVersion ELSE @]
  /\ task' = Stops(Versions \ PinnedBy(PluginRuns), {})
  /\ UNCHANGED <<packages, oneWay, debts, snapshots, runPins, workers>>

\* stopGenerationWithBudget of every target is over; the budget of those in
\* failed is used up and their debt is written.
StopEnds(failed) ==
  /\ task.kind = "stop" /\ task' = Idle
  /\ failed \subseteq task.targets \cap workers
  /\ workers' = workers \ (task.targets \ failed)
  /\ debts' = (debts \ task.targets) \cup failed
  /\ pinned' = pinned \ task.run /\ released' = released \cup task.run
  /\ UNCHANGED <<files, pins>>

\* The debt cannot be written: releaseRun keeps its pins and comes again.
StopUnrecorded ==
  /\ task.kind = "stop" /\ task.targets \cap workers # {} /\ task' = Idle
  /\ UNCHANGED <<files, debts, runPins, workers>>

\* The timer of scheduleCleanupDebtRetry.
RetryCleanup(v) ==
  /\ task = Idle /\ v \in debts /\ task' = Stops({v}, {})
  /\ UNCHANGED <<files, debts, runPins, workers>>

\* Mutant: the pins of runs do not count.
UninstallableInactive(v) == v # Active

Uninstallable(v) == v \notin {Active} \cup PinnedBy(PluginRuns)

\* Its worker could be stopped.
UninstallPlugin(v) ==
  /\ task = Idle /\ packages[v] # "absent" /\ Uninstallable(v)
  /\ workers' = workers \ {v} /\ debts' = debts \ {v}
  /\ packages' = [packages EXCEPT ![v] = "absent"] /\ snapshots' = snapshots \ {v}
  /\ activation' = [activation EXCEPT !.previous = IF @ = v THEN NoVersion ELSE @,
                                      !.resume   = IF @ = v THEN NoVersion ELSE @]
  /\ UNCHANGED <<oneWay, runPins, task>>

-----------------------------------------------------------------------------
(* Startup                                                                    *)

Incomplete == {v \in Versions : packages[v] \in {"staging", "activation-pending"}}

\* The Manager dies at any moment.  create reaps the containers, clears the
\* debts and removes incomplete packages; runs and pins are gone.
RestartPlugins ==
  /\ workers' = {} /\ debts' = {} /\ task' = Idle
  /\ pinned' = {} /\ released' = released \cup pinned
  /\ packages' = [v \in Versions |-> IF v \in Incomplete THEN "absent" ELSE packages[v]]
  /\ snapshots' = {v \in snapshots : packages'[v] # "absent"}
  /\ UNCHANGED <<oneWay, activation, pins>>

PluginNext ==
  \/ \E v \in Versions :
       \/ InstallKnown(v) \/ InstallPlugin(v) \/ EnablePlugin(v) \/ UpgradePlugin(v)
       \/ WorkerStopsIdle(v) \/ RetryCleanup(v) \/ UninstallPlugin(v)
  \/ \E ok \in BOOLEAN : InstallEnds(ok) \/ RollbackEnds(ok) \/ UpgradeMigrates(ok)
  \/ UpgradeVerifies \/ UpgradeSwitches \/ UpgradeFails \/ RollbackPlugin
  \/ \E r \in PluginRuns : PinRun(r) \/ InvokePlugin(r) \/ ReleaseRun(r)
  \/ DisablePlugin \/ (\E failed \in SUBSET Versions : StopEnds(failed)) \/ StopUnrecorded
  \/ RestartPlugins

PluginSpec == PluginInit /\ [][PluginNext]_pluginVars

-----------------------------------------------------------------------------
(* Properties                                                                 *)

\* The lockfile, the pins and the operation hold values of their types.
PluginTypeOK ==
  /\ packages \in [Versions -> {"absent", "staging", "activation-pending", "verified"}]
  /\ oneWay \subseteq Versions /\ debts \subseteq Versions /\ snapshots \subseteq Versions
  /\ activation \in [active : Versions \cup {NoVersion}, previous : Versions \cup {NoVersion},
                     resume : Versions \cup {NoVersion}]
  /\ pins \in [PluginRuns -> Versions \cup {NoVersion}]
  /\ pinned \subseteq PluginRuns /\ released \subseteq PluginRuns /\ workers \subseteq Versions
  /\ task \in [kind : Tasks, version : Versions \cup {NoVersion},
               targets : SUBSET Versions, run : SUBSET PluginRuns]

\* docs/PLUGINS.md, "Runs already prepared retain their exact version and digest
\* until terminal": whatever is installed, upgraded, rolled back, disabled or
\* uninstalled meanwhile, and wherever the Manager dies, the packages of pinned,
\* active, retained and resumable versions stay installed and verified.
ReferencedPackagesStay ==
  \A v \in PinnedBy(PluginRuns) \cup {Active, activation.previous, activation.resume} :
    v # NoVersion => packages[v] = "verified"

\* releaseRun, disable and the retries of cleanup debt await the stop of a
\* worker: in the meantime, however often the version came back, no version is
\* stopped or in debt that is active or that another run still uses.
OnlyRetiredIsStopped ==
  \A v \in task.targets \cup debts : v \notin {Active} \cup PinnedBy(PluginRuns \ task.run)

\* A package goes, and its worker, only when nothing refers to its version.
PackagesFollowReferences == ReferencedPackagesStay /\ OnlyRetiredIsStopped
=============================================================================
