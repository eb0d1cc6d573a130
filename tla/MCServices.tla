----------------------------- MODULE MCServices -----------------------------
(* The components beside the runs and the archives, side by side, each with   *)
(* variables of its own: focus picks one of them, and only that one moves.    *)
(* The states are the sum of theirs, not the product.                         *)
EXTENDS WorkspaceLease, ToolContainers, Automation, RunAdmission,
        ChildBudgets, Approvals, PluginLifecycle, CacheCatalog, WorkspaceLifecycle,
        CredentialStore, DelegatedTurn, ArtifactStore, AccessTokens,
        ProviderConnections, Metering, SchemaMigration, PluginPackages,
        MCRequestRoutes, WorkspaceVolumes, WorkspaceArchive, TLC

CONSTANT MaxEpoch

MCRuns        == {r1, r2, r3}
MCWorkspaces  == {w1, w2}
MCWorkspaceOf == r1 :> w1 @@ r2 :> w1 @@ r3 :> w2
MCEpochs      == 0 .. MaxEpoch
MCDisturbances == PossibleDisturbances
MCOffsets     == {-2, 1}
MCShifts      == {-1, 1, 2}
MCUsers       == {<<"a">>, <<":", "1">>}
MCBuildOf     == [p \in Openers |-> IF p = CHOOSE q \in Openers : TRUE THEN 5 ELSE 6]
MCClientKeys  == <<<<"k">>, <<":">>>>
MCPluginOf    == <<"a", "a", "b", "b">>
MCOperatorGrant == <<{"t"}, {"u"}, {"u"}, {"t", "u"}>>
MCDeclared    == <<{"t", "u"}, {"u"}, {"u"}, {"t"}>>
MCBuilds      == {{"tokens", "runs"}, {"tokens", "runs", "events"}}

\* The database of the other components is left alone.
Blank == Legacy([r \in OldRuns |-> CHOOSE first \in Users : TRUE], [r \in OldRuns |-> 1], {}, {}, {})

VARIABLE focus

-----------------------------------------------------------------------------
(* A checkpoint that meets an administrator in the snapshot store, flaky files *)
(* and faults, or that is alone with one damaged file.                         *)

VARIABLES genCurrent, genPrevious, genBackup, genStaged, genArchive, genHeader, genMoved,
          genPc, genExported, genPublished, genFaults, genDamage

CONSTANT Damaged

ASSUME GenerationsAssumption == Damaged \notin Nat

Contended == INSTANCE SnapshotStore WITH
  Callers <- {"checkpoint", "admin"}, MaxArchives <- 3, MaxFaults <- 2, MaxDamage <- 1,
  FlakyReads <- TRUE,
  current <- genCurrent, previous <- genPrevious, backup <- genBackup, staged <- genStaged,
  archive <- genArchive, header <- genHeader, moved <- genMoved, pc <- genPc,
  exported <- genExported, published <- genPublished, faults <- genFaults, damage <- genDamage

generationVars == <<genCurrent, genPrevious, genBackup, genStaged, genArchive, genHeader,
                    genMoved,
                    genPc, genExported, genPublished, genFaults, genDamage>>

\* The administrator stays out, and nothing fails but what decays.
Alone == genPc["admin"] = "away"

AloneInit ==
  /\ genPc = [c \in {"checkpoint", "admin"} |-> IF c = "admin" THEN "away" ELSE "idle"]
  /\ genFaults = 2
  /\ genCurrent = 0 /\ genPrevious = 0 /\ genBackup = 0
  /\ genStaged = [c \in {"checkpoint", "admin"} |-> 0] /\ genArchive = genStaged
  /\ genHeader = genStaged /\ genMoved = [c \in {"checkpoint", "admin"} |-> FALSE]
  /\ genExported = 0 /\ genPublished = <<>> /\ genDamage = 0

GenerationsInit == Contended!Init \/ (focus = "generations" /\ AloneInit)

\* Nothing becomes a generation without having been verified, whatever overlaps, fails
\* or is read wrongly (createStreamingSnapshotPipeline, #verifySnapshotBeforeRotation).
OnlyVerifiedGenerations == Contended!OnlyVerifiedGenerations

\* A generation that stops verifying at any moment of an uninterrupted rotation
\* leaves another one to restore (#rotateVerifiedSnapshots).
OneDamageIsSurvived == Alone => Contended!OneDamageIsSurvived

-----------------------------------------------------------------------------

Components == {"lease", "tools", "automation", "daily", "admission", "budgets",
               "approvals", "plugins", "caches", "workspace", "undisturbed",
               "credentials", "delegated", "artifacts",
               "gateway", "connections", "metering", "migration", "packages", "generations",
               "routes", "volumes", "archive"}

ServicesInit ==
  /\ focus \in Components
  /\ LeaseInit /\ ContainersInit /\ AdmissionInit /\ BudgetInit
  /\ ApprovalInit /\ PluginInit /\ CacheInit /\ Init
  /\ CredentialInit /\ (focus # "credentials" => kind = "windows" /\ users = Processes)
  /\ DelegatedInit /\ (focus # "delegated" => gateway = "claude" /\ capped)
  /\ ArtifactInit
  /\ ArchiveInit /\ (focus # "archive" => blocks = <<>>)
  /\ VolumesInit /\ (focus # "volumes" => ~legacy /\ target = NoVolume)
  /\ GenerationsInit
  /\ RoutesInit
  /\ PackagesInit
  /\ IF focus = "migration" THEN MigrationInit
     ELSE original = Blank /\ db = Blank /\ writer = NoWriter /\ opener = [p \in Openers |-> Unopened]
  /\ MeteringInit /\ (focus # "metering" => setup = CHOOSE s \in Setups : s.provider = "fake")
  /\ ConnectionInit
  /\ TokensInit
  /\ AutomationInit /\ (focus # "automation" => policy = "skip" /\ pid = 1)
  /\ IF focus = "daily" THEN DailyInit
     ELSE zone = [offset |-> 1, shift |-> 1, at |-> 0] /\ timeOfDay = 0 /\ due = 0 /\ after = 0

\* The component in focus takes a step, the others none.
Others(own) ==
  /\ UNCHANGED focus
  /\ IF own = "lease"        THEN TRUE ELSE UNCHANGED leaseVars
  /\ IF own = "tools"        THEN TRUE ELSE UNCHANGED toolVars
  /\ IF own = "automation"   THEN TRUE ELSE UNCHANGED automationVars
  /\ IF own = "daily"        THEN TRUE ELSE UNCHANGED dailyVars
  /\ IF own = "admission"    THEN TRUE ELSE UNCHANGED admissionVars
  /\ IF own = "budgets"      THEN TRUE ELSE UNCHANGED budgetVars
  /\ IF own = "approvals"    THEN TRUE ELSE UNCHANGED approvalVars
  /\ IF own = "plugins"      THEN TRUE ELSE UNCHANGED pluginVars
  /\ IF own = "caches"       THEN TRUE ELSE UNCHANGED cacheVars
  /\ IF own = "workspace"    THEN TRUE ELSE UNCHANGED vars
  /\ IF own = "credentials"  THEN TRUE ELSE UNCHANGED credentialVars
  /\ IF own = "delegated"    THEN TRUE ELSE UNCHANGED delegatedVars
  /\ IF own = "gateway" THEN TRUE ELSE UNCHANGED tokenVars
  /\ IF own = "connections" THEN TRUE ELSE UNCHANGED connectionVars
  /\ IF own = "metering" THEN TRUE ELSE UNCHANGED meteringVars
  /\ IF own = "migration" THEN TRUE ELSE UNCHANGED migrationVars
  /\ IF own = "packages" THEN TRUE ELSE UNCHANGED packageVars
  /\ IF own = "routes" THEN TRUE ELSE UNCHANGED routingVars
  /\ IF own = "generations" THEN TRUE ELSE UNCHANGED generationVars
  /\ IF own = "volumes" THEN TRUE ELSE UNCHANGED volumesVars
  /\ IF own = "archive" THEN TRUE ELSE UNCHANGED archiveVars
  /\ IF own = "artifacts"    THEN TRUE ELSE UNCHANGED artifactVars

\* Two processes of one file, none of which fails, or one that may.
Fortunate == Cardinality(users) > 1 => faults' = 0 /\ ~slow' /\ kind # "keychain"

\* Connections, gateways and their tokens are alike: the first to be stored, and
\* the gateway that stores it, are given ones.
FirstOf(S) == CHOOSE x \in S : TRUE
FirstConnection == owner = <<>> /\ owner' # <<>> => owner' = <<FirstOf(Connections)>>
FirstGateway ==
  (\A t \in AppTokens : access[t] = NoRow) /\ access' # access =>
    access'[FirstOf(AppTokens)] # NoRow /\ gate'[FirstOf(Gateways)] # gate[FirstOf(Gateways)]

ServicesNext ==
  \/ focus = "lease"        /\ LeaseNext       /\ Others("lease")
  \/ focus = "tools"        /\ ContainersNext  /\ Others("tools")
  \/ focus = "automation"   /\ AutomationNext  /\ Others("automation")
  \/ focus = "daily"        /\ DailyNext       /\ Others("daily")
  \/ focus = "admission"    /\ AdmissionNext   /\ Others("admission")
  \/ focus = "budgets"      /\ BudgetNext      /\ Others("budgets")
  \/ focus = "approvals"    /\ ApprovalNext    /\ Others("approvals")
  \/ focus = "plugins"      /\ PluginNext      /\ Others("plugins")
  \/ focus = "caches"       /\ CacheNext       /\ Others("caches")
  \/ focus = "workspace"    /\ Next            /\ Others("workspace")
  \/ focus = "undisturbed"  /\ Next /\ ~Disturbed /\ Others("workspace")
  \/ focus = "credentials"  /\ CredentialNext /\ Fortunate /\ Others("credentials")
  \/ focus = "delegated"    /\ DelegatedNext   /\ Others("delegated")
  \/ focus = "gateway" /\ TokensNext /\ FirstGateway /\ Others("gateway")
  \/ focus = "connections" /\ ConnectionNext /\ FirstConnection /\ Others("connections")
  \/ focus = "metering" /\ MeteringNext /\ Others("metering")
  \/ focus = "migration" /\ MigrationNext /\ Others("migration")
  \/ focus = "packages" /\ PackagesNext /\ Others("packages")
  \/ focus = "routes" /\ RoutesNext /\ Others("routes")
  \/ focus = "generations" /\ Contended!Next /\ Others("generations")
  \/ focus = "volumes" /\ VolumesNext /\ Others("volumes")
  \/ focus = "archive" /\ ArchiveNext /\ Others("archive")
  \/ focus = "artifacts"    /\ ArtifactNext    /\ Others("artifacts")

servicesVars ==
  <<focus, leaseVars, toolVars, automationVars, dailyVars, admissionVars, budgetVars,
    approvalVars, pluginVars, cacheVars, vars, credentialVars, delegatedVars,
    artifactVars, tokenVars, connectionVars,
    migrationVars, packageVars, routingVars, generationVars, meteringVars,
    volumesVars, archiveVars>>

ServicesSpec == ServicesInit /\ [][ServicesNext]_servicesVars

\* The variables of every component keep their types.
ServicesTypeOK ==
  /\ LeaseTypeOK /\ ContainersTypeOK /\ AutomationTypeOK /\ AdmissionTypeOK
  /\ BudgetTypeOK /\ ApprovalTypeOK /\ PluginTypeOK /\ CacheTypeOK
  /\ LifecycleTypeOK /\ CredentialTypeOK /\ ArtifactTypeOK /\ TokensTypeOK
  /\ VolumesTypeOK /\ ArchiveTypeOK

\* prepare: whatever crashes, fails or is lost, a run starts from what was written
\* last or, when the volume is gone, from the last snapshot; restores that are
\* cancelled and deletions aside.
UndisturbedRunsStartFromBase == focus = "undisturbed" => StartsFromBase

\* Rows stay with those who made them: requests that meet, databases that are migrated,
\* and what a token of one owner is shown.
RowsKeepTheirOwners == SessionsStayBound /\ MigrationKeepsRows /\ StaysWithinBinding

\* Versions in use stay, and what was done to them never hinders a startup.
PluginsHold == PackagesFollowReferences /\ PluginsStartAgain

\* What a family of runs is given and what each run is charged.
BudgetsHold == LevelsStayInBudget /\ RunsAreMetered

\* What is stored keeps its bytes: published artifacts, the volume of a workspace through
\* imports that fail or overlap a crash, and the archives that may replace it.
StoresAreSound == ArtifactsAreSound /\ VolumesAreSound /\ AcceptsTheFormat

\* What opens the way to the service and to the providers: the keys in their file,
\* the tokens of the Gateway, and the connections of the users with their secrets.
CredentialsHold == KeysSurvive /\ TokensAreBound /\ ConnectionsAreBacked
=============================================================================
