SPECIFICATION ServicesSpec
CONSTANTS
    r1 = r1
    r2 = r2
    r3 = r3
    w1 = w1
    w2 = w2
    NoRun = NoRun
    MaxEpoch = 3
    Runs <- MCRuns
    Workspaces <- MCWorkspaces
    WorkspaceOf <- MCWorkspaceOf
    Epochs <- MCEpochs
    MaxContainers = 2
    MaxTime = 8
    Interval = 3
    Jitter = 1
    LeaseTime = 2
    RetryTime = 2
    Pids = {1, 2}
    Day = 6
    Horizon = 40
    Offsets <- MCOffsets
    Shifts <- MCShifts
    Lateness = 1
    Keys = {k1, k2, k3}
    AgentNames = {a1, a2}
    WorkspaceNames = {w1, w2}
    SessionNames = {s1}
    Unnamed = Unnamed
    MaxRows = 3
    RootBudget = 3
    MaxDepth = 2
    MaxFamily = 4
    MaxGeneration = 2
    Versions = {v1, v2}
    PluginRuns = {r1, r2}
    NoVersion = NoVersion
    Publishers = {p1, p2}
    Readers = {r1, r2}
    NoOne = NoOne
    MaxToken = 3
    Missing = Missing
    Partial = Partial
    NoSnapshot = NoSnapshot
    MaxVersions = 3
    Disturbances <- MCDisturbances
    SecretKeys = {k1, k2}
    Processes = {p1, p2}
    Unlocked = Unlocked
    NoFile = NoFile
    MaxSecrets = 2
    MaxFaults = 1
    DelegatedRuns = {r1}
    NoLeaseHolder = NoLeaseHolder
    MaxNotes = 2
    Artifacts = {f1}
    MaxRewrites = 2
    Gone = Gone
    Part = Part
    Spoilt = Spoilt
    BlockSize = 2
    MaxSize = 3
    MaxBlocks = 4
    MaxFiles = 2
    MaxBytes = 3
    Imports = {i1}
    Visitors = {v1}
    Files = {f1, f2}
    NoContent = NoContent
    MaxStrays = 1
    MaxVisits = 1
    MaxCrashes = 1
    Damaged = Damaged
    ServedRuns = {r1, r2, r3}
    Origin <- MCOrigin
    Bearers <- MCBearers
    Unbound = Unbound
    Packages = {1, 2, 3, 4}
    PluginOf <- MCPluginOf
    Declared <- MCDeclared
    OperatorGrant <- MCOperatorGrant
    DataOnly = {}
    HostTools = {}
    PackageRuns = {r1}
    NoPackage = NoPackage
    Openers = {p1, p2}
    BuildOf <- MCBuildOf
    OldRuns = {1, 2}
    Users <- MCUsers
    ClientKeys <- MCClientKeys
    MaxCost = 4
    MaxRequests = 2
    Sizes = {1, 2}
    LongContext = 1
    Bills = {3}
    Connections = {c1, c2}
    AdminRequests = {q1, q2}
    ConnectedRuns = {r1}
    MaxProfiles = 2
    NoConnection = NoConnection
    AppTokens = {t1, t2}
    RunTokens = {k1}
    Gateways = {g1, g2}
    GatewayRequests = {q1}
    Builds <- MCBuilds
    RunScopes = {"runs", "events"}
    NoRow = NoRow
    AuthFailureLimit = 1
\* The bounds end the behaviour.
CHECK_DEADLOCK FALSE
INVARIANTS
    ServicesTypeOK
    ToolWorkIsAccounted
    StoresAreSound
    ScheduleFiresOnce
    RowsKeepTheirOwners
    BudgetsHold
    WaiterAgreesWithRow
    PluginsHold
    RowFollowsRun
    UndisturbedRunsStartFromBase
    CredentialsHold
    SucceedsAsReported
    OnlyVerifiedGenerations
    OneDamageIsSurvived
PROPERTIES
    GrantsAreFenced
    ColdHoldsTheVolume
    FiresDaily
    ExecutesWhatWasApproved
    HeldEntryStays
