SPECIFICATION InterruptionsSpec
CONSTANTS
    Deliveries = {1, 2}
    Window = 1
    MaxLost = 2
    Calls = {c1, c2, c3}
    MaxStarts = 3
    Requests = {q1, q2}
    MaxProcesses = 2
    MaxLines = 1
    McpCalls = {m1, m2, m3}
    MaxTransports = 2
    Routes = 2
    MaxTurns = 2
    MaxCalls = 2
    Instructions = {i1}
    Tokens = 1
    MaxEvents = 3
    Page = 2
    MaxBreaks = 2
    MaxRetries = 1
    Callers = {checkpoint}
    Damaged = Damaged
    MaxArchives = 5
    MaxFaults = 4
    MaxDamage = 0
    FlakyReads = FALSE
    Sessions = {b1, b2}
    Operations = {o1, o2}
    MaxSessions = 1
    MaxLaunches = 2
    MaxCommits = 1
    NoHolder = NoHolder
    SessionRuns = {r1, r2}
    NoParent = NoParent
    History = 3
    TurnLimit = 2
    ShortRuns = {r2}
    CallLimit = 1
    MaxSteering = 1
    MaxSaid = 1
    Asks = {k1, k2, k3}
    MaxPeers = 4
\* The bounds end the behaviour.
CHECK_DEADLOCK FALSE
INVARIANTS
    DeliveredOnce
    ProcessesAreAccounted
    AskedOnce
    ReadersSeeTheRun
    LatestIsRestorable
    SessionsAreAccounted
    OperationsKeepTheirDriver
PROPERTIES
    SettledTruthfully
    OnlyVerifiedAnswers
    ToolsFollowWholeAnswers
    EveryWaitEnds
    PromotionKeepsPrior
    ImplementsRegister
