SPECIFICATION FairSpec
CONSTANTS
    w1 = w1
    w2 = w2
    w3 = w3
    Managed = TRUE
    Runs <- PairRuns
    Workspaces <- PairWorkspaces
    WorkspaceOf <- PairWorkspaceOf
    ParentOf <- PairParentOf
INVARIANTS
    SingleWriter
    RowsAgree
    AwaitMatchesStatus
    OldestFirst
PROPERTIES
    ImplementsLease
    EveryRunEnds
