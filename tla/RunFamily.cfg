SPECIFICATION Spec
CONSTANTS
    w1 = w1
    w2 = w2
    w3 = w3
    Managed = FALSE
    Runs <- FamilyRuns
    Workspaces <- FamilyWorkspaces
    WorkspaceOf <- FamilyWorkspaceOf
    ParentOf <- FamilyParentOf
PROPERTIES
    TerminalIsFinal
    CancelReachesDescendants
