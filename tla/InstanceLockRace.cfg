SPECIFICATION PromptSpec
CONSTANTS
    Managers = {m1, m2}
    Dead = Dead
    NoOwner = NoOwner
\* Managers end.
CHECK_DEADLOCK FALSE
INVARIANT OneManager
