SPECIFICATION CredentialSpec
CONSTANTS
    SecretKeys = {k1, k2}
    Processes = {p1, p2}
    Unlocked = Unlocked
    NoFile = NoFile
    MaxSecrets = 2
    MaxFaults = 1
\* The bounds end the behaviour.
CHECK_DEADLOCK FALSE
INVARIANTS
    RecoveryLosesNoUpdate
