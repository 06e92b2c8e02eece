SPECIFICATION Spec
CHECK_DEADLOCK FALSE
CONSTANTS
    Endings <- MCEndings
    SessionWrites = {"notOpened", "unchanged", "changed", "fails"}
INVARIANTS
    StatusAsGiven
