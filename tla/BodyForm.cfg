SPECIFICATION Spec
CHECK_DEADLOCK FALSE
CONSTANTS
    Bodies <- MCBodies
    ContentTypes = {"urlencoded"}
    Limits <- MCLimits
    MemoryCap = 2
    MaxParts = 3
    FieldSlack = 0
    Faults <- MCFaults
    Defaults = FALSE
INVARIANT BeyondLimitIs413
