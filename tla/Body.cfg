SPECIFICATION Spec
CHECK_DEADLOCK FALSE
CONSTANTS
    Bodies <- MCBodies
    ContentTypes = {"urlencoded", "multipart", "other"}
    Limits <- MCLimits
    MemoryCap = 2
    MaxParts = 3
    FieldSlack = 0
    Faults <- MCFaults
    Defaults = TRUE
INVARIANTS
    TypeOK
    StableAnswers
    NothingCutShort
    FormFailsForCause
    BlameTheBody
    TempFilesRemoved
