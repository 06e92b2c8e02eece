SPECIFICATION Spec
CHECK_DEADLOCK FALSE
CONSTANTS
    Words <- MCWords
    SizeRange = 8
    DefaultSize = 2
    Cases <- MCCases
    Cwd <- MCCwd
    MainRoot <- MCMainRoot
    MaxDepth = 5
INVARIANTS
    TypeOK
    ReadsConfined
    RightView
    OnlySoundViewsRun
    ForGoodReason
    CapAsAsked
PROPERTY
    Answered
