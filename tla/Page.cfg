SPECIFICATION Spec
CHECK_DEADLOCK FALSE
CONSTANTS
    Canonical <- MCCanonical
    Byte <- MCByte
    Unreserved <- MCUnreserved
    Requests <- MCRequests
    Headers <- MCHeaders
    Files <- MCFiles
    Probes <- MCProbes
    Templates <- MCTemplates
    SafeSets <- MCSafeSets
    MaxOps = 3
    MaxHops = 2
INVARIANTS
    TypeOK
    LookupsAgree
    ReadsAgree
    ShownAsMeant
    LinkKeepsArgs
    QuoteRoundTrip
