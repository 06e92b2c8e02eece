SPECIFICATION Spec
CONSTANTS
    r1 = r1
    r2 = r2
    user = user
    func = func
    Requests = {r1, r2}
    Items = {user, func}
    Unencodable = {func}
    Replies = {"plain", "unsupported"}
    MaxKey = 1
SYMMETRY Symmetry
INVARIANTS
    TypeOK
    OnlyOwnSessions
PROPERTIES
    ReadersDoNotClobber
    ImplementsSessionStore
