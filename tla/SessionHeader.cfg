SPECIFICATION Spec
CONSTANTS
    r1 = r1
    r2 = r2
    user = user
    func = func
    Requests = {r1, r2}
    Items = {user}
    Unencodable = {}
    Replies = {"plain", "ownCookie"}
    MaxKey = 0
INVARIANT SessionReissued
