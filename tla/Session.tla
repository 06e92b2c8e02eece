------------------------------- MODULE Session -------------------------------
(***************************************************************************)
(* Signed-cookie sessions (session.go, Request.session, the session part   *)
(* of ServeHTTP) with one browser around them.  The server keeps nothing:  *)
(* a session lives in the browser's jar, and travels with every request    *)
(* and, when a view has changed it, with the response.  Requests of one    *)
(* browser overlap (tabs, sub-resources), their responses arrive in any    *)
(* order or not at all, and the secret key can change while they are out.  *)
(*                                                                         *)
(* A session dict is a set of items (its key-value pairs).  Items in       *)
(* Unencodable stand for what json.encode refuses: a key that is no        *)
(* string, a function, a NaN.                                              *)
(***************************************************************************)
EXTENDS Naturals

CONSTANTS
    Requests,       \* requests of one browser
    Items,          \* what views put into a session
    Unencodable,    \* those that cannot be written as JSON
    Replies,        \* subset of ReplyKinds: what views return
    MaxKey          \* bound: how often the secret key changes

ReplyKinds == {"plain",         \* a response of any supported shape
               "unsupported",   \* one that coerceResponse refuses
               "ownCookie"}     \* one whose headers dict has a "Set-Cookie"

ASSUME SessionConstantsOK ==
    /\ Unencodable \subseteq Items
    /\ Replies \subseteq ReplyKinds
    /\ MaxKey \in Nat

VARIABLES
    jar,            \* the browser's session cookie, or NoCookie
    key,            \* Handler.SecretKey: the current one's number
    pc,             \* pc[r]: "idle", "view", or "reply"
    sent,           \* sent[r]: the cookie that came with r
    secret,         \* secret[r]: the SecretKey of the Handler serving r
    opened,         \* opened[r]: has the view touched request.session?
    original,       \* original[r]: Request.sessionOriginal
    data,           \* data[r]: Request.sessionData
    setCookie,      \* setCookie[r]: the session's Set-Cookie header, if any
    told,           \* told[r]: what the browser got back for r
    issued,         \* history: every cookie the server has signed
    seen            \* the cookies the visitor has had, and may have kept

reqVars == <<pc, sent, secret, opened, original, data, setCookie>>
vars == <<jar, key, pc, sent, secret, opened, original, data, setCookie, told,
          issued, seen>>

\* A cookie carries items under a signature made with a key.  No server key is
\* 0: that is every signature that verifies under none.
NoCookie == [items |-> {}, key |-> 0]
Cookies == [items : SUBSET Items, key : 0..MaxKey + 1]

\* What a response does to the jar.
Nothing == [do |-> "nothing", cookie |-> NoCookie]
Delete == [do |-> "set", cookie |-> NoCookie]
Put(c) == [do |-> "set", cookie |-> c]
Effects == [do : {"nothing", "set"}, cookie : Cookies]

\* Mutant: the signature is not checked.
decodeUnsigned(c, k) == c.items

\* decodeSession: the items, if the signature is right, else a fresh session.
decodeSession(c, k) == IF c.key = k THEN c.items ELSE {}

\* Mutant: anything is encodable somehow.
EncodableAny(d) == TRUE

\* Mutant: the cookie is refreshed every time.
writeAlways(orig, d, k) == IF d = {} THEN Delete ELSE Put([items |-> d, key |-> k])

\* Mutant: an emptied session is not worth a cookie.
writeNonEmpty(orig, d, k) ==
    IF d = orig \/ d = {} THEN Nothing ELSE Put([items |-> d, key |-> k])

\* writeSessionCookie, which sees the two dicts as JSON; it is only called for
\* a session that has been opened.
Encodable(d) == d \cap Unencodable = {}

writeSessionCookie(orig, d, k) ==
    IF d = orig THEN Nothing
    ELSE IF d = {} THEN Delete
    ELSE Put([items |-> d, key |-> k])

Init ==
    /\ jar = NoCookie
    /\ key = 1
    /\ pc = [r \in Requests |-> "idle"]
    /\ sent = [r \in Requests |-> NoCookie]
    /\ secret = [r \in Requests |-> 1]
    /\ opened = [r \in Requests |-> FALSE]
    /\ original = [r \in Requests |-> {}]
    /\ data = [r \in Requests |-> {}]
    /\ setCookie = [r \in Requests |-> Nothing]
    /\ told = [r \in Requests |-> "none"]
    /\ issued = {}
    /\ seen = {NoCookie}

-----------------------------------------------------------------------------
(* One request.                                                            *)

Send(r) ==
    /\ pc[r] = "idle"
    /\ pc' = [pc EXCEPT ![r] = "view"]
    /\ sent' = [sent EXCEPT ![r] = jar]
    /\ secret' = [secret EXCEPT ![r] = key]
    /\ told' = [told EXCEPT ![r] = "none"]
    /\ UNCHANGED <<jar, key, opened, original, data, setCookie, issued, seen>>

\* request.session, the first time (sessionOnce).
Open(r) ==
    /\ pc[r] = "view" /\ ~opened[r]
    /\ opened' = [opened EXCEPT ![r] = TRUE]
    /\ LET d == decodeSession(sent[r], secret[r]) IN
         /\ data' = [data EXCEPT ![r] = d]
         /\ original' = [original EXCEPT ![r] = d]
    /\ UNCHANGED <<jar, key, pc, sent, secret, setCookie, told, issued, seen>>

\* The view adds, removes or clears.
Mutate(r, d) ==
    /\ pc[r] = "view" /\ opened[r]
    /\ d \in {data[r] \cup {i} : i \in Items} \cup {data[r] \ {i} : i \in Items} \cup {{}}
    /\ data' = [data EXCEPT ![r] = d]
    /\ UNCHANGED <<jar, key, pc, sent, secret, opened, original, setCookie, told,
                   issued, seen>>

\* The view has returned: the session cookie is written into the header first,
\* then the response.  A response that is refused comes too late for the
\* cookie; headers of the view's own are set over it.
Return(r, reply) ==
    /\ pc[r] = "view"
    /\ pc' = [pc EXCEPT ![r] = "reply"]
    /\ \/ /\ opened[r] => Encodable(data[r])
          /\ LET w == IF opened[r]
                      THEN writeSessionCookie(original[r], data[r], secret[r])
                      ELSE Nothing
             IN /\ setCookie' = [setCookie EXCEPT
                                   ![r] = IF reply = "ownCookie" THEN Nothing ELSE w]
                /\ issued' = IF w \in {Nothing, Delete} THEN issued
                             ELSE issued \cup {w.cookie}
          /\ told' = [told EXCEPT ![r] = IF reply = "unsupported" THEN "error"
                                         ELSE "page"]
       \/ /\ opened[r] /\ ~Encodable(data[r])
          /\ told' = [told EXCEPT ![r] = "error"]
          /\ UNCHANGED <<setCookie, issued>>
    /\ UNCHANGED <<jar, key, sent, secret, opened, original, data, seen>>

\* The view fails or calls abort(): no session cookie is written.
Fail(r) ==
    /\ pc[r] = "view"
    /\ pc' = [pc EXCEPT ![r] = "reply"]
    /\ told' = [told EXCEPT ![r] = "error"]
    /\ UNCHANGED <<jar, key, sent, secret, opened, original, data, setCookie, issued, seen>>

\* The request is over; what ServeHTTP had on its stack is gone.
Forgotten(r) ==
    /\ pc' = [pc EXCEPT ![r] = "idle"]
    /\ sent' = [sent EXCEPT ![r] = NoCookie]
    /\ secret' = [secret EXCEPT ![r] = 1]
    /\ opened' = [opened EXCEPT ![r] = FALSE]
    /\ original' = [original EXCEPT ![r] = {}]
    /\ data' = [data EXCEPT ![r] = {}]
    /\ setCookie' = [setCookie EXCEPT ![r] = Nothing]

\* The response reaches the browser, which obeys its Set-Cookie.
Deliver(r) ==
    /\ pc[r] = "reply"
    /\ jar' = IF setCookie[r].do = "set" THEN setCookie[r].cookie ELSE jar
    /\ seen' = seen \cup {jar'}
    /\ Forgotten(r)
    /\ UNCHANGED <<key, told, issued>>

\* The response is lost on the way.
Lose(r) ==
    /\ pc[r] = "reply"
    /\ told' = [told EXCEPT ![r] = "lost"]
    /\ Forgotten(r)
    /\ UNCHANGED <<jar, key, issued, seen>>

-----------------------------------------------------------------------------
(* Everyone else.                                                          *)

\* The visitor deletes the cookie, puts back one he has had before (no cookie has
\* a date the server looks at), or writes one without knowing the key; which items
\* such a cookie claims to have makes no difference to the server.
Forged == [items |-> Items, key |-> 0]

Tamper(c) ==
    /\ c # jar
    /\ jar' = c
    /\ UNCHANGED <<key, reqVars, told, issued, seen>>

\* A reloaded configuration has a new secret key.  Requests being served keep
\* the Handler, and so the key, they started with.
Reload ==
    /\ key <= MaxKey
    /\ key' = key + 1
    /\ UNCHANGED <<jar, reqVars, told, issued, seen>>

Next ==
    \/ \E r \in Requests : Send(r) \/ Open(r) \/ Fail(r) \/ Deliver(r) \/ Lose(r)
    \/ \E r \in Requests, d \in SUBSET Items : Mutate(r, d)
    \/ \E r \in Requests, reply \in Replies : Return(r, reply)
    \/ \E c \in seen \cup {Forged} : Tamper(c)
    \/ Reload

Spec == Init /\ [][Next]_vars

-----------------------------------------------------------------------------
(* What must hold.                                                         *)

\* Types; a session cookie holds JSON only, signed with its Handler's key.
TypeOK ==
    /\ jar \in Cookies
    /\ key \in 1..MaxKey + 1
    /\ pc \in [Requests -> {"idle", "view", "reply"}]
    /\ sent \in [Requests -> Cookies]
    /\ secret \in [Requests -> 1..MaxKey + 1]
    /\ opened \in [Requests -> BOOLEAN]
    /\ original \in [Requests -> SUBSET Items]
    /\ data \in [Requests -> SUBSET Items]
    /\ setCookie \in [Requests -> Effects]
    /\ \A r \in Requests : setCookie[r].cookie # NoCookie =>
          setCookie[r].cookie \in [items : SUBSET (Items \ Unencodable), key : {secret[r]}]
    /\ told \in [Requests -> {"none", "page", "error", "lost"}]
    /\ issued \subseteq Cookies /\ seen \subseteq Cookies

\* A view never works on a session this server did not itself write under the
\* key in force when the request came in: "Tampered or unsigned cookies are
\* silently treated as a fresh empty session" (README.md:301).
OnlyOwnSessions ==
    \A r \in Requests : opened[r] /\ original[r] # {} =>
        [items |-> original[r], key |-> secret[r]] \in issued

\* A request that leaves its session as it found it does not touch the jar, so
\* it cannot undo what an overlapping request wrote (writeSessionCookie).
ReadersDoNotClobber ==
    [][\A r \in Requests : Deliver(r) /\ data[r] = original[r] => jar' = jar]_vars

\* README.md:299: "After the view returns, if the dict has changed, the session
\* cookie is re-issued".
SessionReissued ==
    \A r \in Requests :
        pc[r] = "reply" /\ told[r] = "page" /\ data[r] # original[r] =>
            setCookie[r].do = "set"

\* The promise of SessionStore, under this reading of its variables.
AbsPast == {decodeSession(c, key) : c \in seen}
AbsBusy == [r \in Requests |-> pc[r] # "idle"]
AbsStale == [r \in Requests |-> pc[r] # "idle" /\ secret[r] # key]
AbsSnap == [r \in Requests |-> decodeSession(sent[r], secret[r])]
AbsWork == [r \in Requests |-> IF opened[r] THEN data[r] ELSE AbsSnap[r]]
AbsTold == [r \in Requests |-> IF pc[r] = "idle" THEN told[r] ELSE "none"]

Promise == INSTANCE SessionStore WITH
    store <- decodeSession(jar, key), past <- AbsPast, busy <- AbsBusy, stale <- AbsStale,
    snap <- AbsSnap, work <- AbsWork, told <- AbsTold

ImplementsSessionStore == Promise!Spec
=============================================================================
