---------------------------- MODULE SessionProofs ----------------------------
(***************************************************************************)
(* Theorems about Session, for any number of overlapping requests, any     *)
(* items and any number of changes of the secret key.                      *)
(***************************************************************************)
EXTENDS Session, TLAPS

\* A cookie that verifies under some key of the server came from the server.
Genuine(c) == c.key # 0 => c \in issued

\* Wherever a cookie can be, it is genuine; and a session that a view has opened
\* is fresh or was read from a genuine cookie.
Provenance ==
    /\ Genuine(jar) /\ \A c \in seen : Genuine(c)
    /\ \A r \in Requests : Genuine(sent[r]) /\ Genuine(setCookie[r].cookie)
    /\ OnlyOwnSessions

\* Nothing of an earlier request is left when the next one is sent.
Clean ==
    \A r \in Requests : pc[r] = "idle" =>
        ~opened[r] /\ setCookie[r].cookie = NoCookie

Inv == TypeOK /\ Provenance /\ Clean

-----------------------------------------------------------------------------
(* Types.                                                                  *)

LEMMA CookieTypes ==
    /\ NoCookie \in Cookies
    /\ Nothing \in Effects /\ Delete \in Effects
    /\ \A c \in Cookies : Put(c) \in Effects
    /\ Nothing.cookie = NoCookie /\ Delete.cookie = NoCookie
    /\ Forged \in Cookies /\ Forged.key = 0 /\ NoCookie.key = 0
BY SessionConstantsOK
   DEF SessionConstantsOK, NoCookie, Cookies, Nothing, Delete, Put, Effects, Forged

LEMMA DecodeType ==
    ASSUME NEW c \in Cookies, NEW k
    PROVE  decodeSession(c, k) \in SUBSET Items
BY DEF decodeSession, Cookies

\* What writeSessionCookie puts into the header: no cookie, or the JSON of the
\* session under the request's key.
LEMMA WriteType ==
    ASSUME NEW orig \in SUBSET Items, NEW d \in SUBSET Items, Encodable(d),
           NEW k \in 1..MaxKey + 1, NEW w, w = writeSessionCookie(orig, d, k)
    PROVE  /\ w \in Effects
           /\ w.cookie = NoCookie \/ w.cookie = [items |-> d, key |-> k]
           /\ w.cookie # NoCookie => d \in SUBSET (Items \ Unencodable)
           /\ w.cookie # NoCookie => w \notin {Nothing, Delete}
<1>1. [items |-> d, key |-> k] \in Cookies
  BY SessionConstantsOK DEF SessionConstantsOK, Cookies
<1>2. Put([items |-> d, key |-> k]) \in Effects
  BY <1>1, CookieTypes
<1>3. Put([items |-> d, key |-> k]).cookie = [items |-> d, key |-> k]
  BY DEF Put
<1>4. d \in SUBSET (Items \ Unencodable)
  BY DEF Encodable
<1>5. w \in {Nothing, Delete, Put([items |-> d, key |-> k])}
  BY DEF writeSessionCookie
<1> QED BY <1>2, <1>3, <1>4, <1>5, CookieTypes

LEMMA InvInit == Init => Inv
BY CookieTypes, SessionConstantsOK
   DEF Init, Inv, TypeOK, Provenance, Genuine, OnlyOwnSessions, Clean, SessionConstantsOK, Nothing

-----------------------------------------------------------------------------
(* One step of each kind.                                                  *)

LEMMA SendKeeps ==
    ASSUME Inv, NEW r \in Requests, Send(r)
    PROVE  Inv'
<1>1. TypeOK'
  <2>1. ASSUME NEW s \in Requests, setCookie'[s].cookie # NoCookie
        PROVE  setCookie'[s].cookie \in
                  [items : SUBSET (Items \ Unencodable), key : {secret'[s]}]
    <3>1. s # r /\ setCookie'[s] = setCookie[s] /\ secret'[s] = secret[s]
      BY <2>1 DEF Inv, Clean, TypeOK, Send
    <3> QED BY <2>1, <3>1 DEF Inv, TypeOK
  <2> QED BY <2>1 DEF Inv, TypeOK, Send
<1>2. Provenance'
  BY DEF Inv, TypeOK, Clean, Provenance, Genuine, OnlyOwnSessions, Send
<1>3. Clean'
  BY DEF Inv, TypeOK, Clean, Send
<1> QED BY <1>1, <1>2, <1>3 DEF Inv

\* decodeSession hands out a non-empty session only from a cookie under the
\* request's key, and that cookie is genuine.
LEMMA OpenKeeps ==
    ASSUME Inv, NEW r \in Requests, Open(r)
    PROVE  Inv'
<1> DEFINE d == decodeSession(sent[r], secret[r])
<1>1. /\ pc[r] = "view"
      /\ opened' = [opened EXCEPT ![r] = TRUE]
      /\ data' = [data EXCEPT ![r] = d]
      /\ original' = [original EXCEPT ![r] = d]
      /\ UNCHANGED <<jar, key, pc, sent, secret, setCookie, told, issued, seen>>
  BY DEF Open
<1>2. d \in SUBSET Items
  BY DecodeType DEF Inv, TypeOK
<1>3. d # {} => [items |-> d, key |-> secret[r]] \in issued
  <2>1. CASE sent[r].key = secret[r]
    <3>1. sent[r] \in issued /\ sent[r] = [items |-> sent[r].items, key |-> sent[r].key]
      BY <2>1 DEF Inv, TypeOK, Provenance, Genuine, Cookies
    <3> QED BY <2>1, <3>1 DEF decodeSession
  <2>2. CASE sent[r].key # secret[r]
    BY <2>2 DEF decodeSession
  <2> QED BY <2>1, <2>2
<1> HIDE DEF d
<1>4. TypeOK'
  BY <1>1, <1>2 DEF Inv, TypeOK
<1>5. Provenance' /\ Clean'
  BY <1>1, <1>3 DEF Inv, TypeOK, Provenance, Genuine, OnlyOwnSessions, Clean
<1> QED BY <1>4, <1>5 DEF Inv

LEMMA MutateKeeps ==
    ASSUME Inv, NEW r \in Requests, NEW d \in SUBSET Items, Mutate(r, d)
    PROVE  Inv'
BY DEF Inv, TypeOK, Provenance, Genuine, OnlyOwnSessions, Clean, Mutate

\* Whatever is signed is recorded as issued in the same step.
LEMMA ReturnKeeps ==
    ASSUME Inv, NEW r \in Requests, NEW reply \in Replies, Return(r, reply)
    PROVE  Inv'
<1> DEFINE w == IF opened[r]
                THEN writeSessionCookie(original[r], data[r], secret[r])
                ELSE Nothing
<1>1. /\ pc' = [pc EXCEPT ![r] = "reply"]
      /\ told' \in [Requests -> {"none", "page", "error", "lost"}]
      /\ UNCHANGED <<jar, key, sent, secret, opened, original, data, seen>>
  BY DEF Return, Inv, TypeOK
<1>2. CASE UNCHANGED <<setCookie, issued>>
  BY <1>1, <1>2 DEF Inv, TypeOK, Provenance, Genuine, OnlyOwnSessions, Clean
<1>3. CASE /\ opened[r] => Encodable(data[r])
           /\ setCookie' = [setCookie EXCEPT
                              ![r] = IF reply = "ownCookie" THEN Nothing ELSE w]
           /\ issued' = IF w \in {Nothing, Delete} THEN issued ELSE issued \cup {w.cookie}
  <2>1. /\ w \in Effects
        /\ w.cookie # NoCookie =>
              /\ w.cookie \in [items : SUBSET (Items \ Unencodable), key : {secret[r]}]
              /\ w \notin {Nothing, Delete}
    <3>1. CASE opened[r]
      <4>1. /\ original[r] \in SUBSET Items /\ data[r] \in SUBSET Items
            /\ secret[r] \in 1..MaxKey + 1 /\ Encodable(data[r])
        BY <1>3, <3>1 DEF Inv, TypeOK
      <4>2. w = writeSessionCookie(original[r], data[r], secret[r])
        BY <3>1
      <4> HIDE DEF w
      <4>3. /\ w \in Effects
            /\ w.cookie = NoCookie
               \/ w.cookie = [items |-> data[r], key |-> secret[r]]
            /\ w.cookie # NoCookie => data[r] \in SUBSET (Items \ Unencodable)
            /\ w.cookie # NoCookie => w \notin {Nothing, Delete}
        BY <4>1, <4>2, WriteType
      <4> QED BY <4>3
    <3>2. CASE ~opened[r]
      BY <3>2, CookieTypes
    <3> QED BY <3>1, <3>2
  <2> HIDE DEF w
  <2>2. DEFINE x == IF reply = "ownCookie" THEN Nothing ELSE w
  <2>3. /\ x \in Effects
        /\ x.cookie # NoCookie =>
              /\ x.cookie \in [items : SUBSET (Items \ Unencodable), key : {secret[r]}]
              /\ x.cookie \in issued'
    BY <1>3, <2>1, CookieTypes
  <2>4. issued \subseteq issued' /\ issued' \subseteq Cookies
    BY <1>3, <2>1 DEF Effects, Inv, TypeOK
  <2>5. setCookie' = [setCookie EXCEPT ![r] = x]
    BY <1>3
  <2> HIDE DEF x
  <2>6. TypeOK'
    BY <1>1, <2>3, <2>4, <2>5 DEF Inv, TypeOK
  <2>7. Provenance' /\ Clean'
    BY <1>1, <2>3, <2>4, <2>5, CookieTypes
       DEF Inv, TypeOK, Provenance, Genuine, OnlyOwnSessions, Clean
  <2> QED BY <2>6, <2>7 DEF Inv
<1> QED BY <1>2, <1>3 DEF Return

LEMMA FailKeeps ==
    ASSUME Inv, NEW r \in Requests, Fail(r)
    PROVE  Inv'
BY DEF Inv, TypeOK, Provenance, Genuine, OnlyOwnSessions, Clean, Fail

\* A request that is over leaves nothing behind but what is in the jar.
LEMMA ForgottenKeeps ==
    ASSUME Inv, NEW r \in Requests, Forgotten(r), UNCHANGED <<key, issued>>,
           jar' \in Cookies, Genuine(jar'), seen' \in {seen, seen \cup {jar'}},
           told' \in [Requests -> {"none", "page", "error", "lost"}]
    PROVE  Inv'
<1>0. 1 \in 1..MaxKey + 1 /\ NoCookie \in Cookies /\ Nothing \in Effects
  BY CookieTypes, SessionConstantsOK DEF SessionConstantsOK
<1>1. TypeOK'
  <2>1. /\ pc' \in [Requests -> {"idle", "view", "reply"}]
        /\ sent' \in [Requests -> Cookies]
        /\ secret' \in [Requests -> 1..MaxKey + 1]
        /\ opened' \in [Requests -> BOOLEAN]
        /\ original' \in [Requests -> SUBSET Items]
        /\ data' \in [Requests -> SUBSET Items]
        /\ setCookie' \in [Requests -> Effects]
    BY <1>0 DEF Inv, TypeOK, Forgotten
  <2>2. ASSUME NEW s \in Requests, setCookie'[s].cookie # NoCookie
        PROVE  setCookie'[s].cookie \in
                  [items : SUBSET (Items \ Unencodable), key : {secret'[s]}]
    <3>1. s # r
      BY <2>2, CookieTypes DEF Inv, TypeOK, Forgotten
    <3>2. setCookie'[s] = setCookie[s] /\ secret'[s] = secret[s]
      BY <3>1 DEF Inv, TypeOK, Forgotten
    <3> QED BY <2>2, <3>2 DEF Inv, TypeOK
  <2> QED BY <2>1, <2>2 DEF Inv, TypeOK
<1>2. Provenance' /\ Clean'
  BY CookieTypes DEF Inv, TypeOK, Provenance, Genuine, OnlyOwnSessions, Clean, Forgotten
<1> QED BY <1>1, <1>2 DEF Inv

LEMMA DeliverKeeps ==
    ASSUME Inv, NEW r \in Requests, Deliver(r) \/ Lose(r)
    PROVE  Inv'
<1>1. jar' \in {jar, setCookie[r].cookie}
  BY DEF Deliver, Lose
<1>2. jar' \in Cookies /\ Genuine(jar')
  BY <1>1 DEF Inv, TypeOK, Provenance, Effects
<1> QED BY <1>2, ForgottenKeeps DEF Deliver, Lose, Inv, TypeOK

\* A forgery has key 0, which is no key of the server; an old cookie is genuine.
LEMMA TamperKeeps ==
    ASSUME Inv, NEW c \in seen \cup {Forged}, Tamper(c)
    PROVE  Inv'
BY CookieTypes DEF Inv, TypeOK, Provenance, Genuine, OnlyOwnSessions, Clean, Tamper, reqVars

LEMMA ReloadKeeps ==
    ASSUME Inv, Reload
    PROVE  Inv'
BY SessionConstantsOK
   DEF Inv, TypeOK, Provenance, Genuine, OnlyOwnSessions, Clean, Reload, reqVars, SessionConstantsOK

LEMMA InvNext ==
    ASSUME Inv, [Next]_vars
    PROVE  Inv'
<1>1. CASE UNCHANGED vars
  BY <1>1 DEF Inv, TypeOK, Provenance, Genuine, OnlyOwnSessions, Clean, vars
<1>2. CASE Next
  BY <1>2, SendKeeps, OpenKeeps, MutateKeeps, ReturnKeeps, FailKeeps, DeliverKeeps,
     TamperKeeps, ReloadKeeps DEF Next
<1> QED BY <1>1, <1>2

\* Every variable keeps its type; what is on its way to a browser is JSON under
\* the key of the Handler that sends it (session.go:94).
THEOREM TypeCorrect == Spec => []TypeOK
<1>1. Inv /\ [Next]_vars => Inv'
  BY InvNext
<1>2. Inv => TypeOK
  BY DEF Inv
<1> QED BY InvInit, <1>1, <1>2, PTL DEF Spec

\* A view works on a fresh session or on one that the server wrote under the key
\* it has at that request, whatever the visitor and the network do and however
\* often the key changes (decodeSession, Request.session).
THEOREM OnlyOwnSessionsCorrect == Spec => []OnlyOwnSessions
<1>1. Inv /\ [Next]_vars => Inv'
  BY InvNext
<1>2. Inv => OnlyOwnSessions
  BY DEF Inv, Provenance
<1> QED BY InvInit, <1>1, <1>2, PTL DEF Spec
=============================================================================
