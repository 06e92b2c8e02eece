--------------------------- MODULE SessionStoreProofs ---------------------------
(***************************************************************************)
(* Session keeps the promise of SessionStore, for any number of requests,  *)
(* items and changes of the key, when no view sets a Set-Cookie header of  *)
(* its own; and requests that only read never touch the jar.               *)
(***************************************************************************)
EXTENDS SessionProofs

\* What the response of r has to do to the jar.
Written(r) == IF opened[r] THEN writeSessionCookie(original[r], data[r], secret[r])
              ELSE Nothing

\* No cookie and no request is ahead of the key; the visitor has had no cookie once.
Dated ==
    /\ jar \in seen \cup {Forged} /\ NoCookie \in seen
    /\ \A c \in seen : c.key <= key
    /\ \A r \in Requests : secret[r] <= key

\* Where each request is, and what it knows there.
Idle(r) == /\ sent[r] = NoCookie /\ ~opened[r] /\ data[r] = {} /\ setCookie[r] = Nothing

Viewing(r) == setCookie[r] = Nothing /\ told[r] = "none"

Answering(r) ==
    /\ told[r] \in {"page", "error"}
    /\ setCookie[r] \in {Nothing, Written(r)}
    /\ "ownCookie" \notin Replies /\ told[r] = "page" => setCookie[r] = Written(r)

Stages ==
    \A r \in Requests :
        /\ pc[r] = "idle" => Idle(r)
        /\ pc[r] = "view" => Viewing(r)
        /\ pc[r] = "reply" => Answering(r)
        /\ opened[r] => original[r] = decodeSession(sent[r], secret[r])

StoreInv == Inv /\ Dated /\ Stages

-----------------------------------------------------------------------------
(* StoreInv is inductive.                                                  *)

\* A cookie on its way is under the key of its request.
LEMMA WrittenIs ==
    ASSUME NEW r \in Requests
    PROVE  Written(r) \in {Nothing, Delete, Put([items |-> data[r], key |-> secret[r]])}
BY DEF Written, writeSessionCookie

LEMMA StoreInvInit == Init => StoreInv
<1> SUFFICES ASSUME Init PROVE StoreInv
  OBVIOUS
<1>1. Inv
  BY InvInit
<1>2. Dated
  BY DEF Init, Dated, NoCookie
<1>3. Stages
  BY DEF Init, Stages, Idle
<1> QED BY <1>1, <1>2, <1>3 DEF StoreInv

LEMMA DatedKeeps ==
    ASSUME StoreInv, Next
    PROVE  Dated'
<1> USE DEF Dated
<1>0. /\ key \in Nat /\ Dated /\ (\A c \in seen : c.key \in Nat)
      /\ jar.key \in Nat /\ jar.key <= key
      /\ seen \subseteq Cookies /\ secret \in [Requests -> Nat]
  <2>1. /\ key \in Nat /\ Dated /\ (\A c \in seen : c.key \in Nat)
        /\ seen \subseteq Cookies /\ secret \in [Requests -> Nat]
    BY SessionConstantsOK DEF SessionConstantsOK, StoreInv, Inv, TypeOK, Cookies
  <2> QED BY <2>1, CookieTypes
<1>1. ASSUME NEW r \in Requests, Send(r) PROVE Dated'
  BY <1>0, <1>1 DEF Send
<1>2. ASSUME NEW r \in Requests, Open(r) PROVE Dated'
  BY <1>0, <1>2 DEF Open
<1>3. ASSUME NEW r \in Requests, Fail(r) PROVE Dated'
  BY <1>0, <1>3 DEF Fail
<1>4. ASSUME NEW r \in Requests, Deliver(r) \/ Lose(r) PROVE Dated'
  <2>1. secret' = [secret EXCEPT ![r] = 1] /\ UNCHANGED key
    BY <1>4 DEF Deliver, Lose, Forgotten
  <2>2. \A s \in Requests : secret'[s] <= key'
    <3>1. 1 <= key
      BY SessionConstantsOK DEF SessionConstantsOK, StoreInv, Inv, TypeOK
    <3> QED BY <1>0, <2>1, <3>1
  <2>3. setCookie[r].cookie.key <= key
    <3>1. CASE setCookie[r].cookie = NoCookie
      BY <1>0, <3>1 DEF NoCookie
    <3>2. CASE setCookie[r].cookie # NoCookie
      <4>1. setCookie[r].cookie \in
               [items : SUBSET (Items \ Unencodable), key : {secret[r]}]
        BY <3>2 DEF StoreInv, Inv, TypeOK
      <4>2. setCookie[r].cookie.key = secret[r]
        BY <4>1
      <4> QED BY <1>0, <4>2
    <3> QED BY <3>1, <3>2
  <2>4. CASE Deliver(r)
    <3>1. jar' \in {jar, setCookie[r].cookie} /\ seen' = seen \cup {jar'}
      BY <2>4 DEF Deliver
    <3>2. jar'.key <= key'
      BY <1>0, <2>1, <2>3, <3>1
    <3> QED BY <1>0, <2>1, <2>2, <3>1, <3>2
  <2>5. CASE Lose(r)
    BY <1>0, <2>1, <2>2, <2>5 DEF Lose
  <2> QED BY <1>4, <2>4, <2>5
<1>5. ASSUME NEW r \in Requests, NEW d \in SUBSET Items, Mutate(r, d) PROVE Dated'
  BY <1>0, <1>5 DEF Mutate
<1>6. ASSUME NEW r \in Requests, NEW reply \in Replies, Return(r, reply) PROVE Dated'
  BY <1>0, <1>6 DEF Return
<1>7. ASSUME NEW c \in seen \cup {Forged}, Tamper(c) PROVE Dated'
  BY <1>0, <1>7, CookieTypes DEF Tamper, reqVars
<1>8. ASSUME Reload PROVE Dated'
  BY <1>0, <1>8 DEF Reload, reqVars
<1> QED BY <1>1, <1>2, <1>3, <1>4, <1>5, <1>6, <1>7, <1>8 DEF Next

LEMMA StagesKeeps ==
    ASSUME StoreInv, Next
    PROVE  Stages'
<1> USE DEF Stages, Idle, Viewing, Answering, Written
<1>0. /\ Stages
      /\ pc \in [Requests -> {"idle", "view", "reply"}]
      /\ sent \in [Requests -> Cookies] /\ secret \in [Requests -> 1..MaxKey + 1]
      /\ opened \in [Requests -> BOOLEAN]
      /\ original \in [Requests -> SUBSET Items] /\ data \in [Requests -> SUBSET Items]
      /\ setCookie \in [Requests -> Effects]
      /\ told \in [Requests -> {"none", "page", "error", "lost"}]
  BY DEF StoreInv, Inv, TypeOK
<1>1. ASSUME NEW r \in Requests, Send(r) PROVE Stages'
  BY <1>0, <1>1 DEF Send
<1>2. ASSUME NEW r \in Requests, Open(r) PROVE Stages'
  BY <1>0, <1>2 DEF Open
<1>3. ASSUME NEW r \in Requests, Fail(r) PROVE Stages'
  BY <1>0, <1>3 DEF Fail
<1>4. ASSUME NEW r \in Requests, Deliver(r) \/ Lose(r) PROVE Stages'
  <2>1. Forgotten(r) /\ \A s \in Requests \ {r} : told'[s] = told[s]
    BY <1>0, <1>4 DEF Deliver, Lose
  <2>2. Idle(r)' /\ pc'[r] = "idle" /\ ~opened'[r]
    BY <1>0, <2>1 DEF Forgotten
  <2>3. ASSUME NEW s \in Requests \ {r}
        PROVE  /\ pc'[s] = pc[s] /\ sent'[s] = sent[s] /\ secret'[s] = secret[s]
               /\ opened'[s] = opened[s] /\ original'[s] = original[s]
               /\ data'[s] = data[s] /\ setCookie'[s] = setCookie[s]
               /\ told'[s] = told[s]
    BY <1>0, <2>1 DEF Forgotten
  <2> QED BY <1>0, <2>2, <2>3
<1>5. ASSUME NEW r \in Requests, NEW d \in SUBSET Items, Mutate(r, d) PROVE Stages'
  BY <1>0, <1>5 DEF Mutate
<1>6. ASSUME NEW r \in Requests, NEW reply \in Replies, Return(r, reply) PROVE Stages'
  <2>1. /\ pc[r] = "view" /\ pc' = [pc EXCEPT ![r] = "reply"]
        /\ UNCHANGED <<sent, secret, opened, original, data>>
    BY <1>6 DEF Return
  <2>2. \A s \in Requests \ {r} : setCookie'[s] = setCookie[s] /\ told'[s] = told[s]
    BY <1>0, <1>6 DEF Return
  <2>3. Answering(r)'
    <3>1. CASE /\ told' = [told EXCEPT ![r] = "error"]
               /\ UNCHANGED <<setCookie, issued>>
      BY <1>0, <2>1, <3>1
    <3>2. CASE /\ setCookie' = [setCookie EXCEPT
                                  ![r] = IF reply = "ownCookie" THEN Nothing ELSE Written(r)]
               /\ told' = [told EXCEPT ![r] = IF reply = "unsupported" THEN "error"
                                              ELSE "page"]
      BY <1>0, <2>1, <3>2
    <3> QED BY <1>6, <3>1, <3>2 DEF Return
  <2> QED BY <1>0, <2>1, <2>2, <2>3
<1>7. ASSUME NEW c \in seen \cup {Forged}, Tamper(c) PROVE Stages'
  BY <1>0, <1>7 DEF Tamper, reqVars
<1>8. ASSUME Reload PROVE Stages'
  BY <1>0, <1>8 DEF Reload, reqVars
<1> QED BY <1>1, <1>2, <1>3, <1>4, <1>5, <1>6, <1>7, <1>8 DEF Next

LEMMA StoreInvNext == StoreInv /\ [Next]_vars => StoreInv'
<1> SUFFICES ASSUME StoreInv, [Next]_vars PROVE StoreInv'
  OBVIOUS
<1>1. Inv'
  BY InvNext DEF StoreInv
<1>2. CASE Next
  BY <1>1, <1>2, DatedKeeps, StagesKeeps DEF StoreInv
<1>3. CASE UNCHANGED vars
  BY <1>1, <1>3 DEF StoreInv, Dated, Stages, Idle, Viewing, Answering, Written, vars
<1> QED BY <1>2, <1>3

-----------------------------------------------------------------------------
(* Readers do not write.                                                   *)

\* A request whose view has left the session as it found it leaves the jar alone,
\* and so whatever overlapping requests wrote (writeSessionCookie, session.go:88).
THEOREM ReadersDoNotClobberCorrect == Spec => ReadersDoNotClobber
<1>1. ASSUME StoreInv, [Next]_vars
      PROVE  [\A r \in Requests : Deliver(r) /\ data[r] = original[r] => jar' = jar]_vars
  <2> SUFFICES ASSUME NEW r \in Requests, Deliver(r), data[r] = original[r]
               PROVE  jar' = jar
    OBVIOUS
  <2>1. setCookie[r] \in {Nothing, Written(r)}
    BY <1>1 DEF Deliver, StoreInv, Stages, Answering
  <2>2. Written(r) = Nothing
    BY DEF Written, writeSessionCookie
  <2> QED BY <2>1, <2>2 DEF Deliver, Nothing
<1> QED BY StoreInvInit, StoreInvNext, <1>1, PTL DEF Spec, ReadersDoNotClobber

-----------------------------------------------------------------------------
(* Every step is one of SessionStore, or none.                             *)

LEMMA StoreInitMaps == Init => Promise!Init
<1> SUFFICES ASSUME Init PROVE Promise!Init
  OBVIOUS
<1>1. \A k : decodeSession(NoCookie, k) = {}
  BY DEF decodeSession, NoCookie
<1>2. AbsPast = {{}}
  BY <1>1 DEF Init, AbsPast
<1>3. AbsBusy = [r \in Requests |-> FALSE] /\ AbsStale = [r \in Requests |-> FALSE]
  BY DEF Init, AbsBusy, AbsStale
<1>4. AbsSnap = [r \in Requests |-> {}] /\ AbsWork = [r \in Requests |-> {}]
  BY <1>1 DEF Init, AbsSnap, AbsWork
<1>5. AbsTold = [r \in Requests |-> "none"]
  BY DEF Init, AbsTold
<1> QED BY <1>1, <1>2, <1>3, <1>4, <1>5 DEF Init, Promise!Init

LEMMA SendMaps ==
    ASSUME StoreInv, NEW r \in Requests, Send(r)
    PROVE  Promise!Begin(r)
<1>1. /\ pc \in [Requests -> {"idle", "view", "reply"}]
      /\ sent \in [Requests -> Cookies] /\ secret \in [Requests -> 1..MaxKey + 1]
      /\ opened \in [Requests -> BOOLEAN]
      /\ told \in [Requests -> {"none", "page", "error", "lost"}]
      /\ ~opened[r]
  BY DEF StoreInv, Stages, Idle, Inv, TypeOK, Send
<1>2. AbsBusy' = [AbsBusy EXCEPT ![r] = TRUE] /\ ~AbsBusy[r]
  BY <1>1 DEF Send, AbsBusy
<1>3. AbsStale' = [AbsStale EXCEPT ![r] = FALSE]
  BY <1>1 DEF Send, AbsStale
<1>4. AbsSnap' = [AbsSnap EXCEPT ![r] = decodeSession(jar, key)]
  BY <1>1 DEF Send, AbsSnap
<1>5. AbsWork' = [AbsWork EXCEPT ![r] = decodeSession(jar, key)]
  BY <1>1 DEF Send, AbsWork, AbsSnap
<1>6. AbsTold' = [AbsTold EXCEPT ![r] = "none"]
  BY <1>1 DEF Send, AbsTold
<1> QED BY <1>2, <1>3, <1>4, <1>5, <1>6 DEF Promise!Begin, Send, AbsPast

\* Opening the session shows in nothing a visitor could see.
LEMMA OpenMaps ==
    ASSUME StoreInv, NEW r \in Requests, Open(r)
    PROVE  UNCHANGED Promise!vars
<1>1. /\ data \in [Requests -> SUBSET Items]
      /\ opened \in [Requests -> BOOLEAN]
  BY DEF StoreInv, Inv, TypeOK
<1>2. AbsWork' = AbsWork
  BY <1>1 DEF Open, AbsWork, AbsSnap
<1> QED BY <1>2 DEF Open, Promise!vars, AbsPast, AbsBusy, AbsStale, AbsSnap, AbsTold

LEMMA MutateMaps ==
    ASSUME StoreInv, NEW r \in Requests, NEW d \in SUBSET Items, Mutate(r, d)
    PROVE  Promise!Edit(r, d)
<1>1. data \in [Requests -> SUBSET Items]
  BY DEF StoreInv, Inv, TypeOK
<1>2. AbsWork' = [AbsWork EXCEPT ![r] = d]
  BY <1>1 DEF Mutate, AbsWork, AbsSnap
<1> QED BY <1>2 DEF Mutate, Promise!Edit, AbsPast, AbsBusy, AbsStale, AbsSnap, AbsTold

\* The answer is on its way; the visitor does not know it yet.
LEMMA ReturnMaps ==
    ASSUME StoreInv, NEW r \in Requests,
           Fail(r) \/ \E reply \in Replies : Return(r, reply)
    PROVE  UNCHANGED Promise!vars
<1>1. /\ pc \in [Requests -> {"idle", "view", "reply"}]
      /\ told \in [Requests -> {"none", "page", "error", "lost"}]
  BY DEF StoreInv, Inv, TypeOK
<1>2. /\ pc[r] = "view" /\ pc' = [pc EXCEPT ![r] = "reply"]
      /\ UNCHANGED <<jar, key, sent, secret, opened, original, data, seen>>
      /\ \A s \in Requests \ {r} : told'[s] = told[s]
  BY <1>1 DEF Fail, Return
<1>3. AbsBusy' = AbsBusy /\ AbsStale' = AbsStale
  BY <1>1, <1>2 DEF AbsBusy, AbsStale
<1>4. AbsTold' = AbsTold
  BY <1>1, <1>2 DEF AbsTold
<1> QED BY <1>2, <1>3, <1>4 DEF Promise!vars, AbsPast, AbsSnap, AbsWork

\* The response arrives: the jar becomes the session that SessionStore saves, or is
\* left alone with an error.
LEMMA DeliverMaps ==
    ASSUME StoreInv, "ownCookie" \notin Replies, NEW r \in Requests, Deliver(r)
    PROVE  \E t \in {"page", "error"} : Promise!Deliver(r, t)
<1>1. /\ sent \in [Requests -> Cookies] /\ secret \in [Requests -> 1..MaxKey + 1]
      /\ pc \in [Requests -> {"idle", "view", "reply"}]
      /\ opened \in [Requests -> BOOLEAN]
      /\ data \in [Requests -> SUBSET Items] /\ original \in [Requests -> SUBSET Items]
      /\ told \in [Requests -> {"none", "page", "error", "lost"}]
      /\ key \in 1..MaxKey + 1
  BY DEF StoreInv, Inv, TypeOK
<1>2. /\ pc[r] = "reply" /\ UNCHANGED <<key, told>> /\ Forgotten(r)
      /\ jar' = IF setCookie[r].do = "set" THEN setCookie[r].cookie ELSE jar
      /\ seen' = seen \cup {jar'}
  BY DEF Deliver
<1>3. /\ setCookie[r] = Written(r) \/ (setCookie[r] = Nothing /\ told[r] = "error")
      /\ told[r] \in {"page", "error"}
      /\ opened[r] => original[r] = decodeSession(sent[r], secret[r])
  <2>1. Answering(r) /\ (opened[r] => original[r] = decodeSession(sent[r], secret[r]))
    BY <1>2 DEF StoreInv, Stages
  <2> QED BY <2>1 DEF Answering
<1>4. \A k : decodeSession(NoCookie, k) = {}
  BY DEF decodeSession, NoCookie
<1> DEFINE held == decodeSession(jar, key)
           holds == decodeSession(jar', key')
           saved == IF AbsWork[r] = AbsSnap[r] THEN held
                    ELSE IF AbsStale[r] THEN {} ELSE AbsWork[r]
<1>5. setCookie[r] = Nothing => holds = held
  BY <1>2 DEF Nothing
<1>6. setCookie[r] = Written(r) => holds = saved
  <2> SUFFICES ASSUME setCookie[r] = Written(r) PROVE holds = saved
    OBVIOUS
  <2>1. CASE ~opened[r] \/ data[r] = original[r]
    <3>1. Written(r) = Nothing
      BY <2>1 DEF Written, writeSessionCookie
    <3>2. AbsWork[r] = AbsSnap[r]
      BY <1>3, <2>1 DEF AbsWork, AbsSnap
    <3> QED BY <1>5, <3>1, <3>2
  <2>2. CASE opened[r] /\ data[r] # original[r]
    <3>1. AbsWork[r] = data[r] /\ AbsSnap[r] = original[r]
      BY <1>3, <2>2 DEF AbsWork, AbsSnap
    <3>2. AbsStale[r] <=> secret[r] # key
      BY <1>2 DEF AbsStale
    <3>3. CASE data[r] = {}
      <4>1. jar' = NoCookie
        BY <1>2, <2>2, <3>3 DEF Written, writeSessionCookie, Delete
      <4> QED BY <1>4, <2>2, <3>1, <3>3, <4>1
    <3>4. CASE data[r] # {}
      <4>1. jar' = [items |-> data[r], key |-> secret[r]]
        BY <1>2, <2>2, <3>4 DEF Written, writeSessionCookie, Put
      <4>2. holds = IF secret[r] = key THEN data[r] ELSE {}
        BY <1>2, <4>1 DEF decodeSession
      <4> QED BY <2>2, <3>1, <3>2, <4>2
    <3> QED BY <3>3, <3>4
  <2> QED BY <2>1, <2>2
<1>7. AbsPast' = AbsPast \cup {holds}
  BY <1>2 DEF AbsPast
<1>8. AbsBusy[r] /\ AbsBusy' = [AbsBusy EXCEPT ![r] = FALSE]
  BY <1>1, <1>2 DEF AbsBusy, Forgotten
<1>9. AbsStale' = [AbsStale EXCEPT ![r] = FALSE]
  BY <1>1, <1>2 DEF AbsStale, Forgotten
<1>10. AbsSnap' = [AbsSnap EXCEPT ![r] = {}]
  BY <1>1, <1>2, <1>4 DEF AbsSnap, Forgotten
<1>11. AbsWork' = [AbsWork EXCEPT ![r] = {}]
  BY <1>1, <1>2, <1>4 DEF AbsWork, AbsSnap, Forgotten
<1>12. AbsTold' = [AbsTold EXCEPT ![r] = told[r]]
  BY <1>1, <1>2 DEF AbsTold, Forgotten
<1>13. \/ holds = saved /\ told[r] \in {"page", "error"}
       \/ holds = held /\ told[r] \in {"error", "lost"}
  BY <1>3, <1>5, <1>6
<1> HIDE DEF held, holds, saved
<1> QED BY <1>3, <1>7, <1>8, <1>9, <1>10, <1>11, <1>12, <1>13
        DEF Promise!Deliver, Promise!Saved, held, holds, saved

LEMMA LoseMaps ==
    ASSUME StoreInv, NEW r \in Requests, Lose(r)
    PROVE  Promise!Deliver(r, "lost")
<1>1. /\ sent \in [Requests -> Cookies] /\ secret \in [Requests -> 1..MaxKey + 1]
      /\ pc \in [Requests -> {"idle", "view", "reply"}]
      /\ opened \in [Requests -> BOOLEAN] /\ data \in [Requests -> SUBSET Items]
      /\ told \in [Requests -> {"none", "page", "error", "lost"}]
  BY DEF StoreInv, Inv, TypeOK
<1>2. /\ pc[r] = "reply" /\ told' = [told EXCEPT ![r] = "lost"] /\ Forgotten(r)
      /\ UNCHANGED <<jar, key, seen>>
  BY DEF Lose
<1>3. \A k : decodeSession(NoCookie, k) = {}
  BY DEF decodeSession, NoCookie
<1>4. AbsPast' = AbsPast \cup {decodeSession(jar', key')}
  <2>1. jar \in seen \cup {Forged} /\ NoCookie \in seen /\ key # 0
    BY SessionConstantsOK DEF SessionConstantsOK, StoreInv, Dated, Inv, TypeOK
  <2>2. decodeSession(Forged, key) = decodeSession(NoCookie, key)
    BY <2>1, <1>3, CookieTypes DEF decodeSession
  <2>3. decodeSession(jar, key) \in AbsPast
    BY <2>1, <2>2 DEF AbsPast
  <2> QED BY <1>2, <2>3 DEF AbsPast
<1>5. AbsBusy[r] /\ AbsBusy' = [AbsBusy EXCEPT ![r] = FALSE]
  BY <1>1, <1>2 DEF AbsBusy, Forgotten
<1>6. AbsStale' = [AbsStale EXCEPT ![r] = FALSE]
  BY <1>1, <1>2 DEF AbsStale, Forgotten
<1>7. AbsSnap' = [AbsSnap EXCEPT ![r] = {}] /\ AbsWork' = [AbsWork EXCEPT ![r] = {}]
  BY <1>1, <1>2, <1>3 DEF AbsSnap, AbsWork, Forgotten
<1>8. AbsTold' = [AbsTold EXCEPT ![r] = "lost"]
  BY <1>1, <1>2 DEF AbsTold, Forgotten
<1> QED BY <1>2, <1>4, <1>5, <1>6, <1>7, <1>8 DEF Promise!Deliver

\* What the visitor puts back he has had, and a forgery reads as nothing.
LEMMA TamperMaps ==
    ASSUME StoreInv, NEW c \in seen \cup {Forged}, Tamper(c)
    PROVE  Promise!PutBack
<1>1. /\ jar' = c /\ UNCHANGED <<key, reqVars, told, issued, seen>>
  BY DEF Tamper
<1>2. key # 0 /\ NoCookie \in seen
  BY SessionConstantsOK DEF SessionConstantsOK, StoreInv, Dated, Inv, TypeOK
<1>3. decodeSession(Forged, key) = decodeSession(NoCookie, key)
  BY <1>2, CookieTypes DEF decodeSession, NoCookie
<1>4. decodeSession(jar', key') \in AbsPast
  BY <1>1, <1>2, <1>3 DEF AbsPast
<1> QED BY <1>1, <1>4 DEF Promise!PutBack, reqVars, AbsPast, AbsBusy, AbsStale, AbsSnap,
        AbsWork, AbsTold

\* Under a new key every cookie out there reads as nothing.
LEMMA ReloadMaps ==
    ASSUME StoreInv, Reload
    PROVE  Promise!Rotate
<1>1. /\ key' = key + 1 /\ UNCHANGED <<jar, reqVars, told, issued, seen>>
  BY DEF Reload
<1>2. /\ key \in Nat /\ Dated /\ secret \in [Requests -> Nat]
      /\ \A c \in seen \cup {jar} : c.key \in Nat /\ c.key <= key
  BY CookieTypes, SessionConstantsOK
     DEF SessionConstantsOK, StoreInv, Dated, Inv, TypeOK, Cookies
<1>3. \A c \in seen \cup {jar} : decodeSession(c, key') = {}
  BY <1>1, <1>2 DEF decodeSession
<1>4. AbsPast' = {{}} /\ decodeSession(jar', key') = {}
  BY <1>1, <1>2, <1>3 DEF AbsPast, Dated
<1>5. AbsStale' = AbsBusy
  BY <1>1, <1>2 DEF AbsStale, AbsBusy, Dated, reqVars
<1> QED BY <1>1, <1>4, <1>5 DEF Promise!Rotate, reqVars, AbsBusy, AbsSnap, AbsWork, AbsTold

LEMMA StoreNextMaps ==
    ASSUME StoreInv, "ownCookie" \notin Replies, [Next]_vars
    PROVE  [Promise!Next]_Promise!vars
<1>1. CASE UNCHANGED vars
  BY <1>1 DEF vars, Promise!vars, AbsPast, AbsBusy, AbsStale, AbsSnap, AbsWork, AbsTold
<1>2. CASE Next
  BY <1>2, SendMaps, OpenMaps, MutateMaps, ReturnMaps, DeliverMaps, LoseMaps, TamperMaps,
     ReloadMaps DEF Next, Promise!Next
<1> QED BY <1>1, <1>2

\* Cookies, signatures, snapshots and headers together are the register that
\* SessionStore describes, as long as no view sets a Set-Cookie of its own
\* (Request.session, decodeSession, writeSessionCookie, writeResponse).
THEOREM SessionIsAStore ==
    ASSUME "ownCookie" \notin Replies
    PROVE  Spec => ImplementsSessionStore
<1>1. StoreInv /\ [Next]_vars => [Promise!Next]_Promise!vars
  BY StoreNextMaps
<1> QED BY StoreInvInit, StoreInvNext, StoreInitMaps, <1>1, PTL
        DEF Spec, ImplementsSessionStore, Promise!Spec
=============================================================================
