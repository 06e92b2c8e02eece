------------------------- MODULE ProgramCacheProofs -------------------------
(***************************************************************************)
(* Theorems about ProgramCache, for every number of requests, views, texts *)
(* and edits.                                                              *)
(*                                                                         *)
(* The argument turns on one comparison.  A cache entry's program was read *)
(* AFTER the Stat that gave the entry its modification time, so the file   *)
(* had that program under that time or a later one (CachedWasHeld).  A request  *)
(* that hits the entry has itself just seen a face with the entry's time,  *)
(* and every later face of the file appeared while the request was in      *)
(* flight (Statted).  Whichever case holds, the request saw the            *)
(* modification time that the program belongs to.  All of this needs time  *)
(* to go forward, which is what a preserved modification time breaks.      *)
(***************************************************************************)
EXTENDS ProgramCache, TLAPS

-----------------------------------------------------------------------------
(* The inductive invariant.                                                *)

\* No file carries a modification time from the future.
Clock == \A v \in Views : \A p \in held[v] : p.mtime <= now

\* What is at a path now is part of its history.
Current == \A v \in Views : FaceOf(disk[v]) \in held[v]

\* What exists at a path is the newest thing that was ever there.
Newest ==
    \A v \in Views : disk[v].kind # "none" =>
        \A p \in held[v] : p.mtime <= disk[v].mtime

\* A request in flight has seen what is there now, and nothing it saw is made up.
Watching ==
    \A r \in Requests :
        /\ pc[r] \in InFlight => FaceOf(disk[view[r]]) \in seen[r]
        /\ seen[r] \subseteq held[view[r]]

\* After loadProgram's Stat a request has seen a face with that modification
\* time, and has seen every face the file had with a later one.
Statted ==
    \A r \in Requests : pc[r] \in {"lookup", "read", "store"} =>
        /\ \E p \in seen[r] : p.mtime = mtime[r]
        /\ \A p \in held[view[r]] : p.mtime > mtime[r] => p \in seen[r]

\* A cached program was in its file under the entry's time or a later one.
CachedWasHeld ==
    \A v \in Views : cache[v].prog # NoText =>
        \E p \in held[v] : p.text = cache[v].prog /\ p.mtime >= cache[v].mtime

\* So was a program that is about to be cached.
StoringWasSeen ==
    \A r \in Requests : pc[r] = "store" =>
        \E p \in seen[r] : p.text = prog[r] /\ p.mtime >= mtime[r]

\* Nothing is answered before it is done.
Answered == \A r \in Requests : pc[r] # "done" => outcome[r] = "none"

IInv ==
    /\ TypeOK
    /\ Answered
    /\ Clock
    /\ Current
    /\ Newest
    /\ Watching
    /\ Statted
    /\ CachedWasHeld
    /\ StoringWasSeen
    /\ RunsUnderItsTime

\* With a modification time of its own for every edit, a time names one face.
Unique ==
    \A v \in Views :
        /\ FaceOf(Absent) \in held[v]
        /\ \A p, q \in held[v] : p.mtime = q.mtime => p = q

\* Only what compiles is cached, and only what compiles runs.
Compiled ==
    /\ \A v \in Views : cache[v].prog \notin Broken
    /\ \A r \in Requests : pc[r] = "store" => prog[r] \notin Broken \cup {NoText}

-----------------------------------------------------------------------------
(* Types.                                                                  *)

LEMMA FaceType ==
    ASSUME NEW node \in Nodes
    PROVE  FaceOf(node) \in Faces
BY DEF FaceOf, Nodes, Faces

LEMMA AbsentType == Absent \in Nodes /\ NoEntry \in Entries
BY DEF Absent, NoEntry, Nodes, Entries, Texts

LEMMA StampType ==
    ASSUME now \in Nat, ConstantsOK, NEW c \in Texts, NEW how \in Stamping,
           how # "kept" \/ c \in Contents
    PROVE  Stamp(c, how) \in Nat
BY DEF ConstantsOK, Stamp

\* What any edit of a path does to the variables it touches.
LEMMA ShowTypes ==
    ASSUME TypeOK, NEW v \in Views, NEW node \in Nodes, Show(v, node)
    PROVE  /\ disk' \in [Views -> Nodes]
           /\ held' \in [Views -> SUBSET Faces]
           /\ seen' \in [Requests -> SUBSET Faces]
           /\ disk'[v] = node
           /\ \A w \in Views \ {v} : disk'[w] = disk[w]
BY FaceType DEF TypeOK, Show

LEMMA EditTypes ==
    ASSUME TypeOK, ConstantsOK, NEW v \in Views, NEW kind \in {"dir", "file"},
           NEW c \in Texts, kind = "file" <=> c # NoText, NEW t \in Nat,
           disk[v].kind # "dir", Edit(v, kind, c, t)
    PROVE  TypeOK'
<1> DEFINE node == [kind |-> kind, text |-> c, mtime |-> t]
<1>1. node \in Nodes /\ node.kind = kind /\ node.text = c
  BY DEF Nodes
<1>2. Show(v, node)
  BY DEF Edit
<1>3. /\ disk' \in [Views -> Nodes]
      /\ held' \in [Views -> SUBSET Faces]
      /\ seen' \in [Requests -> SUBSET Faces]
      /\ disk'[v] = node
      /\ \A w \in Views \ {v} : disk'[w] = disk[w]
  <2> HIDE DEF node
  <2> QED BY <1>1, <1>2, ShowTypes
<1> HIDE DEF node
<1>4. \A w \in Views : disk'[w].kind = "file" <=> disk'[w].text # NoText
  BY <1>1, <1>3 DEF TypeOK
<1>5. ASSUME NEW w \in Views, disk'[w].kind # "none", NEW a \in Above[w]
      PROVE  disk'[a].kind = "dir"
  <2>1. a \in Views /\ disk[a].kind = "dir"
    <3>1. CASE w = v
      BY <3>1, <1>5 DEF Edit, ConstantsOK
    <3>2. CASE w # v
      BY <3>2, <1>3, <1>5 DEF TypeOK, ConstantsOK
    <3> QED BY <3>1, <3>2
  <2> QED BY <2>1, <1>3
<1>6. now' \in Nat
  BY DEF TypeOK, Edit
<1>7. UNCHANGED <<caching, cache, pc, view, mtime, prog, outcome>>
  BY DEF Edit, reqVars
<1> QED BY <1>3, <1>4, <1>5, <1>6, <1>7 DEF TypeOK

LEMMA RemoveTypes ==
    ASSUME TypeOK, ConstantsOK, NEW v \in Views, Remove(v)
    PROVE  TypeOK'
<1>1. /\ disk' \in [Views -> Nodes]
      /\ held' \in [Views -> SUBSET Faces]
      /\ seen' \in [Requests -> SUBSET Faces]
      /\ disk'[v] = Absent
      /\ \A w \in Views \ {v} : disk'[w] = disk[w]
  BY ShowTypes, AbsentType DEF Remove
<1>2. \A w \in Views : disk'[w].kind = "file" <=> disk'[w].text # NoText
  BY <1>1 DEF TypeOK, Absent
<1>3. ASSUME NEW w \in Views, disk'[w].kind # "none", NEW a \in Above[w]
      PROVE  disk'[a].kind = "dir"
  <2>1. w # v /\ disk[w].kind # "none"
    BY <1>1, <1>3 DEF Absent
  <2>2. a \in Views /\ disk[a].kind = "dir" /\ a # v
    BY <2>1 DEF TypeOK, ConstantsOK, Remove
  <2> QED BY <2>2, <1>1
<1>4. UNCHANGED <<now, caching, cache, pc, view, mtime, prog, outcome>>
  BY DEF Remove, reqVars
<1> QED BY <1>1, <1>2, <1>3, <1>4 DEF TypeOK

\* A request's own steps leave the file system alone and set its locals.
LEMMA RequestTypes ==
    ASSUME TypeOK, NEW r \in Requests, Serve(r) \/ Leave(r)
    PROVE  TypeOK'
<1> USE DEF envVars, reqVars, Goto, Finish
<1>1. UNCHANGED <<disk, now, caching, held>>
  BY DEF Serve, Resolve, Stat, Lookup, Read, Store, Leave
<1>2. pc' \in [Requests -> Steps] /\ view' \in [Requests -> Views]
  BY DEF TypeOK, Serve, Resolve, Stat, Lookup, Read, Store, Leave, Steps, InFlight
<1>3. /\ outcome' \in [Requests -> {"none", "next", "error", "run"}]
      /\ seen' \in [Requests -> SUBSET Faces]
  BY DEF TypeOK, Serve, Resolve, Stat, Lookup, Read, Store, Leave
<1>4. mtime' \in [Requests -> Nat]
  BY DEF TypeOK, Serve, Resolve, Stat, Lookup, Read, Store, Leave, Nodes
<1>5. prog' \in [Requests -> Texts]
  BY DEF TypeOK, Serve, Resolve, Stat, Lookup, Read, Store, Leave, Entries, Nodes,
         Texts
<1>6. cache' \in [Views -> Entries]
  <2>1. CASE Store(r)
    <3>1. [prog |-> prog[r], mtime |-> mtime[r]] \in Entries
      BY DEF TypeOK, Entries
    <3> QED BY <2>1, <3>1 DEF TypeOK, Store
  <2>2. CASE ~Store(r)
    BY <2>2 DEF TypeOK, Serve, Resolve, Stat, Lookup, Read, Leave
  <2> QED BY <2>1, <2>2
<1>7. ASSUME NEW q \in Requests, outcome'[q] = "run" \/ pc'[q] = "store"
      PROVE  prog'[q] # NoText
  BY <1>7 DEF TypeOK, Serve, Resolve, Stat, Lookup, Read, Store, Leave
<1> QED BY <1>1, <1>2, <1>3, <1>4, <1>5, <1>6, <1>7 DEF TypeOK

LEMMA ArriveTypes ==
    ASSUME TypeOK, NEW r \in Requests, NEW v \in Views, Arrive(r, v)
    PROVE  TypeOK'
BY FaceType DEF TypeOK, Arrive, Goto, envVars, Steps, InFlight

LEMMA TypeNext ==
    ASSUME TypeOK, [Next]_vars
    PROVE  TypeOK'
<1> USE ConstantsOK DEF ConstantsOK
<1>1. ASSUME NEW v \in Views, NEW c \in Contents, NEW how \in Stamping,
             Install(v, c, how)
      PROVE  TypeOK'
  <2>1. Stamp(c, how) \in Nat /\ c \in Texts /\ c # NoText
    BY StampType DEF TypeOK, Texts
  <2> QED BY <1>1, <2>1, EditTypes DEF Install
<1>2. ASSUME NEW v \in Views, NEW how \in Stamping, MakeDir(v, how)
      PROVE  TypeOK'
  <2>1. Stamp(NoText, how) \in Nat /\ NoText \in Texts
    BY <1>2, StampType DEF TypeOK, Texts, MakeDir
  <2> QED BY <1>2, <2>1, EditTypes DEF MakeDir
<1>3. ASSUME NEW v \in Views, Remove(v)
      PROVE  TypeOK'
  BY <1>3, RemoveTypes
<1>4. ASSUME NEW r \in Requests, NEW v \in Views, Arrive(r, v)
      PROVE  TypeOK'
  BY <1>4, ArriveTypes
<1>5. ASSUME NEW r \in Requests, Serve(r) \/ Leave(r)
      PROVE  TypeOK'
  BY <1>5, RequestTypes
<1>6. CASE UNCHANGED vars
  BY <1>6 DEF TypeOK, vars
<1> QED BY <1>1, <1>2, <1>3, <1>4, <1>5, <1>6 DEF Next

LEMMA TypeInit == Init => TypeOK
BY AbsentType, FaceType, ConstantsOK
   DEF Init, TypeOK, Steps, Texts, Absent, ConstantsOK

\* Whatever requests and editors do, every variable keeps its type, texts
\* belong to files, and whatever exists lies in directories (module.go:148-321).
THEOREM TypeCorrect == Spec => []TypeOK
<1>1. Init => TypeOK
  BY TypeInit
<1>2. TypeOK /\ [Next]_vars => TypeOK'
  BY TypeNext
<1> QED BY <1>1, <1>2, PTL DEF Spec

-----------------------------------------------------------------------------
(* The inductive invariant is kept by edits.                               *)

LEMMA ShowGrows ==
    ASSUME TypeOK, NEW v \in Views, NEW node \in Nodes, Show(v, node)
    PROVE  /\ \A w \in Views : held[w] \subseteq held'[w]
           /\ \A w \in Views : \A p \in held'[w] :
                 p \in held[w] \/ (w = v /\ p = FaceOf(node))
           /\ FaceOf(node) \in held'[v]
           /\ \A r \in Requests : seen[r] \subseteq seen'[r]
           /\ \A r \in Requests : \A p \in seen'[r] :
                 p \in seen[r] \/ (view[r] = v /\ p = FaceOf(node))
           /\ \A r \in Requests : pc[r] \in InFlight /\ view[r] = v =>
                 FaceOf(node) \in seen'[r]
           /\ \A w \in Views : disk'[w] = IF w = v THEN node ELSE disk[w]
BY DEF TypeOK, Show

\* No edit, however stamped, takes anything away from what was held or seen.
LEMMA ShowKeeps ==
    ASSUME IInv, NEW v \in Views, NEW node \in Nodes, Show(v, node),
           UNCHANGED <<cache, reqVars>>
    PROVE  /\ Watching' /\ Statted' /\ CachedWasHeld' /\ StoringWasSeen'
           /\ RunsUnderItsTime' /\ Answered'
<1> USE DEF IInv, reqVars
<1>1. Watching'
  BY ShowGrows DEF Watching, TypeOK
<1>2. Statted'
  <2> SUFFICES ASSUME NEW r \in Requests, pc[r] \in {"lookup", "read", "store"}
               PROVE  /\ \E p \in seen'[r] : p.mtime = mtime[r]
                      /\ \A p \in held'[view[r]] : p.mtime > mtime[r] =>
                            p \in seen'[r]
    BY DEF Statted
  <2>1. view[r] \in Views /\ pc[r] \in InFlight
    BY DEF TypeOK, InFlight
  <2>2. \E p \in seen'[r] : p.mtime = mtime[r]
    BY ShowGrows DEF Statted
  <2>3. ASSUME NEW p \in held'[view[r]], p.mtime > mtime[r]
        PROVE  p \in seen'[r]
    <3>1. CASE p \in held[view[r]]
      BY <2>3, <3>1, ShowGrows DEF Statted
    <3>2. CASE view[r] = v /\ p = FaceOf(node)
      BY <2>1, <3>2, ShowGrows
    <3> QED BY <2>1, <2>3, <3>1, <3>2, ShowGrows
  <2> QED BY <2>2, <2>3
<1>3. CachedWasHeld'
  BY ShowGrows DEF CachedWasHeld
<1>4. StoringWasSeen'
  BY ShowGrows DEF StoringWasSeen
<1>5. RunsUnderItsTime'
  BY ShowGrows DEF RunsUnderItsTime, TypeOK
<1>6. Answered'
  BY DEF Answered
<1> QED BY <1>1, <1>2, <1>3, <1>4, <1>5, <1>6

\* An edit that does not turn the clock back.
LEMMA EditKeeps ==
    ASSUME IInv, TypeOK', NEW v \in Views, NEW kind \in {"dir", "file"},
           NEW c \in Texts, NEW t \in Nat, t >= now, Edit(v, kind, c, t)
    PROVE  IInv'
<1> DEFINE node == [kind |-> kind, text |-> c, mtime |-> t]
<1>1. node \in Nodes /\ node.mtime = t /\ FaceOf(node).mtime = t
  BY DEF Nodes, FaceOf
<1>2. Show(v, node) /\ UNCHANGED <<cache, reqVars>>
  BY DEF Edit
<1> HIDE DEF node
<1>3. now' = t /\ now \in Nat
  <2>1. now \in Nat /\ now' = IF t > now THEN t ELSE now
    BY DEF Edit, IInv, TypeOK
  <2> QED BY <2>1
<1>4. ASSUME NEW w \in Views, NEW p \in held'[w]
      PROVE  p.mtime \in Nat /\ p.mtime <= t
  <2>1. p.mtime \in Nat
    BY DEF IInv, TypeOK, Faces
  <2>2. CASE p \in held[w]
    <3>1. p.mtime <= now
      BY <2>2 DEF IInv, Clock
    <3> QED BY <1>3, <2>1, <3>1
  <2>3. CASE p = FaceOf(node)
    BY <1>1, <2>3
  <2> QED BY <1>1, <1>2, <2>1, <2>2, <2>3, ShowGrows DEF IInv
<1>5. Clock'
  BY <1>3, <1>4 DEF Clock
<1>6. Current' /\ Newest'
  <2>1. \A w \in Views : FaceOf(disk'[w]) \in held'[w]
    BY <1>1, <1>2, ShowGrows DEF IInv, Current, Newest
  <2>2. ASSUME NEW w \in Views, disk'[w].kind # "none", NEW p \in held'[w]
        PROVE  p.mtime <= disk'[w].mtime
    <3>1. CASE w # v
      BY <1>1, <1>2, <2>2, <3>1, ShowGrows DEF IInv, Current, Newest
    <3>2. CASE w = v
      BY <1>1, <1>2, <1>4, <3>2, ShowGrows DEF IInv
    <3> QED BY <3>1, <3>2
  <2> QED BY <2>1, <2>2 DEF Current, Newest
<1> QED BY <1>1, <1>2, <1>5, <1>6, ShowKeeps DEF IInv

LEMMA RemoveKeeps ==
    ASSUME IInv, TypeOK', NEW v \in Views, Remove(v)
    PROVE  IInv'
<1>1. Show(v, Absent) /\ UNCHANGED <<now, cache, reqVars>>
  BY DEF Remove
<1>2. Absent \in Nodes /\ Absent.kind = "none" /\ FaceOf(Absent).mtime = 0
  BY AbsentType DEF Absent, FaceOf
<1>3. Clock'
  BY <1>1, <1>2, ShowGrows DEF IInv, Clock, TypeOK
<1>4. Current' /\ Newest'
  BY <1>1, <1>2, ShowGrows DEF IInv, Current, Newest
<1> QED BY <1>1, <1>2, <1>3, <1>4, ShowKeeps DEF IInv

-----------------------------------------------------------------------------
(* The inductive invariant is kept by the steps of a request.              *)

LEMMA ArriveKeeps ==
    ASSUME IInv, TypeOK', NEW r \in Requests, NEW v \in Views, Arrive(r, v)
    PROVE  IInv'
<1> USE DEF IInv, Arrive, Goto, envVars
<1>1. /\ UNCHANGED <<disk, now, cache, mtime, prog, outcome, held>>
      /\ pc'[r] = "resolve" /\ view'[r] = v /\ seen'[r] = {FaceOf(disk[v])}
      /\ \A s \in Requests \ {r} : /\ pc'[s] = pc[s] /\ view'[s] = view[s]
                                  /\ seen'[s] = seen[s]
  BY DEF TypeOK
<1>2. Clock' /\ Current' /\ Newest' /\ CachedWasHeld'
  BY <1>1 DEF Clock, Current, Newest, CachedWasHeld
<1>3. Watching'
  BY <1>1 DEF Watching, Current
<1>4. Statted' /\ StoringWasSeen'
  BY <1>1 DEF Statted, StoringWasSeen
<1>5. RunsUnderItsTime' /\ Answered'
  <2>1. outcome[r] = "none"
    BY DEF Answered
  <2> QED BY <1>1, <2>1 DEF RunsUnderItsTime, Answered
<1> QED BY <1>2, <1>3, <1>4, <1>5

LEMMA LeaveKeeps ==
    ASSUME IInv, TypeOK', NEW r \in Requests, Leave(r)
    PROVE  IInv'
<1> USE DEF IInv, Leave, Goto, envVars
<1>1. /\ UNCHANGED <<disk, now, cache, view, mtime, held>>
      /\ pc'[r] = "idle" /\ outcome'[r] = "none" /\ seen'[r] = {}
      /\ \A s \in Requests \ {r} : /\ pc'[s] = pc[s] /\ outcome'[s] = outcome[s]
                                  /\ prog'[s] = prog[s] /\ seen'[s] = seen[s]
  BY DEF TypeOK
<1>2. Clock' /\ Current' /\ Newest' /\ CachedWasHeld'
  BY <1>1 DEF Clock, Current, Newest, CachedWasHeld
<1>3. Watching'
  BY <1>1 DEF Watching, InFlight
<1>4. Statted' /\ StoringWasSeen'
  BY <1>1 DEF Statted, StoringWasSeen
<1>5. RunsUnderItsTime' /\ Answered'
  BY <1>1 DEF RunsUnderItsTime, Answered
<1> QED BY <1>2, <1>3, <1>4, <1>5

\* A step of ServeHTTP changes r's own locals (and, in Store, the cache): it is
\* enough to look at r.
LEMMA OwnStep ==
    ASSUME IInv, TypeOK', NEW r \in Requests,
           UNCHANGED <<disk, now, view, held, seen>>, pc[r] \in InFlight,
           \A s \in Requests \ {r} :
              /\ pc'[s] = pc[s] /\ mtime'[s] = mtime[s]
              /\ prog'[s] = prog[s] /\ outcome'[s] = outcome[s],
           CachedWasHeld',
           pc'[r] \in {"lookup", "read", "store"} =>
              /\ \E p \in seen[r] : p.mtime = mtime'[r]
              /\ \A p \in held[view[r]] : p.mtime > mtime'[r] => p \in seen[r],
           pc'[r] = "store" =>
              \E p \in seen[r] : p.text = prog'[r] /\ p.mtime >= mtime'[r],
           outcome'[r] = "run" =>
              \E p \in seen[r] :
                 [text |-> prog'[r], mtime |-> p.mtime] \in held[view[r]],
           pc'[r] # "done" => outcome'[r] = "none"
    PROVE  IInv'
<1> USE DEF IInv
<1>1. Clock' /\ Current' /\ Newest'
  BY DEF Clock, Current, Newest, Newest
<1>2. Watching'
  BY DEF Watching
<1>3. Statted'
  BY DEF Statted
<1>4. StoringWasSeen'
  BY DEF StoringWasSeen
<1>5. RunsUnderItsTime'
  BY DEF RunsUnderItsTime
<1>6. Answered'
  BY DEF Answered
<1> QED BY <1>1, <1>2, <1>3, <1>4, <1>5, <1>6

\* A request that is answered without running anything.
LEMMA GivingUpKeeps ==
    ASSUME IInv, TypeOK', NEW r \in Requests, NEW o \in {"next", "error"},
           pc[r] \in InFlight, Finish(r, o, NoText),
           UNCHANGED <<disk, now, cache, held, seen>>
    PROVE  IInv'
<1>1. /\ pc'[r] = "done" /\ outcome'[r] = o /\ UNCHANGED view
      /\ \A s \in Requests \ {r} : /\ pc'[s] = pc[s] /\ mtime'[s] = mtime[s]
                                  /\ prog'[s] = prog[s] /\ outcome'[s] = outcome[s]
  BY DEF IInv, TypeOK, Finish, Goto
<1>2. CachedWasHeld'
  BY DEF IInv, CachedWasHeld
<1> QED BY <1>1, <1>2, OwnStep

\* A request that runs program p, which its file had under a time r has seen.
LEMMA RunningKeeps ==
    ASSUME IInv, TypeOK', NEW r \in Requests, NEW p, pc[r] \in InFlight,
           Finish(r, "run", p), UNCHANGED <<disk, now, held, seen>>,
           CachedWasHeld',
           \E f \in seen[r] : [text |-> p, mtime |-> f.mtime] \in held[view[r]]
    PROVE  IInv'
<1>1. /\ pc'[r] = "done" /\ outcome'[r] = "run" /\ prog'[r] = p /\ UNCHANGED view
      /\ \A s \in Requests \ {r} : /\ pc'[s] = pc[s] /\ mtime'[s] = mtime[s]
                                  /\ prog'[s] = prog[s] /\ outcome'[s] = outcome[s]
  BY DEF IInv, TypeOK, Finish, Goto
<1> QED BY <1>1, OwnStep

\* A face is determined by its two fields.
LEMMA FaceEta ==
    ASSUME NEW f \in Faces
    PROVE  f = [text |-> f.text, mtime |-> f.mtime] /\ f.mtime \in Nat
BY DEF Faces

LEMMA SeenType ==
    ASSUME IInv, NEW r \in Requests
    PROVE  /\ view[r] \in Views /\ seen[r] \subseteq held[view[r]]
           /\ held[view[r]] \subseteq Faces
BY DEF IInv, TypeOK, Watching

LEMMA ResolveKeeps ==
    ASSUME IInv, TypeOK', NEW r \in Requests, Resolve(r)
    PROVE  IInv'
<1>1. pc[r] \in InFlight /\ UNCHANGED <<disk, now, cache, held, seen>>
  BY DEF Resolve, envVars, InFlight
<1>2. CASE Finish(r, "next", NoText) \/ Finish(r, "error", NoText)
  BY <1>1, <1>2, GivingUpKeeps
<1>3. CASE Goto(r, "stat") /\ UNCHANGED <<view, mtime, prog, outcome>>
  <2>1. pc'[r] = "stat" /\ \A s \in Requests \ {r} : pc'[s] = pc[s]
    BY <1>3 DEF IInv, TypeOK, Goto
  <2>2. outcome[r] = "none"
    BY <1>1 DEF IInv, Answered, InFlight
  <2>3. CachedWasHeld'
    BY <1>1 DEF IInv, CachedWasHeld
  <2> QED BY <1>1, <1>3, <2>1, <2>2, <2>3, OwnStep
<1> QED BY <1>2, <1>3 DEF Resolve

LEMMA StatKeeps ==
    ASSUME IInv, TypeOK', NEW r \in Requests, Stat(r)
    PROVE  IInv'
<1>1. pc[r] \in InFlight /\ UNCHANGED <<disk, now, cache, held, seen>>
  BY DEF Stat, envVars, InFlight
<1>2. CASE Finish(r, "error", NoText)
  BY <1>1, <1>2, GivingUpKeeps
<1>3. CASE /\ StatOf(view[r]) \in {"file", "dir"}
           /\ mtime' = [mtime EXCEPT ![r] = disk[view[r]].mtime]
           /\ Goto(r, IF caching THEN "lookup" ELSE "read")
           /\ UNCHANGED <<view, prog, outcome>>
  <2>1. /\ pc'[r] \in {"lookup", "read"} /\ mtime'[r] = disk[view[r]].mtime
        /\ \A s \in Requests \ {r} : pc'[s] = pc[s] /\ mtime'[s] = mtime[s]
    BY <1>3 DEF IInv, TypeOK, Goto
  <2>2. outcome[r] = "none"
    BY <1>1 DEF IInv, Answered, InFlight
  <2>3. CachedWasHeld'
    BY <1>1 DEF IInv, CachedWasHeld
  <2>4. \E f \in seen[r] : f.mtime = mtime'[r]
    BY <1>1, <2>1 DEF IInv, Watching, FaceOf
  <2>5. disk[view[r]].kind # "none"
    BY <1>3 DEF StatOf
  <2>6. disk[view[r]].mtime \in Nat
    BY SeenType DEF IInv, TypeOK, Nodes
  <2>7. \A f \in held[view[r]] : ~(f.mtime > mtime'[r])
    BY <2>1, <2>5, <2>6, SeenType, FaceEta DEF IInv, Current, Newest
  <2> QED BY <1>1, <1>3, <2>1, <2>2, <2>3, <2>4, <2>7, OwnStep
<1> QED BY <1>2, <1>3 DEF Stat

\* The heart of the matter: a hit.
LEMMA LookupKeeps ==
    ASSUME IInv, TypeOK', NEW r \in Requests, Lookup(r)
    PROVE  IInv'
<1> DEFINE entry == cache[view[r]]
<1>1. /\ pc[r] = "lookup" /\ pc[r] \in InFlight
      /\ UNCHANGED <<disk, now, cache, held, seen>>
  BY DEF Lookup, envVars, InFlight
<1>2. CachedWasHeld'
  BY <1>1 DEF IInv, CachedWasHeld
<1>3. CASE entry.prog # NoText /\ entry.mtime = mtime[r] /\ Finish(r, "run", entry.prog)
  <2>1. PICK f \in held[view[r]] : f.text = entry.prog /\ f.mtime >= mtime[r]
    BY <1>3, SeenType DEF IInv, CachedWasHeld
  <2>2. f = [text |-> entry.prog, mtime |-> f.mtime] /\ f.mtime \in Nat
    BY <2>1, SeenType, FaceEta
  <2>3. mtime[r] \in Nat
    BY DEF IInv, TypeOK
  <2>4. CASE f.mtime > mtime[r]
    BY <1>1, <1>2, <1>3, <2>2, <2>4, RunningKeeps DEF IInv, Statted
  <2>5. CASE f.mtime = mtime[r]
    <3>1. PICK g \in seen[r] : g.mtime = mtime[r]
      BY <1>1 DEF IInv, Statted
    <3> QED BY <1>1, <1>2, <1>3, <2>2, <2>5, <3>1, RunningKeeps
  <2> QED BY <2>1, <2>2, <2>3, <2>4, <2>5
<1>4. CASE Goto(r, "read") /\ UNCHANGED <<view, mtime, prog, outcome>>
  <2>1. pc'[r] = "read" /\ \A s \in Requests \ {r} : pc'[s] = pc[s]
    BY <1>4 DEF IInv, TypeOK, Goto
  <2>2. outcome[r] = "none"
    BY <1>1 DEF IInv, Answered
  <2>3. /\ \E f \in seen[r] : f.mtime = mtime[r]
        /\ \A f \in held[view[r]] : f.mtime > mtime[r] => f \in seen[r]
    BY <1>1 DEF IInv, Statted
  <2> QED BY <1>1, <1>2, <1>4, <2>1, <2>2, <2>3, OwnStep
<1> QED BY <1>3, <1>4 DEF Lookup

LEMMA ReadKeeps ==
    ASSUME IInv, TypeOK', NEW r \in Requests, Read(r)
    PROVE  IInv'
<1> DEFINE c == disk[view[r]].text
<1>1. /\ pc[r] = "read" /\ pc[r] \in InFlight
      /\ UNCHANGED <<disk, now, cache, held, seen>>
  BY DEF Read, envVars, InFlight
<1>2. CachedWasHeld'
  BY <1>1 DEF IInv, CachedWasHeld
<1>3. CASE Finish(r, "error", NoText)
  BY <1>1, <1>3, GivingUpKeeps
<1>4. /\ FaceOf(disk[view[r]]) \in seen[r] /\ FaceOf(disk[view[r]]).text = c
      /\ FaceOf(disk[view[r]]).mtime = disk[view[r]].mtime
  BY <1>1 DEF IInv, Watching, FaceOf
<1>5. CASE c # NoText /\ Finish(r, "run", c)
  <2> DEFINE f == FaceOf(disk[view[r]])
  <2>1. f \in held[view[r]] /\ [text |-> c, mtime |-> f.mtime] = f
    BY <1>4, SeenType DEF FaceOf
  <2> HIDE DEF f
  <2> QED BY <1>1, <1>2, <1>4, <1>5, <2>1, RunningKeeps DEF f
<1>6. CASE /\ c # NoText /\ prog' = [prog EXCEPT ![r] = c]
           /\ Goto(r, "store") /\ UNCHANGED <<view, mtime, outcome>>
  <2>1. /\ pc'[r] = "store" /\ prog'[r] = c
        /\ \A s \in Requests \ {r} : pc'[s] = pc[s] /\ prog'[s] = prog[s]
    BY <1>6 DEF IInv, TypeOK, Goto
  <2>2. outcome[r] = "none"
    BY <1>1 DEF IInv, Answered
  <2>3. /\ \E f \in seen[r] : f.mtime = mtime[r]
        /\ \A f \in held[view[r]] : f.mtime > mtime[r] => f \in seen[r]
    BY <1>1 DEF IInv, Statted
  <2>4. disk[view[r]].kind = "file"
    BY <1>6, SeenType DEF IInv, TypeOK
  <2>5. disk[view[r]].mtime >= mtime[r]
    <3>1. PICK g \in seen[r] : g.mtime = mtime[r]
      BY <2>3
    <3>2. g \in held[view[r]] /\ g.mtime <= disk[view[r]].mtime
      BY <2>4, SeenType DEF IInv, Current, Newest
    <3>3. disk[view[r]].mtime \in Nat /\ g.mtime \in Nat
      BY <1>4, <3>2, SeenType, FaceEta
    <3> QED BY <3>1, <3>2, <3>3
  <2>6. \E f \in seen[r] : f.text = prog'[r] /\ f.mtime >= mtime[r]
    BY <1>4, <2>1, <2>5
  <2> QED BY <1>1, <1>2, <1>6, <2>1, <2>2, <2>3, <2>6, OwnStep
<1> QED BY <1>3, <1>5, <1>6 DEF Read

LEMMA StoreKeeps ==
    ASSUME IInv, TypeOK', NEW r \in Requests, Store(r)
    PROVE  IInv'
<1>1. /\ pc[r] = "store" /\ pc[r] \in InFlight
      /\ UNCHANGED <<disk, now, held, seen>> /\ Finish(r, "run", prog[r])
      /\ cache' = [cache EXCEPT ![view[r]] = [prog |-> prog[r], mtime |-> mtime[r]]]
  BY DEF Store, envVars, InFlight
<1>2. PICK f \in seen[r] : f.text = prog[r] /\ f.mtime >= mtime[r]
  BY <1>1 DEF IInv, StoringWasSeen
<1>3. f \in held[view[r]] /\ f = [text |-> prog[r], mtime |-> f.mtime]
  BY <1>2, SeenType, FaceEta
<1>4. CachedWasHeld'
  BY <1>1, <1>2, <1>3 DEF IInv, TypeOK, CachedWasHeld
<1> QED BY <1>1, <1>3, <1>4, RunningKeeps

-----------------------------------------------------------------------------
(* The theorems.                                                           *)

LEMMA InvInit == Init => IInv
<1> SUFFICES ASSUME Init PROVE IInv
  OBVIOUS
<1>1. TypeOK
  BY TypeInit
<1> QED BY <1>1 DEF Init, IInv, Answered, Clock, Current, Newest, Watching, Statted,
           CachedWasHeld, StoringWasSeen, RunsUnderItsTime, Absent, NoEntry,
           FaceOf, InFlight

LEMMA InvNext ==
    ASSUME "kept" \notin Stamping, IInv, [Next]_vars
    PROVE  IInv'
<1>1. TypeOK'
  BY TypeNext DEF IInv
<1>2. ASSUME NEW v \in Views, NEW c \in Texts, NEW kind \in {"file", "dir"},
             NEW how \in Stamping, Edit(v, kind, c, Stamp(c, how))
      PROVE  IInv'
  <2>1. Stamp(c, how) \in Nat /\ Stamp(c, how) >= now
    BY ConstantsOK DEF Stamp, IInv, TypeOK, ConstantsOK
  <2> QED BY <1>1, <1>2, <2>1, EditKeeps
<1>3. ASSUME NEW v \in Views, NEW c \in Contents, NEW how \in Stamping,
             Install(v, c, how)
      PROVE  IInv'
  BY <1>2, <1>3 DEF Install, Texts
<1>4. ASSUME NEW v \in Views, NEW how \in Stamping, MakeDir(v, how)
      PROVE  IInv'
  BY <1>2, <1>4 DEF MakeDir, Texts
<1>5. ASSUME NEW v \in Views, Remove(v)
      PROVE  IInv'
  BY <1>1, <1>5, RemoveKeeps
<1>6. ASSUME NEW r \in Requests, NEW v \in Views, Arrive(r, v)
      PROVE  IInv'
  BY <1>1, <1>6, ArriveKeeps
<1>7. ASSUME NEW r \in Requests, Serve(r)
      PROVE  IInv'
  BY <1>1, <1>7, ResolveKeeps, StatKeeps, LookupKeeps, ReadKeeps, StoreKeeps
     DEF Serve
<1>8. ASSUME NEW r \in Requests, Leave(r)
      PROVE  IInv'
  BY <1>1, <1>8, LeaveKeeps
<1>9. CASE UNCHANGED vars
  BY <1>1, <1>9 DEF vars, IInv, Answered, Clock, Current, Newest, Watching, Statted,
     CachedWasHeld, StoringWasSeen, RunsUnderItsTime
<1> QED BY <1>3, <1>4, <1>5, <1>6, <1>7, <1>8, <1>9 DEF Next

\* While the clock never runs backwards, a program that runs is a text its file
\* had under a modification time the file showed during the request, however
\* stats, lookups, reads and stores of other requests and edits of the file
\* interleave with it (loadProgram, module.go:280-321).
THEOREM RunsUnderItsTimeCorrect ==
    ASSUME "kept" \notin Stamping
    PROVE  Spec => []RunsUnderItsTime
<1>1. Init => IInv
  BY InvInit
<1>2. IInv /\ [Next]_vars => IInv'
  BY InvNext
<1>3. IInv => RunsUnderItsTime
  BY DEF IInv
<1> QED BY <1>1, <1>2, <1>3, PTL DEF Spec

-----------------------------------------------------------------------------
(* With a modification time of its own for every edit, more can be said.   *)

FreshInv == IInv /\ Unique

LEMMA UniqueNext ==
    ASSUME Stamping \subseteq {"fresh"}, FreshInv, [Next]_vars
    PROVE  Unique'
<1> USE DEF FreshInv
<1>1. ASSUME NEW v \in Views, NEW node \in Nodes, Show(v, node),
             node = Absent \/ node.mtime = now + 1
      PROVE  Unique'
  <2> SUFFICES ASSUME NEW w \in Views, NEW p \in held'[w], NEW q \in held'[w],
                      p.mtime = q.mtime
               PROVE  p = q
    BY <1>1, ShowGrows DEF IInv, Unique
  <2>1. \A f \in held[w] : f.mtime \in Nat /\ f.mtime <= now
    BY DEF IInv, TypeOK, Faces, Clock
  <2>2. now \in Nat /\ FaceOf(node).mtime = node.mtime
    BY DEF IInv, TypeOK, FaceOf
  <2>3. /\ p \in held[w] \/ p = FaceOf(node)
        /\ q \in held[w] \/ q = FaceOf(node)
    BY <1>1, ShowGrows DEF IInv
  <2>4. CASE node = Absent
    BY <2>3, <2>4 DEF Unique
  <2>5. CASE node.mtime = now + 1
    BY <2>1, <2>2, <2>3, <2>5 DEF Unique
  <2> QED BY <1>1, <2>4, <2>5
<1>2. ASSUME NEW v \in Views, NEW kind \in {"dir", "file"}, NEW c \in Texts,
             NEW how \in Stamping, Edit(v, kind, c, Stamp(c, how))
      PROVE  Unique'
  <2> DEFINE node == [kind |-> kind, text |-> c, mtime |-> Stamp(c, how)]
  <2>1. Stamp(c, how) = now + 1 /\ now \in Nat
    BY DEF Stamp, IInv, TypeOK
  <2>2. node \in Nodes /\ node.mtime = now + 1
    BY <2>1 DEF Nodes
  <2>3. Show(v, node)
    BY <1>2 DEF Edit
  <2> HIDE DEF node
  <2> QED BY <1>1, <2>2, <2>3
<1>3. CASE \E v \in Views, c \in Contents, how \in Stamping : Install(v, c, how)
  BY <1>2, <1>3 DEF Install, Texts
<1>4. CASE \E v \in Views, how \in Stamping : MakeDir(v, how)
  BY <1>2, <1>4 DEF MakeDir, Texts
<1>5. CASE \E v \in Views : Remove(v)
  BY <1>1, <1>5, AbsentType DEF Remove
<1>6. CASE UNCHANGED held
  BY <1>6 DEF Unique
<1>7. CASE \E r \in Requests : (\E v \in Views : Arrive(r, v)) \/ Serve(r) \/ Leave(r)
  BY <1>6, <1>7 DEF Arrive, Serve, Leave, Resolve, Stat, Lookup, Read, Store
<1> QED BY <1>3, <1>4, <1>5, <1>6, <1>7 DEF Next, vars

LEMMA FreshNeverStale == FreshInv => NeverStale
<1> SUFFICES ASSUME FreshInv, NEW r \in Requests, outcome[r] = "run"
             PROVE  \E p \in seen[r] : p.text = prog[r]
  BY DEF NeverStale
<1>1. PICK p \in seen[r] :
        [text |-> prog[r], mtime |-> p.mtime] \in held[view[r]]
  BY DEF FreshInv, IInv, RunsUnderItsTime
<1>2. view[r] \in Views /\ p \in held[view[r]]
  BY SeenType DEF FreshInv
<1>3. p = [text |-> prog[r], mtime |-> p.mtime]
  BY <1>1, <1>2 DEF FreshInv, Unique
<1> QED BY <1>3

\* When no two edits share a modification time, no request ever runs a program
\* its file did not have at some moment while the request was being served.
THEOREM NeverStaleCorrect ==
    ASSUME Stamping \subseteq {"fresh"}
    PROVE  Spec => []NeverStale
<1>1. Init => FreshInv
  BY InvInit DEF FreshInv, Init, Unique
<1>2. FreshInv /\ [Next]_vars => FreshInv'
  BY InvNext, UniqueNext DEF FreshInv
<1>3. FreshInv => NeverStale
  BY FreshNeverStale
<1> QED BY <1>1, <1>2, <1>3, PTL DEF Spec

-----------------------------------------------------------------------------
(* Without the cache nothing about modification times matters.             *)

UncachedInv ==
    /\ TypeOK
    /\ Current
    /\ Watching
    /\ NeverStale
    /\ Answered
    /\ \A r \in Requests : pc[r] \notin {"lookup", "store"}

LEMMA UncachedNext ==
    ASSUME caching = FALSE, UncachedInv, [Next]_vars
    PROVE  UncachedInv'
<1> USE DEF UncachedInv
<1>1. TypeOK'
  BY TypeNext
<1>2. ASSUME NEW v \in Views, NEW node \in Nodes, Show(v, node), UNCHANGED reqVars
      PROVE  UncachedInv'
  <2>0. Current'
    BY <1>2, ShowGrows DEF Current
  <2>1. Watching'
    BY <1>2, ShowGrows DEF Watching, TypeOK, reqVars
  <2>2. NeverStale'
    BY <1>2, ShowGrows DEF NeverStale, reqVars
  <2>3. Answered' /\ \A r \in Requests : pc'[r] \notin {"lookup", "store"}
    BY <1>2 DEF Answered, reqVars
  <2> QED BY <1>1, <2>0, <2>1, <2>2, <2>3
<1>3. ASSUME NEW v \in Views, NEW kind \in {"dir", "file"}, NEW c \in Texts,
             NEW how \in Stamping, Edit(v, kind, c, Stamp(c, how)),
             how # "kept" \/ c \in Contents
      PROVE  UncachedInv'
  <2> DEFINE node == [kind |-> kind, text |-> c, mtime |-> Stamp(c, how)]
  <2>1. node \in Nodes
    BY <1>3, ConstantsOK, StampType DEF Nodes, TypeOK
  <2>2. Show(v, node) /\ UNCHANGED reqVars
    BY <1>3 DEF Edit, reqVars
  <2> HIDE DEF node
  <2> QED BY <1>2, <2>1, <2>2
<1>4. ASSUME NEW v \in Views, NEW c \in Contents, NEW how \in Stamping,
             Install(v, c, how)
      PROVE  UncachedInv'
  BY <1>3, <1>4 DEF Install, Texts
<1>5. ASSUME NEW v \in Views, NEW how \in Stamping, MakeDir(v, how)
      PROVE  UncachedInv'
  BY <1>3, <1>5 DEF MakeDir, Texts
<1>6. ASSUME NEW v \in Views, Remove(v)
      PROVE  UncachedInv'
  BY <1>2, <1>6, AbsentType DEF Remove, reqVars
<1>7. ASSUME NEW r \in Requests, NEW v \in Views, Arrive(r, v)
      PROVE  UncachedInv'
  <2>1. /\ pc[r] = "idle" /\ UNCHANGED <<disk, prog, outcome, held>>
        /\ pc'[r] = "resolve" /\ view'[r] = v /\ seen'[r] = {FaceOf(disk[v])}
        /\ \A s \in Requests \ {r} : /\ pc'[s] = pc[s] /\ view'[s] = view[s]
                                    /\ seen'[s] = seen[s]
    BY <1>7 DEF TypeOK, Arrive, Goto, envVars
  <2>2. outcome[r] = "none"
    BY <2>1 DEF Answered
  <2>3. NeverStale' /\ Answered'
    BY <2>1, <2>2 DEF NeverStale, Answered
  <2>4. seen'[r] \subseteq held'[v]
    BY <1>7, <2>1 DEF Current
  <2>5. Watching' /\ Current'
    BY <2>1, <2>4 DEF Watching, Current
  <2> QED BY <1>1, <2>1, <2>3, <2>5
<1>8. ASSUME NEW r \in Requests, Serve(r) \/ Leave(r)
      PROVE  UncachedInv'
  <2>1. UNCHANGED <<disk, held, view>>
    BY <1>8 DEF Serve, Leave, Resolve, Stat, Lookup, Read, Store, Finish, envVars
  <2>2. Serve(r) => UNCHANGED seen /\ pc[r] \in InFlight
    BY DEF Serve, Resolve, Stat, Lookup, Read, Store, InFlight
  <2>3. /\ \A s \in Requests \ {r} : pc'[s] = pc[s] /\ outcome'[s] = outcome[s]
                                   /\ prog'[s] = prog[s] /\ seen'[s] = seen[s]
        /\ pc'[r] \in Steps \ {"lookup", "store"}
        /\ pc'[r] # "done" => outcome'[r] = "none"
    BY <1>8 DEF TypeOK, Serve, Leave, Resolve, Stat, Lookup, Read, Store, Finish,
                Goto, Steps, InFlight, Answered
  <2>4. Watching' /\ Current'
    BY <1>8, <2>1, <2>2, <2>3 DEF Watching, Current, Leave, TypeOK, Goto, InFlight
  <2>5. outcome'[r] = "run" => \E p \in seen'[r] : p.text = prog'[r]
    <3>1. CASE Read(r)
      <4>1. /\ outcome' \in {[outcome EXCEPT ![r] = "error"], outcome}
            \/ /\ outcome' = [outcome EXCEPT ![r] = "run"]
               /\ prog' = [prog EXCEPT ![r] = disk[view[r]].text]
        BY <3>1 DEF Read, Finish
      <4>2. outcome[r] = "none" /\ FaceOf(disk[view[r]]) \in seen'[r]
        BY <3>1, <2>2 DEF Read, Answered, Watching, InFlight, Serve
      <4> QED BY <4>1, <4>2 DEF TypeOK, FaceOf
    <3>2. CASE Resolve(r) \/ Stat(r) \/ Leave(r)
      BY <3>2 DEF TypeOK, Resolve, Stat, Leave, Finish, Answered
    <3>3. ~Lookup(r) /\ ~Store(r)
      BY DEF Lookup, Store
    <3> QED BY <1>8, <3>1, <3>2, <3>3 DEF Serve
  <2>6. NeverStale'
    BY <2>3, <2>5 DEF NeverStale
  <2> QED BY <1>1, <2>3, <2>4, <2>6 DEF Answered
<1>9. CASE UNCHANGED vars
  BY <1>1, <1>9 DEF vars, Current, Watching, NeverStale, Answered
<1> QED BY <1>4, <1>5, <1>6, <1>7, <1>8, <1>9 DEF Next

\* With cache_programs off, a request runs what its file held while the request
\* was being served, whatever modification times the edits carry.
THEOREM UncachedCorrect == Spec => []UncachedNeverStale
<1> DEFINE Inv == TypeOK /\ (caching = FALSE => UncachedInv)
<1>1. Init => Inv
  BY InvInit DEF UncachedInv, IInv, Init, NeverStale
<1>2. Inv /\ [Next]_vars => Inv'
  <2> SUFFICES ASSUME Inv, [Next]_vars PROVE Inv'
    OBVIOUS
  <2>1. TypeOK'
    BY TypeNext
  <2>2. caching' = caching
    BY DEF Next, Install, MakeDir, Remove, Edit, Arrive, Serve, Resolve, Stat, Lookup,
           Read, Store, Leave, envVars, vars
  <2> QED BY <2>1, <2>2, UncachedNext
<1>3. Inv => UncachedNeverStale
  BY DEF UncachedInv, UncachedNeverStale, TypeOK
<1> QED BY <1>1, <1>2, <1>3, PTL DEF Spec

-----------------------------------------------------------------------------
(* A path with no file falls through.                                      *)

\* Whoever is past resolveView has seen a file there.
Found ==
    \A r \in Requests : pc[r] \in {"stat", "lookup", "read", "store"} =>
        \E p \in seen[r] : p.text # NoText

FallInv ==
    /\ TypeOK
    /\ Current
    /\ Watching
    /\ Answered
    /\ Found
    /\ MissingFallsThrough

LEMMA FallNext ==
    ASSUME \A v \in Views : Above[v] = {}, FallInv, [Next]_vars
    PROVE  FallInv'
<1> USE DEF FallInv
<1>1. TypeOK'
  BY TypeNext
<1>2. ASSUME NEW v \in Views, NEW node \in Nodes, Show(v, node), UNCHANGED reqVars
      PROVE  FallInv'
  <2>0. Current'
    BY <1>2, ShowGrows DEF Current
  <2>1. Watching'
    BY <1>2, ShowGrows DEF Watching, TypeOK, reqVars
  <2>2. Found' /\ MissingFallsThrough'
    BY <1>2, ShowGrows DEF Found, MissingFallsThrough, reqVars
  <2>3. Answered'
    BY <1>2 DEF Answered, reqVars
  <2> QED BY <1>1, <2>0, <2>1, <2>2, <2>3
<1>3. ASSUME NEW v \in Views, NEW kind \in {"dir", "file"}, NEW c \in Texts,
             NEW how \in Stamping, Edit(v, kind, c, Stamp(c, how)),
             how # "kept" \/ c \in Contents
      PROVE  FallInv'
  <2> DEFINE node == [kind |-> kind, text |-> c, mtime |-> Stamp(c, how)]
  <2>1. node \in Nodes
    BY <1>3, ConstantsOK, StampType DEF Nodes, TypeOK
  <2>2. Show(v, node) /\ UNCHANGED reqVars
    BY <1>3 DEF Edit, reqVars
  <2> HIDE DEF node
  <2> QED BY <1>2, <2>1, <2>2
<1>4. ASSUME NEW v \in Views, NEW c \in Contents, NEW how \in Stamping,
             Install(v, c, how)
      PROVE  FallInv'
  BY <1>3, <1>4 DEF Install, Texts
<1>5. ASSUME NEW v \in Views, NEW how \in Stamping, MakeDir(v, how)
      PROVE  FallInv'
  BY <1>3, <1>5 DEF MakeDir, Texts
<1>6. ASSUME NEW v \in Views, Remove(v)
      PROVE  FallInv'
  BY <1>2, <1>6, AbsentType DEF Remove, reqVars
<1>7. ASSUME NEW r \in Requests, NEW v \in Views, Arrive(r, v)
      PROVE  FallInv'
  <2>1. /\ pc[r] = "idle" /\ UNCHANGED <<disk, outcome, held>>
        /\ pc'[r] = "resolve" /\ view'[r] = v /\ seen'[r] = {FaceOf(disk[v])}
        /\ \A s \in Requests \ {r} : /\ pc'[s] = pc[s] /\ view'[s] = view[s]
                                    /\ seen'[s] = seen[s]
    BY <1>7 DEF TypeOK, Arrive, Goto, envVars
  <2>2. outcome[r] = "none"
    BY <2>1 DEF Answered
  <2>3. MissingFallsThrough' /\ Answered' /\ Found'
    BY <2>1, <2>2 DEF MissingFallsThrough, Answered, Found
  <2>4. seen'[r] \subseteq held'[v]
    BY <1>7, <2>1 DEF Current
  <2>5. Watching' /\ Current'
    BY <2>1, <2>4 DEF Watching, Current
  <2> QED BY <1>1, <2>3, <2>5
<1>8. ASSUME NEW r \in Requests, Serve(r) \/ Leave(r)
      PROVE  FallInv'
  <2>1. UNCHANGED <<disk, held, view>>
    BY <1>8 DEF Serve, Leave, Resolve, Stat, Lookup, Read, Store, Finish, envVars
  <2>2. Serve(r) => UNCHANGED seen /\ pc[r] \in InFlight
    BY DEF Serve, Resolve, Stat, Lookup, Read, Store, InFlight
  <2>3. /\ \A s \in Requests \ {r} : pc'[s] = pc[s] /\ outcome'[s] = outcome[s]
                                   /\ seen'[s] = seen[s]
        /\ pc'[r] \in Steps
        /\ pc'[r] # "done" => outcome'[r] = "none"
    BY <1>8 DEF TypeOK, Serve, Leave, Resolve, Stat, Lookup, Read, Store, Finish,
                Goto, Steps, InFlight, Answered
  <2>4. Watching' /\ Current'
    BY <1>8, <2>1, <2>2, <2>3 DEF Watching, Current, Leave, TypeOK, Goto, InFlight
  <2>5. /\ pc'[r] \in {"stat", "lookup", "read", "store"} =>
              \E p \in seen'[r] : p.text # NoText
        /\ outcome'[r] = "error" => \E p \in seen'[r] : p.text # NoText
    <3>1. CASE Resolve(r)
      \* Nothing lies above the view, so Stat's only error is "not exist"; and a
      \* file has a text.
      <4>1. StatOf(view[r]) = disk[view[r]].kind /\ view[r] \in Views
        BY DEF StatOf, TypeOK
      <4>2. outcome[r] = "none" /\ FaceOf(disk[view[r]]) \in seen'[r]
        BY <3>1, <2>2 DEF Resolve, Answered, Watching, InFlight, Serve
      <4>3. disk[view[r]].kind = "file" => disk[view[r]].text # NoText
        BY <4>1 DEF TypeOK
      <4>4. outcome'[r] # "error" /\ (pc'[r] = "done" \/ disk[view[r]].kind = "file")
        BY <3>1, <4>1, <4>2 DEF Resolve, Finish, Goto, TypeOK, Nodes
      <4>5. FaceOf(disk[view[r]]).text = disk[view[r]].text
        BY DEF FaceOf
      <4> QED BY <4>2, <4>3, <4>4, <4>5
    <3>2. CASE Stat(r) \/ Lookup(r) \/ Read(r) \/ Store(r)
      BY <3>2 DEF Stat, Lookup, Read, Store, Found
    <3>3. CASE Leave(r)
      BY <3>3 DEF Leave, Goto, TypeOK
    <3> QED BY <1>8, <3>1, <3>2, <3>3 DEF Serve
  <2>6. Found' /\ MissingFallsThrough'
    BY <2>3, <2>5 DEF Found, MissingFallsThrough
  <2> QED BY <1>1, <2>3, <2>4, <2>6 DEF Answered
<1>9. CASE UNCHANGED vars
  BY <1>1, <1>9 DEF vars, Current, Watching, Found, MissingFallsThrough, Answered
<1> QED BY <1>4, <1>5, <1>6, <1>7, <1>8, <1>9 DEF Next

\* Where no view lies below another's file, resolveView lets a path with no
\* file fall through: an error means that the view's file was there at some
\* moment of the request, however the edits are stamped.
THEOREM FallsThroughCorrect ==
    ASSUME \A v \in Views : Above[v] = {}
    PROVE  Spec => []MissingFallsThrough
<1>1. Init => FallInv
  BY InvInit DEF FallInv, IInv, Init, Found, MissingFallsThrough
<1>2. FallInv /\ [Next]_vars => FallInv'
  BY FallNext
<1>3. FallInv => MissingFallsThrough
  BY DEF FallInv
<1> QED BY <1>1, <1>2, <1>3, PTL DEF Spec

-----------------------------------------------------------------------------
(* ProgramCache implements ViewStore.                                      *)

RefInv == FreshInv /\ Compiled

LEMMA CompiledNext ==
    ASSUME TypeOK, Compiled, [Next]_vars
    PROVE  Compiled'
<1>1. ASSUME NEW r \in Requests, Store(r)
      PROVE  Compiled'
  BY <1>1 DEF TypeOK, Store, Finish, Goto, Compiled
<1>2. ASSUME NEW r \in Requests, Read(r)
      PROVE  Compiled'
  BY <1>2 DEF TypeOK, Read, Finish, Goto, Compiled
<1>3. ASSUME NEW r \in Requests, Resolve(r) \/ Stat(r) \/ Lookup(r) \/ Leave(r)
      PROVE  Compiled'
  BY <1>3 DEF TypeOK, Resolve, Stat, Lookup, Leave, Finish, Goto, Compiled
<1>4. ASSUME NEW r \in Requests, NEW v \in Views, Arrive(r, v)
      PROVE  Compiled'
  BY <1>4 DEF TypeOK, Arrive, Goto, Compiled
<1>5. CASE UNCHANGED <<cache, pc, prog>>
  BY <1>5 DEF Compiled
<1>6. ASSUME NEW v \in Views,
             \/ \E c \in Contents, how \in Stamping : Install(v, c, how)
             \/ \E how \in Stamping : MakeDir(v, how)
             \/ Remove(v)
      PROVE  Compiled'
  BY <1>5, <1>6 DEF Install, MakeDir, Remove, Edit, reqVars
<1> QED BY <1>1, <1>2, <1>3, <1>4, <1>5, <1>6 DEF Next, Serve, vars

\* An edit of the file system is a Change, or nothing at all, to ViewStore.
LEMMA ShowImplements ==
    ASSUME IInv, NEW v \in Views, NEW node \in Nodes, Show(v, node),
           UNCHANGED <<cache, reqVars>>
    PROVE  Promise!Change(v, node.text)
<1> USE DEF reqVars
<1>1. AbsText' = [AbsText EXCEPT ![v] = node.text]
  BY ShowGrows DEF IInv, TypeOK, Show, AbsText
<1>2. UNCHANGED <<AbsPhase, view, outcome, AbsRan>>
  BY DEF AbsPhase, AbsRan
<1>3. AbsWindow' = [r \in Requests |->
                      IF AbsPhase[r] = "asked" /\ view[r] = v
                      THEN AbsWindow[r] \cup {node.text} ELSE AbsWindow[r]]
  <2> SUFFICES ASSUME NEW r \in Requests
               PROVE  {p.text : p \in seen'[r]} =
                        IF AbsPhase[r] = "asked" /\ view[r] = v
                        THEN {p.text : p \in seen[r]} \cup {node.text}
                        ELSE {p.text : p \in seen[r]}
    BY DEF AbsWindow
  <2>1. AbsPhase[r] = "asked" <=> pc[r] \in InFlight
    BY DEF AbsPhase, IInv, TypeOK, Steps, InFlight
  <2>2. seen'[r] = IF pc[r] \in InFlight /\ view[r] = v
                   THEN seen[r] \cup {FaceOf(node)} ELSE seen[r]
    BY DEF Show
  <2>3. FaceOf(node).text = node.text
    BY DEF FaceOf
  <2> QED BY <2>1, <2>2, <2>3
<1> QED BY <1>1, <1>2, <1>3 DEF Promise!Change

\* However a request is answered, some text it saw justifies the answer.
LEMMA FinishImplements ==
    ASSUME IInv, TypeOK', NEW r \in Requests, pc[r] \in InFlight,
           NEW o \in {"next", "error", "run"}, NEW p \in Texts, Finish(r, o, p),
           UNCHANGED <<disk, seen>>, NEW f \in seen[r],
           o \in Promise!Verdicts(f.text), o = "run" => f.text = p
    PROVE  Promise!Answer(r, f.text, o)
<1>1. /\ pc' = [pc EXCEPT ![r] = "done"] /\ outcome' = [outcome EXCEPT ![r] = o]
      /\ prog' = [prog EXCEPT ![r] = p] /\ UNCHANGED view
  BY DEF Finish, Goto
<1>2. AbsPhase[r] = "asked" /\ AbsPhase' = [AbsPhase EXCEPT ![r] = "answered"]
  BY <1>1 DEF AbsPhase, InFlight, IInv, TypeOK
<1>3. f.text \in AbsWindow[r] /\ UNCHANGED <<AbsText, AbsWindow>>
  BY DEF AbsWindow, AbsText
<1>4. AbsRan' = [AbsRan EXCEPT ![r] = IF o = "run" THEN f.text ELSE NoText]
  BY <1>1 DEF AbsRan, IInv, TypeOK
<1> QED BY <1>1, <1>2, <1>3, <1>4 DEF Promise!Answer

\* Going from one look at the file to the next is invisible.
LEMMA GotoStutters ==
    ASSUME IInv, NEW r \in Requests, NEW step \in InFlight, pc[r] \in InFlight,
           Goto(r, step), UNCHANGED <<disk, view, outcome, seen>>,
           \A s \in Requests \ {r} : prog'[s] = prog[s]
    PROVE  UNCHANGED Promise!vars
<1>1. outcome[r] = "none"
  BY DEF IInv, Answered, InFlight
<1>2. UNCHANGED <<AbsText, AbsWindow>>
  BY DEF AbsText, AbsWindow
<1>3. UNCHANGED AbsPhase
  BY DEF AbsPhase, Goto, InFlight, IInv, TypeOK
<1>4. UNCHANGED AbsRan
  BY <1>1 DEF AbsRan
<1> QED BY <1>2, <1>3, <1>4 DEF Promise!vars

LEMMA ResolveImplements ==
    ASSUME RefInv, TypeOK', NEW r \in Requests, Resolve(r)
    PROVE  [Promise!Next]_(Promise!vars)
<1> USE DEF RefInv, FreshInv
<1> DEFINE f == FaceOf(disk[view[r]])
<1>1. /\ pc[r] \in InFlight /\ UNCHANGED <<disk, now, cache, held, seen>>
      /\ f \in seen[r] /\ f.text = disk[view[r]].text
  BY DEF Resolve, envVars, InFlight, IInv, Watching, FaceOf
<1>2. ASSUME NEW o \in {"next", "error"}, Finish(r, o, NoText),
             StatOf(view[r]) # "file"
      PROVE  Promise!Next
  <2>1. f.text = NoText /\ NoText \in Texts
    BY <1>1, <1>2, SeenType, ConstantsOK DEF StatOf, IInv, TypeOK, Nodes, ConstantsOK, Texts
  <2>2. o \in Promise!Verdicts(f.text)
    BY <2>1 DEF Promise!Verdicts
  <2> HIDE DEF f
  <2>3. Promise!Answer(r, f.text, o)
    BY <1>1, <1>2, <2>1, <2>2, FinishImplements
  <2> QED BY <2>1, <2>3 DEF Promise!Next, Promise!Texts, Texts
<1>3. CASE Goto(r, "stat") /\ UNCHANGED <<view, mtime, prog, outcome>>
  BY <1>1, <1>3, GotoStutters DEF InFlight
<1> QED BY <1>2, <1>3 DEF Resolve

LEMMA StatImplements ==
    ASSUME RefInv, TypeOK', NEW r \in Requests, Stat(r)
    PROVE  [Promise!Next]_(Promise!vars)
<1> USE DEF RefInv, FreshInv
<1> DEFINE f == FaceOf(disk[view[r]])
<1>1. /\ pc[r] \in InFlight /\ UNCHANGED <<disk, now, cache, held, seen>>
      /\ f \in seen[r] /\ f.text = disk[view[r]].text
  BY DEF Stat, envVars, InFlight, IInv, Watching, FaceOf
<1>2. CASE StatOf(view[r]) \in {"none", "enotdir"} /\ Finish(r, "error", NoText)
  <2>1. f.text = NoText /\ NoText \in Texts
    BY <1>1, <1>2, SeenType, ConstantsOK DEF StatOf, IInv, TypeOK, Nodes, ConstantsOK, Texts
  <2>2. "error" \in Promise!Verdicts(f.text)
    BY <2>1 DEF Promise!Verdicts
  <2> HIDE DEF f
  <2>3. Promise!Answer(r, f.text, "error")
    BY <1>1, <1>2, <2>1, <2>2, FinishImplements
  <2> QED BY <2>1, <2>3 DEF Promise!Next, Promise!Texts, Texts
<1>3. CASE /\ Goto(r, IF caching THEN "lookup" ELSE "read")
           /\ UNCHANGED <<view, prog, outcome>>
  <2> DEFINE step == IF caching THEN "lookup" ELSE "read"
  <2>1. step \in InFlight
    BY DEF InFlight
  <2> HIDE DEF step
  <2>2. Goto(r, step)
    BY <1>3 DEF step
  <2> QED BY <1>1, <1>3, <2>1, <2>2, GotoStutters
<1> QED BY <1>2, <1>3 DEF Stat

\* A program that compiles and that r saw in its file may run.
LEMMA RunImplements ==
    ASSUME RefInv, TypeOK', NeverStale', NEW r \in Requests, pc[r] \in InFlight,
           NEW p \in Texts, p \notin Broken \cup {NoText}, Finish(r, "run", p),
           UNCHANGED <<disk, seen>>
    PROVE  Promise!Next
<1> USE DEF RefInv, FreshInv
<1>1. outcome'[r] = "run" /\ prog'[r] = p
  BY DEF Finish, IInv, TypeOK
<1>2. PICK f \in seen[r] : f.text = p
  BY <1>1 DEF NeverStale
<1>3. "run" \in Promise!Verdicts(f.text)
  BY <1>2 DEF Promise!Verdicts
<1>4. Promise!Answer(r, f.text, "run")
  BY <1>2, <1>3, FinishImplements
<1> QED BY <1>2, <1>4 DEF Promise!Next, Promise!Texts, Texts

LEMMA LookupImplements ==
    ASSUME RefInv, TypeOK', NeverStale', NEW r \in Requests, Lookup(r)
    PROVE  [Promise!Next]_(Promise!vars)
<1> USE DEF RefInv, FreshInv
<1> DEFINE p == cache[view[r]].prog
<1>1. pc[r] \in InFlight /\ UNCHANGED <<disk, now, cache, held, seen>>
  BY DEF Lookup, envVars, InFlight
<1>2. CASE p # NoText /\ Finish(r, "run", p)
  <2>1. p \in Texts /\ p \notin Broken \cup {NoText}
    BY <1>2, SeenType DEF IInv, TypeOK, Entries, Compiled
  <2> QED BY <1>1, <1>2, <2>1, RunImplements
<1>3. CASE Goto(r, "read") /\ UNCHANGED <<view, mtime, prog, outcome>>
  BY <1>1, <1>3, GotoStutters DEF InFlight
<1> QED BY <1>2, <1>3 DEF Lookup

LEMMA ReadImplements ==
    ASSUME RefInv, TypeOK', NeverStale', NEW r \in Requests, Read(r)
    PROVE  [Promise!Next]_(Promise!vars)
<1> USE DEF RefInv, FreshInv
<1> DEFINE c == disk[view[r]].text
           f == FaceOf(disk[view[r]])
<1>1. /\ pc[r] \in InFlight /\ UNCHANGED <<disk, now, cache, held, seen>>
      /\ f \in seen[r] /\ f.text = c /\ c \in Texts /\ NoText \in Texts
  BY SeenType DEF Read, envVars, InFlight, IInv, Watching, FaceOf, TypeOK, Nodes, Texts
<1>2. CASE c \in Broken \cup {NoText} /\ Finish(r, "error", NoText)
  <2>1. "error" \in Promise!Verdicts(f.text)
    BY <1>1, <1>2 DEF Promise!Verdicts
  <2> HIDE DEF f, c
  <2>2. Promise!Answer(r, f.text, "error")
    BY <1>1, <1>2, <2>1, FinishImplements
  <2> QED BY <1>1, <2>2 DEF Promise!Next, Promise!Texts, Texts
<1>3. CASE c \notin Broken \cup {NoText} /\ Finish(r, "run", c)
  <2> HIDE DEF f, c
  <2> QED BY <1>1, <1>3, RunImplements
<1>4. CASE /\ prog' = [prog EXCEPT ![r] = c] /\ Goto(r, "store")
           /\ UNCHANGED <<view, mtime, outcome>>
  BY <1>1, <1>4, GotoStutters DEF InFlight, IInv, TypeOK
<1> QED BY <1>2, <1>3, <1>4 DEF Read

LEMMA StoreImplements ==
    ASSUME RefInv, TypeOK', NeverStale', NEW r \in Requests, Store(r)
    PROVE  Promise!Next
<1>1. /\ pc[r] \in InFlight /\ UNCHANGED <<disk, seen>>
      /\ Finish(r, "run", prog[r])
      /\ prog[r] \in Texts /\ prog[r] \notin Broken \cup {NoText}
  BY DEF Store, envVars, InFlight, RefInv, FreshInv, IInv, TypeOK, Compiled
<1> QED BY <1>1, RunImplements

LEMMA ArriveImplements ==
    ASSUME IInv, NEW r \in Requests, NEW v \in Views, Arrive(r, v)
    PROVE  Promise!Ask(r, v)
<1> USE DEF IInv, TypeOK, Arrive, Goto, envVars
<1>1. AbsPhase[r] = "idle" /\ AbsPhase' = [AbsPhase EXCEPT ![r] = "asked"]
  BY DEF AbsPhase
<1>2. UNCHANGED <<AbsText, AbsRan, outcome>>
  BY DEF AbsText, AbsRan
<1>3. AbsWindow' = [AbsWindow EXCEPT ![r] = {AbsText[v]}]
  <2>1. seen' = [seen EXCEPT ![r] = {FaceOf(disk[v])}]
    OBVIOUS
  <2>2. AbsText[v] = FaceOf(disk[v]).text
    BY DEF AbsText, FaceOf
  <2>3. \A s \in Requests :
           {p.text : p \in seen'[s]} = IF s = r THEN {AbsText[v]}
                                       ELSE {p.text : p \in seen[s]}
    BY <2>1, <2>2
  <2> QED BY <2>3 DEF AbsWindow
<1> QED BY <1>1, <1>2, <1>3 DEF Promise!Ask

LEMMA LeaveImplements ==
    ASSUME IInv, NEW r \in Requests, Leave(r)
    PROVE  Promise!Close(r)
<1> USE DEF IInv, TypeOK, Leave, Goto, envVars
<1>1. AbsPhase[r] = "answered" /\ AbsPhase' = [AbsPhase EXCEPT ![r] = "idle"]
  BY DEF AbsPhase
<1>2. UNCHANGED <<AbsText, view>> /\ outcome' = [outcome EXCEPT ![r] = "none"]
  BY DEF AbsText
<1>3. AbsWindow' = [AbsWindow EXCEPT ![r] = {}]
  <2>1. seen' = [seen EXCEPT ![r] = {}]
    OBVIOUS
  <2>2. \A q \in Requests : {p.text : p \in seen'[q]} =
                             IF q = r THEN {} ELSE {p.text : p \in seen[q]}
    BY <2>1
  <2> QED BY <2>2 DEF AbsWindow
<1>4. AbsRan' = [AbsRan EXCEPT ![r] = NoText]
  BY DEF AbsRan
<1> QED BY <1>1, <1>2, <1>3, <1>4 DEF Promise!Close

LEMMA StepImplements ==
    ASSUME Stamping \subseteq {"fresh"}, RefInv, NeverStale', [Next]_vars
    PROVE  [Promise!Next]_(Promise!vars)
<1> USE DEF RefInv, FreshInv
<1>1. TypeOK'
  BY TypeNext DEF IInv
<1>2. ASSUME NEW v \in Views, NEW node \in Nodes, Show(v, node),
             UNCHANGED <<cache, reqVars>>
      PROVE  Promise!Next
  <2>1. Promise!Change(v, node.text)
    BY <1>2, ShowImplements
  <2>2. node.text \in Promise!Texts
    BY DEF Nodes, Promise!Texts, Texts
  <2> QED BY <2>1, <2>2 DEF Promise!Next
<1>3. ASSUME NEW v \in Views, NEW kind \in {"dir", "file"}, NEW c \in Texts,
             NEW how \in Stamping, Edit(v, kind, c, Stamp(c, how))
      PROVE  Promise!Next
  <2> DEFINE node == [kind |-> kind, text |-> c, mtime |-> Stamp(c, how)]
  <2>1. node \in Nodes
    BY DEF Nodes, Stamp, IInv, TypeOK
  <2>2. Show(v, node) /\ UNCHANGED <<cache, reqVars>>
    BY <1>3 DEF Edit
  <2> HIDE DEF node
  <2> QED BY <1>2, <2>1, <2>2
<1>4. CASE \E v \in Views, c \in Contents, how \in Stamping : Install(v, c, how)
  BY <1>3, <1>4 DEF Install, Texts
<1>5. CASE \E v \in Views, how \in Stamping : MakeDir(v, how)
  BY <1>3, <1>5 DEF MakeDir, Texts
<1>6. CASE \E v \in Views : Remove(v)
  BY <1>2, <1>6, AbsentType DEF Remove
<1>7. CASE \E r \in Requests, v \in Views : Arrive(r, v)
  BY <1>7, ArriveImplements DEF Promise!Next
<1>8. CASE \E r \in Requests : Leave(r)
  BY <1>8, LeaveImplements DEF Promise!Next
<1>9. CASE \E r \in Requests : Serve(r)
  BY <1>1, <1>9, ResolveImplements, StatImplements, LookupImplements,
     ReadImplements, StoreImplements DEF Serve
<1>10. CASE UNCHANGED vars
  BY <1>10 DEF vars, Promise!vars, AbsText, AbsPhase, AbsWindow, AbsRan
<1> QED BY <1>4, <1>5, <1>6, <1>7, <1>8, <1>9, <1>10 DEF Next

LEMMA InitImplements == Init => Promise!Init
BY DEF Init, Promise!Init, AbsText, AbsPhase, AbsWindow, AbsRan, Absent

\* The stats, lookups, reads and stores of loadProgram, interleaved with other
\* requests and with edits, answer every request as if it had looked at its file
\* once: ProgramCache implements ViewStore when every edit gets a modification
\* time of its own.
THEOREM Implementation ==
    ASSUME Stamping \subseteq {"fresh"}
    PROVE  Spec => ImplementsViewStore
<1>1. Init => RefInv
  BY InvInit, ConstantsOK
     DEF RefInv, FreshInv, Compiled, Init, Unique, NoEntry, ConstantsOK
<1>2. RefInv /\ [Next]_vars => RefInv'
  BY InvNext, UniqueNext, CompiledNext DEF RefInv, FreshInv, IInv
<1>3. RefInv => NeverStale
  BY FreshNeverStale DEF RefInv
<1>4. RefInv /\ NeverStale' /\ [Next]_vars => [Promise!Next]_(Promise!vars)
  BY StepImplements
<1> QED BY <1>1, <1>2, <1>3, <1>4, InitImplements, PTL
        DEF Spec, ImplementsViewStore, Promise!Spec
=============================================================================
