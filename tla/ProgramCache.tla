---------------------------- MODULE ProgramCache ----------------------------
(***************************************************************************)
(* Handler.ServeHTTP up to the point where a view program is chosen        *)
(* (module.go: ServeHTTP, resolveView, loadProgram), with the file system  *)
(* under it and the people who edit that file system.                      *)
(*                                                                         *)
(* A request makes up to five separate looks at shared state: os.Stat in   *)
(* resolveView, os.Stat in loadProgram, the cache lookup under RLock,      *)
(* os.ReadFile, and the cache store under Lock.  Other requests and edits  *)
(* of the files come between any two of them.                              *)
(*                                                                         *)
(* A cache entry pairs the program compiled from what ReadFile returned    *)
(* with the modification time an EARLIER Stat returned.                    *)
(***************************************************************************)
EXTENDS Integers

CONSTANTS
    Requests,       \* requests being served, one goroutine each
    Views,          \* absolute view paths, the keys of the cache
    Above,          \* Above[v]: the other members of Views v lies under
    Contents,       \* texts a view file may have
    Broken,         \* those that do not parse or resolve
    NoText,         \* "no regular file", and "no cached program"
    CacheModes,     \* what Handler.CachePrograms may be set to
    Stamping,       \* how edits get their modification time, see Stamp
    KeptStamp,      \* KeptStamp[c]: mtime that a preserving copy of c carries
    MaxTime         \* bound: modification times used by edits

ASSUME ConstantsOK ==
    /\ Above \in [Views -> SUBSET Views]
    /\ Broken \subseteq Contents
    /\ NoText \notin Contents
    /\ CacheModes \subseteq BOOLEAN
    /\ Stamping \subseteq {"fresh", "sameTick", "kept"}
    /\ KeptStamp \in [Contents -> Nat \ {0}]
    /\ MaxTime \in Nat

VARIABLES
    disk,       \* disk[v]: what the file system has at path v
    now,        \* latest modification time handed out
    caching,    \* Handler.CachePrograms
    cache,      \* Handler.cache.m: program and modTime per path
    pc,         \* pc[r]: where request r is in ServeHTTP
    view,       \* view[r]: viewPath of r
    mtime,      \* mtime[r]: local mtime of loadProgram
    prog,       \* prog[r]: the program r compiled or was handed
    outcome,    \* outcome[r]: what r was answered
    held,       \* history: every face path v has shown
    seen        \* history: faces of view[r] since r arrived, while in flight

envVars == <<disk, now, caching>>
reqVars == <<pc, view, mtime, prog, outcome>>
vars == <<disk, now, caching, cache, pc, view, mtime, prog, outcome, held,
          seen>>

Texts == Contents \cup {NoText}
Nodes == [kind : {"none", "dir", "file"}, text : Texts, mtime : Nat]
Faces == [text : Texts, mtime : Nat]
Entries == [prog : Texts, mtime : Nat]

Absent == [kind |-> "none", text |-> NoText, mtime |-> 0]
NoEntry == [prog |-> NoText, mtime |-> 0]

\* What a request can learn about a path by looking at it.
FaceOf(node) == [text |-> node.text, mtime |-> node.mtime]

InFlight == {"resolve", "stat", "lookup", "read", "store"}
Steps == InFlight \cup {"idle", "done"}

\* os.Stat(v): a path below a regular file is ENOTDIR, which os.IsNotExist
\* does not count as "not exist".
StatOf(v) ==
    IF \E a \in Above[v] : disk[a].kind = "file" THEN "enotdir" ELSE disk[v].kind

-----------------------------------------------------------------------------
Init ==
    /\ disk = [v \in Views |-> Absent]
    /\ now = 0
    /\ caching \in CacheModes
    /\ cache = [v \in Views |-> NoEntry]
    /\ pc = [r \in Requests |-> "idle"]
    /\ view \in [Requests -> Views]
    /\ mtime = [r \in Requests |-> 0]
    /\ prog = [r \in Requests |-> NoText]
    /\ outcome = [r \in Requests |-> "none"]
    /\ held = [v \in Views |-> {FaceOf(Absent)}]
    /\ seen = [r \in Requests |-> {}]

-----------------------------------------------------------------------------
(* The file system, edited while requests are being served.  An edit is    *)
(* atomic, as rename(2) is.                                                *)

\* Path v turns into node, and everyone now looking at v may notice.
Show(v, node) ==
    /\ disk' = [disk EXCEPT ![v] = node]
    /\ held' = [held EXCEPT ![v] = @ \cup {FaceOf(node)}]
    /\ seen' = [r \in Requests |->
                  IF pc[r] \in InFlight /\ view[r] = v
                  THEN seen[r] \cup {FaceOf(node)} ELSE seen[r]]

\* The modification time an edit made now gives the file: later than every
\* earlier one; within the granularity of the last one; or the file's own,
\* when it is moved or copied into place with its time preserved.
Stamp(c, how) == IF how = "fresh" THEN now + 1
                 ELSE IF how = "sameTick" THEN now ELSE KeptStamp[c]

Edit(v, kind, c, t) ==
    /\ t \in 1..MaxTime
    /\ \A a \in Above[v] : disk[a].kind = "dir"
    /\ now' = IF t > now THEN t ELSE now
    /\ Show(v, [kind |-> kind, text |-> c, mtime |-> t])
    /\ UNCHANGED <<caching, cache, reqVars>>

Install(v, c, how) ==
    /\ disk[v].kind # "dir"
    /\ Edit(v, "file", c, Stamp(c, how))

MakeDir(v, how) ==
    /\ disk[v].kind = "none"
    /\ how # "kept"
    /\ Edit(v, "dir", NoText, Stamp(NoText, how))

Remove(v) ==
    /\ disk[v].kind # "none"
    /\ \A w \in Views : v \in Above[w] => disk[w].kind = "none"
    /\ Show(v, Absent)
    /\ UNCHANGED <<now, caching, cache, reqVars>>

-----------------------------------------------------------------------------
(* One request.                                                            *)

Goto(r, step) == pc' = [pc EXCEPT ![r] = step]

\* ServeHTTP has its program (o = "run"), calls the next handler ("next") or
\* returns a 500 ("error").
Finish(r, o, p) ==
    /\ Goto(r, "done")
    /\ outcome' = [outcome EXCEPT ![r] = o]
    /\ prog' = [prog EXCEPT ![r] = p]
    /\ mtime' = [mtime EXCEPT ![r] = 0]
    /\ UNCHANGED view

Arrive(r, v) ==
    /\ pc[r] = "idle"
    /\ Goto(r, "resolve")
    /\ view' = [view EXCEPT ![r] = v]
    /\ seen' = [seen EXCEPT ![r] = {FaceOf(disk[v])}]
    /\ UNCHANGED <<envVars, cache, mtime, prog, outcome, held>>

\* Mutant: a missing file is an error like any other.
ResolveStrict(r) ==
    /\ pc[r] = "resolve"
    /\ \/ StatOf(view[r]) = "dir" /\ Finish(r, "next", NoText)
       \/ StatOf(view[r]) \in {"none", "enotdir"} /\ Finish(r, "error", NoText)
       \/ /\ StatOf(view[r]) = "file"
          /\ Goto(r, "stat") /\ UNCHANGED <<view, mtime, prog, outcome>>
    /\ UNCHANGED <<envVars, cache, held, seen>>

\* resolveView: only "does not exist" and "is a directory" fall through.
Resolve(r) ==
    /\ pc[r] = "resolve"
    /\ \/ /\ StatOf(view[r]) \in {"none", "dir"}
          /\ Finish(r, "next", NoText)
       \/ /\ StatOf(view[r]) = "enotdir"
          /\ Finish(r, "error", NoText)
       \/ /\ StatOf(view[r]) = "file"
          /\ Goto(r, "stat")
          /\ UNCHANGED <<view, mtime, prog, outcome>>
    /\ UNCHANGED <<envVars, cache, held, seen>>

\* loadProgram's own Stat, of a path that may have changed since resolveView.
Stat(r) ==
    /\ pc[r] = "stat"
    /\ \/ /\ StatOf(view[r]) \in {"none", "enotdir"}
          /\ Finish(r, "error", NoText)
       \/ /\ StatOf(view[r]) \in {"file", "dir"}
          /\ mtime' = [mtime EXCEPT ![r] = disk[view[r]].mtime]
          /\ Goto(r, IF caching THEN "lookup" ELSE "read")
          /\ UNCHANGED <<view, prog, outcome>>
    /\ UNCHANGED <<envVars, cache, held, seen>>

\* Mutant: any program cached for the path will do.
LookupByPath(r) ==
    /\ pc[r] = "lookup"
    /\ IF cache[view[r]].prog # NoText
       THEN Finish(r, "run", cache[view[r]].prog)
       ELSE Goto(r, "read") /\ UNCHANGED <<view, mtime, prog, outcome>>
    /\ UNCHANGED <<envVars, cache, held, seen>>

Lookup(r) ==
    /\ pc[r] = "lookup"
    /\ LET entry == cache[view[r]] IN
       IF entry.prog # NoText /\ entry.mtime = mtime[r]
       THEN Finish(r, "run", entry.prog)
       ELSE Goto(r, "read") /\ UNCHANGED <<view, mtime, prog, outcome>>
    /\ UNCHANGED <<envVars, cache, held, seen>>

\* Mutant: compilation is remembered by path, whatever CachePrograms says.
ReadMemoised(r) ==
    /\ pc[r] = "read"
    /\ LET c == disk[view[r]].text IN
       IF cache[view[r]].prog # NoText THEN Finish(r, "run", cache[view[r]].prog)
       ELSE IF c \in Broken \cup {NoText} THEN Finish(r, "error", NoText)
       ELSE /\ prog' = [prog EXCEPT ![r] = c]
            /\ Goto(r, "store") /\ UNCHANGED <<view, mtime, outcome>>
    /\ UNCHANGED <<envVars, cache, held, seen>>

\* Mutant: the errors of ReadFile and of the compiler are not looked at.
ReadUnchecked(r) ==
    /\ pc[r] = "read"
    /\ LET c == disk[view[r]].text IN
       IF ~caching THEN Finish(r, "run", c)
       ELSE /\ prog' = [prog EXCEPT ![r] = c]
            /\ Goto(r, "store") /\ UNCHANGED <<view, mtime, outcome>>
    /\ UNCHANGED <<envVars, cache, held, seen>>

\* ReadFile and compile: a program that does not compile is never cached.
Read(r) ==
    /\ pc[r] = "read"
    /\ LET c == disk[view[r]].text IN
       \/ /\ c \in Broken \cup {NoText}
          /\ Finish(r, "error", NoText)
       \/ /\ c \notin Broken \cup {NoText}
          /\ caching
          /\ prog' = [prog EXCEPT ![r] = c]
          /\ Goto(r, "store")
          /\ UNCHANGED <<view, mtime, outcome>>
       \/ /\ c \notin Broken \cup {NoText}
          /\ ~caching
          /\ Finish(r, "run", c)
    /\ UNCHANGED <<envVars, cache, held, seen>>

\* Mutant: the entry gets the modification time of the moment it is stored.
StoreRestamped(r) ==
    /\ pc[r] = "store"
    /\ cache' = [cache EXCEPT ![view[r]] =
                    [prog |-> prog[r], mtime |-> disk[view[r]].mtime]]
    /\ Finish(r, "run", prog[r])
    /\ UNCHANGED <<envVars, held, seen>>

\* Mutant: an entry, once there, is never replaced.
StoreOnce(r) ==
    /\ pc[r] = "store"
    /\ cache' = IF cache[view[r]] # NoEntry THEN cache
                ELSE [cache EXCEPT ![view[r]] = [prog |-> prog[r], mtime |-> mtime[r]]]
    /\ Finish(r, "run", prog[r])
    /\ UNCHANGED <<envVars, held, seen>>

\* The last writer wins, whatever modification time it saw.
Store(r) ==
    /\ pc[r] = "store"
    /\ cache' = [cache EXCEPT ![view[r]] = [prog |-> prog[r], mtime |-> mtime[r]]]
    /\ Finish(r, "run", prog[r])
    /\ UNCHANGED <<envVars, held, seen>>

\* The answer has gone out; the goroutine is free for another request.
Leave(r) ==
    /\ pc[r] = "done"
    /\ Goto(r, "idle")
    /\ outcome' = [outcome EXCEPT ![r] = "none"]
    /\ prog' = [prog EXCEPT ![r] = NoText]
    /\ seen' = [seen EXCEPT ![r] = {}]
    /\ UNCHANGED <<envVars, cache, view, mtime, held>>

Serve(r) == Resolve(r) \/ Stat(r) \/ Lookup(r) \/ Read(r) \/ Store(r)

Next ==
    \/ \E v \in Views, c \in Contents, how \in Stamping : Install(v, c, how)
    \/ \E v \in Views, how \in Stamping : MakeDir(v, how)
    \/ \E v \in Views : Remove(v)
    \/ \E r \in Requests, v \in Views : Arrive(r, v)
    \/ \E r \in Requests : Serve(r) \/ Leave(r)

Spec == Init /\ [][Next]_vars

\* A goroutine that can take its next step eventually does.  Nothing makes
\* requests arrive, and nothing makes anyone edit a file.
FairSpec == Spec /\ \A r \in Requests : WF_vars(Serve(r)) /\ WF_vars(Leave(r))

-----------------------------------------------------------------------------
(* What must hold.                                                         *)

\* Types; an existing path lies in directories only; a text is a file's; what
\* runs or is about to be cached is a program.
TypeOK ==
    /\ disk \in [Views -> Nodes]
    /\ \A v \in Views : disk[v].kind = "file" <=> disk[v].text # NoText
    /\ \A v \in Views : disk[v].kind # "none" =>
          \A a \in Above[v] : disk[a].kind = "dir"
    /\ now \in Nat
    /\ caching \in BOOLEAN
    /\ cache \in [Views -> Entries]
    /\ pc \in [Requests -> Steps]
    /\ view \in [Requests -> Views]
    /\ mtime \in [Requests -> Nat]
    /\ prog \in [Requests -> Texts]
    /\ outcome \in [Requests -> {"none", "next", "error", "run"}]
    /\ \A r \in Requests : outcome[r] = "run" \/ pc[r] = "store" => prog[r] # NoText
    /\ held \in [Views -> SUBSET Faces]
    /\ seen \in [Requests -> SUBSET Faces]

\* A program that runs is the compilation of a text its file really had at
\* some moment while the request was in flight (loadProgram, ServeHTTP).
NeverStale ==
    \A r \in Requests : outcome[r] = "run" =>
        \E p \in seen[r] : p.text = prog[r]

\* Without the cache that is so however the edits are stamped.
UncachedNeverStale == ~caching => NeverStale

\* What is left of NeverStale when edits can share a modification time: the
\* program is a text the file had under a modification time that the file
\* showed while the request was in flight ("keyed by absolute path and
\* modification time", module.go:66).
RunsUnderItsTime ==
    \A r \in Requests : outcome[r] = "run" =>
        \E p \in seen[r] : [text |-> prog[r], mtime |-> p.mtime] \in held[view[r]]

\* A request ends in an error only if there was a view file to blame at some
\* moment during it: a path with no file falls through (resolveView).
MissingFallsThrough ==
    \A r \in Requests : outcome[r] = "error" =>
        \E p \in seen[r] : p.text # NoText

\* Requests stop compiling once the files stop changing: from some moment on
\* a request that misses the cache is one whose file cannot be cached.
CacheSettles ==
    <>[](\A r \in Requests : pc[r] = "read" =>
            disk[view[r]].text \in Broken \cup {NoText})

\* The promise of ViewStore, under this reading of its variables.
AbsText == [v \in Views |-> disk[v].text]
AbsPhase == [r \in Requests |-> IF pc[r] = "idle" THEN "idle"
                                ELSE IF pc[r] = "done" THEN "answered" ELSE "asked"]
AbsWindow == [r \in Requests |-> {p.text : p \in seen[r]}]
AbsRan == [r \in Requests |-> IF outcome[r] = "run" THEN prog[r] ELSE NoText]

Promise == INSTANCE ViewStore WITH text <- AbsText, phase <- AbsPhase,
                                   asked <- view, window <- AbsWindow, ran <- AbsRan

ImplementsViewStore == Promise!Spec
=============================================================================
