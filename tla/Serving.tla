------------------------------- MODULE Serving --------------------------------
(***************************************************************************)
(* One request from the Caddyfile to its answer: the Handler is configured *)
(* (Config), ServeHTTP finds the view of the URL (ViewPath), runs its top  *)
(* level, which runs those of the files it loads (makeLoader), and calls   *)
(* the entry point (module.go).  What the entry point does with the        *)
(* request, and what becomes of its result, is in RequestBody, Session and *)
(* Reply; the cache behind loadProgram is ProgramCache.                    *)
(*                                                                         *)
(* A file is a record                                                      *)
(*   parses  no syntax error                                               *)
(*   ph      does it mention placeholder or ph?                            *)
(*   loads   the arguments of its load statements, in order                *)
(*   ends    its top level after them: "ok", "fails" or "aborts"           *)
(*   funcs   the callables it defines itself                               *)
(***************************************************************************)
EXTENDS Config, FiniteSets

CONSTANTS
    Cases,          \* what is served: records of a starlark directive (see
                    \* Config), the path of a URL and a file system (tree)
    Cwd,            \* the working directory, a clean path
    MainRoot,       \* the value of {http.vars.root}, <<>> when not set
    MaxDepth        \* how many nested loads a goroutine's stack holds

\* What there is to serve: any directive, URL and finite set of files.
IsCase(c) ==
    /\ c = [directive |-> c.directive, url |-> c.url, tree |-> c.tree]
    /\ IsDirective(c.directive)
    /\ c.url \in Path \ {<<>>}
    /\ IsFiniteSet(DOMAIN c.tree)
    /\ \A f \in DOMAIN c.tree : c.tree[f].loads \in Seq(Path)

ASSUME ServingConstantsOK ==
    /\ \A c \in Cases : IsCase(c)
    /\ Cwd \in Path /\ MainRoot \in Path
    /\ MaxDepth \in Nat \ {0}

VARIABLES
    directive, url, tree,
    pc,         \* "config", "resolve", "program", "init", "entry", "call", "done"
    handler,    \* the Handler
    view,       \* viewPath
    stack,      \* the files whose top levels are running, with how many of
                \* their loads are done; the view is the first
    opened,     \* the files read so far
    cap,        \* the limit of MaxBytesReader, 0 if there is none
    answer      \* "none", "refused", "next", "500", "aborted", "raised", "served",
                \* "crash"

given == <<directive, url, tree>>
vars == <<directive, url, tree, pc, handler, view, stack, opened, cap, answer>>

Init ==
    /\ \E c \in Cases : directive = c.directive /\ url = c.url /\ tree = c.tree
    /\ pc = "config"
    /\ handler = NewHandler
    /\ view = <<>> /\ stack = <<>> /\ opened = {} /\ cap = 0
    /\ answer = "none"

Done(a) == pc' = "done" /\ answer' = a
Goto(l) == pc' = l /\ UNCHANGED answer

\* Caddy parses, provisions and validates before it serves anything.
Configure ==
    /\ pc = "config"
    /\ LET h == parseCaddyfile(directive) IN
       /\ handler' = IF h.err THEN h ELSE Provision(h)
       /\ IF h.err \/ ~Valid(Provision(h)) THEN Done("refused") ELSE Goto("resolve")
    /\ UNCHANGED <<given, view, stack, opened, cap>>

\* repl.ReplaceAll(h.Root, "."), made absolute.
Root ==
    Abs(Cwd, IF handler.root # VarsRoot THEN handler.root
             ELSE Or(MainRoot, <<Dot>>))

Resolve ==
    /\ pc = "resolve"
    /\ LET r == resolveView(Root, url, handler.index, handler.extension, tree) IN
       /\ view' = r.file
       /\ CASE r.kind = "view" -> Goto("program")
            [] r.kind = "next" -> Done("next")
            [] r.kind = "error" -> Done("500")
    /\ UNCHANGED <<given, handler, stack, opened, cap>>

\* Mutant: "no cap" is a cap like any other.
LoadProgramCapped ==
    /\ pc = "program"
    /\ opened' = {view}
    /\ IF tree[view].parses
       THEN /\ Goto("init")
            /\ stack' = <<[file |-> view, loaded |-> 0]>>
            /\ cap' = handler.maxBodySize
       ELSE Done("500") /\ UNCHANGED <<stack, cap>>
    /\ UNCHANGED <<given, handler, view>>

\* loadProgram, which knows placeholder and ph; then the cap on the body.
LoadProgram ==
    /\ pc = "program"
    /\ opened' = {view}
    /\ IF tree[view].parses
       THEN /\ Goto("init")
            /\ stack' = <<[file |-> view, loaded |-> 0]>>
            /\ cap' = IF handler.maxBodySize > 0 THEN handler.maxBodySize ELSE 0
       ELSE Done("500") /\ UNCHANGED <<stack, cap>>
    /\ UNCHANGED <<given, handler, view>>

Top == Last(stack)
Loads == tree[Top.file].loads

StackFull == Len(stack) = MaxDepth

Pushed(file) ==
    Append([stack EXCEPT ![Len(stack)].loaded = @ + 1], [file |-> file, loaded |-> 0])

\* A load statement: the file is read and its top level begins, unless the
\* path leaves the view's directory, names no file, or what is in it does not
\* parse or resolve (buildPredeclaredNoRepl has no placeholder).  An error goes
\* up through all the top levels to prog.Init.  Nothing is remembered of
\* earlier loads, and no circle is noticed: the stack runs out.
LoadFrom(file, confined) ==
    /\ pc = "init" /\ Top.loaded < Len(Loads)
    /\ \/ /\ ~confined \/ Stat(tree, file) # "file"
          /\ Done("500")
          /\ UNCHANGED <<stack, opened>>
       \/ /\ confined /\ Stat(tree, file) = "file"
          /\ opened' = opened \cup {file}
          /\ CASE ~tree[file].parses \/ tree[file].ph -> Done("500") /\ UNCHANGED stack
               [] tree[file].parses /\ ~tree[file].ph /\ StackFull ->
                     Done("crash") /\ UNCHANGED stack
               [] OTHER -> stack' = Pushed(file) /\ UNCHANGED <<pc, answer>>
    /\ UNCHANGED <<given, handler, view, cap>>

\* Mutant: a path is taken from the directory of the file that loads it.
LoadFromLoader ==
    LET file == LoadPath(Top.file, Loads[Top.loaded + 1]) IN
    LoadFrom(file, Confined(Front(Top.file), file))

\* Mutant: no check that the path stays inside.
LoadAnywhere == LoadFrom(LoadPath(view, Loads[Top.loaded + 1]), TRUE)

\* Mutant: each file is loaded once per request, under a sync.Once of its own.
LoadOnce ==
    LET file == LoadPath(view, Loads[Top.loaded + 1]) IN
    /\ LoadFrom(file, Confined(Front(view), file))
    /\ \A i \in DOMAIN stack : stack[i].file # file

Load ==
    LET file == LoadPath(view, Loads[Top.loaded + 1]) IN
    LoadFrom(file, Confined(Front(view), file))

\* Mutant: a loaded file that fails leaves its globals behind all the same.
TopLevelEndsLax ==
    /\ pc = "init" /\ Top.loaded = Len(Loads)
    /\ stack' = Front(stack)
    /\ IF tree[Top.file].ends # "ok" /\ Len(stack) = 1 THEN Done("500")
       ELSE IF Len(stack) = 1 THEN Goto("entry") ELSE UNCHANGED <<pc, answer>>
    /\ UNCHANGED <<given, handler, view, opened, cap>>

\* The top level in hand ends.  Here abort() is an error like any other.
TopLevelEnds ==
    /\ pc = "init" /\ Top.loaded = Len(Loads)
    /\ stack' = Front(stack)
    /\ IF tree[Top.file].ends # "ok" THEN Done("500")
       ELSE IF Len(stack) = 1 THEN Goto("entry") ELSE UNCHANGED <<pc, answer>>
    /\ UNCHANGED <<given, handler, view, opened, cap>>

\* The view's global of the entry point's name.
EntryPoint ==
    /\ pc = "entry"
    /\ IF handler.entryPoint[1] \in {<<f>> : f \in tree[view].funcs}
       THEN Goto("call") ELSE Done("500")
    /\ UNCHANGED <<given, handler, view, stack, opened, cap>>

\* starlark.Call, and what ServeHTTP makes of its result.
Call ==
    /\ pc = "call"
    /\ \E a \in {"served", "aborted", "raised"} : Done(a)
    /\ UNCHANGED <<given, handler, view, stack, opened, cap>>

\* What the handler does by itself.
ToTheCall == Configure \/ Resolve \/ LoadProgram \/ Load \/ TopLevelEnds \/ EntryPoint

Next == ToTheCall \/ Call

\* A view that reads the request's body waits for the client: nothing makes the
\* call end.
Spec == Init /\ [][Next]_vars /\ WF_vars(ToTheCall)

-----------------------------------------------------------------------------
(* What must hold.                                                         *)

TypeOK ==
    /\ [directive |-> directive, url |-> url, tree |-> tree] \in Cases
    /\ pc \in {"config", "resolve", "program", "init", "entry", "call", "done"}
    /\ view \in DOMAIN tree \cup {<<>>}
    /\ opened \subseteq DOMAIN tree
    /\ \A i \in DOMAIN stack : /\ stack[i].file \in opened
                              /\ stack[i].loaded \in 0..Len(tree[stack[i].file].loads)
    /\ cap \in Nat
    /\ answer \in {"none", "refused", "next", "500", "aborted", "raised", "served", "crash"}

\* TestPathTraversalRejected and TestLoadStaysInsideRoot: whatever URL is asked
\* for and whatever files load from where, no file is opened but below the root,
\* and none but below the view's own directory.
ReadsConfined ==
    \A f \in opened : IsPrefix(Root, f) /\ IsPrefix(Front(view), f)

\* What a subdirective was last given, default if it was not.
Asked(name, default) ==
    LET named == {i \in DOMAIN directive.block : directive.block[i][1] = name} IN
    IF named = {} THEN default ELSE directive.block[Max(named)][2]

AskedExt == LET e == Or(Asked("extension", <<>>), <<Blank, "star">>) IN
            IF Head(e) = Blank THEN e ELSE Empty \o e

AskedIndex == Or(Asked("index", <<>>), <<<<"index">> \o Tail(AskedExt)>>)

\* README.md:54: "/foo resolves to <root>/foo.star; /foo/ resolves to
\* <root>/foo/<index>"; module.go:52: the extension "is appended when the URL path
\* has none".
Meant ==
    LET p == Clean(url) IN
    IF Last(url) = Empty THEN {Clean(url \o AskedIndex)}
    ELSE {p, AddExt(p, AskedExt)}

\* Of the files a URL can mean by the README, the handler takes one that has the
\* extension; it passes a request on only if there is none, leaving aside names
\* with a dot too many: one in front of the first, one in the extension, or one
\* in a name without the extension.
RightView ==
    /\ pc \in {"program", "init", "entry", "call"} =>
          \E q \in Meant : view = Root \o q /\ Ext(q) = AskedExt
    /\ answer = "next" =>
          \A q \in Meant : \/ Root \o q \notin DOMAIN tree
                           \/ Ext(q) # AskedExt
                           \/ StartsWithDots(Head(q))
                           \/ Last(url) # Empty /\ Ext(Clean(url)) # <<>> /\ q # Clean(url)

\* The files that f loads when v is the view, those loaded by files of S, and
\* those over any number of loads.
LoadedBy(t, v, f) == {LoadPath(v, m) : m \in ToSet(t[f].loads)}
Wider(t, v, S) == LET R == S IN R \cup UNION {LoadedBy(t, v, f) : f \in R \cap DOMAIN t}
Beyond(t, v, S) ==
    FoldLeft(LAMBDA R, i : Wider(t, v, R), S, [i \in 1..Cardinality(DOMAIN t) |-> i])

Reached == Beyond(tree, view, {view})
Circular == \E f \in Reached \cap DOMAIN tree : f \in Beyond(tree, view, LoadedBy(tree, view, f))

\* What load() minds; in the view itself it does so only if the view is loaded.
Unloadable(f) == tree[f].ph \/ ~Confined(Front(view), f)
Flawed(f) ==
    \/ f \notin DOMAIN tree
    \/ ~tree[f].parses
    \/ tree[f].ends # "ok"
    \/ Unloadable(f) /\ (f # view \/ Circular)

\* The entry point is called only when every file reached by load(), each in
\* the view's directory, is without fault, and none reaches itself: a file that
\* fails is never half-used (globals of a failed top level reach nobody).
OnlySoundViewsRun ==
    pc \in {"entry", "call"} => ~Circular /\ \A f \in Reached : ~Flawed(f)

\* And nothing else keeps it from being called: a 500 before the call has its
\* cause in the path, in one of those files or in a missing entry point; and the
\* process is lost only to files that load each other in a circle.
ForGoodReason ==
    /\ answer = "500" =>
          IF view = <<>> THEN \E q \in Meant : Stat(tree, Root \o q) = "belowFile"
          ELSE \/ \E f \in Reached : Flawed(f)
               \/ handler.entryPoint \notin {<<<<f>>>> : f \in tree[view].funcs}
    /\ answer = "crash" => Circular

AskedSize == Asked("max_body_size", 0)

\* Bodies are capped as the Caddyfile says, and by default when it says nothing
\* or 0.  The cap is off when "unlimited" is asked for, and (int64(n) being
\* negative) for sizes from half the range of the unsigned size on.
CapAsAsked ==
    pc \in {"init", "entry", "call"} =>
        CASE AskedSize = 0 -> cap = DefaultSize
          [] AskedSize \in 1..SizeRange \div 2 - 1 -> cap = AskedSize
          [] OTHER -> cap = 0

\* Every request comes to the call of its entry point or is answered without it,
\* however its files load each other; only a circle takes the process with it
\* (makeLoader has neither a lock nor a record of loads to wait on).
Answered ==
    <>(\/ pc = "call"
       \/ pc = "done" /\ (answer = "crash" => Circular))
=============================================================================
