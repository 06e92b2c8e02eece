------------------------------ MODULE MCServing -------------------------------
(***************************************************************************)
(* Small instances of Serving for TLC.                                     *)
(***************************************************************************)
EXTENDS Serving, TLC

\* Segments: a, b, x, "..", and names with dots.
a == <<"a">>
Star(name) == <<name, "star">>

MCWords == STRING
MCCwd == <<<<"srv">>>>
MCMainRoot == <<>>

Block(b) == [args |-> <<>>, block |-> b]
Views == <<"root", <<Dot, <<"views">>>>>>

\* The root, the extension and the index from every source, the sizes on both
\* sides of each boundary, and directives that are refused.
MCDirectives ==
    {Block(<<>>), Block(<<Views>>),
     [args |-> <<<<Empty, <<"srv">>, <<"views">>>>>>, block |-> <<>>],
     [args |-> <<MCCwd, MCCwd>>, block |-> <<>>],
     Block(<<Views, <<"extension", <<"py">>>>>>),
     Block(<<Views, <<"extension", <<"", "star">>>>, <<"extension", <<"", "py">>>>>>),
     Block(<<Views, <<"index", <<<<"a">>>>>>>>),
     Block(<<Views, <<"index", <<a, Star("lib")>>>>>>),
     Block(<<Views, <<"index", <<Empty, a, DotDot, Star("lib")>>>>>>),
     Block(<<Views, <<"extension", <<"py">>>>, <<"extension", <<>>>>>>),
     Block(<<Views, <<"entry_point", <<<<"main">>>>>>>>),
     Block(<<Views, <<"entry_point", <<a, a>>>>>>),
     Block(<<Views, <<"cache_programs", "off">>, <<"secret_key", <<"k">>>>,
             <<"session_cookie_name", <<"c">>>>>>),
     Block(<<Views, <<"cache_programs", "maybe">>>>),
     Block(<<Views, <<"index">>>>),
     Block(<<Views, <<"roof", Views>>>>)} \cup
    {Block(<<Views, <<"max_body_size", n>>>>) : n \in {-2, -1, 0, 1, 3, 4, 7, 8}} \cup
    {Block(<<Views, <<"max_body_size", 8>>, <<"max_body_size", 1>>>>)}

Dots == <<"", "", "a", "star">>
Names == {Empty, DotDot, a, Star("a"), Star("lib")}

\* Every path of up to three of those segments, and a few odd names.
MCUrls ==
    {<<Empty>> \o p : p \in UNION {[1..n -> Names] : n \in 0..3}} \cup
    {<<Empty, n>> : n \in {Dot, <<"a", "py">>, <<"a", "v2">>, <<"", "", "a">>,
                           Dots}} \cup
    {<<Empty, <<"a", "py">>, Empty>>, <<Empty, a, Dots>>}

File(loads) ==
    [parses |-> TRUE, ph |-> FALSE, loads |-> loads, ends |-> "ok", funcs |-> {"respond"}]

lib == <<Star("lib")>>
aLib == <<a, Star("lib")>>
InViews(p) == <<<<"srv">>, <<"views">>>> \o p

\* A view that loads two files which load a third; everything twice, in the
\* root and below it; and files outside the root.
Site ==
    InViews(<<Star("a")>>) :> [File(<<lib, <<a, Star("a")>>>>) EXCEPT !.ph = TRUE] @@
    InViews(lib) :> File(<<aLib>>) @@
    InViews(<<a, Star("a")>>) :> File(<<<<Dot, a, DotDot>> \o aLib>>) @@
    InViews(aLib) :> File(<<>>) @@
    InViews(<<Star("index")>>) :> [File(<<aLib>>) EXCEPT !.funcs = {"main"}] @@
    InViews(<<<<"a", "py">>>>) :> File(<<lib>>) @@
    InViews(<<<<"index", "py">>>>) :> File(<<>>) @@
    InViews(<<Dots>>) :> File(<<>>) @@
    InViews(<<<<"", "star">>>>) :> File(<<>>) @@
    InViews(<<a, Dots>>) :> File(<<lib>>) @@
    <<<<"srv">>, Star("lib")>> :> File(<<>>) @@
    <<<<"srv">>, Star("index")>> :> File(<<lib>>)

\* One file changed: a load outside the view's directory or of nothing, circles
\* of one, two and three files, a file that does not parse, resolve or end well.
With(f, r) == f :> r @@ Site
MCTrees ==
    {Site,
     With(InViews(lib), File(<<<<DotDot, Star("lib")>>>>)),
     With(InViews(lib), File(<<<<a>>>>)),
     With(InViews(aLib), File(<<aLib>>)),
     With(InViews(lib), File(<<lib, aLib>>)),
     With(InViews(aLib), File(<<<<Star("a")>>>>)),
     With(InViews(aLib), File(<<lib>>)),
     With(InViews(aLib), File(<<<<Dots>>>>)),
     With(InViews(<<<<"index", "py">>>>), [File(<<>>) EXCEPT !.funcs = {}])} \cup
    {With(InViews(f), [File(<<>>) EXCEPT !.parses = p, !.ph = h, !.ends = e]) :
        f \in {<<Star("a")>>, lib, aLib}, p \in BOOLEAN, h \in BOOLEAN,
        e \in {"ok", "fails", "aborts"}}

MCCases ==
    [directive : MCDirectives, url : {<<Empty>>, <<Empty, a>>, <<Empty, <<"a", "py">>>>},
     tree : {Site}] \cup
    [directive : {Block(<<Views>>)}, url : MCUrls, tree : {Site}] \cup
    [directive : {Block(<<Views>>), Block(<<Views, <<"extension", <<"py">>>>>>)},
     url : {<<Empty>>, <<Empty, a>>, <<Empty, a, a>>, <<Empty, a, Dots>>, <<Empty, <<"index", "py">>>>},
     tree : MCTrees]

\* The chains of n different files that load each other, from the view v on.
Chains(t, v, n) ==
    LET Longer(C, i) ==
            UNION {{Append(p, f) : f \in (LoadedBy(t, v, Last(p)) \cap DOMAIN t) \ ToSet(p)} :
                      p \in C}
    IN  FoldLeft(Longer, {<<v>>}, [i \in 1..n - 1 |-> i])

\* The stack holds any of these trees but for circles (DeepEnough in ServingProofs).
ASSUME TreesAreShallow ==
    \A t \in MCTrees : \A v \in DOMAIN t : Chains(t, v, MaxDepth + 1) = {}
===============================================================================
