------------------------------- MODULE ViewPath -------------------------------
(***************************************************************************)
(* Paths as resolveView and load() take them apart (module.go).  A path is *)
(* the sequence of what its slashes separate, and each of these segments   *)
(* the sequence of what its dots separate: "/a/foo.star" is                *)
(* <<<<"">>, <<"a">>, <<"foo", "star">>>>, and ".." is <<"", "", "">>.     *)
(* The zero value of a Go string field is <<>>.                            *)
(***************************************************************************)
EXTENDS Integers, SequencesExt

CONSTANT Words  \* what can stand between two dots or slashes

Blank == ""

ASSUME ViewPathConstantsOK == Blank \in Words

Segment == Seq(Words) \ {<<>>}
Path == Seq(Segment)

Empty == <<Blank>>
Dot == <<Blank, Blank>>
DotDot == <<Blank, Blank, Blank>>

\* One segment of path.Clean on a rooted path, which ".." cannot leave.
Enter(dir, seg) ==
    CASE seg \in {Empty, Dot} -> dir
      [] seg = DotDot /\ dir = <<>> -> dir
      [] seg = DotDot /\ dir # <<>> -> Front(dir)
      [] OTHER -> Append(dir, seg)

\* path.Clean("/" + p), path.Join and filepath.Join: no empty segment is left,
\* and no dots.
Clean(p) == FoldLeft(Enter, <<>>, p)

\* filepath.Abs.
Abs(cwd, p) == IF Head(p) = Empty THEN Clean(p) ELSE Clean(cwd \o p)

\* path.Ext: from the last dot of the last segment on, <<>> if there is none.
Ext(p) ==
    IF p = <<>> \/ Len(Last(p)) < 2 THEN <<>> ELSE <<Blank, Last(Last(p))>>

\* Add an extension, which starts with a dot, to a path.
AddExt(p, ext) ==
    IF p = <<>> THEN <<ext>> ELSE Append(Front(p), Last(p) \o Tail(ext))

StartsWithDots(seg) == Len(seg) > 2 /\ SubSeq(seg, 1, 2) = <<Blank, Blank>>

\* Is p inside base?  filepath.Rel starts with ".." if it has to climb, and
\* also if the first name below base starts with two dots.
Confined(base, p) ==
    /\ IsPrefix(base, p)
    /\ Len(p) > Len(base) => ~StartsWithDots(p[Len(base) + 1])

\* os.Stat of a clean path.  tree maps the paths of the regular files to what
\* is in them.
Stat(tree, p) ==
    IF p \in DOMAIN tree THEN "file"
    ELSE IF \E f \in DOMAIN tree : IsStrictPrefix(p, f) THEN "dir"
    ELSE IF \E f \in DOMAIN tree : IsStrictPrefix(f, p) THEN "belowFile"
    ELSE "missing"

\* The name a URL path stands for, before anything is looked up.
ViewName(url, index, ext) ==
    LET name == Clean(url) IN
    IF Last(url) = Empty THEN Clean(name \o index)
    ELSE IF Ext(name) = <<>> THEN AddExt(name, ext) ELSE name

\* resolveView: the view's file, the next handler (fs.ErrNotExist), or another
\* error of os.Stat's.
resolveView(root, url, index, ext, tree) ==
    LET name == ViewName(url, index, ext)
        full == root \o name
        kind == CASE Ext(name) # ext -> "next"
                  [] Ext(name) = ext /\ ~Confined(root, full) -> "next"
                  [] OTHER -> CASE Stat(tree, full) = "file" -> "view"
                                [] Stat(tree, full) = "belowFile" -> "error"
                                [] OTHER -> "next"
    IN [kind |-> kind, file |-> IF kind = "view" THEN full ELSE <<>>]

\* The file load(module) means in a request for this view, whichever file says
\* it: makeLoader has been given the view's own directory.
LoadPath(view, module) == Clean(Front(view) \o module)
=============================================================================
