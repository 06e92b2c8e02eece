-------------------------------- MODULE Config --------------------------------
(***************************************************************************)
(* From the starlark directive of a Caddyfile to a Handler ready to serve: *)
(* parseCaddyfile, Provision and Validate (module.go).                     *)
(*                                                                         *)
(* A directive is [args, block]: the arguments beside its name, and the    *)
(* subdirectives, each its name and the argument after it, if any.  Paths  *)
(* are those of ViewPath; the value of entry_point is a path, too, so that *)
(* one can see a slash in it.                                              *)
(***************************************************************************)
EXTENDS ViewPath

CONSTANTS
    SizeRange,      \* 2^64, the number of values of an int64
    DefaultSize     \* DefaultMaxBodySize

ASSUME ConfigConstantsOK ==
    /\ SizeRange \in Nat \ {0, 1} /\ DefaultSize \in Nat \ {0}
    /\ {"star", "index", "respond", "session", "{http", "vars", "root}"} \subseteq Words

\* Values of max_body_size: a number of bytes, or one of these.
Unlimited == -1     \* "unlimited" in any case, or "-1"
NoSize == -2        \* anything else humanize.ParseBytes refuses

\* int64(n) of an unsigned n.
Int64(n) == IF n >= SizeRange \div 2 THEN n - SizeRange ELSE n

\* A directive as the Caddyfile's lexer leaves it.
IsDirective(d) ==
    /\ d.args \in Seq(Path)
    /\ d.block \in Seq(ToSet(d.block))
    /\ \A o \in ToSet(d.block) : Len(o) # 1 =>
          /\ o[1] \in {"root", "entry_point", "index"} => o[2] \in Path
          /\ o[1] = "extension" => o[2] \in Segment \cup {<<>>}
          /\ o[1] = "max_body_size" => o[2] \in Nat \cup {Unlimited, NoSize}

\* The Handler as new(Handler) makes it; err: the directive is refused.
NewHandler == [root |-> <<>>, extension |-> <<>>, entryPoint |-> <<>>, index |-> <<>>,
               cachePrograms |-> "nil", maxBodySize |-> 0, secretKey |-> <<>>,
               sessionCookieName |-> <<>>, err |-> FALSE]

Refuse(h) == [h EXCEPT !.err = TRUE]

\* One subdirective: name and its argument, without which it is an error.
SetOption(h, option) ==
    IF Len(option) = 1 THEN Refuse(h) ELSE
    LET name == option[1]
        v == option[2] IN
    CASE name = "root" -> [h EXCEPT !.root = v]
      [] name = "extension" -> [h EXCEPT !.extension = v]
      [] name = "entry_point" -> [h EXCEPT !.entryPoint = v]
      [] name = "index" -> [h EXCEPT !.index = v]
      [] name = "secret_key" -> [h EXCEPT !.secretKey = v]
      [] name = "session_cookie_name" -> [h EXCEPT !.sessionCookieName = v]
      [] name = "max_body_size" /\ v = Unlimited -> [h EXCEPT !.maxBodySize = -1]
      [] name = "max_body_size" /\ v \in 0..SizeRange - 1 -> [h EXCEPT !.maxBodySize = Int64(v)]
      [] name = "cache_programs" /\ v \in {"true", "on", "yes", "1"} ->
            [h EXCEPT !.cachePrograms = "true"]
      [] name = "cache_programs" /\ v \in {"false", "off", "no", "0"} ->
            [h EXCEPT !.cachePrograms = "false"]
      [] OTHER -> Refuse(h)

parseCaddyfile(d) ==
    IF Len(d.args) > 1 THEN Refuse(NewHandler)
    ELSE FoldLeft(SetOption,
                  IF d.args = <<>> THEN NewHandler ELSE [NewHandler EXCEPT !.root = d.args[1]],
                  d.block)

VarsRoot == <<<<"{http", "vars", "root}">>>>

Or(value, default) == IF value = <<>> THEN default ELSE value

\* An extension with a dot in front.
Dotted(ext) == IF Head(ext) = Blank THEN ext ELSE Empty \o ext

\* Mutant: the extension as it was given.
DefaultIndexAsGiven(ext) ==
    <<IF Head(ext) = Blank THEN <<"index">> \o Tail(ext) ELSE <<"index" \o Head(ext)>>>>

DefaultIndex(ext) == <<<<"index">> \o Tail(Dotted(ext))>>

\* Mutant: no difference between no cap and none given.
CapForPositive(size) == IF size <= 0 THEN DefaultSize ELSE size

CapFor(size) == IF size = 0 THEN DefaultSize ELSE size

\* Provision: the defaults.
Provision(h) ==
    LET ext == Or(h.extension, <<Blank, "star">>) IN
    [h EXCEPT !.root = Or(@, VarsRoot),
              !.extension = Dotted(ext),
              !.entryPoint = Or(@, <<<<"respond">>>>),
              !.index = Or(@, DefaultIndex(ext)),
              !.cachePrograms = IF @ = "nil" THEN "true" ELSE @,
              !.maxBodySize = CapFor(@),
              !.sessionCookieName = Or(@, <<"session">>)]

\* Validate: the entry point is a bare identifier.
Valid(h) == Len(h.entryPoint) = 1
=============================================================================
