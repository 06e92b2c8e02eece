----------------------------- MODULE ServingProofs -----------------------------
(***************************************************************************)
(* Theorems about Serving, for every set of cases: every directive, URL    *)
(* and finite set of files, with any words in their names.                 *)
(*                                                                         *)
(* What the functions of ViewPath and Config do comes first.  Clean,       *)
(* parseCaddyfile and Beyond are folds; for each there is a lemma (Steps)  *)
(* that makes it a sequence of steps, and then those that follow from it   *)
(* by induction on their number.  Then the inductive invariant Inv, of     *)
(* five parts, action by action; and what it implies.                      *)
(***************************************************************************)
EXTENDS Serving, SeqLemmas

-----------------------------------------------------------------------------
(* Paths.                                                                  *)

LEMMA Blanks ==
    /\ Empty \in Segment /\ Dot \in Segment /\ DotDot \in Segment
    /\ <<>> \in Path
    /\ Blank \in Words
BY ViewPathConstantsOK DEF ViewPathConstantsOK, Segment, Path, Empty, Dot, DotDot

LEMMA EnterType ==
    ASSUME NEW d \in Path, NEW seg \in Segment
    PROVE  Enter(d, seg) \in Path
<1>1. d # <<>> => Front(d) \in Path
  BY FrontType DEF Path
<1>2. Append(d, seg) \in Path
  BY AppendProperties DEF Path
<1> QED BY <1>1, <1>2 DEF Enter

LEMMA CleanSteps ==
    ASSUME NEW p \in Path
    PROVE  \E h \in [0..Len(p) -> Path] :
              /\ h[0] = <<>>
              /\ \A i \in 1..Len(p) : h[i] = Enter(h[i - 1], p[i])
              /\ Clean(p) = h[Len(p)]
<1> DEFINE f == [x \in Path \X Segment |-> Enter(x[1], x[2])]
           G(it) == [t \in SUBSET DOMAIN p |->
                       IF t = {} THEN <<>> ELSE Enter(it[t \ {Max(t)}], p[Max(t)])]
           c == CHOOSE it : it = G(it)
<1>1. /\ DOMAIN p = 1..Len(p) /\ Len(p) \in Nat /\ p \in Seq(Segment)
      /\ \A i \in 1..Len(p) : p[i] \in Segment
  BY LenProperties, ElementOfSeq DEF Path
<1>2. f \in [Path \X Segment -> Path] /\ \A d \in Path, g \in Segment : f[<<d, g>>] = Enter(d, g)
  BY EnterType
<1>3. \A t \in SUBSET DOMAIN p : t # {} => p[Max(t)] \in Segment /\ t \ {Max(t)} \in SUBSET DOMAIN p
  BY <1>1, MaxOf
<1>4. Clean(p) = c[DOMAIN p]
  BY DEF Clean, FoldLeft, MapThenFoldSet
<1>5. <<>> \in Path
  BY Blanks
<1> HIDE DEF f
<1>6. \E it : it = G(it)
  <2>1. PICK it : IsFold(it, f, <<>>, p, Path)
    BY <1>1, <1>2, <1>5, FoldExists
  <2>2. \A t \in SUBSET DOMAIN p :
              it[t] = IF t = {} THEN <<>> ELSE Enter(it[t \ {Max(t)}], p[Max(t)])
    BY <1>2, <1>3, <2>1 DEF IsFold
  <2>3. it = G(it)
    BY <2>1, <2>2 DEF IsFold
  <2> QED BY <2>3
<1>7. c = G(c)
  <2> HIDE DEF G
  <2> QED BY <1>6
<1> HIDE DEF c
<1>8. IsPartlyFold(c, f, <<>>, p, Path)
  BY <1>2, <1>3, <1>7 DEF IsPartlyFold
<1>9. PICK h : IsRun(h, f, <<>>, p, Path) /\ c[DOMAIN p] = h[Len(p)]
  <2>1. p \in Seq(Segment) /\ f \in [Path \X Segment -> Path]
    BY <1>1, <1>2
  <2>2. EndsIn(c[DOMAIN p], f, <<>>, p, Path)
    BY <1>5, <1>8, <2>1, FoldRuns
  <2> QED BY <2>2 DEF EndsIn
<1>10. \A i \in 1..Len(p) : h[i] = Enter(h[i - 1], p[i])
  <2>1. \A i \in 1..Len(p) : h[i - 1] \in Path
    BY <1>1, <1>9 DEF IsRun
  <2> QED BY <1>1, <1>2, <1>9, <2>1 DEF IsRun
<1> QED BY <1>4, <1>9, <1>10 DEF IsRun

LEMMA CleanType ==
    ASSUME NEW p \in Path
    PROVE  Clean(p) \in Path
<1>1. PICK h \in [0..Len(p) -> Path] : Clean(p) = h[Len(p)]
  BY CleanSteps
<1>2. Len(p) \in 0..Len(p)
  BY LenProperties DEF Path
<1> QED BY <1>1, <1>2

LEMMA CleanAppend ==
    /\ Clean(<<>>) = <<>>
    /\ \A p \in Path, seg \in Segment : Clean(Append(p, seg)) = Enter(Clean(p), seg)
<1>1. Clean(<<>>) = <<>>
  BY Blanks, CleanSteps
<1>2. ASSUME NEW p \in Path, NEW seg \in Segment
      PROVE  Clean(Append(p, seg)) = Enter(Clean(p), seg)
  <2> DEFINE q == Append(p, seg)
             n == Len(p)
  <2>1. q \in Path /\ n \in Nat /\ Len(q) = n + 1
        /\ q[n + 1] = seg /\ \A i \in 1..n : q[i] = p[i]
    BY AppendProperties, LenProperties DEF Path
  <2>2. PICK h \in [0..n -> Path] :
              /\ h[0] = <<>>
              /\ \A i \in 1..n : h[i] = Enter(h[i - 1], p[i])
              /\ Clean(p) = h[n]
    BY CleanSteps
  <2>3. PICK g \in [0..Len(q) -> Path] :
              /\ g[0] = <<>>
              /\ \A i \in 1..Len(q) : g[i] = Enter(g[i - 1], q[i])
              /\ Clean(q) = g[Len(q)]
    BY <2>1, CleanSteps
  <2> DEFINE S == {i \in Nat : g[i] = h[i]}
  <2>4. 0 \in S
    BY <2>2, <2>3
  <2>5. ASSUME NEW i \in 1..n, i - 1 \in S PROVE i \in S
    BY <2>1, <2>2, <2>3, <2>5
  <2> HIDE DEF S
  <2>6. \A i \in 0..n : i \in S
    BY <2>1, <2>4, <2>5, UpTo
  <2>7. g[n] = h[n]
    BY <2>1, <2>6 DEF S
  <2>8. g[n + 1] = Enter(g[n], seg)
    <3>1. n + 1 \in 1..Len(q) /\ (n + 1) - 1 = n
      BY <2>1
    <3> QED BY <2>1, <2>3, <3>1
  <2> QED BY <2>1, <2>2, <2>3, <2>7, <2>8
<1> QED BY <1>1, <1>2

\* Only what a path cleans to matters to what comes after it.
LEMMA CleanPrefix ==
    ASSUME NEW p \in Path, NEW r \in Path, Clean(p) = Clean(r), NEW q \in Path
    PROVE  Clean(p \o q) = Clean(r \o q)
<1> DEFINE S == {n \in Nat : \A s \in Path : Len(s) = n => Clean(p \o s) = Clean(r \o s)}
<1>1. 0 \in S
  <2>1. ASSUME NEW s \in Path, Len(s) = 0 PROVE Clean(p \o s) = Clean(r \o s)
    <3>1. s = <<>>
      BY <2>1, EmptySeq DEF Path
    <3>2. p \o s = p /\ r \o s = r
      BY <3>1, ConcatEmptySeq DEF Path
    <3> QED BY <3>2
  <2> QED BY <2>1
<1>2. ASSUME NEW n \in Nat, n \in S PROVE n + 1 \in S
  <2>1. ASSUME NEW s \in Path, Len(s) = n + 1 PROVE Clean(p \o s) = Clean(r \o s)
    <3>1. s # <<>>
      BY <2>1
    <3>2. Front(s) \in Path /\ Len(Front(s)) = n /\ Last(s) \in Segment
      <4>1. (n + 1) - 1 = n
        OBVIOUS
      <4> QED BY <2>1, <3>1, <4>1, FrontType DEF Path
    <3>3. s = Append(Front(s), Last(s))
      BY <3>1, FrontAndLast DEF Path
    <3>4. p \o s = Append(p \o Front(s), Last(s)) /\ r \o s = Append(r \o Front(s), Last(s))
      <4>1. p \o Append(Front(s), Last(s)) = Append(p \o Front(s), Last(s))
            /\ r \o Append(Front(s), Last(s)) = Append(r \o Front(s), Last(s))
        BY <3>2, ConcatAppend DEF Path
      <4> QED BY <3>3, <4>1
    <3>5. p \o Front(s) \in Path /\ r \o Front(s) \in Path
      BY <3>2, ConcatProperties DEF Path
    <3>6. Clean(p \o Front(s)) = Clean(r \o Front(s))
      BY <1>2, <3>2
    <3> QED BY <3>2, <3>4, <3>5, <3>6, CleanAppend
  <2> QED BY <2>1
<1> HIDE DEF S
<1>3. Len(q) \in S
  BY <1>1, <1>2, NatSet, LenProperties DEF Path
<1> QED BY <1>3 DEF S

\* What is clean stays as it is.
LEMMA CleanTwice ==
    ASSUME NEW p \in Path
    PROVE  Clean(Clean(p)) = Clean(p)
<1> DEFINE Odd == {Empty, Dot, DotDot}
           A == {d \in Path : \A i \in 1..Len(d) : d[i] \notin Odd}
           S == {n \in Nat : \A d \in A : Len(d) = n => Clean(d) = d}
<1>1. ASSUME NEW d \in A, d # <<>>
      PROVE  /\ Front(d) \in A /\ Last(d) \in Segment \ Odd
             /\ Len(d) \in Nat \ {0} /\ Len(Front(d)) = Len(d) - 1
             /\ d = Append(Front(d), Last(d))
  <2>1. /\ Front(d) \in Path /\ Len(Front(d)) = Len(d) - 1
        /\ \A i \in 1..Len(d) - 1 : Front(d)[i] = d[i]
        /\ Last(d) \in Segment /\ Len(d) \in Nat \ {0}
    BY <1>1, FrontType DEF Path
  <2>2. \A i \in 1..Len(d) - 1 : i \in 1..Len(d)
    BY <2>1
  <2>3. Last(d) \notin Odd
    BY <2>1 DEF Last
  <2>4. d = Append(Front(d), Last(d))
    BY <1>1, FrontAndLast DEF Path
  <2> HIDE DEF Odd
  <2> QED BY <2>1, <2>2, <2>3, <2>4
<1>2. ASSUME NEW d \in A, NEW seg \in Segment PROVE Enter(d, seg) \in A
  <2>1. CASE seg \in Odd
    BY <1>1, <2>1 DEF Enter
  <2>2. CASE seg \notin Odd
    <3>1. Enter(d, seg) = Append(d, seg)
      BY <2>2 DEF Enter
    <3>2. /\ Append(d, seg) \in Path /\ Len(Append(d, seg)) = Len(d) + 1 /\ Len(d) \in Nat
          /\ \A i \in 1..Len(d) : Append(d, seg)[i] = d[i]
          /\ Append(d, seg)[Len(d) + 1] = seg
      BY AppendProperties, LenProperties DEF Path
    <3>3. \A i \in 1..Len(d) + 1 : i \in 1..Len(d) \/ i = Len(d) + 1
      BY <3>2
    <3> HIDE DEF Odd
    <3> QED BY <2>2, <3>1, <3>2, <3>3
  <2> QED BY <2>1, <2>2
<1>3. <<>> \in A
  BY Blanks
<1>4. \A d \in A : d \in Path
  OBVIOUS
<1>5. \A d \in A, seg \in Segment \ Odd : Enter(d, seg) = Append(d, seg)
  BY DEF Enter
<1>6. \A d \in A : Len(d) = 0 => d = <<>>
  BY EmptySeq DEF Path
<1> HIDE DEF A, Odd
<1>7. 0 \in S
  BY <1>6, CleanAppend
<1>8. ASSUME NEW n \in Nat, n \in S PROVE n + 1 \in S
  <2>1. ASSUME NEW d \in A, Len(d) = n + 1 PROVE Clean(d) = d
    <3>1. d # <<>>
      BY <2>1
    <3>2. /\ Front(d) \in A /\ Last(d) \in Segment \ Odd
          /\ Len(Front(d)) = Len(d) - 1
          /\ d = Append(Front(d), Last(d))
      BY <1>1, <3>1
    <3>3. Clean(Front(d)) = Front(d)
      BY <1>8, <2>1, <3>2
    <3>4. Clean(Append(Front(d), Last(d))) = Enter(Clean(Front(d)), Last(d))
      BY <1>4, <3>2, CleanAppend
    <3> QED BY <1>5, <3>2, <3>3, <3>4
  <2> QED BY <2>1
<1> HIDE DEF S
<1>9. \A d \in A : Clean(d) = d
  <2>1. \A n \in Nat : n \in S
    BY <1>7, <1>8, NatSet
  <2>2. \A d \in A : Len(d) \in Nat
    BY <1>4, LenProperties DEF Path
  <2> QED BY <2>1, <2>2 DEF S
<1>10. PICK h \in [0..Len(p) -> Path] :
              /\ h[0] = <<>>
              /\ \A i \in 1..Len(p) : h[i] = Enter(h[i - 1], p[i])
              /\ Clean(p) = h[Len(p)]
  BY CleanSteps
<1>11. Len(p) \in Nat /\ \A i \in 1..Len(p) : p[i] \in Segment
  BY LenProperties, ElementOfSeq DEF Path
<1>12. \A i \in 0..Len(p) : h[i] \in A
  <2>1. \A i \in 1..Len(p) : h[i - 1] \in A => h[i] \in A
    BY <1>2, <1>10, <1>11
  <2> QED BY <1>3, <1>10, <1>11, <2>1, Along
<1> QED BY <1>9, <1>10, <1>11, <1>12

\* An index is looked up where its text would be in the URL.
LEMMA CleanConcat ==
    ASSUME NEW p \in Path, NEW q \in Path
    PROVE  Clean(Clean(p) \o q) = Clean(p \o q)
BY CleanTwice, CleanType, CleanPrefix

-----------------------------------------------------------------------------
(* The configuration.                                                      *)

Options == ToSet(directive.block)

\* The values that directives can give a Handler's fields.
Handlers ==
    LET any == {o[2] : o \in Options} \cup {<<>>} IN
    [root : Path, extension : Segment \cup {<<>>}, entryPoint : Path, index : Path,
     cachePrograms : {"nil", "true", "false"}, maxBodySize : Int,
     secretKey : any, sessionCookieName : any, err : BOOLEAN]

\* What the first k subdirectives ask for.
AskedTo(name, default, k) ==
    LET named == {i \in DOMAIN directive.block : i <= k /\ directive.block[i][1] = name} IN
    IF named = {} THEN default ELSE directive.block[Max(named)][2]

\* A size as it is kept.
KeptSize(v) == IF v = Unlimited THEN -1 ELSE Int64(v)

IsSize(v) == v = Unlimited \/ v \in 0..SizeRange - 1

LEMMA BlockType ==
    ASSUME IsDirective(directive)
    PROVE  /\ DOMAIN directive.block = 1..Len(directive.block) /\ Len(directive.block) \in Nat
           /\ directive.block \in Seq(Options)
           /\ \A i \in 1..Len(directive.block) : directive.block[i] \in Options
           /\ \A o \in Options : Len(o) # 1 =>
                 /\ o[1] \in {"root", "entry_point", "index"} => o[2] \in Path
                 /\ o[1] = "extension" => o[2] \in Segment \cup {<<>>}
                 /\ o[1] = "max_body_size" => o[2] \in Nat \cup {Unlimited, NoSize}
BY LenProperties, ElementOfSeq DEF IsDirective, Options

LEMMA SetOptionType ==
    ASSUME IsDirective(directive), NEW h \in Handlers, NEW o \in Options
    PROVE  SetOption(h, o) \in Handlers
<1> SUFFICES ASSUME Len(o) # 1 PROVE SetOption(h, o) \in Handlers
  BY DEF SetOption, Handlers, Refuse
<1>1. /\ o[1] \in {"root", "entry_point", "index"} => o[2] \in Path
      /\ o[1] = "extension" => o[2] \in Segment \cup {<<>>}
      /\ o[1] = "max_body_size" => o[2] \in Nat \cup {Unlimited, NoSize}
  BY BlockType
<1>2. SizeRange \in Nat
  BY ConfigConstantsOK DEF ConfigConstantsOK
<1>3. \A v \in 0..SizeRange - 1 : Int64(v) \in Int
  BY <1>2 DEF Int64
<1>4. CASE o[1] \in {"root", "entry_point", "index", "extension"}
  BY <1>1, <1>4 DEF SetOption, Handlers
<1>5. CASE o[1] \in {"secret_key", "session_cookie_name"}
  BY <1>5 DEF SetOption, Handlers
<1>6. CASE o[1] = "max_body_size"
  <2>1. \/ SetOption(h, o) = [h EXCEPT !.maxBodySize = -1]
        \/ o[2] \in 0..SizeRange - 1 /\ SetOption(h, o) = [h EXCEPT !.maxBodySize = Int64(o[2])]
        \/ SetOption(h, o) = Refuse(h)
    BY <1>6 DEF SetOption
  <2>2. \A n \in Int : [h EXCEPT !.maxBodySize = n] \in Handlers
    BY DEF Handlers
  <2>3. Refuse(h) \in Handlers
    BY DEF Handlers, Refuse
  <2> QED BY <1>3, <2>1, <2>2, <2>3
<1>7. CASE o[1] \notin {"root", "entry_point", "index", "extension", "secret_key",
                       "session_cookie_name", "max_body_size"}
  BY <1>7 DEF SetOption, Handlers, Refuse
<1> QED BY <1>4, <1>5, <1>6, <1>7

LEMMA SetOptionIs ==
    ASSUME IsDirective(directive), NEW h \in Handlers, NEW o \in Options,
           ~SetOption(h, o).err
    PROVE  /\ ~h.err
           /\ SetOption(h, o).extension = IF o[1] = "extension" THEN o[2] ELSE h.extension
           /\ SetOption(h, o).index = IF o[1] = "index" THEN o[2] ELSE h.index
           /\ o[1] = "max_body_size" => IsSize(o[2])
           /\ SetOption(h, o).maxBodySize =
                 IF o[1] = "max_body_size" THEN KeptSize(o[2]) ELSE h.maxBodySize
<1>1. SizeRange \in Nat /\ Unlimited = -1
  BY ConfigConstantsOK DEF ConfigConstantsOK, Unlimited
<1>2. Refuse(h).err
  BY DEF Refuse, Handlers
<1>3. ~h.err
  BY <1>2 DEF SetOption, Handlers
<1>4. /\ o[1] = "extension" => SetOption(h, o) = [h EXCEPT !.extension = o[2]]
      /\ o[1] = "index" => SetOption(h, o) = [h EXCEPT !.index = o[2]]
      /\ o[1] = "max_body_size" =>
            /\ IsSize(o[2])
            /\ SetOption(h, o) = [h EXCEPT !.maxBodySize = KeptSize(o[2])]
  BY <1>1, <1>2 DEF SetOption, IsSize, KeptSize
<1>5. o[1] \notin {"extension", "index", "max_body_size"} =>
         /\ SetOption(h, o).extension = h.extension
         /\ SetOption(h, o).index = h.index
         /\ SetOption(h, o).maxBodySize = h.maxBodySize
  BY DEF SetOption, Refuse, Handlers
<1> QED BY <1>3, <1>4, <1>5 DEF Handlers

LEMMA AskedStep ==
    ASSUME IsDirective(directive), NEW name, NEW default, NEW k \in 1..Len(directive.block)
    PROVE  AskedTo(name, default, k) =
              IF directive.block[k][1] = name THEN directive.block[k][2]
              ELSE AskedTo(name, default, k - 1)
<1> DEFINE named(j) == {i \in DOMAIN directive.block : i <= j /\ directive.block[i][1] = name}
<1>1. DOMAIN directive.block = 1..Len(directive.block) /\ Len(directive.block) \in Nat
  BY BlockType
<1>2. CASE directive.block[k][1] = name
  <2>1. k - 1 \in Nat /\ (k - 1) + 1 = k /\ k \in named(k)
        /\ named(k) \in SUBSET (1..(k - 1) + 1)
    BY <1>1, <1>2
  <2> HIDE DEF named
  <2>2. Max(named(k)) = k /\ named(k) # {}
    BY <2>1, MaxUpTo
  <2> QED BY <1>2, <2>2 DEF AskedTo, named
<1>3. CASE directive.block[k][1] # name
  <2>1. named(k) = named(k - 1)
    BY <1>1, <1>3
  <2> QED BY <1>3, <2>1 DEF AskedTo
<1> QED BY <1>2, <1>3

LEMMA AskedEnds ==
    ASSUME IsDirective(directive), NEW name, NEW default
    PROVE  /\ AskedTo(name, default, 0) = default
           /\ AskedTo(name, default, Len(directive.block)) = Asked(name, default)
<1>1. DOMAIN directive.block = 1..Len(directive.block) /\ Len(directive.block) \in Nat
  BY BlockType
<1>2. {i \in DOMAIN directive.block : i <= 0 /\ directive.block[i][1] = name} = {}
  BY <1>1
<1>3. {i \in DOMAIN directive.block : i <= Len(directive.block) /\ directive.block[i][1] = name}
       = {i \in DOMAIN directive.block : directive.block[i][1] = name}
  BY <1>1
<1> QED BY <1>2, <1>3 DEF AskedTo, Asked

\* parseCaddyfile, one subdirective after the other.
LEMMA ParseSteps ==
    ASSUME IsDirective(directive), Len(directive.args) <= 1
    PROVE  \E h \in [0..Len(directive.block) -> Handlers] :
              /\ ~h[0].err /\ h[0].extension = <<>> /\ h[0].index = <<>>
              /\ h[0].maxBodySize = 0
              /\ \A i \in 1..Len(directive.block) :
                    h[i] = SetOption(h[i - 1], directive.block[i])
              /\ parseCaddyfile(directive) = h[Len(directive.block)]
<1> DEFINE b == directive.block
           start == IF directive.args = <<>> THEN NewHandler
                    ELSE [NewHandler EXCEPT !.root = directive.args[1]]
           f == [x \in Handlers \X Options |-> SetOption(x[1], x[2])]
           G(it) == [t \in SUBSET DOMAIN b |->
                       IF t = {} THEN start ELSE SetOption(it[t \ {Max(t)}], b[Max(t)])]
           c == CHOOSE it : it = G(it)
<1>1. /\ DOMAIN b = 1..Len(b) /\ Len(b) \in Nat /\ b \in Seq(Options)
      /\ \A i \in 1..Len(b) : b[i] \in Options
  BY BlockType
<1>2. /\ f \in [Handlers \X Options -> Handlers]
      /\ \A h \in Handlers, o \in Options : f[<<h, o>>] = SetOption(h, o)
  BY SetOptionType
<1>3. \A t \in SUBSET DOMAIN b : t # {} => b[Max(t)] \in Options /\ t \ {Max(t)} \in SUBSET DOMAIN b
  BY <1>1, MaxOf
<1>4. parseCaddyfile(directive) = c[DOMAIN b]
  <2>1. ~ (Len(directive.args) > 1)
    <3>1. Len(directive.args) \in Nat
      BY LenProperties DEF IsDirective
    <3> QED BY <3>1
  <2>2. parseCaddyfile(directive) = FoldLeft(SetOption, start, b)
    BY <2>1 DEF parseCaddyfile
  <2> HIDE DEF start, b
  <2> QED BY <2>2 DEF FoldLeft, MapThenFoldSet
<1>5. start \in Handlers /\ ~start.err /\ start.extension = <<>> /\ start.index = <<>>
      /\ start.maxBodySize = 0
  <2>1. NewHandler \in Handlers
    BY Blanks DEF NewHandler, Handlers
  <2>2. directive.args # <<>> => directive.args[1] \in Path
    <3>1. directive.args \in Seq(Path)
      BY DEF IsDirective
    <3> QED BY <3>1, EmptySeq, ElementOfSeq
  <2>3. start \in Handlers
    BY <2>1, <2>2 DEF Handlers
  <2> QED BY <2>3 DEF NewHandler
<1> HIDE DEF f, start, b
<1>6. \E it : it = G(it)
  <2>1. PICK it : IsFold(it, f, start, b, Handlers)
    BY <1>1, <1>2, <1>5, FoldExists
  <2>2. \A t \in SUBSET DOMAIN b :
              it[t] = IF t = {} THEN start ELSE SetOption(it[t \ {Max(t)}], b[Max(t)])
    BY <1>2, <1>3, <2>1 DEF IsFold
  <2>3. it = G(it)
    BY <2>1, <2>2 DEF IsFold
  <2> QED BY <2>3
<1>7. c = G(c)
  <2> HIDE DEF G
  <2> QED BY <1>6
<1> HIDE DEF c
<1>8. IsPartlyFold(c, f, start, b, Handlers)
  BY <1>2, <1>3, <1>7 DEF IsPartlyFold
<1>9. PICK h : IsRun(h, f, start, b, Handlers) /\ c[DOMAIN b] = h[Len(b)]
  <2>1. b \in Seq(Options) /\ f \in [Handlers \X Options -> Handlers] /\ start \in Handlers
    BY <1>1, <1>2, <1>5
  <2>2. EndsIn(c[DOMAIN b], f, start, b, Handlers)
    BY <1>8, <2>1, FoldRuns
  <2> QED BY <2>2 DEF EndsIn
<1>10. \A i \in 1..Len(b) : h[i] = SetOption(h[i - 1], b[i])
  <2>1. \A i \in 1..Len(b) : h[i - 1] \in Handlers
    BY <1>1, <1>9 DEF IsRun
  <2> QED BY <1>1, <1>2, <1>9, <2>1 DEF IsRun
<1>11. h \in [0..Len(b) -> Handlers] /\ h[0] = start
  BY <1>9 DEF IsRun
<1> QED BY <1>4, <1>5, <1>9, <1>10, <1>11 DEF b

\* The Handler has what was asked for last.
LEMMA ParseIs ==
    ASSUME IsDirective(directive), NEW p, p = parseCaddyfile(directive), ~p.err
    PROVE  /\ p \in Handlers
           /\ p.extension = Asked("extension", <<>>)
           /\ p.index = Asked("index", <<>>)
           /\ IsSize(AskedSize) /\ p.maxBodySize = KeptSize(AskedSize)
<1> DEFINE b == directive.block
<1>1. DOMAIN b = 1..Len(b) /\ Len(b) \in Nat /\ \A i \in 1..Len(b) : b[i] \in Options
  BY BlockType
<1>2. Len(directive.args) <= 1
  <2>1. Len(directive.args) \in Nat
    BY LenProperties DEF IsDirective
  <2>2. Refuse(NewHandler).err
    BY DEF Refuse, NewHandler
  <2> QED BY <2>1, <2>2 DEF parseCaddyfile
<1>3. PICK h \in [0..Len(b) -> Handlers] :
              /\ ~h[0].err /\ h[0].extension = <<>> /\ h[0].index = <<>>
              /\ h[0].maxBodySize = 0
              /\ \A i \in 1..Len(b) : h[i] = SetOption(h[i - 1], b[i])
              /\ p = h[Len(b)]
  BY <1>2, ParseSteps
<1> DEFINE size(k) == AskedTo("max_body_size", 0, k)
           Good(k) == ~h[k].err =>
              /\ h[k].extension = AskedTo("extension", <<>>, k)
              /\ h[k].index = AskedTo("index", <<>>, k)
              /\ IsSize(size(k)) /\ h[k].maxBodySize = KeptSize(size(k))
           T == {k \in 0..Len(b) : Good(k)}
<1>4. 0 \in T
  <2>1. IsSize(0) /\ KeptSize(0) = 0
    <3>1. SizeRange \in Nat \ {0, 1}
      BY ConfigConstantsOK DEF ConfigConstantsOK
    <3>2. SizeRange \div 2 \in Nat \ {0} /\ 0 \in 0..SizeRange - 1
      BY <3>1
    <3> QED BY <3>1, <3>2 DEF IsSize, KeptSize, Int64, Unlimited
  <2> QED BY <1>1, <1>3, <2>1, AskedEnds
<1>5. ASSUME NEW k \in 1..Len(b), k - 1 \in T PROVE k \in T
  <2>1. h[k - 1] \in Handlers /\ b[k] \in Options /\ h[k] = SetOption(h[k - 1], b[k])
        /\ k \in 0..Len(b)
    <3>1. k \in 0..Len(b) /\ k - 1 \in 0..Len(b)
      BY <1>1
    <3>2. h[k - 1] \in Handlers
      BY <1>3, <3>1
    <3>3. b[k] \in Options
      BY <1>1
    <3>4. h[k] = SetOption(h[k - 1], b[k])
      BY <1>3
    <3> QED BY <3>1, <3>2, <3>3, <3>4
  <2>2. SUFFICES ASSUME ~h[k].err PROVE Good(k)
    BY <2>1
  <2>3. /\ ~h[k - 1].err
        /\ h[k].extension = IF b[k][1] = "extension" THEN b[k][2] ELSE h[k - 1].extension
        /\ h[k].index = IF b[k][1] = "index" THEN b[k][2] ELSE h[k - 1].index
        /\ b[k][1] = "max_body_size" => IsSize(b[k][2])
        /\ h[k].maxBodySize = IF b[k][1] = "max_body_size" THEN KeptSize(b[k][2])
                               ELSE h[k - 1].maxBodySize
    BY <2>1, <2>2, SetOptionIs
  <2>4. /\ AskedTo("extension", <<>>, k) =
              IF b[k][1] = "extension" THEN b[k][2] ELSE AskedTo("extension", <<>>, k - 1)
        /\ AskedTo("index", <<>>, k) =
              IF b[k][1] = "index" THEN b[k][2] ELSE AskedTo("index", <<>>, k - 1)
        /\ size(k) = IF b[k][1] = "max_body_size" THEN b[k][2] ELSE size(k - 1)
    BY AskedStep
  <2>5. Good(k - 1)
    BY <1>5
  <2> HIDE DEF size
  <2> QED BY <2>3, <2>4, <2>5
<1> HIDE DEF T, Good
<1>6. Good(Len(b))
  <2>1. \A k \in 0..Len(b) : k \in T
    BY <1>1, <1>4, <1>5, UpTo
  <2> QED BY <1>1, <2>1 DEF T
<1>7. h[Len(b)] \in Handlers
  BY <1>1, <1>3
<1> QED BY <1>3, <1>6, <1>7, AskedEnds DEF Good, AskedSize

\* The size that is kept and Provision's default make the cap that was asked for.
LEMMA SizeIs ==
    ASSUME IsDirective(directive), NEW p, p = parseCaddyfile(directive), ~p.err,
           NEW c, c = IF CapFor(p.maxBodySize) > 0 THEN CapFor(p.maxBodySize) ELSE 0
    PROVE  /\ CASE AskedSize = 0 -> c = DefaultSize
                [] AskedSize \in 1..SizeRange \div 2 - 1 -> c = AskedSize
                [] OTHER -> c = 0
           /\ c \in Nat
<1>1. /\ SizeRange \in Nat \ {0, 1} /\ DefaultSize \in Nat \ {0}
      /\ Unlimited = -1 /\ NoSize = -2
  BY ConfigConstantsOK DEF ConfigConstantsOK, Unlimited, NoSize
<1>2. IsSize(AskedSize) /\ p.maxBodySize = KeptSize(AskedSize)
  BY ParseIs
<1>3. AskedSize = -1 \/ AskedSize \in 0..SizeRange - 1
  BY <1>1, <1>2 DEF IsSize
<1>4. CASE AskedSize = -1
  BY <1>1, <1>2, <1>4 DEF KeptSize, CapFor
<1>5. CASE AskedSize \in 0..SizeRange - 1
  <2>1. p.maxBodySize = IF AskedSize >= SizeRange \div 2 THEN AskedSize - SizeRange
                        ELSE AskedSize
    BY <1>1, <1>2, <1>5 DEF KeptSize, Int64
  <2>2. SizeRange \div 2 \in Nat \ {0}
    BY <1>1
  <2> QED BY <1>1, <1>5, <2>1, <2>2 DEF CapFor
<1> QED BY <1>3, <1>4, <1>5

-----------------------------------------------------------------------------
(* The view of a URL.                                                      *)

Given ==
    /\ IsDirective(directive)
    /\ url \in Path \ {<<>>}
    /\ IsFiniteSet(DOMAIN tree)
    /\ \A f \in DOMAIN tree : tree[f].loads \in Seq(Path)

\* A cap as the Caddyfile asks for it.
RightCap(c) ==
    CASE AskedSize = 0 -> c = DefaultSize
      [] AskedSize \in 1..SizeRange \div 2 - 1 -> c = AskedSize
      [] OTHER -> c = 0

\* A Handler that is as the Caddyfile asks for it.
AskedFor(h) ==
    /\ h.extension = AskedExt /\ h.index = AskedIndex
    /\ AskedExt \in Segment /\ AskedIndex \in Path
    /\ h.root \in Path \ {<<>>}
    /\ LET c == IF h.maxBodySize > 0 THEN h.maxBodySize ELSE 0 IN
       c \in Nat /\ RightCap(c)

AsAsked == AskedFor(handler)

LEMMA AskedTypes ==
    ASSUME Given, ~parseCaddyfile(directive).err
    PROVE  AskedExt \in Segment /\ AskedIndex \in Path
<1>1. Asked("extension", <<>>) \in Segment \cup {<<>>}
  BY ParseIs DEF Given, Handlers
<1>2. Asked("index", <<>>) \in Path
  BY ParseIs DEF Given, Handlers
<1>3. {"star", "index"} \subseteq Words
  BY ConfigConstantsOK DEF ConfigConstantsOK
<1>4. <<Blank, "star">> \in Segment
  BY <1>3, Blanks DEF Segment
<1>5. AskedExt \in Segment
  <2>1. Or(Asked("extension", <<>>), <<Blank, "star">>) \in Segment
    BY <1>1, <1>4 DEF Or
  <2>2. \A e \in Segment : Empty \o e \in Segment
    <3>1. ASSUME NEW e \in Segment PROVE Empty \o e \in Segment
      <4>1. Empty \o e \in Seq(Words) /\ Empty \o e # <<>>
        BY Blanks, PrefixOfConcat DEF Segment
      <4> QED BY <4>1 DEF Segment
    <3> QED BY <3>1
  <2> QED BY <2>1, <2>2 DEF AskedExt
<1>6. <<<<"index">> \o Tail(AskedExt)>> \in Path
  <2>1. Tail(AskedExt) \in Seq(Words)
    BY <1>5, HeadTailProperties DEF Segment
  <2>2. <<"index">> \in Seq(Words)
    BY <1>3
  <2>3. <<"index">> \o Tail(AskedExt) \in Seq(Words) /\ Len(<<"index">>) = 1
        /\ Len(<<"index">> \o Tail(AskedExt)) = 1 + Len(Tail(AskedExt))
        /\ Len(Tail(AskedExt)) \in Nat
    BY <2>1, <2>2, ConcatProperties, LenProperties
  <2>4. <<"index">> \o Tail(AskedExt) # <<>>
    BY <2>3, EmptySeq
  <2>5. <<"index">> \o Tail(AskedExt) \in Segment
    BY <2>3, <2>4 DEF Segment
  <2> HIDE DEF AskedExt
  <2> QED BY <2>5 DEF Path
<1> QED BY <1>2, <1>5, <1>6 DEF AskedIndex, Or

\* What Configure leaves behind.
LEMMA ConfiguredAsAsked ==
    ASSUME Given, NEW p, p = parseCaddyfile(directive), ~p.err,
           NEW h, h = Provision(p)
    PROVE  AskedFor(h)
<1>1. /\ p \in Handlers
      /\ p.extension = Asked("extension", <<>>)
      /\ p.index = Asked("index", <<>>)
  BY ParseIs DEF Given
<1>2. /\ h.root = Or(p.root, VarsRoot)
      /\ h.extension = Dotted(Or(p.extension, <<Blank, "star">>))
      /\ h.index = Or(p.index, DefaultIndex(Or(p.extension, <<Blank, "star">>)))
      /\ h.maxBodySize = CapFor(p.maxBodySize)
  BY <1>1 DEF Provision, Handlers
<1>3. h.extension = AskedExt
  BY <1>1, <1>2 DEF AskedExt, Dotted
<1>4. h.index = AskedIndex
  BY <1>1, <1>2 DEF AskedIndex, AskedExt, DefaultIndex, Dotted
<1>5. h.root \in Path \ {<<>>}
  <2>1. VarsRoot \in Path \ {<<>>}
    <3>1. \A x, y, z \in Words : <<<<x, y, z>>>> \in Path \ {<<>>}
      BY DEF Segment, Path
    <3>2. "{http" \in Words /\ "vars" \in Words /\ "root}" \in Words
      BY ConfigConstantsOK DEF ConfigConstantsOK
    <3> QED BY <3>1, <3>2 DEF VarsRoot
  <2> QED BY <1>1, <1>2, <2>1 DEF Or, Handlers
<1>6. LET c == IF h.maxBodySize > 0 THEN h.maxBodySize ELSE 0 IN
      c \in Nat /\ RightCap(c)
  BY <1>2, SizeIs DEF Given, RightCap
<1>7. AskedExt \in Segment /\ AskedIndex \in Path
  BY AskedTypes
<1> QED BY <1>3, <1>4, <1>5, <1>6, <1>7 DEF AskedFor

LEMMA RootType ==
    ASSUME AsAsked
    PROVE  Root \in Path
<1>1. /\ handler.root \in Path \ {<<>>} /\ Cwd \in Path /\ MainRoot \in Path
  BY ServingConstantsOK DEF ServingConstantsOK, AsAsked, AskedFor
<1>2. <<Dot>> \in Path
  BY Blanks DEF Path
<1>3. \A p \in Path : Abs(Cwd, p) \in Path
  <2>1. \A p \in Path : Cwd \o p \in Path
    BY <1>1, ConcatProperties DEF Path
  <2> QED BY <2>1, CleanType DEF Abs
<1> QED BY <1>1, <1>2, <1>3 DEF Root, Or

LEMMA AddExtType ==
    ASSUME NEW p \in Path, NEW ext \in Segment
    PROVE  AddExt(p, ext) \in Path
<1>1. CASE p = <<>>
  BY <1>1 DEF AddExt, Path
<1>2. CASE p # <<>>
  <2>1. Front(p) \in Path /\ Last(p) \in Segment
    BY <1>2, FrontType DEF Path
  <2>2. Tail(ext) \in Seq(Words)
    BY HeadTailProperties DEF Segment
  <2>3. Last(p) \o Tail(ext) \in Seq(Words)
    BY <2>1, <2>2, ConcatProperties DEF Segment
  <2>4. Last(p) \o Tail(ext) # <<>>
    BY <2>1, <2>2, ConcatEqualIffEmpty DEF Segment
  <2>5. Append(Front(p), Last(p) \o Tail(ext)) \in Path
    BY <2>1, <2>3, <2>4, AppendProperties DEF Path, Segment
  <2> QED BY <1>2, <2>5 DEF AddExt
<1> QED BY <1>1, <1>2

Name == ViewName(url, handler.index, handler.extension)

LEMMA NameIs ==
    ASSUME Given, AsAsked
    PROVE  /\ Name \in Path /\ Name \in Meant
           /\ Last(url) # Empty /\ Ext(Clean(url)) # <<>> => Name = Clean(url)
           /\ Last(url) # Empty /\ Ext(Clean(url)) = <<>> => Name = AddExt(Clean(url), AskedExt)
           /\ Last(url) = Empty => Meant = {Name}
           /\ Last(url) # Empty => Meant = {Clean(url), AddExt(Clean(url), AskedExt)}
<1>1. AskedExt \in Segment /\ AskedIndex \in Path /\ url \in Path /\ Clean(url) \in Path
  BY CleanType DEF Given, AsAsked, AskedFor
<1>2. handler.index = AskedIndex /\ handler.extension = AskedExt
  BY DEF AsAsked, AskedFor
<1>3. AddExt(Clean(url), AskedExt) \in Path
  BY <1>1, AddExtType
<1>4. CASE Last(url) = Empty
  <2>1. Name = Clean(Clean(url) \o AskedIndex)
    BY <1>2, <1>4 DEF Name, ViewName
  <2>2. Name = Clean(url \o AskedIndex)
    BY <1>1, <2>1, CleanConcat
  <2>3. Clean(url) \o AskedIndex \in Path
    BY <1>1, ConcatProperties DEF Path
  <2>4. Name \in Path
    BY <2>1, <2>3, CleanType
  <2> QED BY <1>4, <2>2, <2>4 DEF Meant
<1>5. CASE Last(url) # Empty
  BY <1>1, <1>2, <1>3, <1>5 DEF Name, ViewName, Meant
<1> QED BY <1>4, <1>5

LEMMA ExtOfNothing == Ext(<<>>) = <<>>
BY DEF Ext

LEMMA StatIsFile ==
    ASSUME NEW t, NEW p
    PROVE  Stat(t, p) = "file" <=> p \in DOMAIN t
<1>1. CASE p \in DOMAIN t
  BY <1>1 DEF Stat
<1>2. CASE p \notin DOMAIN t
  <2>1. Stat(t, p) \in {"dir", "belowFile", "missing"}
    BY <1>2 DEF Stat
  <2> QED BY <1>2, <2>1
<1> QED BY <1>1, <1>2

Resolved == resolveView(Root, url, handler.index, handler.extension, tree)

LEMMA ResolvedIs ==
    ASSUME Given, AsAsked
    PROVE  /\ Resolved.kind \in {"view", "next", "error"}
           /\ Resolved.kind = "view" =>
                 /\ Resolved.file = Root \o Name /\ Ext(Name) = AskedExt
                 /\ Resolved.file \in DOMAIN tree
                 /\ Resolved.file \in Path \ {<<>>}
                 /\ IsPrefix(Root, Resolved.file) /\ IsPrefix(Root, Front(Resolved.file))
                 /\ Front(Resolved.file) \in Path
           /\ Resolved.kind # "view" => Resolved.file = <<>>
           /\ Resolved.kind = "error" => Stat(tree, Root \o Name) = "belowFile"
           /\ Resolved.kind = "next" =>
                 \/ Ext(Name) # AskedExt
                 \/ Root \o Name \notin DOMAIN tree
                 \/ StartsWithDots(Head(Name))
<1> DEFINE full == Root \o Name
           kind == CASE Ext(Name) # AskedExt -> "next"
                     [] Ext(Name) = AskedExt /\ ~Confined(Root, full) -> "next"
                     [] OTHER -> CASE Stat(tree, full) = "file" -> "view"
                                   [] Stat(tree, full) = "belowFile" -> "error"
                                   [] OTHER -> "next"
<1>1. /\ Root \in Path /\ Name \in Path /\ AskedExt \in Segment
      /\ handler.extension = AskedExt
  BY RootType, NameIs DEF AsAsked, AskedFor
<1>2. Resolved = [kind |-> kind, file |-> IF kind = "view" THEN full ELSE <<>>]
  BY <1>1 DEF Resolved, resolveView, Name
<1>3. /\ kind \in {"view", "next", "error"}
      /\ kind = "view" => Ext(Name) = AskedExt /\ Stat(tree, full) = "file"
      /\ kind = "error" => Stat(tree, full) = "belowFile"
      /\ kind = "next" => \/ Ext(Name) # AskedExt \/ ~Confined(Root, full)
                          \/ Stat(tree, full) # "file"
  OBVIOUS
<1>4. Ext(Name) = AskedExt =>
         /\ Name # <<>> /\ full \in Path \ {<<>>}
         /\ IsPrefix(Root, full) /\ IsPrefix(Root, Front(full)) /\ Front(full) \in Path
         /\ Len(full) > Len(Root) /\ full[Len(Root) + 1] = Head(Name)
  <2>1. SUFFICES ASSUME Ext(Name) = AskedExt
                 PROVE  /\ Name # <<>> /\ full \in Path \ {<<>>}
                        /\ IsPrefix(Root, full) /\ IsPrefix(Root, Front(full))
                        /\ Front(full) \in Path
                        /\ Len(full) > Len(Root) /\ full[Len(Root) + 1] = Head(Name)
    OBVIOUS
  <2>2. Name # <<>>
    BY <1>1, <2>1, ExtOfNothing DEF Segment
  <2>3. /\ full \in Path \ {<<>>}
        /\ IsPrefix(Root, full) /\ IsPrefix(Root, Front(full))
        /\ Len(full) > Len(Root) /\ full[Len(Root) + 1] = Head(Name)
    BY <1>1, <2>2, PrefixOfConcat DEF Path
  <2>4. Front(full) \in Path
    BY <2>3, FrontType DEF Path
  <2> QED BY <2>2, <2>3, <2>4
<1>5. Ext(Name) = AskedExt /\ ~Confined(Root, full) => StartsWithDots(Head(Name))
  BY <1>4 DEF Confined
<1>6. Resolved.kind = kind /\ Resolved.file = IF kind = "view" THEN full ELSE <<>>
  BY <1>2
<1> HIDE DEF kind
<1> QED BY <1>3, <1>4, <1>5, <1>6, StatIsFile

\* RightView, of the resolution that it is about.
LEMMA RightResolution ==
    ASSUME Given, AsAsked
    PROVE  /\ Resolved.kind = "view" =>
                 \E q \in Meant : Resolved.file = Root \o q /\ Ext(q) = AskedExt
           /\ Resolved.kind = "error" => \E q \in Meant : Stat(tree, Root \o q) = "belowFile"
           /\ Resolved.kind = "next" =>
                 \A q \in Meant :
                    \/ Root \o q \notin DOMAIN tree
                    \/ Ext(q) # AskedExt
                    \/ StartsWithDots(Head(q))
                    \/ Last(url) # Empty /\ Ext(Clean(url)) # <<>> /\ q # Clean(url)
<1>1. Name \in Meant
  BY NameIs
<1>2. ASSUME Resolved.kind = "next", NEW q \in Meant
      PROVE  \/ Root \o q \notin DOMAIN tree
             \/ Ext(q) # AskedExt
             \/ StartsWithDots(Head(q))
             \/ Last(url) # Empty /\ Ext(Clean(url)) # <<>> /\ q # Clean(url)
  <2>1. CASE q = Name
    BY <1>2, <2>1, ResolvedIs
  <2>2. CASE q # Name
    <3>1. Last(url) # Empty /\ q \in {Clean(url), AddExt(Clean(url), AskedExt)}
      BY <2>2, NameIs
    <3>2. CASE Ext(Clean(url)) = <<>>
      <4>1. q = Clean(url)
        BY <2>2, <3>1, <3>2, NameIs
      <4>2. Ext(q) # AskedExt
        BY <3>2, <4>1 DEF Segment, AsAsked, AskedFor
      <4> QED BY <4>2
    <3>3. CASE Ext(Clean(url)) # <<>>
      <4>1. q # Clean(url)
        BY <2>2, <3>1, <3>3, NameIs
      <4> QED BY <3>1, <3>3, <4>1
    <3> QED BY <3>2, <3>3
  <2> QED BY <2>1, <2>2
<1> QED BY <1>1, <1>2, ResolvedIs

-----------------------------------------------------------------------------
(* What is loaded over any number of loads.                                *)

\* S has what its files load.
Closed(t, v, S) == \A f \in S \cap DOMAIN t : LoadedBy(t, v, f) \subseteq S

LEMMA WiderIs ==
    ASSUME NEW t, NEW v, NEW S
    PROVE  /\ S \subseteq Wider(t, v, S)
           /\ \A f \in S \cap DOMAIN t : LoadedBy(t, v, f) \subseteq Wider(t, v, S)
           /\ \A g \in Wider(t, v, S) :
                 g \in S \/ \E f \in S \cap DOMAIN t : g \in LoadedBy(t, v, f)
BY DEF Wider

\* h widens S, all within U, until it is Beyond(t, v, S).
Widens(t, v, S, n, U, h) ==
    /\ h \in [0..n -> SUBSET U]
    /\ h[0] = S
    /\ \A i \in 1..n : h[i] = Wider(t, v, h[i - 1])
    /\ Beyond(t, v, S) = h[n]

LEMMA BeyondSteps ==
    ASSUME NEW t, IsFiniteSet(DOMAIN t), NEW v, NEW S
    PROVE  \E h, U : Widens(t, v, S, Cardinality(DOMAIN t), U, h)
<1> DEFINE n == Cardinality(DOMAIN t)
           s == [i \in 1..n |-> i]
           U == S \cup UNION {LoadedBy(t, v, f) : f \in DOMAIN t}
           A == SUBSET U
           f == [x \in A \X (1..n) |-> Wider(t, v, x[1])]
           G(it) == [u \in SUBSET DOMAIN s |->
                       IF u = {} THEN S ELSE Wider(t, v, it[u \ {Max(u)}])]
           c == CHOOSE it : it = G(it)
<1>1. n \in Nat
  BY FS_CardinalityType
<1>2. s \in Seq(1..n) /\ Len(s) = n /\ DOMAIN s = 1..n
  BY <1>1
<1>3. S \in A
  OBVIOUS
<1>4. \A R \in A : Wider(t, v, R) \in A
  BY DEF Wider
<1>5. Beyond(t, v, S) = c[DOMAIN s]
  BY DEF Beyond, FoldLeft, MapThenFoldSet
<1> HIDE DEF A, s, n
<1>6. f \in [A \X (1..n) -> A] /\ \A R \in A, i \in 1..n : f[<<R, i>>] = Wider(t, v, R)
  BY <1>4
<1>7. \A u \in SUBSET DOMAIN s : u # {} => s[Max(u)] \in 1..n /\ u \ {Max(u)} \in SUBSET DOMAIN s
  BY <1>1, <1>2, MaxOf, ElementOfSeq
<1> HIDE DEF f
<1>8. \E it : it = G(it)
  <2>1. PICK it : IsFold(it, f, S, s, A)
    BY <1>2, <1>3, <1>6, FoldExists
  <2>2. \A u \in SUBSET DOMAIN s :
              it[u] = IF u = {} THEN S ELSE Wider(t, v, it[u \ {Max(u)}])
    BY <1>6, <1>7, <2>1 DEF IsFold
  <2>3. it = G(it)
    BY <2>1, <2>2 DEF IsFold
  <2> QED BY <2>3
<1>9. c = G(c)
  <2> HIDE DEF G
  <2> QED BY <1>8
<1> HIDE DEF c
<1>10. IsPartlyFold(c, f, S, s, A)
  BY <1>6, <1>7, <1>9 DEF IsPartlyFold
<1>11. PICK h : IsRun(h, f, S, s, A) /\ c[DOMAIN s] = h[Len(s)]
  <2>1. s \in Seq(1..n) /\ f \in [A \X (1..n) -> A]
    BY <1>2, <1>6
  <2>2. EndsIn(c[DOMAIN s], f, S, s, A)
    BY <1>3, <1>10, <2>1, FoldRuns
  <2> QED BY <2>2 DEF EndsIn
<1>12. \A i \in 1..n : h[i] = Wider(t, v, h[i - 1])
  <2>1. \A i \in 1..n : h[i - 1] \in A /\ s[i] \in 1..n
    BY <1>1, <1>2, <1>11, ElementOfSeq DEF IsRun
  <2> QED BY <1>2, <1>6, <1>11, <2>1 DEF IsRun
<1>13. h \in [0..n -> SUBSET U]
  BY <1>2, <1>11 DEF IsRun, A
<1> HIDE DEF U
<1> QED BY <1>2, <1>5, <1>11, <1>12, <1>13 DEF IsRun, Widens, n

\* As many steps as there are files are enough: each takes in another file, or
\* there is nothing to take in.
LEMMA BeyondIs ==
    ASSUME NEW t, IsFiniteSet(DOMAIN t), NEW v, NEW S
    PROVE  /\ S \subseteq Beyond(t, v, S)
           /\ Closed(t, v, Beyond(t, v, S))
           /\ \A C : S \subseteq C /\ Closed(t, v, C) => Beyond(t, v, S) \subseteq C
<1> DEFINE n == Cardinality(DOMAIN t)
<1>1. n \in Nat
  BY FS_CardinalityType
<1>0. PICK h, U : Widens(t, v, S, n, U, h)
  <2>1. \E h, U : Widens(t, v, S, n, U, h)
    BY BeyondSteps
  <2> HIDE DEF n
  <2> QED BY <2>1
<1>2. /\ h \in [0..n -> SUBSET U]
      /\ h[0] = S
      /\ \A i \in 1..n : h[i] = Wider(t, v, h[i - 1])
      /\ Beyond(t, v, S) = h[n]
  BY <1>0 DEF Widens
<1> HIDE DEF n
<1>3. S \subseteq h[n]
  <2> DEFINE Above == {R \in SUBSET U : S \subseteq R}
  <2>1. \A i \in 1..n : h[i - 1] \in Above => h[i] \in Above
    <3>1. \A i \in 1..n : i \in 0..n
      BY <1>1
    <3> QED BY <1>2, <3>1, WiderIs
  <2>2. h[0] \in Above
    BY <1>1, <1>2
  <2>3. h[n] \in Above
    <3> HIDE DEF Above
    <3>1. \A i \in 0..n : h[i] \in Above
      BY <1>1, <2>1, <2>2, Along
    <3> QED BY <1>1, <3>1
  <2> QED BY <2>3
<1>4. ASSUME NEW C, S \subseteq C, Closed(t, v, C) PROVE h[n] \subseteq C
  <2> DEFINE Below == {R \in SUBSET U : R \subseteq C}
  <2>1. \A i \in 1..n : h[i - 1] \in Below => h[i] \in Below
    <3>1. ASSUME NEW i \in 1..n, h[i - 1] \subseteq C PROVE h[i] \subseteq C
      BY <1>2, <1>4, <3>1, WiderIs DEF Closed
    <3>2. \A i \in 1..n : i \in 0..n
      BY <1>1
    <3> QED BY <1>2, <3>1, <3>2
  <2>2. h[0] \in Below
    BY <1>1, <1>2, <1>4
  <2>3. h[n] \in Below
    <3> HIDE DEF Below
    <3>1. \A i \in 0..n : h[i] \in Below
      BY <1>1, <2>1, <2>2, Along
    <3> QED BY <1>1, <3>1
  <2> QED BY <2>3
<1>5. Closed(t, v, h[n])
  <2> DEFINE Files(i) == h[i] \cap DOMAIN t
             T == {i \in 0..n : Closed(t, v, h[i]) \/ Cardinality(Files(i)) >= i + 1}
  <2>1. \A i \in 0..n : IsFiniteSet(Files(i)) /\ Cardinality(Files(i)) \in Nat
                        /\ Cardinality(Files(i)) <= n
    <3>1. \A i \in 0..n : Files(i) \in SUBSET DOMAIN t
      OBVIOUS
    <3> HIDE DEF Files
    <3> QED BY <3>1, FS_Subset, FS_CardinalityType DEF n
  <2>2. 0 \in T
    <3>0. 0 \in 0..n
      BY <1>1
    <3>1. Files(0) = {} => Closed(t, v, h[0])
      BY DEF Closed
    <3> HIDE DEF Files
    <3>2. Files(0) # {} => Cardinality(Files(0)) >= 0 + 1
      BY <2>1, <3>0, FS_EmptySet
    <3> QED BY <3>0, <3>1, <3>2
  <2>3. ASSUME NEW i \in 1..n, i - 1 \in T PROVE i \in T
    <3>1. i \in 0..n /\ i - 1 \in 0..n /\ h[i] = Wider(t, v, h[i - 1]) /\ (i - 1) + 1 = i
      BY <1>1, <1>2
    <3>2. CASE Closed(t, v, h[i - 1])
      <4>1. h[i] = h[i - 1]
        BY <3>1, <3>2, WiderIs DEF Closed
      <4> QED BY <3>1, <3>2, <4>1
    <3>3. CASE ~ Closed(t, v, h[i - 1])
      <4>1. Cardinality(Files(i - 1)) >= i
        BY <2>3, <3>1, <3>3
      <4>2. Files(i - 1) \in SUBSET Files(i)
        BY <3>1, WiderIs
      <4>3. CASE Files(i) = Files(i - 1)
        <5>1. Closed(t, v, h[i])
          BY <3>1, <4>3, WiderIs DEF Closed
        <5> QED BY <3>1, <5>1
      <4>4. CASE Files(i) # Files(i - 1)
        <5> HIDE DEF Files
        <5>1. /\ Cardinality(Files(i - 1)) <= Cardinality(Files(i))
              /\ Cardinality(Files(i)) # Cardinality(Files(i - 1))
          BY <2>1, <3>1, <4>2, <4>4, FS_Subset
        <5>2. Cardinality(Files(i)) >= i + 1
          BY <2>1, <3>1, <4>1, <5>1
        <5> QED BY <3>1, <5>2
      <4> QED BY <4>3, <4>4
    <3> QED BY <3>2, <3>3
  <2> HIDE DEF Files
  <2>4. n \in T
    <3> HIDE DEF T
    <3>1. \A i \in 0..n : i \in T
      BY <1>1, <2>2, <2>3, UpTo
    <3> QED BY <1>1, <3>1
  <2>5. ~ (Cardinality(Files(n)) >= n + 1)
    <3>1. n \in 0..n
      BY <1>1
    <3> QED BY <1>1, <2>1, <3>1
  <2> QED BY <2>4, <2>5
<1> QED BY <1>2, <1>3, <1>4, <1>5

-----------------------------------------------------------------------------
(* The inductive invariant: what is known of the view, what is known of    *)
(* the files that are running, and what of those that have run.            *)

\* The request has its handler, and a view only if resolveView found one.
Resolution ==
    /\ [directive |-> directive, url |-> url, tree |-> tree] \in Cases
    /\ pc \in {"config", "resolve", "program", "init", "entry", "call", "done"}
    /\ answer \in {"none", "refused", "next", "500", "aborted", "raised", "served", "crash"}
    /\ answer = "none" <=> pc # "done"
    /\ pc # "config" /\ answer # "refused" => AsAsked
    /\ view # <<>> => AsAsked /\ Resolved.kind = "view" /\ view = Resolved.file
    /\ pc \in {"program", "init", "entry", "call"} => view # <<>>
    /\ pc \in {"config", "resolve"} => view = <<>>
    /\ answer = "next" => Resolved.kind = "next"
    /\ answer = "500" /\ view = <<>> => Resolved.kind = "error"
    /\ answer = "crash" => view # <<>>

\* What has been opened lies below the view's directory.
OpenedBelow ==
    /\ opened # {} => view # <<>>
    /\ \A f \in opened : f \in DOMAIN tree /\ f \in Path /\ IsPrefix(Front(view), f)

Capped ==
    /\ cap \in Nat
    /\ pc \in {"init", "entry", "call"} => RightCap(cap)

Frame == [file : DOMAIN tree, loaded : Nat]

\* The files of the top levels that are running: each is the load in hand of
\* the one below.
Running ==
    /\ stack \in Seq(Frame)
    /\ Len(stack) <= MaxDepth
    /\ stack # <<>> => view # <<>> /\ stack[1].file = view
    /\ pc = "init" => stack # <<>>
    /\ pc \in {"config", "resolve", "program"} => stack = <<>>
    /\ \A i \in 1..Len(stack) :
          /\ stack[i].file \in opened
          /\ stack[i].loaded \in 0..Len(tree[stack[i].file].loads)
    /\ \A i \in 1..Len(stack) - 1 :
          /\ stack[i].loaded > 0
          /\ stack[i + 1].file =
                LoadPath(view, tree[stack[i].file].loads[stack[i].loaded])

\* A loaded file that nothing is wrong with, whatever else it needs.
Fine(t, v, f) ==
    f \in DOMAIN t /\ t[f].parses /\ t[f].ends = "ok" /\ ~t[f].ph /\ Confined(Front(v), f)

\* The same of everything under it, and no circle there.
Sound(t, v, f) ==
    \A g \in Beyond(t, v, {f}) : Fine(t, v, g) /\ g \notin Beyond(t, v, LoadedBy(t, v, g))

\* How many of a frame's loads have run to the end: those that are ticked off,
\* but for the last one while it is running.
HaveRun(i) == IF i < Len(stack) THEN stack[i].loaded - 1 ELSE stack[i].loaded

NoneFlawed == \A f \in Reached : ~Flawed(f)

SoundSoFar ==
    /\ \A i \in 1..Len(stack) :
          /\ tree[stack[i].file].parses
          /\ stack[i].file \in Reached
          /\ i > 1 => /\ ~Unloadable(stack[i].file)
                      /\ stack[i].file \in Beyond(tree, view, LoadedBy(tree, view, view))
    /\ pc = "init" =>
          \A i \in 1..Len(stack) : \A j \in 1..HaveRun(i) :
             Sound(tree, view, LoadPath(view, tree[stack[i].file].loads[j]))
    /\ pc \in {"entry", "call"} => ~Circular /\ NoneFlawed

\* Why the request was answered as it was.
Cause ==
    /\ answer = "500" /\ view # <<>> =>
          \/ ~NoneFlawed
          \/ handler.entryPoint \notin {<<<<f>>>> : f \in tree[view].funcs}
    /\ answer = "crash" => Circular

Inv == Resolution /\ OpenedBelow /\ Capped /\ Running /\ SoundSoFar

-----------------------------------------------------------------------------
(* What is sound.                                                          *)

\* If all that g loads is sound, nothing under g reaches itself, g no more than
\* the rest: a circle through g would go through one of its loads.
LEMMA SoundAbove ==
    ASSUME NEW t, IsFiniteSet(DOMAIN t), NEW v, NEW g \in DOMAIN t,
           \A m \in LoadedBy(t, v, g) : Sound(t, v, m)
    PROVE  \A h \in Beyond(t, v, {g}) :
              /\ h = g \/ Fine(t, v, h)
              /\ h \notin Beyond(t, v, LoadedBy(t, v, h))
<1> DEFINE Under == UNION {Beyond(t, v, {m}) : m \in LoadedBy(t, v, g)}
<1>1. LoadedBy(t, v, g) \subseteq Under
  <2>1. \A m : m \in Beyond(t, v, {m})
    BY BeyondIs
  <2> QED BY <2>1
<1>2. Closed(t, v, Under)
  <2>1. ASSUME NEW f \in Under \cap DOMAIN t PROVE LoadedBy(t, v, f) \subseteq Under
    <3>1. PICK m \in LoadedBy(t, v, g) : f \in Beyond(t, v, {m})
      BY Zenon
    <3>2. Closed(t, v, Beyond(t, v, {m}))
      BY BeyondIs
    <3>3. LoadedBy(t, v, f) \subseteq Beyond(t, v, {m})
      BY <3>1, <3>2 DEF Closed
    <3> QED BY <3>3
  <2> QED BY <2>1 DEF Closed
<1>3. Beyond(t, v, {g}) \subseteq {g} \cup Under
  <2>1. Closed(t, v, {g} \cup Under)
    BY <1>1, <1>2 DEF Closed
  <2>2. {g} \subseteq {g} \cup Under
    OBVIOUS
  <2> HIDE DEF Under
  <2> QED BY <2>1, <2>2, BeyondIs
<1>4. Beyond(t, v, LoadedBy(t, v, g)) \subseteq Under
  BY <1>1, <1>2, BeyondIs
<1>5. \A h \in Under : Fine(t, v, h) /\ h \notin Beyond(t, v, LoadedBy(t, v, h))
  BY DEF Sound
<1> HIDE DEF Under
<1>6. g \notin Beyond(t, v, LoadedBy(t, v, g))
  BY <1>4, <1>5
<1> QED BY <1>3, <1>5, <1>6

-----------------------------------------------------------------------------
(* One step at a time.                                                     *)

LEMMA GivenIs ==
    ASSUME [directive |-> directive, url |-> url, tree |-> tree] \in Cases
    PROVE  Given
<1>1. IsCase([directive |-> directive, url |-> url, tree |-> tree])
  BY ServingConstantsOK DEF ServingConstantsOK
<1> QED BY <1>1 DEF IsCase, Given

LEMMA SameGiven ==
    ASSUME UNCHANGED given
    PROVE  AskedSize' = AskedSize /\ AskedExt' = AskedExt /\ AskedIndex' = AskedIndex
BY DEF given, AskedSize, AskedExt, AskedIndex, Asked

\* What a step knows of the request that leaves the Handler alone.
LEMMA SameRequest ==
    ASSUME UNCHANGED <<given, handler>>
    PROVE  /\ AsAsked' <=> AsAsked
           /\ Root' = Root
           /\ Resolved' = Resolved
BY DEF given, AsAsked, AskedFor, RightCap, AskedSize, AskedExt, AskedIndex, Asked, Root, Resolved

LEMMA ResolutionInit == Init => Resolution
<1> SUFFICES ASSUME Init PROVE Resolution
  OBVIOUS
<1>1. PICK c \in Cases : directive = c.directive /\ url = c.url /\ tree = c.tree
  BY DEF Init
<1>2. c = [directive |-> c.directive, url |-> c.url, tree |-> c.tree]
  BY ServingConstantsOK DEF ServingConstantsOK, IsCase
<1>3. [directive |-> directive, url |-> url, tree |-> tree] \in Cases
  BY <1>1, <1>2
<1> QED BY <1>3 DEF Init, Resolution

LEMMA ResolutionStep == Resolution /\ [Next]_vars => Resolution'
<1> SUFFICES ASSUME Resolution, [Next]_vars PROVE Resolution'
  OBVIOUS
<1>0. Given
  BY GivenIs DEF Resolution
<1>1. CASE Configure
  <2> DEFINE p == parseCaddyfile(directive)
  <2>1. /\ pc = "config" /\ UNCHANGED <<given, view>> /\ view = <<>>
        /\ handler' = IF p.err THEN p ELSE Provision(p)
        /\ \/ pc' = "done" /\ answer' = "refused"
           \/ ~p.err /\ pc' = "resolve" /\ answer' = "none"
    BY <1>1 DEF Configure, Done, Goto, Resolution
  <2>2. ~p.err => AsAsked'
    <3>1. SUFFICES ASSUME ~p.err PROVE AsAsked'
      OBVIOUS
    <3>2. AskedFor(handler')
      BY <1>0, <2>1, <3>1, ConfiguredAsAsked
    <3> HIDE DEF p
    <3>3. AskedSize' = AskedSize /\ AskedExt' = AskedExt /\ AskedIndex' = AskedIndex
      BY <2>1, SameGiven
    <3> QED BY <3>2, <3>3 DEF AsAsked, AskedFor, RightCap
  <2> HIDE DEF p
  <2> QED BY <2>1, <2>2 DEF Resolution, given
<1>2. CASE Resolve
  <2>1. /\ pc = "resolve" /\ UNCHANGED <<given, handler>> /\ AsAsked /\ answer = "none"
        /\ view' = Resolved.file
        /\ CASE Resolved.kind = "view" -> pc' = "program" /\ answer' = answer
             [] Resolved.kind = "next" -> pc' = "done" /\ answer' = "next"
             [] Resolved.kind = "error" -> pc' = "done" /\ answer' = "500"
    BY <1>2 DEF Resolve, Done, Goto, Resolution, Resolved
  <2>2. /\ Resolved.kind \in {"view", "next", "error"}
        /\ Resolved.kind = "view" => Resolved.file # <<>>
        /\ Resolved.kind # "view" => Resolved.file = <<>>
    BY <1>0, <2>1, ResolvedIs
  <2>3. AsAsked' /\ Resolved' = Resolved
    BY <2>1, SameRequest
  <2> QED BY <2>1, <2>2, <2>3 DEF Resolution, given
<1>3. CASE LoadProgram \/ Load \/ TopLevelEnds \/ EntryPoint \/ Call
  <2>1. /\ UNCHANGED <<given, handler, view>>
        /\ pc \in {"program", "init", "entry", "call"}
        /\ \/ pc' \in {"program", "init", "entry", "call"} /\ answer' = answer
           \/ pc' = "done" /\ answer' \in {"500", "crash", "served", "aborted", "raised"}
    <3>1. CASE LoadProgram
      BY <3>1 DEF LoadProgram, Done, Goto
    <3>2. CASE Load
      BY <3>2 DEF Load, LoadFrom, Done
    <3>3. CASE TopLevelEnds
      BY <3>3 DEF TopLevelEnds, Done, Goto
    <3>4. CASE EntryPoint
      BY <3>4 DEF EntryPoint, Done, Goto
    <3>5. CASE Call
      BY <3>5 DEF Call, Done
    <3> QED BY <1>3, <3>1, <3>2, <3>3, <3>4, <3>5
  <2>2. (AsAsked' <=> AsAsked) /\ Resolved' = Resolved
    BY <2>1, SameRequest
  <2> QED BY <2>1, <2>2 DEF Resolution, given
<1>4. CASE UNCHANGED vars
  <2>1. (AsAsked' <=> AsAsked) /\ Resolved' = Resolved
    BY <1>4, SameRequest DEF vars, given
  <2> QED BY <1>4, <2>1 DEF Resolution, vars, given
<1> QED BY <1>1, <1>2, <1>3, <1>4 DEF Next, ToTheCall

\* What the next load statement means.
Wanted == LoadPath(view, Loads[Top.loaded + 1])

\* The ways a load statement can go.
LoadOfNothing ==
    /\ pc' = "done" /\ answer' = "500" /\ stack' = stack /\ opened' = opened
    /\ Wanted \notin DOMAIN tree \/ ~Confined(Front(view), Wanted)
LoadReads ==
    /\ Confined(Front(view), Wanted) /\ Wanted \in DOMAIN tree
    /\ opened' = opened \cup {Wanted}
LoadRefused ==
    /\ LoadReads /\ (~tree[Wanted].parses \/ tree[Wanted].ph)
    /\ pc' = "done" /\ answer' = "500" /\ stack' = stack
LoadOverflows ==
    /\ LoadReads /\ Len(stack) = MaxDepth
    /\ pc' = "done" /\ answer' = "crash" /\ stack' = stack
LoadBegins ==
    /\ LoadReads /\ tree[Wanted].parses /\ ~tree[Wanted].ph /\ Len(stack) # MaxDepth
    /\ pc' = pc /\ answer' = answer /\ stack' = Pushed(Wanted)

LEMMA TopIs ==
    ASSUME Running, stack # <<>>
    PROVE  /\ Len(stack) \in Nat \ {0} /\ Top = stack[Len(stack)] /\ Top \in Frame
           /\ \A i \in 1..Len(stack) : stack[i] \in Frame
           /\ Top.file \in DOMAIN tree /\ Top.loaded \in 0..Len(Loads)
<1>1. stack \in Seq(Frame)
  BY DEF Running
<1>2. Len(stack) \in Nat \ {0} /\ \A i \in 1..Len(stack) : stack[i] \in Frame
  BY <1>1, LenProperties, EmptySeq, ElementOfSeq
<1>3. Top = stack[Len(stack)]
  BY DEF Top, Last
<1>4. Top \in Frame /\ Top.loaded \in 0..Len(Loads)
  BY <1>2, <1>3 DEF Running, Loads
<1> QED BY <1>2, <1>3, <1>4 DEF Frame

LEMMA ViewIs ==
    ASSUME Resolution, view # <<>>
    PROVE  /\ view \in DOMAIN tree /\ view \in Path /\ Front(view) \in Path
           /\ Root \in Path /\ IsPrefix(Root, view) /\ IsPrefix(Root, Front(view))
           /\ IsPrefix(Front(view), view)
<1>1. Given /\ AsAsked /\ Resolved.kind = "view" /\ view = Resolved.file
  BY GivenIs DEF Resolution
<1>2. /\ view \in DOMAIN tree /\ view \in Path \ {<<>>} /\ Front(view) \in Path
      /\ Root \in Path /\ IsPrefix(Root, view) /\ IsPrefix(Root, Front(view))
  BY <1>1, ResolvedIs, RootType
<1>3. IsPrefix(Front(view), view)
  <2>1. /\ Len(Front(view)) = Len(view) - 1 /\ Len(view) \in Nat \ {0}
        /\ \A i \in 1..Len(view) - 1 : Front(view)[i] = view[i]
    BY <1>2, FrontType DEF Path
  <2>2. Len(Front(view)) <= Len(view)
    BY <2>1
  <2> QED BY <1>2, <2>1, <2>2, PrefixIs DEF Path
<1> QED BY <1>2, <1>3

LEMMA LoadsLen ==
    ASSUME Resolution, NEW f \in DOMAIN tree
    PROVE  tree[f].loads \in Seq(Path) /\ Len(tree[f].loads) \in Nat
BY GivenIs, LenProperties DEF Resolution, Given

LEMMA LoadIs ==
    ASSUME Resolution, Running, Load
    PROVE  /\ pc = "init" /\ UNCHANGED <<given, handler, view, cap>>
           /\ stack # <<>> /\ view # <<>> /\ Top.loaded < Len(Loads)
           /\ Wanted \in Path /\ Wanted \in LoadedBy(tree, view, Top.file)
           /\ LoadOfNothing \/ LoadRefused \/ LoadOverflows \/ LoadBegins
<1>1. /\ pc = "init" /\ UNCHANGED <<given, handler, view, cap>>
      /\ Top.loaded < Len(Loads)
      /\ LoadFrom(Wanted, Confined(Front(view), Wanted))
  BY DEF Load, LoadFrom, Wanted
<1>2. stack # <<>> /\ view # <<>>
  BY <1>1 DEF Running
<1>3. Top.file \in DOMAIN tree /\ Top.loaded \in 0..Len(Loads)
  BY <1>2, TopIs
<1>4. Loads \in Seq(Path) /\ Loads[Top.loaded + 1] \in ToSet(Loads)
      /\ Loads[Top.loaded + 1] \in Path
  <2>1. Loads \in Seq(Path)
    BY <1>3, GivenIs DEF Resolution, Given, Loads
  <2>2. Len(Loads) \in Nat /\ DOMAIN Loads = 1..Len(Loads) /\ Top.loaded + 1 \in 1..Len(Loads)
    BY <1>1, <1>3, <2>1, LenProperties
  <2> QED BY <2>1, <2>2, ElementOfSeq DEF ToSet
<1>5. Wanted \in Path
  <2>1. Front(view) \in Path
    BY <1>2, ViewIs
  <2>2. Front(view) \o Loads[Top.loaded + 1] \in Path
    BY <1>4, <2>1, ConcatProperties DEF Path
  <2> QED BY <2>2, CleanType DEF Wanted, LoadPath
<1>6. Wanted \in LoadedBy(tree, view, Top.file)
  BY <1>4 DEF LoadedBy, Wanted, Loads
<1>7. LoadOfNothing \/ LoadRefused \/ LoadOverflows \/ LoadBegins
  <2>1. Stat(tree, Wanted) = "file" <=> Wanted \in DOMAIN tree
    BY StatIsFile
  <2> QED
    BY <1>1, <2>1
       DEF LoadFrom, LoadOfNothing, LoadReads, LoadRefused, LoadOverflows, LoadBegins,
           Done, StackFull
<1> QED BY <1>1, <1>2, <1>5, <1>6, <1>7

LEMMA PushedIs ==
    ASSUME Running, stack # <<>>, NEW f \in DOMAIN tree
    PROVE  LET n == Len(stack) IN
           /\ Pushed(f) \in Seq(Frame) /\ Pushed(f) # <<>>
           /\ Len(Pushed(f)) = n + 1
           /\ \A i \in 1..n - 1 : Pushed(f)[i] = stack[i]
           /\ Pushed(f)[n].file = stack[n].file
           /\ Pushed(f)[n].loaded = stack[n].loaded + 1
           /\ Pushed(f)[n + 1] = [file |-> f, loaded |-> 0]
<1> DEFINE n == Len(stack)
           s == [stack EXCEPT ![n].loaded = @ + 1]
           r == [file |-> f, loaded |-> 0]
<1>1. n \in Nat \ {0} /\ \A i \in 1..n : stack[i] \in Frame
  BY TopIs
<1>2. stack \in Seq(Frame) /\ stack[n] \in Frame
  BY <1>1 DEF Running
<1>3. [stack[n] EXCEPT !.loaded = @ + 1] \in Frame
  BY <1>2 DEF Frame
<1>4. s = [stack EXCEPT ![n] = [stack[n] EXCEPT !.loaded = @ + 1]]
  OBVIOUS
<1>5. s \in Seq(Frame) /\ Len(s) = n
      /\ \A i \in 1..n : s[i] = IF i = n THEN [stack[n] EXCEPT !.loaded = @ + 1] ELSE stack[i]
  BY <1>1, <1>2, <1>3, <1>4, ExceptSeq
<1>6. r \in Frame
  BY DEF Frame
<1> HIDE DEF s, r
<1>7. Append(s, r) \in Seq(Frame) /\ Len(Append(s, r)) = n + 1
      /\ (\A i \in 1..n : Append(s, r)[i] = s[i]) /\ Append(s, r)[n + 1] = r
  BY <1>5, <1>6, AppendProperties
<1>8. Append(s, r) = Pushed(f)
  BY DEF Pushed, s, r
<1>9. \A i \in 1..n - 1 : i \in 1..n /\ i # n
  BY <1>1
<1>10. s[n].file = stack[n].file /\ s[n].loaded = stack[n].loaded + 1
  BY <1>1, <1>2, <1>5 DEF Frame
<1>11. Pushed(f) # <<>>
  BY <1>1, <1>7, <1>8
<1> QED BY <1>1, <1>5, <1>7, <1>8, <1>9, <1>10, <1>11 DEF r


\* The ways a top level can end.
EndsBadly == tree[Top.file].ends # "ok" /\ pc' = "done" /\ answer' = "500"
EndsAll ==
    tree[Top.file].ends = "ok" /\ Len(stack) = 1 /\ pc' = "entry" /\ answer' = answer
EndsOne ==
    tree[Top.file].ends = "ok" /\ Len(stack) # 1 /\ pc' = "init" /\ answer' = answer

LEMMA EndsIs ==
    ASSUME Running, TopLevelEnds
    PROVE  /\ pc = "init" /\ UNCHANGED <<given, handler, view, opened, cap>>
           /\ stack # <<>> /\ view # <<>> /\ Top.loaded = Len(Loads)
           /\ stack' \in Seq(Frame) /\ Len(stack') = Len(stack) - 1
           /\ \A i \in 1..Len(stack) - 1 : stack'[i] = stack[i]
           /\ EndsBadly \/ EndsAll \/ EndsOne
<1>1. /\ pc = "init" /\ UNCHANGED <<given, handler, view, opened, cap>>
      /\ stack' = Front(stack) /\ Top.loaded = Len(Loads)
      /\ EndsBadly \/ EndsAll \/ EndsOne
  BY DEF TopLevelEnds, Done, Goto, EndsBadly, EndsAll, EndsOne
<1>2. stack # <<>> /\ view # <<>> /\ stack \in Seq(Frame)
  BY <1>1 DEF Running
<1>3. /\ Front(stack) \in Seq(Frame) /\ Len(Front(stack)) = Len(stack) - 1
      /\ \A i \in 1..Len(stack) - 1 : Front(stack)[i] = stack[i]
  BY <1>2, FrontType
<1> QED BY <1>1, <1>2, <1>3

LEMMA OpenedInit == Init => OpenedBelow /\ Capped /\ Running
<1> SUFFICES ASSUME Init PROVE OpenedBelow /\ Capped /\ Running
  OBVIOUS
<1>1. opened = {} /\ cap = 0 /\ stack = <<>> /\ pc = "config"
  BY DEF Init
<1>2. stack \in Seq(Frame) /\ Len(stack) = 0
  BY <1>1
<1>3. MaxDepth \in Nat
  BY ServingConstantsOK DEF ServingConstantsOK
<1>4. Running
  BY <1>1, <1>2, <1>3 DEF Running
<1> QED BY <1>1, <1>4 DEF OpenedBelow, Capped

LEMMA OpenedStep == Resolution /\ OpenedBelow /\ Running /\ [Next]_vars => OpenedBelow'
<1> SUFFICES ASSUME Resolution, OpenedBelow, Running, [Next]_vars PROVE OpenedBelow'
  OBVIOUS
<1>1. CASE Load
  <2>1. UNCHANGED <<given, handler, view, cap>> /\ view # <<>> /\ Wanted \in Path
        /\ (LoadOfNothing \/ LoadRefused \/ LoadOverflows \/ LoadBegins)
    BY <1>1, LoadIs
  <2>2. CASE LoadOfNothing
    BY <2>1, <2>2 DEF LoadOfNothing, OpenedBelow, given
  <2>3. CASE LoadReads
    BY <2>1, <2>3 DEF LoadReads, Confined, OpenedBelow, given
  <2> QED BY <2>1, <2>2, <2>3 DEF LoadRefused, LoadOverflows, LoadBegins
<1>2. CASE LoadProgram
  <2>1. view # <<>> /\ UNCHANGED <<given, view>> /\ opened' = {view}
    BY <1>2 DEF LoadProgram, Resolution
  <2>2. view \in DOMAIN tree /\ view \in Path /\ IsPrefix(Front(view), view)
    BY <2>1, ViewIs
  <2> QED BY <2>1, <2>2 DEF OpenedBelow, given
<1>3. CASE Resolve
  <2>1. UNCHANGED <<given, opened>> /\ opened = {}
    BY <1>3 DEF Resolve, OpenedBelow, Resolution
  <2> QED BY <2>1 DEF OpenedBelow
<1>4. CASE Configure \/ TopLevelEnds \/ EntryPoint \/ Call \/ UNCHANGED vars
  <2>1. UNCHANGED <<given, view, opened>>
    BY <1>4 DEF Configure, TopLevelEnds, EntryPoint, Call, vars, given
  <2> QED BY <2>1 DEF OpenedBelow, given
<1> QED BY <1>1, <1>2, <1>3, <1>4 DEF Next, ToTheCall

LEMMA CappedStep == Resolution /\ Capped /\ [Next]_vars => Capped'
<1> SUFFICES ASSUME Resolution, Capped, [Next]_vars PROVE Capped'
  OBVIOUS
<1>1. UNCHANGED given => \A c : RightCap(c)' <=> RightCap(c)
  BY SameGiven DEF RightCap
<1>2. CASE LoadProgram
  <2>1. UNCHANGED given /\ AsAsked /\ pc = "program"
        /\ \/ cap' = (IF handler.maxBodySize > 0 THEN handler.maxBodySize ELSE 0)
           \/ pc' = "done" /\ cap' = cap
    BY <1>2 DEF LoadProgram, Resolution, Done
  <2>2. LET c == IF handler.maxBodySize > 0 THEN handler.maxBodySize ELSE 0 IN
        c \in Nat /\ RightCap(c)
    BY <2>1 DEF AsAsked, AskedFor
  <2>3. CASE pc' = "done" /\ cap' = cap
    BY <2>3 DEF Capped
  <2>4. CASE cap' = (IF handler.maxBodySize > 0 THEN handler.maxBodySize ELSE 0)
    <3>1. cap' \in Nat /\ RightCap(cap')
      BY <2>2, <2>4
    <3>2. AskedSize' = AskedSize
      BY <2>1, SameGiven
    <3> QED BY <3>1, <3>2 DEF Capped, RightCap
  <2> QED BY <2>1, <2>3, <2>4
<1>3. CASE ~LoadProgram
  <2>1. /\ cap' = cap
        /\ UNCHANGED given
        /\ pc' \in {"init", "entry", "call"} => pc \in {"init", "entry", "call"}
    <3>1. CASE Configure
      BY <3>1 DEF Configure, Done, Goto
    <3>2. CASE Resolve
      <4>1. pc = "resolve" /\ AsAsked /\ Given
        BY <3>2, GivenIs DEF Resolve, Resolution
      <4>2. Resolved.kind \in {"view", "next", "error"}
        BY <4>1, ResolvedIs
      <4> QED BY <3>2, <4>2 DEF Resolve, Done, Goto, Resolved
    <3>3. CASE Load
      BY <3>3 DEF Load, LoadFrom, Done
    <3>4. CASE TopLevelEnds
      BY <3>4 DEF TopLevelEnds, Done, Goto
    <3>5. CASE EntryPoint
      BY <3>5 DEF EntryPoint, Done, Goto
    <3>6. CASE Call
      BY <3>6 DEF Call, Done
    <3>7. CASE UNCHANGED vars
      BY <3>7 DEF vars, given
    <3> QED BY <1>3, <3>1, <3>2, <3>3, <3>4, <3>5, <3>6, <3>7 DEF Next, ToTheCall
  <2>2. AskedSize' = AskedSize
    BY <2>1, SameGiven
  <2> QED BY <2>1, <2>2 DEF Capped, RightCap
<1> QED BY <1>2, <1>3

LEMMA RunningStep ==
    Resolution /\ OpenedBelow /\ Running /\ [Next]_vars => Running'
<1> SUFFICES ASSUME Resolution, OpenedBelow, Running, [Next]_vars PROVE Running'
  OBVIOUS
<1>1. CASE Load
  <2>1. /\ UNCHANGED <<given, handler, view, cap>> /\ view # <<>> /\ stack # <<>>
        /\ pc = "init" /\ Top.loaded < Len(Loads)
        /\ (LoadOfNothing \/ LoadRefused \/ LoadOverflows \/ LoadBegins)
    BY <1>1, LoadIs
  <2>2. opened \subseteq opened'
    BY <2>1 DEF LoadOfNothing, LoadRefused, LoadOverflows, LoadBegins, LoadReads
  <2>3. CASE LoadOfNothing \/ LoadRefused \/ LoadOverflows
    <3>1. stack' = stack /\ pc' = "done" /\ tree' = tree /\ view' = view
      BY <2>1, <2>3 DEF LoadOfNothing, LoadRefused, LoadOverflows, given
    <3> QED BY <2>2, <3>1 DEF Running, Frame
  <2>4. CASE LoadBegins
    <3> DEFINE n == Len(stack)
    <3>1. /\ stack' = Pushed(Wanted) /\ pc' = "init" /\ tree' = tree /\ view' = view
          /\ n # MaxDepth /\ Wanted \in DOMAIN tree /\ Wanted \in opened'
      BY <2>1, <2>4 DEF LoadBegins, LoadReads, given
    <3>2. /\ n \in Nat \ {0} /\ Top = stack[n] /\ Top.loaded \in 0..Len(Loads)
          /\ n <= MaxDepth /\ MaxDepth \in Nat
      BY <2>1, TopIs, ServingConstantsOK DEF ServingConstantsOK, Running
    <3>3. /\ stack' \in Seq(Frame) /\ stack' # <<>> /\ Len(stack') = n + 1
          /\ \A i \in 1..n - 1 : stack'[i] = stack[i]
          /\ stack'[n].file = stack[n].file /\ stack'[n].loaded = stack[n].loaded + 1
          /\ stack'[n + 1] = [file |-> Wanted, loaded |-> 0]
      BY <2>1, <3>1, PushedIs
    <3>4. stack'[1].file = view
      <4>1. stack[1].file = view
        BY <2>1 DEF Running
      <4>2. n = 1 \/ 1 \in 1..n - 1
        BY <3>2
      <4> QED BY <3>3, <4>1, <4>2
    <3>5. ASSUME NEW i \in 1..n + 1
          PROVE  /\ stack'[i].file \in opened'
                 /\ stack'[i].loaded \in 0..Len(tree[stack'[i].file].loads)
      <4>1. CASE i \in 1..n - 1
        <5>1. i \in 1..n /\ stack'[i] = stack[i]
          BY <3>2, <3>3, <4>1
        <5> QED BY <2>2, <5>1 DEF Running
      <4>2. CASE i = n
        <5>1. n \in 1..n
          BY <3>2
        <5>2. stack[n].file \in opened /\ stack[n].loaded + 1 \in 0..Len(Loads)
          <6>1. Top.file \in DOMAIN tree /\ Len(Loads) \in Nat
            BY <2>1, TopIs, LoadsLen DEF Loads
          <6>2. stack[n].loaded + 1 \in 0..Len(Loads)
            BY <2>1, <3>2, <6>1
          <6> QED BY <5>1, <6>2 DEF Running
        <5> QED BY <2>2, <3>2, <3>3, <4>2, <5>2 DEF Loads
      <4>3. CASE i = n + 1
        <5>1. Len(tree[Wanted].loads) \in Nat
          BY <3>1, LoadsLen
        <5> QED BY <3>1, <3>3, <4>3, <5>1
      <4> QED BY <3>2, <4>1, <4>2, <4>3
    <3>6. ASSUME NEW i \in 1..n
          PROVE  /\ stack'[i].loaded > 0
                 /\ stack'[i + 1].file =
                       LoadPath(view, tree[stack'[i].file].loads[stack'[i].loaded])
      <4>1. CASE i = n
        <5>1. stack'[n].loaded > 0
          BY <3>2, <3>3
        <5>2. stack'[n + 1].file = Wanted
          BY <3>3
        <5>3. Wanted = LoadPath(view, tree[stack'[n].file].loads[stack'[n].loaded])
          BY <3>2, <3>3 DEF Wanted, Loads
        <5> QED BY <4>1, <5>1, <5>2, <5>3
      <4>2. CASE i \in 1..n - 1
        <5>1. stack'[i] = stack[i] /\ stack'[i + 1].file = stack[i + 1].file
          <6>1. i + 1 \in 1..n - 1 \/ i + 1 = n
            BY <3>2, <4>2
          <6> QED BY <3>3, <4>2, <6>1
        <5> QED BY <4>2, <5>1 DEF Running
      <4> QED BY <3>2, <4>1, <4>2
    <3>7. Len(stack') <= MaxDepth /\ 1..Len(stack') = 1..n + 1 /\ 1..Len(stack') - 1 = 1..n
      <4>1. n + 1 <= MaxDepth /\ (n + 1) - 1 = n
        BY <3>1, <3>2
      <4> QED BY <3>3, <4>1
    <3> HIDE DEF n
    <3> QED BY <2>1, <3>1, <3>3, <3>4, <3>5, <3>6, <3>7 DEF Running, Frame
  <2> QED BY <2>1, <2>3, <2>4
<1>2. CASE TopLevelEnds
  <2> DEFINE n == Len(stack)
  <2>1. /\ tree' = tree /\ view' = view /\ opened' = opened
        /\ stack # <<>> /\ view # <<>>
        /\ stack' \in Seq(Frame) /\ Len(stack') = n - 1
        /\ \A i \in 1..n - 1 : stack'[i] = stack[i]
        /\ EndsBadly \/ EndsAll \/ EndsOne
    BY <1>2, EndsIs DEF given
  <2>2. n \in Nat \ {0} /\ n <= MaxDepth /\ MaxDepth \in Nat
    BY <2>1, TopIs, ServingConstantsOK DEF ServingConstantsOK, Running
  <2>3. /\ stack' # <<>> => 1 \in 1..n - 1 /\ stack'[1].file = view
        /\ pc' = "init" => stack' # <<>>
        /\ pc' \notin {"config", "resolve", "program"}
    <3>1. stack' # <<>> <=> n # 1
      BY <2>1, <2>2, EmptySeq
    <3>2. \A k \in Nat \ {0} : k # 1 => 1 \in 1..k - 1
      OBVIOUS
    <3>3. n # 1 => 1 \in 1..n - 1
      BY <2>2, <3>2
    <3> QED BY <2>1, <3>1, <3>3 DEF Running, EndsBadly, EndsAll, EndsOne
  <2>4. \A i \in 1..n - 1 : i \in 1..n
    BY <2>2
  <2>5. \A i \in 1..(n - 1) - 1 : i \in 1..n - 1 /\ i + 1 \in 1..n - 1
    BY <2>2
  <2>6. Len(stack') <= MaxDepth
    BY <2>1, <2>2
  <2> HIDE DEF n
  <2>7. \A i \in 1..Len(stack') :
           /\ stack'[i].file \in opened'
           /\ stack'[i].loaded \in 0..Len(tree[stack'[i].file].loads)
    BY <2>1, <2>4 DEF Running, n
  <2>8. \A i \in 1..Len(stack') - 1 :
          /\ stack'[i].loaded > 0
          /\ stack'[i + 1].file =
                LoadPath(view, tree[stack'[i].file].loads[stack'[i].loaded])
    BY <2>1, <2>5 DEF Running, n
  <2> QED BY <2>1, <2>3, <2>6, <2>7, <2>8 DEF Running, Frame
<1>3. CASE LoadProgram
  <2>1. stack = <<>> /\ view # <<>> /\ tree' = tree /\ view' = view /\ opened' = {view}
    BY <1>3 DEF LoadProgram, Resolution, Running, given
  <2>2. CASE pc' = "done" /\ stack' = stack
    BY <2>1, <2>2 DEF Running, Frame
  <2>3. CASE pc' = "init" /\ stack' = <<[file |-> view, loaded |-> 0]>>
    <3>1. view \in DOMAIN tree /\ Len(tree[view].loads) \in Nat
      BY <2>1, ViewIs, LoadsLen
    <3>2. [file |-> view, loaded |-> 0] \in Frame /\ Len(stack') = 1
          /\ stack'[1] = [file |-> view, loaded |-> 0]
      BY <2>3, <3>1 DEF Frame
    <3>3. stack' \in Seq(Frame)
      BY <2>3, <3>2
    <3>4. MaxDepth \in Nat \ {0}
      BY ServingConstantsOK DEF ServingConstantsOK
    <3>5. \A i \in 1..Len(stack') : i = 1
      BY <3>2
    <3>6. 1..Len(stack') - 1 = {}
      BY <3>2
    <3> QED BY <2>1, <2>3, <3>1, <3>2, <3>3, <3>4, <3>5, <3>6 DEF Running, Frame
  <2> QED BY <1>3, <2>1, <2>2, <2>3 DEF LoadProgram, Done, Goto
<1>4. CASE Resolve
  <2>1. stack = <<>> /\ stack' = <<>> /\ tree' = tree
    BY <1>4 DEF Resolve, Running, given
  <2>2. pc' # "init"
    <3>1. pc = "resolve" /\ AsAsked /\ Given
      BY <1>4, GivenIs DEF Resolve, Resolution
    <3>2. Resolved.kind \in {"view", "next", "error"}
      BY <3>1, ResolvedIs
    <3> QED BY <1>4, <3>2 DEF Resolve, Done, Goto, Resolved
  <2> QED BY <2>1, <2>2 DEF Running, Frame
<1>5. CASE Configure
  <2>1. /\ stack = <<>> /\ stack' = <<>> /\ tree' = tree /\ view' = view /\ pc' # "init"
    BY <1>5 DEF Configure, Running, given, Done, Goto
  <2> QED BY <2>1 DEF Running, Frame
<1>6. CASE EntryPoint \/ Call \/ UNCHANGED vars
  <2>1. /\ UNCHANGED <<given, view, stack, opened>>
        /\ pc' = "init" => pc = "init"
        /\ pc' \in {"config", "resolve", "program"} => pc' = pc
    BY <1>6 DEF EntryPoint, Call, vars, Done, Goto, given
  <2> QED BY <2>1 DEF Running, Frame, given
<1> QED BY <1>1, <1>2, <1>3, <1>4, <1>5, <1>6 DEF Next, ToTheCall

LEMMA SameView ==
    ASSUME UNCHANGED <<given, view>>
    PROVE  /\ Reached' = Reached /\ (Circular' <=> Circular)
           /\ NoneFlawed' <=> NoneFlawed
<1>1. tree' = tree /\ view' = view
  BY DEF given
<1>2. Reached' = Reached
  BY <1>1 DEF Reached
<1>3. Circular' <=> Circular
  BY <1>1, <1>2 DEF Circular
<1> QED BY <1>1, <1>2, <1>3 DEF NoneFlawed, Flawed, Unloadable

LEMMA ReachedIs ==
    ASSUME Resolution
    PROVE  /\ view \in Reached
           /\ \A S : S \subseteq Beyond(tree, view, S) /\ Closed(tree, view, Beyond(tree, view, S))
<1>1. IsFiniteSet(DOMAIN tree)
  BY GivenIs DEF Resolution, Given
<1>2. \A S : S \subseteq Beyond(tree, view, S) /\ Closed(tree, view, Beyond(tree, view, S))
  BY <1>1, BeyondIs
<1> QED BY <1>2 DEF Reached

LEMMA WantedReached ==
    ASSUME Resolution, Running, SoundSoFar, Load
    PROVE  /\ Wanted \in Reached
           /\ Wanted \in Beyond(tree, view, LoadedBy(tree, view, view))
           /\ Wanted = view => Circular
<1>1. /\ stack # <<>> /\ view # <<>>
      /\ Wanted \in LoadedBy(tree, view, Top.file)
  BY LoadIs
<1>2. /\ Len(stack) \in Nat \ {0} /\ Top = stack[Len(stack)]
      /\ Top.file \in DOMAIN tree /\ Len(stack) \in 1..Len(stack)
  BY <1>1, TopIs
<1>3. Top.file \in Reached
  BY <1>2 DEF SoundSoFar
<1>4. Wanted \in Reached
  <2>1. Closed(tree, view, Reached)
    BY ReachedIs DEF Reached
  <2> QED BY <1>1, <1>2, <1>3, <2>1 DEF Closed
<1>5. Wanted \in Beyond(tree, view, LoadedBy(tree, view, view))
  <2> DEFINE B == Beyond(tree, view, LoadedBy(tree, view, view))
  <2>1. LoadedBy(tree, view, view) \subseteq B /\ Closed(tree, view, B)
    BY ReachedIs
  <2>2. CASE Len(stack) = 1
    <3>1. Top.file = view
      BY <1>1, <1>2, <2>2 DEF Running
    <3> QED BY <1>1, <2>1, <3>1
  <2>3. CASE Len(stack) # 1
    <3>1. Len(stack) > 1
      <4>1. \A k \in Nat \ {0} : k # 1 => k > 1
        OBVIOUS
      <4> QED BY <1>2, <2>3, <4>1
    <3>2. Top.file \in B
      BY <1>2, <3>1 DEF SoundSoFar
    <3> HIDE DEF B
    <3>3. Wanted \in B
      BY <1>1, <1>2, <2>1, <3>2 DEF Closed
    <3> QED BY <3>3 DEF B
  <2> QED BY <2>2, <2>3
<1>6. Wanted = view => Circular
  <2>1. view \in DOMAIN tree /\ view \in Reached
    BY <1>1, ViewIs, ReachedIs
  <2> QED BY <1>5, <2>1 DEF Circular
<1> QED BY <1>4, <1>5, <1>6

LEMMA SoundStep ==
    Resolution /\ Running /\ SoundSoFar /\ [Next]_vars => SoundSoFar'
<1> SUFFICES ASSUME Resolution, Running, SoundSoFar, [Next]_vars PROVE SoundSoFar'
  OBVIOUS
<1>0. IsFiniteSet(DOMAIN tree)
  BY GivenIs DEF Resolution, Given
<1>1. CASE Load
  <2>1. /\ UNCHANGED <<given, handler, view, cap>> /\ view # <<>> /\ stack # <<>>
        /\ pc = "init" /\ tree' = tree /\ view' = view
        /\ (LoadOfNothing \/ LoadRefused \/ LoadOverflows \/ LoadBegins)
    BY <1>1, LoadIs DEF given
  <2>2. Reached' = Reached
    BY <2>1, SameView
  <2>3. CASE LoadOfNothing \/ LoadRefused \/ LoadOverflows
    <3>1. stack' = stack /\ pc' = "done"
      BY <2>3 DEF LoadOfNothing, LoadRefused, LoadOverflows
    <3> QED BY <2>1, <2>2, <3>1 DEF SoundSoFar, Unloadable
  <2>4. CASE LoadBegins
    <3> DEFINE n == Len(stack)
    <3>1. /\ stack' = Pushed(Wanted) /\ pc' = "init" /\ Wanted \in DOMAIN tree
          /\ tree[Wanted].parses /\ ~Unloadable(Wanted)
      BY <2>1, <2>4 DEF LoadBegins, LoadReads, Unloadable
    <3>2. n \in Nat \ {0} /\ \A i \in 1..n : stack[i].loaded \in Nat
      BY <2>1, TopIs DEF Frame
    <3>3. /\ Len(stack') = n + 1
          /\ \A i \in 1..n - 1 : stack'[i] = stack[i]
          /\ stack'[n].file = stack[n].file /\ stack'[n].loaded = stack[n].loaded + 1
          /\ stack'[n + 1] = [file |-> Wanted, loaded |-> 0]
      BY <2>1, <3>1, PushedIs
    <3>4. /\ Wanted \in Reached
          /\ Wanted \in Beyond(tree, view, LoadedBy(tree, view, view))
      BY <1>1, WantedReached
    <3>5. \A i \in 1..n : stack'[i].file = stack[i].file
      <4>1. \A i \in 1..n : i \in 1..n - 1 \/ i = n
        BY <3>2
      <4> QED BY <3>3, <4>1
    <3>6. \A i \in 1..n : i \in 1..Len(stack) /\ HaveRun(i)' = HaveRun(i)
      <4>1. ASSUME NEW i \in 1..n - 1 PROVE HaveRun(i)' = HaveRun(i)
        BY <3>2, <3>3, <4>1 DEF HaveRun
      <4>2. ASSUME NEW i \in 1..n, i = n PROVE HaveRun(i)' = HaveRun(i)
        BY <3>2, <3>3, <4>2 DEF HaveRun
      <4>3. \A i \in 1..n : i \in 1..n - 1 \/ i = n
        BY <3>2
      <4> QED BY <4>1, <4>2, <4>3
    <3>7. ASSUME NEW i, i = n + 1 PROVE HaveRun(i)' = 0
      BY <3>2, <3>3, <3>7 DEF HaveRun
    <3>8. \A i \in 1..Len(stack') : i \in 1..n \/ i = n + 1
      BY <3>2, <3>3
    <3>9. ASSUME NEW i \in 1..Len(stack')
          PROVE  /\ tree[stack'[i].file].parses
                 /\ stack'[i].file \in Reached
                 /\ i > 1 => /\ ~Unloadable(stack'[i].file)
                             /\ stack'[i].file \in Beyond(tree, view, LoadedBy(tree, view, view))
      <4>1. CASE i \in 1..n
        BY <3>5, <4>1 DEF SoundSoFar
      <4>2. CASE i = n + 1
        BY <3>1, <3>3, <3>4, <4>2
      <4> QED BY <3>8, <4>1, <4>2
    <3>10. ASSUME NEW i \in 1..Len(stack'), NEW j \in 1..HaveRun(i)'
           PROVE  Sound(tree, view, LoadPath(view, tree[stack'[i].file].loads[j]))
      <4>1. CASE i \in 1..n
        BY <2>1, <3>5, <3>6, <4>1 DEF SoundSoFar
      <4>2. CASE i = n + 1
        <5>1. 1..HaveRun(i)' = {}
          BY <3>7, <4>2
        <5> QED BY <5>1
      <4> QED BY <3>8, <4>1, <4>2
    <3> HIDE DEF n
    <3> QED BY <2>1, <2>2, <3>1, <3>9, <3>10 DEF SoundSoFar, Unloadable
  <2> QED BY <2>1, <2>3, <2>4
<1>2. CASE TopLevelEnds
  <2> DEFINE n == Len(stack)
             g == Top.file
  <2>1. /\ UNCHANGED <<given, handler, view, opened, cap>>
        /\ tree' = tree /\ view' = view /\ pc = "init"
        /\ stack # <<>> /\ view # <<>> /\ Top.loaded = Len(Loads)
        /\ Len(stack') = n - 1
        /\ \A i \in 1..n - 1 : stack'[i] = stack[i]
        /\ EndsBadly \/ EndsAll \/ EndsOne
    BY <1>2, EndsIs DEF given
  <2>2. Reached' = Reached /\ (Circular' <=> Circular) /\ (NoneFlawed' <=> NoneFlawed)
    BY <2>1, SameView
  <2>3. /\ n \in Nat \ {0} /\ n \in 1..n /\ Top = stack[n] /\ g \in DOMAIN tree
        /\ \A i \in 1..n - 1 : i \in 1..n
        /\ \A i \in 1..n : stack[i].loaded \in Nat
    BY <2>1, TopIs DEF Frame
  <2>4. \A i \in 1..Len(stack') :
          /\ tree[stack'[i].file].parses
          /\ stack'[i].file \in Reached
          /\ i > 1 => /\ ~Unloadable(stack'[i].file)
                      /\ stack'[i].file \in Beyond(tree, view, LoadedBy(tree, view, view))
    BY <2>1, <2>3 DEF SoundSoFar
  <2>5. CASE EndsBadly
    <3>1. pc' = "done"
      BY <2>5 DEF EndsBadly
    <3> QED BY <2>1, <2>2, <2>4, <3>1 DEF SoundSoFar, Unloadable
  <2>6. ASSUME tree[g].ends = "ok"
        PROVE  /\ \A h \in Beyond(tree, view, {g}) :
                     /\ h = g \/ Fine(tree, view, h)
                     /\ h \notin Beyond(tree, view, LoadedBy(tree, view, h))
    <3>1. \A j \in 1..Len(Loads) : Sound(tree, view, LoadPath(view, Loads[j]))
      <4>1. HaveRun(n) = Len(Loads)
        BY <2>1, <2>3 DEF HaveRun
      <4> QED BY <2>1, <2>3, <4>1 DEF SoundSoFar, Loads
    <3>2. Loads \in Seq(Path) /\ DOMAIN Loads = 1..Len(Loads)
      <4>1. Loads \in Seq(Path)
        BY <2>3, LoadsLen DEF Loads
      <4> QED BY <4>1, LenProperties
    <3>3. \A m \in LoadedBy(tree, view, g) : Sound(tree, view, m)
      BY <3>1, <3>2 DEF LoadedBy, ToSet, Loads
    <3> HIDE DEF g
    <3> QED BY <1>0, <2>3, <3>3, SoundAbove
  <2>7. CASE EndsAll
    <3>1. tree[g].ends = "ok" /\ n = 1 /\ pc' = "entry"
      BY <2>7 DEF EndsAll
    <3>2. g = view /\ tree[view].parses
      BY <2>1, <2>3, <3>1 DEF Running, SoundSoFar
    <3>3. \A h \in Reached :
             /\ h = view \/ Fine(tree, view, h)
             /\ h \notin Beyond(tree, view, LoadedBy(tree, view, h))
      BY <2>6, <3>1, <3>2 DEF Reached
    <3>4. ~Circular
      BY <3>3 DEF Circular
    <3>5. NoneFlawed
      BY <2>3, <3>1, <3>2, <3>3, <3>4 DEF NoneFlawed, Flawed, Fine, Unloadable
    <3> QED BY <2>1, <2>2, <2>4, <3>1, <3>4, <3>5 DEF SoundSoFar, Unloadable
  <2>8. CASE EndsOne
    <3>1. tree[g].ends = "ok" /\ n # 1 /\ pc' = "init" /\ n > 1 /\ n - 1 \in 1..n - 1
      <4>1. \A k \in Nat \ {0} : k # 1 => k > 1 /\ k - 1 \in 1..k - 1
        OBVIOUS
      <4> QED BY <2>3, <2>8, <4>1 DEF EndsOne
    <3>2. Fine(tree, view, g)
      <4>1. tree[g].parses /\ ~Unloadable(g)
        BY <2>3, <3>1 DEF SoundSoFar
      <4> QED BY <2>3, <3>1, <4>1 DEF Fine, Unloadable
    <3>3. Sound(tree, view, g)
      BY <2>6, <3>1, <3>2 DEF Sound
    <3>4. g = LoadPath(view, tree[stack[n - 1].file].loads[stack[n - 1].loaded])
      <4>1. stack[(n - 1) + 1].file =
               LoadPath(view, tree[stack[n - 1].file].loads[stack[n - 1].loaded])
        BY <3>1 DEF Running
      <4>2. (n - 1) + 1 = n
        BY <2>3
      <4> QED BY <2>3, <4>1, <4>2
    <3>5. ASSUME NEW i \in 1..n - 1, NEW j \in 1..HaveRun(i)'
          PROVE  Sound(tree, view, LoadPath(view, tree[stack'[i].file].loads[j]))
      <4>1. stack'[i] = stack[i] /\ i \in 1..n /\ i < n
        BY <2>1, <2>3
      <4>2. HaveRun(i) = stack[i].loaded - 1
        BY <4>1 DEF HaveRun
      <4>3. CASE j \in 1..HaveRun(i)
        BY <2>1, <4>1, <4>3 DEF SoundSoFar
      <4>4. CASE j \notin 1..HaveRun(i)
        <5>1. i = n - 1 /\ j = stack[i].loaded
          <6>1. HaveRun(i)' = IF i < n - 1 THEN stack[i].loaded - 1 ELSE stack[i].loaded
            BY <2>1, <4>1 DEF HaveRun
          <6>2. stack[i].loaded \in Nat
            BY <2>3, <4>1
          <6> QED BY <2>3, <4>2, <4>4, <6>1, <6>2
        <5> QED BY <3>3, <3>4, <4>1, <5>1
      <4> QED BY <4>3, <4>4
    <3> HIDE DEF n, g
    <3> QED BY <2>1, <2>2, <2>4, <3>1, <3>5 DEF SoundSoFar, Unloadable
  <2> QED BY <2>1, <2>5, <2>7, <2>8
<1>3. CASE LoadProgram
  <2>1. stack = <<>> /\ view # <<>> /\ UNCHANGED <<given, view>> /\ tree' = tree
        /\ view' = view
    BY <1>3 DEF LoadProgram, Resolution, Running, given
  <2>2. Reached' = Reached /\ view \in Reached
    BY <2>1, SameView, ReachedIs
  <2>3. CASE pc' = "done" /\ stack' = stack
    BY <2>1, <2>3 DEF SoundSoFar
  <2>4. CASE pc' = "init" /\ stack' = <<[file |-> view, loaded |-> 0]>> /\ tree[view].parses
    <3>1. Len(stack') = 1 /\ stack'[1] = [file |-> view, loaded |-> 0]
      BY <2>4
    <3>2. \A i \in 1..Len(stack') : i = 1 /\ ~(i > 1) /\ 1..HaveRun(i)' = {}
      BY <3>1 DEF HaveRun
    <3> QED BY <2>1, <2>2, <2>4, <3>1, <3>2 DEF SoundSoFar
  <2> QED BY <1>3, <2>1, <2>3, <2>4 DEF LoadProgram, Done, Goto
<1>4. CASE Configure \/ Resolve
  <2>1. /\ stack = <<>> /\ stack' = <<>> /\ Len(stack') = 0
        /\ pc' \notin {"init", "entry", "call"}
    <3>1. CASE Configure
      BY <3>1 DEF Configure, Running, Done, Goto
    <3>2. CASE Resolve
      <4>1. pc = "resolve" /\ AsAsked /\ Given
        BY <3>2, GivenIs DEF Resolve, Resolution
      <4>2. Resolved.kind \in {"view", "next", "error"}
        BY <4>1, ResolvedIs
      <4> QED BY <3>2, <4>2 DEF Resolve, Running, Done, Goto, Resolved
    <3> QED BY <1>4, <3>1, <3>2
  <2>2. 1..Len(stack') = {}
    BY <2>1
  <2> QED BY <2>1, <2>2 DEF SoundSoFar
<1>5. CASE EntryPoint \/ Call \/ UNCHANGED vars
  <2>1. /\ UNCHANGED <<given, view, stack>> /\ tree' = tree /\ view' = view
        /\ pc' = "init" => pc = "init"
        /\ pc' \in {"entry", "call"} => pc \in {"entry", "call"}
    BY <1>5 DEF EntryPoint, Call, vars, Done, Goto, given
  <2>2. Reached' = Reached /\ (Circular' <=> Circular) /\ (NoneFlawed' <=> NoneFlawed)
    BY <2>1, SameView
  <2>3. \A i : HaveRun(i)' = HaveRun(i)
    BY <2>1 DEF HaveRun
  <2> QED BY <2>1, <2>2, <2>3 DEF SoundSoFar, Unloadable
<1> QED BY <1>1, <1>2, <1>3, <1>4, <1>5 DEF Next, ToTheCall

-----------------------------------------------------------------------------
(* How deep files load each other.                                         *)

\* p starts with the view v, and each of p loads the next.
LoadChain(t, v, p) ==
    /\ p \in Seq(DOMAIN t) /\ p # <<>> /\ p[1] = v
    /\ \A i \in 1..Len(p) - 1 : p[i + 1] \in LoadedBy(t, v, p[i])

\* The stack of a goroutine holds any loads of different files by each other.
DeepEnough ==
    \A c \in Cases : \A v \in DOMAIN c.tree, p \in Seq(DOMAIN c.tree) :
        LoadChain(c.tree, v, p) /\ IsInjective(p) => Len(p) <= MaxDepth

\* It does so if it holds as many as there are files.
LEMMA FewFiles ==
    ASSUME \A c \in Cases : Cardinality(DOMAIN c.tree) <= MaxDepth
    PROVE  DeepEnough
<1>1. SUFFICES ASSUME NEW c \in Cases, NEW p \in Seq(DOMAIN c.tree), IsInjective(p)
               PROVE  Len(p) <= MaxDepth
  BY DEF DeepEnough
<1>2. IsFiniteSet(DOMAIN c.tree) /\ Cardinality(DOMAIN c.tree) \in Nat
      /\ Cardinality(DOMAIN c.tree) <= MaxDepth /\ MaxDepth \in Nat
  BY ServingConstantsOK, FS_CardinalityType DEF ServingConstantsOK, IsCase
<1>3. /\ Len(p) \in Nat /\ DOMAIN p = 1..Len(p) /\ p \in [1..Len(p) -> DOMAIN c.tree]
  BY LenProperties, ElementOfSeq
<1>4. p \in Injection(1..Len(p), DOMAIN c.tree)
  BY <1>1, <1>3 DEF Injection, IsInjective
<1>5. Cardinality(1..Len(p)) <= Cardinality(DOMAIN c.tree)
  BY <1>2, <1>4, FS_Injection
<1>6. Cardinality(1..Len(p)) = Len(p)
  BY <1>3, FS_Interval
<1> QED BY <1>2, <1>3, <1>5, <1>6

\* A stack that is full holds a file twice.
LEMMA FullIsCircular ==
    ASSUME DeepEnough, Resolution, Running, SoundSoFar, Load, LoadOverflows
    PROVE  Circular
<1> DEFINE n == Len(stack)
           p == [i \in 1..n + 1 |-> IF i <= n THEN stack[i].file ELSE Wanted]
<1>1. /\ stack # <<>> /\ view # <<>> /\ Top.loaded < Len(Loads)
      /\ Wanted \in LoadedBy(tree, view, Top.file)
      /\ Wanted \in DOMAIN tree /\ n = MaxDepth
      /\ Wanted \in Reached
  BY LoadIs, WantedReached DEF LoadOverflows, LoadReads
<1>2. /\ n \in Nat \ {0} /\ Top = stack[n] /\ \A i \in 1..n : stack[i] \in Frame
  BY <1>1, TopIs
<1>3. \A i \in 1..n : stack[i].file \in DOMAIN tree /\ stack[i].file \in Reached
  BY <1>2 DEF Frame, SoundSoFar
<1>4. /\ p \in Seq(DOMAIN tree) /\ Len(p) = n + 1 /\ DOMAIN p = 1..n + 1
      /\ \A i \in 1..n : p[i] = stack[i].file
      /\ p[n + 1] = Wanted /\ p # <<>>
  <2>1. \A i \in 1..n + 1 : (IF i <= n THEN stack[i].file ELSE Wanted) \in DOMAIN tree
    <3>1. \A i \in 1..n + 1 : i <= n => i \in 1..n
      BY <1>2
    <3> QED BY <1>1, <1>3, <3>1
  <2>2. p \in Seq(DOMAIN tree) /\ Len(p) = n + 1 /\ DOMAIN p = 1..n + 1
    BY <1>2, <2>1
  <2> QED BY <1>2, <2>2
<1>5. ASSUME NEW i \in 1..n PROVE p[i + 1] \in LoadedBy(tree, view, p[i])
  <2>1. CASE i = n
    BY <1>1, <1>2, <1>4, <2>1
  <2>2. CASE i \in 1..n - 1
    <3>1. i + 1 \in 1..n /\ p[i] = stack[i].file /\ p[i + 1] = stack[i + 1].file
      BY <1>2, <1>4, <2>2
    <3>2. /\ stack[i].loaded > 0 /\ stack[i].loaded \in 0..Len(tree[stack[i].file].loads)
          /\ stack[i + 1].file = LoadPath(view, tree[stack[i].file].loads[stack[i].loaded])
      BY <1>2, <2>2 DEF Running
    <3>3. /\ tree[stack[i].file].loads \in Seq(Path)
          /\ Len(tree[stack[i].file].loads) \in Nat
      BY <1>3, LoadsLen
    <3>4. stack[i].loaded \in DOMAIN tree[stack[i].file].loads
      <4>1. stack[i].loaded \in 1..Len(tree[stack[i].file].loads)
        BY <3>2, <3>3
      <4> QED BY <3>3, <4>1, LenProperties
    <3> QED BY <3>1, <3>2, <3>4 DEF LoadedBy, ToSet
  <2> QED BY <1>2, <2>1, <2>2
<1> HIDE DEF p
<1>6. p[1] = view
  <2>1. stack[1].file = view /\ 1 \in 1..n
    BY <1>1, <1>2 DEF Running
  <2> QED BY <1>4, <2>1
<1>7. LoadChain(tree, view, p)
  <2>1. 1..Len(p) - 1 = 1..n
    BY <1>2, <1>4
  <2> QED BY <1>4, <1>5, <1>6, <2>1 DEF LoadChain
<1>8. ~IsInjective(p)
  <2>1. [directive |-> directive, url |-> url, tree |-> tree] \in Cases
    BY DEF Resolution
  <2>2. view \in DOMAIN tree
    BY <1>1, ViewIs
  <2>3. IsInjective(p) => Len(p) <= MaxDepth
    BY <1>4, <1>7, <2>1, <2>2 DEF DeepEnough
  <2> QED BY <1>1, <1>2, <1>4, <2>3
<1>9. PICK i \in 1..n + 1, j \in 1..n + 1 : p[i] = p[j] /\ i < j
  <2>1. PICK i \in 1..n + 1, j \in 1..n + 1 : p[i] = p[j] /\ i # j
    BY <1>4, <1>8 DEF IsInjective
  <2>2. i < j \/ j < i
    BY <1>2, <2>1
  <2> QED BY <2>1, <2>2
<1> DEFINE B == Beyond(tree, view, LoadedBy(tree, view, p[i]))
           T == {k \in Nat : p[i + 1 + k] \in B}
<1>10. LoadedBy(tree, view, p[i]) \subseteq B /\ Closed(tree, view, B)
  BY ReachedIs
<1> HIDE DEF B
<1>11. 0 \in T
  <2>1. i \in 1..n /\ i + 1 + 0 = i + 1
    BY <1>2, <1>9
  <2> QED BY <1>5, <1>10, <2>1
<1>12. ASSUME NEW k \in 1..n - i, k - 1 \in T PROVE k \in T
  <2> DEFINE m == i + 1 + (k - 1)
  <2>1. m \in 1..n /\ m \in 1..n + 1 /\ i + 1 + k = m + 1 /\ k \in Nat
    BY <1>2, <1>9
  <2>2. p[m] \in B /\ p[m] \in DOMAIN tree
    BY <1>4, <1>12, <2>1, ElementOfSeq
  <2> HIDE DEF m
  <2>3. p[m + 1] \in LoadedBy(tree, view, p[m])
    BY <1>5, <2>1
  <2>4. p[m + 1] \in B
    BY <1>10, <2>2, <2>3 DEF Closed
  <2> QED BY <2>1, <2>4
<1>13. p[j] \in B
  <2>1. n - i \in Nat /\ j - i - 1 \in 0..n - i /\ i + 1 + (j - i - 1) = j
    BY <1>2, <1>9
  <2> HIDE DEF T
  <2>2. j - i - 1 \in T
    BY <1>11, <1>12, <2>1, UpTo
  <2> QED BY <2>1, <2>2 DEF T
<1>14. p[i] \in Reached /\ p[i] \in DOMAIN tree
  <2>1. i \in 1..n
    BY <1>2, <1>9
  <2> QED BY <1>3, <1>4, <2>1
<1> QED BY <1>9, <1>13, <1>14 DEF B, Circular

LEMMA CauseStep ==
    ASSUME DeepEnough
    PROVE  Inv /\ Cause /\ [Next]_vars => Cause'
<1> SUFFICES ASSUME Inv, Cause, [Next]_vars PROVE Cause'
  OBVIOUS
<1>0. Resolution /\ Running /\ SoundSoFar
  BY DEF Inv
<1>1. CASE Load
  <2>1. /\ UNCHANGED <<given, handler, view, cap>>
        /\ pc = "init" /\ stack # <<>>
        /\ (LoadOfNothing \/ LoadRefused \/ LoadOverflows \/ LoadBegins)
    BY <1>0, <1>1, LoadIs
  <2>2. (Circular' <=> Circular) /\ (NoneFlawed' <=> NoneFlawed)
    BY <2>1, SameView
  <2>3. Wanted \in Reached /\ (Wanted = view => Circular)
    BY <1>0, <1>1, WantedReached
  <2>4. CASE LoadOfNothing \/ LoadRefused
    <3>1. Flawed(Wanted)
      BY <2>3, <2>4 DEF LoadOfNothing, LoadRefused, LoadReads, Flawed, Unloadable
    <3>2. ~NoneFlawed /\ answer' = "500"
      BY <2>3, <2>4, <3>1 DEF NoneFlawed, LoadOfNothing, LoadRefused
    <3> QED BY <2>2, <3>2 DEF Cause
  <2>5. CASE LoadOverflows
    <3>1. Circular /\ answer' = "crash"
      BY <1>0, <1>1, <2>5, FullIsCircular DEF LoadOverflows
    <3> QED BY <2>2, <3>1 DEF Cause
  <2>6. CASE LoadBegins
    <3>1. answer' = "none"
      BY <1>0, <2>1, <2>6 DEF LoadBegins, Resolution
    <3> QED BY <3>1 DEF Cause
  <2> QED BY <2>1, <2>4, <2>5, <2>6
<1>2. CASE TopLevelEnds
  <2>1. UNCHANGED <<given, view>> /\ pc = "init" /\ stack # <<>>
        /\ (EndsBadly \/ EndsAll \/ EndsOne)
    BY <1>0, <1>2, EndsIs
  <2>2. NoneFlawed' <=> NoneFlawed
    BY <2>1, SameView
  <2>3. CASE EndsBadly
    <3>1. Top.file \in Reached
      BY <1>0, <2>1, TopIs DEF SoundSoFar
    <3>2. Flawed(Top.file)
      BY <2>3 DEF EndsBadly, Flawed
    <3>3. ~NoneFlawed /\ answer' = "500"
      BY <2>3, <3>1, <3>2 DEF NoneFlawed, EndsBadly
    <3> QED BY <2>2, <3>3 DEF Cause
  <2>4. CASE EndsAll \/ EndsOne
    <3>1. answer' = "none"
      BY <1>0, <2>1, <2>4 DEF EndsAll, EndsOne, Resolution
    <3> QED BY <3>1 DEF Cause
  <2> QED BY <2>1, <2>3, <2>4
<1>3. CASE LoadProgram
  <2>1. UNCHANGED <<given, view>> /\ pc = "program"
    BY <1>3 DEF LoadProgram
  <2>2. NoneFlawed' <=> NoneFlawed
    BY <2>1, SameView
  <2>3. CASE tree[view].parses
    <3>1. answer' = "none"
      BY <1>0, <1>3, <2>1, <2>3 DEF LoadProgram, Goto, Resolution
    <3> QED BY <3>1 DEF Cause
  <2>4. CASE ~tree[view].parses
    <3>1. answer' = "500" /\ Flawed(view) /\ view \in Reached
      BY <1>0, <1>3, <2>4, ReachedIs DEF LoadProgram, Done, Flawed
    <3>2. ~NoneFlawed
      BY <3>1 DEF NoneFlawed
    <3> QED BY <2>2, <3>1, <3>2 DEF Cause
  <2> QED BY <2>3, <2>4
<1>4. CASE EntryPoint
  <2>1. UNCHANGED <<given, handler, view>> /\ pc = "entry" /\ answer = "none"
    BY <1>0, <1>4 DEF EntryPoint, Resolution
  <2>2. \/ answer' = "none"
        \/ answer' = "500" /\ handler.entryPoint \notin {<<<<f>>>> : f \in tree[view].funcs}
    BY <1>4, <2>1 DEF EntryPoint, Done, Goto
  <2> QED BY <2>1, <2>2 DEF Cause, given
<1>5. CASE Configure \/ Resolve
  <2>1. answer' # "crash" /\ (answer' = "500" => view' = <<>>)
    <3>1. CASE Configure
      BY <1>0, <3>1 DEF Configure, Done, Goto, Resolution
    <3>2. CASE Resolve
      <4>1. pc = "resolve" /\ AsAsked /\ Given
        BY <1>0, <3>2, GivenIs DEF Resolve, Resolution
      <4>2. /\ Resolved.kind \in {"view", "next", "error"}
            /\ Resolved.kind # "view" => Resolved.file = <<>>
        BY <4>1, ResolvedIs
      <4> QED BY <1>0, <3>2, <4>2 DEF Resolve, Done, Goto, Resolved, Resolution
    <3> QED BY <1>5, <3>1, <3>2
  <2> QED BY <2>1 DEF Cause
<1>6. CASE Call
  <2>1. answer' \in {"served", "aborted", "raised"}
    BY <1>6 DEF Call, Done
  <2> QED BY <2>1 DEF Cause
<1>7. CASE UNCHANGED vars
  <2>1. UNCHANGED <<given, handler, view, answer>>
    BY <1>7 DEF vars, given
  <2>2. (Circular' <=> Circular) /\ (NoneFlawed' <=> NoneFlawed)
    BY <2>1, SameView
  <2> QED BY <2>1, <2>2 DEF Cause, given
<1> QED BY <1>1, <1>2, <1>3, <1>4, <1>5, <1>6, <1>7 DEF Next, ToTheCall

-----------------------------------------------------------------------------
(* The theorems.                                                           *)

LEMMA InvInit == Init => Inv /\ Cause
<1> SUFFICES ASSUME Init PROVE Inv /\ Cause
  OBVIOUS
<1>1. Resolution /\ OpenedBelow /\ Capped /\ Running
  BY ResolutionInit, OpenedInit
<1>2. stack = <<>> /\ pc = "config" /\ answer = "none" /\ 1..Len(stack) = {}
  BY DEF Init
<1>3. SoundSoFar
  BY <1>2 DEF SoundSoFar
<1>4. Cause
  BY <1>2 DEF Cause
<1> QED BY <1>1, <1>3, <1>4 DEF Inv

LEMMA InvStep == Inv /\ [Next]_vars => Inv'
BY ResolutionStep, OpenedStep, CappedStep, RunningStep, SoundStep DEF Inv

\* What every other theorem here rests on.
THEOREM Invariant == Spec => []Inv
<1>1. Init => Inv
  BY InvInit
<1>2. Inv /\ [Next]_vars => Inv'
  BY InvStep
<1> QED BY <1>1, <1>2, PTL DEF Spec

\* The type invariant, the depth of the stack among it.
THEOREM Typed == Spec => []TypeOK
<1>1. Inv => TypeOK
  <2> SUFFICES ASSUME Inv PROVE TypeOK
    OBVIOUS
  <2>1. Resolution /\ OpenedBelow /\ Capped /\ Running
    BY DEF Inv
  <2>2. view \in DOMAIN tree \cup {<<>>}
    BY <2>1, ViewIs
  <2>3. stack \in Seq(Frame) => DOMAIN stack = 1..Len(stack)
    BY LenProperties
  <2> QED BY <2>1, <2>2, <2>3 DEF TypeOK, Resolution, OpenedBelow, Capped, Running
<1> QED BY <1>1, Invariant, PTL

\* Whatever the URL, the configuration and the files' loads: nothing is opened
\* but below the root and the view's own directory.
THEOREM Confinement == Spec => []ReadsConfined
<1>1. Inv => ReadsConfined
  <2> SUFFICES ASSUME Inv, NEW f \in opened
               PROVE  IsPrefix(Root, f) /\ IsPrefix(Front(view), f)
    BY DEF ReadsConfined
  <2>1. Resolution /\ view # <<>> /\ f \in Path /\ IsPrefix(Front(view), f)
    BY DEF Inv, OpenedBelow
  <2>2. Root \in Path /\ Front(view) \in Path /\ IsPrefix(Root, Front(view))
    BY <2>1, ViewIs
  <2> QED BY <2>1, <2>2, PrefixTransitive DEF Path
<1> QED BY <1>1, Invariant, PTL

\* Of the files that a URL can mean the handler takes the right one.
THEOREM ViewOfURL == Spec => []RightView
<1>1. Inv => RightView
  <2> SUFFICES ASSUME Inv PROVE RightView
    OBVIOUS
  <2>1. Resolution /\ Given
    BY GivenIs DEF Inv, Resolution
  <2>2. ASSUME pc \in {"program", "init", "entry", "call"}
        PROVE  \E q \in Meant : view = Root \o q /\ Ext(q) = AskedExt
    <3>1. AsAsked /\ Resolved.kind = "view" /\ view = Resolved.file
      BY <2>1, <2>2 DEF Resolution
    <3> QED BY <2>1, <3>1, RightResolution
  <2>3. ASSUME answer = "next"
        PROVE  \A q \in Meant : \/ Root \o q \notin DOMAIN tree
                                \/ Ext(q) # AskedExt
                                \/ StartsWithDots(Head(q))
                                \/ Last(url) # Empty /\ Ext(Clean(url)) # <<>> /\ q # Clean(url)
    <3>1. AsAsked /\ Resolved.kind = "next"
      BY <2>1, <2>3 DEF Resolution
    <3> QED BY <2>1, <3>1, RightResolution
  <2> QED BY <2>2, <2>3 DEF RightView
<1> QED BY <1>1, Invariant, PTL

\* The cap on a body is the one that the Caddyfile asks for, or the default.
THEOREM CapOfDirective == Spec => []CapAsAsked
<1>1. Inv => CapAsAsked
  BY DEF Inv, Capped, RightCap, CapAsAsked
<1> QED BY <1>1, Invariant, PTL

\* An entry point is called only above sound files that load each other in no
\* circle.
THEOREM SoundViews == Spec => []OnlySoundViewsRun
<1>1. Inv => OnlySoundViewsRun
  BY DEF Inv, SoundSoFar, NoneFlawed, OnlySoundViewsRun
<1> QED BY <1>1, Invariant, PTL

\* And every 500 before that, and every crash, has its cause.
THEOREM GoodReason == DeepEnough => (Spec => []ForGoodReason)
<1> SUFFICES ASSUME DeepEnough PROVE Spec => []ForGoodReason
  OBVIOUS
<1>1. Init => Inv /\ Cause
  BY InvInit
<1>2. Inv /\ Cause /\ [Next]_vars => Inv' /\ Cause'
  BY InvStep, CauseStep
<1>3. Inv /\ Cause => ForGoodReason
  <2> SUFFICES ASSUME Inv, Cause PROVE ForGoodReason
    OBVIOUS
  <2>1. Resolution /\ Given
    BY GivenIs DEF Inv, Resolution
  <2>2. ASSUME answer = "500", view = <<>>
        PROVE  \E q \in Meant : Stat(tree, Root \o q) = "belowFile"
    <3>1. AsAsked /\ Resolved.kind = "error"
      BY <2>1, <2>2 DEF Resolution
    <3> QED BY <2>1, <3>1, RightResolution
  <2>3. ASSUME answer = "500", view # <<>>
        PROVE  \/ \E f \in Reached : Flawed(f)
               \/ handler.entryPoint \notin {<<<<f>>>> : f \in tree[view].funcs}
    BY <2>3 DEF Cause, NoneFlawed
  <2>4. answer = "crash" => Circular
    BY DEF Cause
  <2> QED BY <2>2, <2>3, <2>4 DEF ForGoodReason
<1> QED BY <1>1, <1>2, <1>3, PTL DEF Spec

\* In particular where there are no more files than loads that can be nested.
THEOREM GoodReasonOfFewFiles ==
    (\A c \in Cases : Cardinality(DOMAIN c.tree) <= MaxDepth) => (Spec => []ForGoodReason)
BY FewFiles, GoodReason
=============================================================================
