------------------------------- MODULE PageProofs -------------------------------
(***************************************************************************)
(* Proofs about Page.                                                      *)
(***************************************************************************)
EXTENDS Page, SeqLemmas

-----------------------------------------------------------------------------
(* The elements of a set, in their order.                                  *)

LEMMA OnlyEnds ==
    ASSUME NEW B, NEW S, NEW s \in Seq(B), NEW f,
           f = [x \in Seq(B) \X B |-> IF x[2] \in S THEN Append(x[1], x[2]) ELSE x[1]]
    PROVE  EndsIn(Only(s, S), f, <<>>, s, Seq(B))
<1> DEFINE G(it) == [t \in SUBSET DOMAIN s |->
                       IF t = {} THEN <<>>
                       ELSE IF s[Max(t)] \in S THEN Append(it[t \ {Max(t)}], s[Max(t)])
                            ELSE it[t \ {Max(t)}]]
           c == CHOOSE it : it = G(it)
<1>1. DOMAIN s = 1..Len(s) /\ Len(s) \in Nat /\ \A i \in 1..Len(s) : s[i] \in B
  BY LenProperties, ElementOfSeq
<1>2. /\ f \in [Seq(B) \X B -> Seq(B)] /\ <<>> \in Seq(B)
      /\ \A a \in Seq(B), e \in B : f[<<a, e>>] = IF e \in S THEN Append(a, e) ELSE a
  BY AppendProperties, EmptySeq
<1>3. \A t \in SUBSET DOMAIN s : t # {} => s[Max(t)] \in B /\ t \ {Max(t)} \in SUBSET DOMAIN s
  BY <1>1, MaxOf
<1>4. Only(s, S) = c[DOMAIN s]
  BY DEF Only, FoldLeft, MapThenFoldSet
<1>5. \E it : it = G(it)
  <2>1. PICK it : IsFold(it, f, <<>>, s, Seq(B))
    BY <1>2, FoldExists
  <2>2. \A t \in SUBSET DOMAIN s :
              it[t] = IF t = {} THEN <<>>
                      ELSE IF s[Max(t)] \in S THEN Append(it[t \ {Max(t)}], s[Max(t)])
                           ELSE it[t \ {Max(t)}]
    BY <1>2, <1>3, <2>1 DEF IsFold
  <2>3. it = G(it)
    BY <2>1, <2>2 DEF IsFold
  <2> QED BY <2>3
<1>6. c = G(c)
  <2> HIDE DEF G
  <2> QED BY <1>5
<1> HIDE DEF c
<1>7. IsPartlyFold(c, f, <<>>, s, Seq(B))
  BY <1>2, <1>3, <1>6 DEF IsPartlyFold
<1>8. EndsIn(c[DOMAIN s], f, <<>>, s, Seq(B))
  BY <1>2, <1>7, FoldRuns
<1> QED BY <1>4, <1>8

LEMMA OnlyAppend ==
    ASSUME NEW B, NEW S
    PROVE  /\ Only(<<>>, S) = <<>>
           /\ \A s \in Seq(B), e \in B :
                 /\ Only(s, S) \in Seq(B)
                 /\ Only(Append(s, e), S) = IF e \in S THEN Append(Only(s, S), e) ELSE Only(s, S)
<1> DEFINE f == [x \in Seq(B) \X B |-> IF x[2] \in S THEN Append(x[1], x[2]) ELSE x[1]]
<1>1. Only(<<>>, S) = <<>>
  <2>1. <<>> \in Seq(B)
    BY EmptySeq
  <2>2. EndsIn(Only(<<>>, S), f, <<>>, <<>>, Seq(B))
    BY <2>1, OnlyEnds
  <2> HIDE DEF f
  <2> QED BY <2>2, EndsEmpty
<1>2. ASSUME NEW s \in Seq(B), NEW e \in B
      PROVE  /\ Only(s, S) \in Seq(B)
             /\ Only(Append(s, e), S) = IF e \in S THEN Append(Only(s, S), e) ELSE Only(s, S)
  <2>1. Append(s, e) \in Seq(B)
    BY AppendProperties
  <2>2. EndsIn(Only(s, S), f, <<>>, s, Seq(B))
    BY OnlyEnds
  <2>3. EndsIn(Only(Append(s, e), S), f, <<>>, Append(s, e), Seq(B))
    BY <2>1, OnlyEnds
  <2> HIDE DEF f
  <2>4. Only(s, S) \in Seq(B) /\ Only(Append(s, e), S) = f[<<Only(s, S), e>>]
    BY <2>2, <2>3, EndsAppend
  <2> QED BY <2>4 DEF f
<1> QED BY <1>1, <1>2

LEMMA OnlyNext ==
    ASSUME NEW B, NEW S, NEW s \in Seq(B), NEW e \in B
    PROVE  /\ Only(s, S) \in Seq(B)
           /\ Only(Append(s, e), S) = IF e \in S THEN Append(Only(s, S), e) ELSE Only(s, S)
BY OnlyAppend

LEMMA OnlySame ==
    ASSUME NEW B, NEW S, NEW R
    PROVE  \A s \in Seq(B) : (\A e \in ToSet(s) : e \in S <=> e \in R) => Only(s, S) = Only(s, R)
<1> DEFINE Agree(s) == \A e \in ToSet(s) : e \in S <=> e \in R
           P == {s \in Seq(B) : Agree(s) => Only(s, S) = Only(s, R)}
<1>1. <<>> \in P
  BY EmptySeq, OnlyAppend
<1>2. ASSUME NEW s \in Seq(B) \cap P, NEW e \in B PROVE Append(s, e) \in P
  <2>1. s \in Seq(B) /\ Append(s, e) \in Seq(B) /\ ToSet(Append(s, e)) = ToSet(s) \cup {e}
    BY AppendProperties, Elements
  <2>2. SUFFICES ASSUME Agree(Append(s, e)) PROVE Only(Append(s, e), S) = Only(Append(s, e), R)
    BY <2>1
  <2>3. Agree(s) /\ (e \in S <=> e \in R)
    BY <2>1, <2>2
  <2>4. Only(s, S) = Only(s, R)
    BY <1>2, <2>3
  <2> HIDE DEF Agree, P
  <2>5. Only(Append(s, e), S) = IF e \in S THEN Append(Only(s, S), e) ELSE Only(s, S)
    BY <2>1, OnlyNext
  <2>6. Only(Append(s, e), R) = IF e \in R THEN Append(Only(s, R), e) ELSE Only(s, R)
    BY <2>1, OnlyNext
  <2> QED BY <2>3, <2>4, <2>5, <2>6
<1> HIDE DEF P
<1>3. Seq(B) \subseteq P
  BY <1>1, <1>2, SeqSet
<1> QED BY <1>3 DEF P

LEMMA OnlyConcat ==
    ASSUME NEW B, NEW S, NEW s \in Seq(B)
    PROVE  \A t \in Seq(B) : Only(s \o t, S) = Only(s, S) \o Only(t, S)
<1> DEFINE P == {t \in Seq(B) : Only(s \o t, S) = Only(s, S) \o Only(t, S)}
<1>0. CASE B = {}
  <2>1. \A u \in Seq(B) : u = <<>>
    BY <1>0, FrontType
  <2>2. s = <<>> /\ s \o <<>> = s /\ <<>> \in Seq(B)
    BY <2>1, ConcatEmptySeq, EmptySeq
  <2>3. Only(<<>>, S) = <<>>
    BY OnlyAppend
  <2>4. Only(<<>> \o <<>>, S) = Only(<<>>, S) \o Only(<<>>, S)
    BY <2>2, <2>3
  <2> QED BY <2>1, <2>2, <2>4
<1>1. CASE B # {}
  <2>0. Only(s, S) \in Seq(B)
    BY <1>1, OnlyAppend
  <2>1. <<>> \in P
    <3>1. s \o <<>> = s /\ Only(s, S) \o <<>> = Only(s, S) /\ <<>> \in Seq(B)
      BY <2>0, ConcatEmptySeq, EmptySeq
    <3> QED BY <3>1, OnlyAppend
  <2>2. ASSUME NEW t \in Seq(B) \cap P, NEW e \in B PROVE Append(t, e) \in P
    <3>1. t \in Seq(B) /\ Append(t, e) \in Seq(B) /\ s \o t \in Seq(B)
      BY AppendProperties, ConcatProperties
    <3>2. Only(s \o t, S) = Only(s, S) \o Only(t, S)
      BY <2>2
    <3> HIDE DEF P
    <3>3. s \o Append(t, e) = Append(s \o t, e)
      BY <3>1, ConcatAppend
    <3>4. \A u \in Seq(B) : /\ Only(u, S) \in Seq(B)
                            /\ Only(Append(u, e), S) = IF e \in S THEN Append(Only(u, S), e)
                                                       ELSE Only(u, S)
      BY OnlyAppend
    <3>5. Only(s, S) \o Append(Only(t, S), e) = Append(Only(s, S) \o Only(t, S), e)
      BY <2>0, <3>1, <3>4, ConcatAppend
    <3>6. Only(Append(s \o t, e), S) = IF e \in S THEN Append(Only(s \o t, S), e)
                                       ELSE Only(s \o t, S)
      BY <3>1, <3>4
    <3>7. Only(Append(t, e), S) = IF e \in S THEN Append(Only(t, S), e) ELSE Only(t, S)
      BY <3>1, <3>4
    <3>8. Only(s \o Append(t, e), S) = Only(s, S) \o Only(Append(t, e), S)
      BY <3>2, <3>3, <3>5, <3>6, <3>7
    <3> QED BY <3>1, <3>8 DEF P
  <2> HIDE DEF P
  <2>3. Seq(B) \subseteq P
    BY <2>1, <2>2, SeqSet
  <2> QED BY <2>3 DEF P
<1> QED BY <1>0, <1>1

LEMMA OnlyElements ==
    ASSUME NEW B, NEW S
    PROVE  \A s \in Seq(B) : /\ Only(s, S) \in Seq(B)
                             /\ ToSet(Only(s, S)) = ToSet(s) \cap S
                             /\ ToSet(s) \subseteq S => Only(s, S) = s
                             /\ ToSet(s) \cap S = {} => Only(s, S) = <<>>
<1> DEFINE P == {s \in Seq(B) : /\ Only(s, S) \in Seq(B)
                                /\ ToSet(Only(s, S)) = ToSet(s) \cap S
                                /\ ToSet(s) \subseteq S => Only(s, S) = s
                                /\ ToSet(s) \cap S = {} => Only(s, S) = <<>>}
<1>1. <<>> \in P
  BY EmptySeq, OnlyAppend, Elements
<1>2. ASSUME NEW s \in Seq(B) \cap P, NEW e \in B PROVE Append(s, e) \in P
  <2>1. s \in Seq(B) /\ Append(s, e) \in Seq(B) /\ ToSet(Append(s, e)) = ToSet(s) \cup {e}
    BY AppendProperties, Elements
  <2>2. /\ Only(s, S) \in Seq(B)
        /\ ToSet(Only(s, S)) = ToSet(s) \cap S
        /\ ToSet(s) \subseteq S => Only(s, S) = s
        /\ ToSet(s) \cap S = {} => Only(s, S) = <<>>
    BY <1>2
  <2> HIDE DEF P
  <2>3. Only(Append(s, e), S) = IF e \in S THEN Append(Only(s, S), e) ELSE Only(s, S)
    BY <2>1, OnlyNext
  <2>4. Append(Only(s, S), e) \in Seq(B) /\ ToSet(Append(Only(s, S), e)) = ToSet(Only(s, S)) \cup {e}
    BY <2>2, AppendProperties, Elements
  <2>5. Only(Append(s, e), S) \in Seq(B)
    BY <2>2, <2>3, <2>4
  <2>6. ToSet(Only(Append(s, e), S)) = ToSet(Append(s, e)) \cap S
    BY <2>1, <2>2, <2>3, <2>4
  <2>7. ToSet(Append(s, e)) \subseteq S => Only(Append(s, e), S) = Append(s, e)
    BY <2>1, <2>2, <2>3
  <2>8. ToSet(Append(s, e)) \cap S = {} => Only(Append(s, e), S) = <<>>
    BY <2>1, <2>2, <2>3
  <2> QED BY <2>1, <2>5, <2>6, <2>7, <2>8 DEF P
<1> HIDE DEF P
<1>3. Seq(B) \subseteq P
  BY <1>1, <1>2, SeqSet
<1> QED BY <1>3 DEF P

-----------------------------------------------------------------------------
(* Markup, and what a browser shows of it.                                 *)

Names == {Entity[c] : c \in EntityChars}

LEMMA EntityIs ==
    /\ DOMAIN Entity = EntityChars
    /\ Entity["&"] = "amp" /\ Entity["<"] = "lt" /\ Entity[">"] = "gt"
    /\ Entity["\""] = "quot" /\ Entity["'"] = "#39"
    /\ \A c, e \in EntityChars : Entity[e] = Entity[c] => e = c
    /\ \A c \in EntityChars : Decoded(Entity[c]) = c
<1>1. /\ DOMAIN Entity = EntityChars
      /\ Entity["&"] = "amp" /\ Entity["<"] = "lt" /\ Entity[">"] = "gt"
      /\ Entity["\""] = "quot" /\ Entity["'"] = "#39"
  BY DEF Entity, EntityChars
<1>2. \A c, e \in EntityChars : Entity[e] = Entity[c] => e = c
  BY <1>1 DEF EntityChars
<1>3. ASSUME NEW c \in EntityChars PROVE Decoded(Entity[c]) = c
  <2> DEFINE d == Decoded(Entity[c])
  <2>1. d \in EntityChars /\ Entity[d] = Entity[c]
    BY DEF Decoded
  <2> HIDE DEF d
  <2>2. d = c
    BY <1>2, <2>1
  <2> QED BY <2>2 DEF d
<1> QED BY <1>1, <1>2, <1>3

\* The browser between two tokens of a page of tokens in B, of which it shows
\* those in T.
Ents == {<<>>, <<"&">>} \cup {<<"&", n>> : n \in Names}
Browser(T) == [ent : Ents, text : Seq(T)]
Fresh == [ent |-> <<>>, text |-> <<>>]
Browsed(page) == FoldLeft(Show1, Fresh, page)

Shows(B, T) ==
    /\ B \ {"<", "<p>"} \subseteq T
    /\ EntityChars \cup Names \subseteq T
    /\ "<" \in B => "injected" \in T

LEMMA EntsAre ==
    /\ \A e \in Ents : /\ e \in Seq(EntityChars \cup Names)
                       /\ Len(e) \in {0, 1, 2}
                       /\ Len(e) = 0 <=> e = <<>>
                       /\ Len(e) = 1 <=> e = <<"&">>
                       /\ Len(e) = 2 => e[2] \in Names
    /\ <<>> \in Ents /\ <<"&">> \in Ents
    /\ \A n \in Names : Append(<<"&">>, n) \in Ents /\ Append(<<"&">>, n) = <<"&", n>>
    /\ Len(<<>>) = 0 /\ Len(<<"&">>) = 1 /\ \A n \in Names : Len(<<"&", n>>) = 2
<1>1. "&" \in EntityChars
  BY DEF EntityChars
<1>2. <<"&">> \in Seq(EntityChars \cup Names) /\ Len(<<"&">>) = 1
      /\ <<>> \in Seq(EntityChars \cup Names) /\ Len(<<>>) = 0
  BY <1>1, EmptySeq
<1>3. ASSUME NEW n \in Names
      PROVE  /\ <<"&", n>> \in Seq(EntityChars \cup Names) /\ Len(<<"&", n>>) = 2
             /\ Append(<<"&">>, n) = <<"&", n>>
  <2>1. <<"&", n>> \in Seq(EntityChars \cup Names) /\ Len(<<"&", n>>) = 2
    BY <1>1
  <2> DEFINE q == Append(<<"&">>, n)
  <2>2. q \in Seq(EntityChars \cup Names) /\ Len(q) = 2 /\ q[1] = "&" /\ q[2] = n
    BY <1>2, AppendProperties
  <2>3. \A i \in 1..2 : q[i] = <<"&", n>>[i]
    BY <2>2
  <2> QED BY <2>1, <2>2, <2>3, SeqEqual
<1>4. ASSUME NEW e \in Ents
      PROVE  /\ e \in Seq(EntityChars \cup Names)
             /\ Len(e) \in {0, 1, 2}
             /\ Len(e) = 0 <=> e = <<>>
             /\ Len(e) = 1 <=> e = <<"&">>
             /\ Len(e) = 2 => e[2] \in Names
  <2>1. CASE e = <<>>
    BY <1>2, <2>1
  <2>3. CASE e = <<"&">>
    BY <1>2, <2>3
  <2>2. CASE e \in {<<"&", n>> : n \in Names}
    <3>1. PICK n \in Names : e = <<"&", n>>
      BY <2>2
    <3>2. Len(e) = 2 /\ e \in Seq(EntityChars \cup Names) /\ e[2] = n
      BY <1>3, <3>1
    <3> QED BY <1>2, <3>2
  <2> QED BY <2>1, <2>2, <2>3 DEF Ents
<1>5. \A n \in Names : <<"&", n>> \in Ents
  BY DEF Ents
<1> QED BY <1>2, <1>3, <1>4, <1>5 DEF Ents

LEMMA Show1Type ==
    ASSUME NEW B, NEW T, Shows(B, T), NEW st \in Browser(T), NEW c \in B
    PROVE  Show1(st, c) \in Browser(T)
<1> DEFINE flushed == st.text \o st.ent
<1>1. st.ent \in Ents /\ st.text \in Seq(T)
  BY DEF Browser
<1>2. st.ent \in Seq(T)
  BY <1>1, EntsAre DEF Shows
<1>3. flushed \in Seq(T)
  BY <1>1, <1>2, ConcatProperties
<1> HIDE DEF flushed
<1>4. CASE Len(st.ent) = 2 /\ c = ";"
  <2> DEFINE d == Decoded(st.ent[2])
  <2>1. d \in EntityChars
    <3>1. st.ent[2] \in Names
      BY <1>1, <1>4, EntsAre
    <3> QED BY <3>1, EntityIs DEF Names
  <2>2. Append(st.text, d) \in Seq(T)
    BY <1>1, <2>1, AppendProperties DEF Shows
  <2>3. Show1(st, c) = [ent |-> <<>>, text |-> Append(st.text, d)]
    <3>1. Len(st.ent) # 1
      <4>1. 2 # 1
        OBVIOUS
      <4> QED BY <1>4, <4>1, Zenon
    <3> QED BY <1>4, <3>1 DEF Show1
  <2> QED BY <2>2, <2>3, EntsAre DEF Browser
<1>5. CASE Len(st.ent) = 1 /\ \E e \in EntityChars : Entity[e] = c
  <2>1. Append(st.ent, c) \in Ents
    BY <1>1, <1>5, EntsAre DEF Names
  <2>2. Show1(st, c) = [st EXCEPT !.ent = Append(st.ent, c)]
    BY <1>5 DEF Show1
  <2> QED BY <1>1, <2>1, <2>2 DEF Browser
<1>6. CASE ~(Len(st.ent) = 2 /\ c = ";")
           /\ ~(Len(st.ent) = 1 /\ \E e \in EntityChars : Entity[e] = c)
  <2>1. Show1(st, c) = CASE c = "&" -> [ent |-> <<"&">>, text |-> flushed]
              [] c = "<p>" -> [ent |-> <<>>, text |-> flushed]
              [] c = "<" -> [ent |-> <<>>, text |-> Append(flushed, "injected")]
              [] OTHER -> [ent |-> <<>>, text |-> Append(flushed, c)]
    BY <1>6 DEF Show1, flushed
  <2>2. c = "<" => Append(flushed, "injected") \in Seq(T)
    BY <1>3, AppendProperties DEF Shows
  <2>3. c \notin {"<", "<p>"} => Append(flushed, c) \in Seq(T)
    BY <1>3, AppendProperties DEF Shows
  <2> QED BY <1>3, <2>1, <2>2, <2>3, EntsAre DEF Browser
<1> QED BY <1>4, <1>5, <1>6

LEMMA BrowsedEnds ==
    ASSUME NEW B, NEW T, Shows(B, T), NEW page \in Seq(B), NEW f,
           f = [x \in Browser(T) \X B |-> Show1(x[1], x[2])]
    PROVE  EndsIn(Browsed(page), f, Fresh, page, Browser(T))
<1> DEFINE G(it) == [t \in SUBSET DOMAIN page |->
                       IF t = {} THEN Fresh ELSE Show1(it[t \ {Max(t)}], page[Max(t)])]
           c == CHOOSE it : it = G(it)
<1>1. DOMAIN page = 1..Len(page) /\ Len(page) \in Nat /\ \A i \in 1..Len(page) : page[i] \in B
  BY LenProperties, ElementOfSeq
<1>2. /\ f \in [Browser(T) \X B -> Browser(T)]
      /\ \A a \in Browser(T), e \in B : f[<<a, e>>] = Show1(a, e)
  BY Show1Type
<1>3. Fresh \in Browser(T)
  BY EntsAre, EmptySeq DEF Fresh, Browser
<1>4. \A t \in SUBSET DOMAIN page :
          t # {} => page[Max(t)] \in B /\ t \ {Max(t)} \in SUBSET DOMAIN page
  BY <1>1, MaxOf
<1>5. Browsed(page) = c[DOMAIN page]
  BY DEF Browsed, FoldLeft, MapThenFoldSet
<1>6. \E it : it = G(it)
  <2>1. PICK it : IsFold(it, f, Fresh, page, Browser(T))
    BY <1>2, <1>3, FoldExists
  <2>2. \A t \in SUBSET DOMAIN page :
              it[t] = IF t = {} THEN Fresh ELSE Show1(it[t \ {Max(t)}], page[Max(t)])
    BY <1>2, <1>4, <2>1 DEF IsFold
  <2>3. it = G(it)
    BY <2>1, <2>2 DEF IsFold
  <2> QED BY <2>3
<1>7. c = G(c)
  <2> HIDE DEF G
  <2> QED BY <1>6
<1> HIDE DEF c
<1>8. IsPartlyFold(c, f, Fresh, page, Browser(T))
  BY <1>2, <1>4, <1>7 DEF IsPartlyFold
<1>9. EndsIn(c[DOMAIN page], f, Fresh, page, Browser(T))
  BY <1>2, <1>3, <1>8, FoldRuns
<1> QED BY <1>5, <1>9

LEMMA BrowsedAppend ==
    ASSUME NEW B, NEW T, Shows(B, T)
    PROVE  /\ Browsed(<<>>) = Fresh
           /\ \A page \in Seq(B), c \in B :
                 /\ Browsed(page) \in Browser(T)
                 /\ Browsed(Append(page, c)) = Show1(Browsed(page), c)
<1> DEFINE f == [x \in Browser(T) \X B |-> Show1(x[1], x[2])]
<1>1. Browsed(<<>>) = Fresh
  <2>1. <<>> \in Seq(B)
    BY EmptySeq
  <2>2. EndsIn(Browsed(<<>>), f, Fresh, <<>>, Browser(T))
    BY <2>1, BrowsedEnds
  <2> HIDE DEF f
  <2> QED BY <2>2, EndsEmpty
<1>2. ASSUME NEW page \in Seq(B), NEW c \in B
      PROVE  /\ Browsed(page) \in Browser(T)
             /\ Browsed(Append(page, c)) = Show1(Browsed(page), c)
  <2>1. Append(page, c) \in Seq(B)
    BY AppendProperties
  <2>2. EndsIn(Browsed(page), f, Fresh, page, Browser(T))
    BY BrowsedEnds
  <2>3. EndsIn(Browsed(Append(page, c)), f, Fresh, Append(page, c), Browser(T))
    BY <2>1, BrowsedEnds
  <2> HIDE DEF f
  <2>4. Browsed(page) \in Browser(T) /\ Browsed(Append(page, c)) = f[<<Browsed(page), c>>]
    BY <2>2, <2>3, EndsAppend
  <2> QED BY <2>4 DEF f
<1> QED BY <1>1, <1>2

\* Nothing was shown before: as if the page began here.
LEMMA BrowsedFromFresh ==
    ASSUME NEW B, NEW T, Shows(B, T), NEW s \in Seq(B), Browsed(s) = Fresh
    PROVE  \A t \in Seq(B) : Browsed(s \o t) = Browsed(t)
<1> DEFINE P == {t \in Seq(B) : Browsed(s \o t) = Browsed(t)}
<1>1. <<>> \in P
  <2>1. s \o <<>> = s /\ <<>> \in Seq(B)
    BY ConcatEmptySeq, EmptySeq
  <2> QED BY <2>1, BrowsedAppend
<1>2. ASSUME NEW t \in Seq(B) \cap P, NEW c \in B PROVE Append(t, c) \in P
  <2>1. Append(t, c) \in Seq(B) /\ s \o t \in Seq(B) /\ t \in Seq(B)
    BY AppendProperties, ConcatProperties
  <2>2. s \o Append(t, c) = Append(s \o t, c)
    BY ConcatAppend
  <2>3. \A p \in Seq(B) : Browsed(Append(p, c)) = Show1(Browsed(p), c)
    BY BrowsedAppend
  <2>4. Browsed(Append(s \o t, c)) = Show1(Browsed(s \o t), c)
        /\ Browsed(Append(t, c)) = Show1(Browsed(t), c)
    BY <2>1, <2>3
  <2> QED BY <1>2, <2>1, <2>2, <2>4
<1> HIDE DEF P
<1>3. Seq(B) \subseteq P
  BY <1>1, <1>2, SeqSet
<1> QED BY <1>3 DEF P

\* escapeHTML, character by character.
Escaped(c) == IF c \in EntityChars THEN <<"&", Entity[c], ";">> ELSE <<c>>

Written(K) == (K \ EntityChars) \cup Names \cup {"&", ";"}

LEMMA EscapeAppend ==
    ASSUME NEW K
    PROVE  /\ escapeHTML(<<>>) = <<>>
           /\ \A c \in K : Escaped(c) \in Seq(Written(K))
           /\ \A t \in Seq(K), c \in K :
                 /\ escapeHTML(t) \in Seq(Written(K))
                 /\ escapeHTML(Append(t, c)) = escapeHTML(t) \o Escaped(c)
<1> DEFINE g == [c \in K |-> Escaped(c)]
<1>1. ASSUME NEW c \in K PROVE Escaped(c) \in Seq(Written(K))
  <2>1. CASE c \in EntityChars
    <3>1. Entity[c] \in Written(K) /\ "&" \in Written(K) /\ ";" \in Written(K)
      BY <2>1 DEF Written, Names
    <3>2. <<"&", Entity[c], ";">> \in Seq(Written(K))
      BY <3>1, Short
    <3> QED BY <2>1, <3>2 DEF Escaped
  <2>2. CASE c \notin EntityChars
    <3>1. c \in Written(K)
      BY <2>2 DEF Written
    <3>2. <<c>> \in Seq(Written(K))
      BY <3>1
    <3> QED BY <2>2, <3>2 DEF Escaped
  <2> QED BY <2>1, <2>2
<1>2. g \in [K -> Seq(Written(K))]
  BY <1>1
<1>3. ASSUME NEW t \in Seq(K) PROVE escapeHTML(t) = FlatMap(g, t)
  <2>1. \A i \in DOMAIN t : t[i] \in K
    BY LenProperties, ElementOfSeq
  <2>2. [i \in DOMAIN t |-> IF t[i] \in EntityChars THEN <<"&", Entity[t[i]], ";">> ELSE <<t[i]>>]
        = [i \in DOMAIN t |-> g[t[i]]]
    BY <2>1 DEF Escaped
  <2> HIDE DEF g
  <2> QED BY <2>2 DEF escapeHTML, FlatMap
<1> HIDE DEF g
<1>4. escapeHTML(<<>>) = <<>>
  <2>1. <<>> \in Seq(K)
    BY EmptySeq
  <2> QED BY <1>2, <1>3, <2>1, FlatMapAppend
<1>5. ASSUME NEW t \in Seq(K), NEW c \in K
      PROVE  /\ escapeHTML(t) \in Seq(Written(K))
             /\ escapeHTML(Append(t, c)) = escapeHTML(t) \o Escaped(c)
  <2>1. FlatMap(g, t) \in Seq(Written(K)) /\ FlatMap(g, Append(t, c)) = FlatMap(g, t) \o g[c]
    BY <1>2, FlatMapAppend
  <2>2. g[c] = Escaped(c)
    BY DEF g
  <2>3. Append(t, c) \in Seq(K)
    BY AppendProperties
  <2> QED BY <1>3, <2>1, <2>2, <2>3
<1> QED BY <1>1, <1>4, <1>5

\* An escaped text is shown as it was, unless it holds the sign for a tag.
LEMMA EscapedIsShown ==
    ASSUME NEW K, K # {}, "<p>" \notin K
    PROVE  \A t \in Seq(K) : Browsed(escapeHTML(t)) = [ent |-> <<>>, text |-> t]
<1> DEFINE B == Written(K)
           T == K \cup B \cup EntityChars
           P == {t \in Seq(K) : Browsed(escapeHTML(t)) = [ent |-> <<>>, text |-> t]}
<1>1. "<" \notin B /\ "<p>" \notin B
  BY EntityIs DEF Written, Names, EntityChars
<1>2. Shows(B, T)
  BY <1>1 DEF Shows, Written
<1>3. <<>> \in P
  <2>1. <<>> \in Seq(K) /\ escapeHTML(<<>>) = <<>>
    BY EmptySeq, EscapeAppend
  <2>2. Browsed(<<>>) = Fresh
    BY <1>2, BrowsedAppend
  <2> QED BY <2>1, <2>2 DEF Fresh
<1>4. ASSUME NEW t \in Seq(K) \cap P, NEW c \in K PROVE Append(t, c) \in P
  <2> DEFINE E == escapeHTML(t)
  <2>1. /\ E \in Seq(B) /\ t \in Seq(K) /\ Append(t, c) \in Seq(K)
        /\ escapeHTML(Append(t, c)) = E \o Escaped(c)
    BY EscapeAppend, AppendProperties
  <2>2. Browsed(E) = [ent |-> <<>>, text |-> t]
    BY <1>4
  <2>3. ASSUME NEW p \in Seq(B), NEW d \in B
        PROVE  Append(p, d) \in Seq(B) /\ Browsed(Append(p, d)) = Show1(Browsed(p), d)
    BY <1>2, BrowsedAppend, AppendProperties
  <2>4. t \o <<>> = t
    BY <2>1, ConcatEmptySeq
  <2> HIDE DEF E, B, T, P
  <2>5. CASE c \in EntityChars
    <3> DEFINE n == Entity[c]
    <3>1. n \in B /\ "&" \in B /\ ";" \in B
      BY <2>5 DEF B, Written, Names
    <3>0. n \in Names /\ \E e \in EntityChars : Entity[e] = n
      BY <2>5 DEF Names
    <3> HIDE DEF n
    <3>2. E \o <<"&", n, ";">> = Append(Append(Append(E, "&"), n), ";")
      <4>1. \A a, b, d \in B : E \o <<a, b, d>> = Append(Append(Append(E, a), b), d)
        BY <2>1, ConcatShort
      <4> QED BY <3>1, <4>1
    <3>3. Append(E, "&") \in Seq(B) /\ Append(Append(E, "&"), n) \in Seq(B)
      BY <2>1, <2>3, <3>1
    <3>4. Browsed(Append(E, "&")) = [ent |-> <<"&">>, text |-> t]
      <4>1. Browsed(Append(E, "&")) = Show1([ent |-> <<>>, text |-> t], "&")
        BY <2>1, <2>2, <2>3, <3>1
      <4>2. Show1([ent |-> <<>>, text |-> t], "&") = [ent |-> <<"&">>, text |-> t \o <<>>]
        BY EntsAre DEF Show1
      <4> QED BY <2>4, <4>1, <4>2
    <3>5. Browsed(Append(Append(E, "&"), n)) = [ent |-> <<"&", n>>, text |-> t]
      <4>1. Browsed(Append(Append(E, "&"), n)) = Show1([ent |-> <<"&">>, text |-> t], n)
        BY <2>3, <3>1, <3>3, <3>4
      <4>2. Show1([ent |-> <<"&">>, text |-> t], n) = [ent |-> Append(<<"&">>, n), text |-> t]
        <5> DEFINE e == <<"&">>
        <5>1. Len(e) = 1 /\ Len(e) # 2
          BY EntsAre
        <5> HIDE DEF e
        <5>2. Show1([ent |-> e, text |-> t], n) = [ent |-> Append(e, n), text |-> t]
          BY <3>0, <5>1 DEF Show1
        <5> QED BY <5>2 DEF e
      <4> QED BY <3>0, <4>1, <4>2, EntsAre
    <3>6. Browsed(Append(Append(Append(E, "&"), n), ";")) = [ent |-> <<>>, text |-> Append(t, c)]
      <4>1. Browsed(Append(Append(Append(E, "&"), n), ";"))
            = Show1([ent |-> <<"&", n>>, text |-> t], ";")
        BY <2>3, <3>1, <3>3, <3>5
      <4>3. Len(<<"&", n>>) = 2 /\ Len(<<"&", n>>) # 1 /\ <<"&", n>>[2] = n
        BY <3>0, EntsAre
      <4>4. Show1([ent |-> <<"&", n>>, text |-> t], ";")
            = [ent |-> <<>>, text |-> Append(t, Decoded(<<"&", n>>[2]))]
        <5> DEFINE e == <<"&", n>>
        <5>1. Len(e) = 2 /\ Len(e) # 1
          BY <4>3
        <5> HIDE DEF e
        <5>2. Show1([ent |-> e, text |-> t], ";") = [ent |-> <<>>, text |-> Append(t, Decoded(e[2]))]
          BY <5>1 DEF Show1
        <5> QED BY <5>2 DEF e
      <4>5. Decoded(n) = c
        BY <2>5, EntityIs DEF n
      <4> QED BY <4>1, <4>3, <4>4, <4>5
    <3>7. escapeHTML(Append(t, c)) = Append(Append(Append(E, "&"), n), ";")
      BY <2>1, <2>5, <3>2 DEF Escaped, n
    <3> QED BY <2>1, <3>6, <3>7 DEF P
  <2>6. CASE c \notin EntityChars
    <3>1. c \in B /\ c # "&" /\ c # "<p>" /\ c # "<"
      BY <2>6 DEF B, Written, EntityChars
    <3>2. E \o <<c>> = Append(E, c)
      BY <2>1, <3>1, ConcatShort
    <3>3. Browsed(Append(E, c)) = Show1([ent |-> <<>>, text |-> t], c)
      BY <2>1, <2>2, <2>3, <3>1
    <3>4. Show1([ent |-> <<>>, text |-> t], c) = [ent |-> <<>>, text |-> Append(t \o <<>>, c)]
      BY <3>1, EntsAre DEF Show1
    <3>5. escapeHTML(Append(t, c)) = Append(E, c)
      BY <2>1, <2>6, <3>2 DEF Escaped
    <3> QED BY <2>1, <2>4, <3>3, <3>4, <3>5 DEF P
  <2> QED BY <2>5, <2>6
<1> HIDE DEF P
<1>5. Seq(K) \subseteq P
  BY <1>3, <1>4, SeqSet
<1> QED BY <1>5 DEF P

LEMMA EscapeType ==
    ASSUME NEW B, NEW v, v.text \in Seq(B), v.markup \in BOOLEAN, B # {}
    PROVE  /\ escape(v).markup = TRUE
           /\ ~v.markup => escape(v).text = escapeHTML(v.text)
                           /\ escape(v).text \in Seq(Written(B))
           /\ v.markup => escape(v).text = v.text
BY EscapeAppend DEF escape, AsMarkup

\* A filled template is made of the template and what fills it.
LEMMA HtmlType ==
    ASSUME NEW B, NEW template, template.text \in Seq(B), NEW v, escape(v).text \in Seq(B)
    PROVE  html(template, v).markup = TRUE /\ html(template, v).text \in Seq(B)
<1> DEFINE t == template.text
           prepared == escape(v).text
           g == [c \in B |-> IF c = "{x}" THEN prepared ELSE <<c>>]
<1>1. g \in [B -> Seq(B)]
  <2>1. \A c \in B : <<c>> \in Seq(B)
    BY Short
  <2> QED BY <2>1
<1>2. html(template, v) =
        AsMarkup(FlattenSeq([i \in DOMAIN t |-> IF t[i] = "{x}" THEN prepared ELSE <<t[i]>>]))
  BY DEF html
<1>3. [i \in DOMAIN t |-> IF t[i] = "{x}" THEN prepared ELSE <<t[i]>>]
      = [i \in DOMAIN t |-> g[t[i]]]
  <2>1. \A i \in DOMAIN t : t[i] \in B
    BY LenProperties, ElementOfSeq
  <2> QED BY <2>1
<1> HIDE DEF g, t, prepared
<1>4. html(template, v) = AsMarkup(FlatMap(g, t))
  BY <1>2, <1>3 DEF FlatMap
<1>5. FlatMap(g, t) \in Seq(B)
  <2>1. CASE t = <<>>
    <3>1. FlatMap(g, <<>>) = <<>>
      BY <1>1, FlatMapAppend
    <3>2. <<>> \in Seq(B)
      BY EmptySeq
    <3> QED BY <2>1, <3>1, <3>2
  <2>2. CASE t # <<>>
    <3>1. PICK c \in B : TRUE
      BY <2>2, FrontType DEF t
    <3> QED BY <1>1, <3>1, FlatMapAppend DEF t
  <2> QED BY <2>1, <2>2
<1> QED BY <1>4, <1>5 DEF AsMarkup

Pattern == {"{x}", "<p>"}
OneHole(t) == \E i \in DOMAIN t : \A j \in DOMAIN t : t[j] = "{x}" <=> j = i
NoHole(t) == \A j \in DOMAIN t : t[j] # "{x}"

LEMMA Holes ==
    ASSUME NEW t \in Seq(Pattern), NEW c \in Pattern
    PROVE  /\ NoHole(<<>>) /\ ~OneHole(<<>>)
           /\ NoHole(Append(t, c)) => NoHole(t) /\ c = "<p>"
           /\ OneHole(Append(t, c)) => \/ NoHole(t) /\ c = "{x}"
                                       \/ OneHole(t) /\ c = "<p>"
<1> DEFINE q == Append(t, c)
           n == Len(t)
<1>1. /\ n \in Nat /\ DOMAIN t = 1..n /\ DOMAIN q = 1..n + 1
      /\ q[n + 1] = c /\ \A i \in 1..n : q[i] = t[i]
  BY AppendProperties, LenProperties
<1>2. /\ n + 1 \in 1..n + 1 /\ n + 1 \notin 1..n
      /\ \A i \in 1..n : i \in 1..n + 1
      /\ \A i \in 1..n + 1 : i \in 1..n \/ i = n + 1
  BY <1>1
<1>3. NoHole(<<>>) /\ ~OneHole(<<>>)
  BY DEF NoHole, OneHole
<1> HIDE DEF q, n
<1>4. ASSUME NoHole(q) PROVE NoHole(t) /\ c = "<p>"
  <2>1. q[n + 1] # "{x}" /\ \A i \in 1..n : q[i] # "{x}"
    BY <1>1, <1>2, <1>4 DEF NoHole
  <2> QED BY <1>1, <2>1 DEF NoHole, Pattern
<1>5. ASSUME OneHole(q) PROVE \/ NoHole(t) /\ c = "{x}"
                              \/ OneHole(t) /\ c = "<p>"
  <2>1. PICK i \in 1..n + 1 : \A j \in 1..n + 1 : q[j] = "{x}" <=> j = i
    <3>1. PICK i \in DOMAIN q : \A j \in DOMAIN q : q[j] = "{x}" <=> j = i
      BY <1>5, Zenon DEF OneHole
    <3>2. i \in 1..n + 1 /\ \A j \in 1..n + 1 : q[j] = "{x}" <=> j = i
      BY <1>1, <3>1, Zenon
    <3> QED BY <3>2, Zenon
  <2>2. CASE i = n + 1
    <3>1. c = "{x}"
      BY <1>1, <1>2, <2>1, <2>2
    <3>2. \A j \in 1..n : t[j] # "{x}"
      BY <1>1, <1>2, <2>1, <2>2
    <3> QED BY <1>1, <3>1, <3>2 DEF NoHole
  <2>3. CASE i \in 1..n
    <3>1. c = "<p>"
      BY <1>1, <1>2, <2>1, <2>3 DEF Pattern
    <3>2. \A j \in 1..n : t[j] = "{x}" <=> j = i
      BY <1>1, <1>2, <2>1
    <3>3. i \in DOMAIN t /\ \A j \in DOMAIN t : t[j] = "{x}" <=> j = i
      BY <1>1, <2>3, <3>2, Zenon
    <3>4. OneHole(t)
      BY <3>3, Zenon DEF OneHole
    <3> QED BY <3>1, <3>4
  <2>4. i = n + 1 \/ i \in 1..n
    BY <1>2
  <2> QED BY <2>2, <2>3, <2>4
<1> QED BY <1>3, <1>4, <1>5 DEF q

\* The tags of a template are not shown, what fills its one hole is.
LEMMA TemplateShows ==
    ASSUME NEW B, NEW T, Shows(B, T), "<p>" \in B, NEW v, escape(v).text \in Seq(B),
           NEW template \in Seq(Pattern), OneHole(template)
    PROVE  Shown(html(String(template), v).text) = Shown(escape(v).text)
<1> DEFINE prepared == escape(v).text
           g == [c \in Pattern |-> IF c = "{x}" THEN prepared ELSE <<c>>]
           P == {t \in Seq(Pattern) :
                   /\ NoHole(t) => Browsed(FlatMap(g, t)) = Fresh
                   /\ OneHole(t) => Shown(FlatMap(g, t)) = Shown(prepared)}
<1>1. g \in [Pattern -> Seq(B)] /\ g["<p>"] = <<"<p>">> /\ g["{x}"] = prepared
  <2>1. <<"<p>">> \in Seq(B)
    BY Short
  <2> QED BY <2>1 DEF Pattern
<1>10. /\ FlatMap(g, <<>>) = <<>>
       /\ \A u \in Seq(Pattern), e \in Pattern :
             FlatMap(g, u) \in Seq(B) /\ FlatMap(g, Append(u, e)) = FlatMap(g, u) \o g[e]
  <2> HIDE DEF g
  <2>1. g \in [Pattern -> Seq(B)]
    BY <1>1
  <2>2. FlatMap(g, <<>>) = <<>>
    BY <2>1, FlatMapAppend
  <2>3. ASSUME NEW u \in Seq(Pattern), NEW e \in Pattern
        PROVE  FlatMap(g, u) \in Seq(B) /\ FlatMap(g, Append(u, e)) = FlatMap(g, u) \o g[e]
    BY <2>1, FlatMapAppend
  <2> QED BY <2>2, <2>3
<1>2. html(String(template), v).text = FlatMap(g, template)
  <2>1. \A i \in DOMAIN template : template[i] \in Pattern
    BY LenProperties, ElementOfSeq
  <2>2. String(template).text = template
    BY DEF String
  <2>3. html(String(template), v).text =
          FlattenSeq([i \in DOMAIN template |->
                        IF template[i] = "{x}" THEN prepared ELSE <<template[i]>>])
    BY <2>2 DEF html, AsMarkup
  <2>4. [i \in DOMAIN template |-> IF template[i] = "{x}" THEN prepared ELSE <<template[i]>>]
        = [i \in DOMAIN template |-> g[template[i]]]
    BY <2>1
  <2> HIDE DEF g, prepared
  <2> QED BY <2>3, <2>4 DEF FlatMap
<1>3. \A page : Shown(page) = Browsed(page).text \o Browsed(page).ent
  BY DEF Shown, Browsed, Fresh
<1> HIDE DEF g, prepared
<1>4. <<>> \in P
  <2>1. <<>> \in Seq(Pattern) /\ FlatMap(g, <<>>) = <<>>
    BY <1>1, FlatMapAppend, EmptySeq
  <2>2. "<p>" \in Pattern
    BY DEF Pattern
  <2>3. ~OneHole(<<>>)
    BY <2>1, <2>2, Holes
  <2> QED BY <2>1, <2>3, BrowsedAppend
<1>5. ASSUME NEW t \in Seq(Pattern) \cap P, NEW c \in Pattern PROVE Append(t, c) \in P
  <2> DEFINE F == FlatMap(g, t)
  <2>0. t \in Seq(Pattern)
    OBVIOUS
  <2>2. /\ NoHole(t) => Browsed(F) = Fresh
        /\ OneHole(t) => Shown(F) = Shown(prepared)
    BY <1>5
  <2> HIDE DEF P
  <2>1. /\ Append(t, c) \in Seq(Pattern) /\ t \in Seq(Pattern) /\ F \in Seq(B)
        /\ FlatMap(g, Append(t, c)) = F \o g[c]
    <3>1. t \in Seq(Pattern) /\ Append(t, c) \in Seq(Pattern)
      BY <2>0, AppendProperties
    <3> QED BY <1>10, <3>1
  <2>3. Browsed(F) \in Browser(T)
    BY <2>1, BrowsedAppend
  <2> HIDE DEF F
  <2> DEFINE st == Browsed(F)
  <2>4. c = "<p>" => Browsed(FlatMap(g, Append(t, c))) = [ent |-> <<>>, text |-> st.text \o st.ent]
    <3> SUFFICES ASSUME c = "<p>"
                 PROVE  Browsed(F \o <<"<p>">>) = [ent |-> <<>>, text |-> st.text \o st.ent]
      BY <1>1, <2>1
    <3>1. F \o <<"<p>">> = Append(F, "<p>")
      BY <2>1, ConcatShort
    <3>2. Browsed(Append(F, "<p>")) = Show1(st, "<p>")
      BY <2>1, BrowsedAppend
    <3>3. "<p>" \notin {";", "&"} /\ ~\E e \in EntityChars : Entity[e] = "<p>"
      BY EntityIs DEF EntityChars
    <3>4. Show1(st, "<p>") = [ent |-> <<>>, text |-> st.text \o st.ent]
      BY <3>3 DEF Show1
    <3> QED BY <3>1, <3>2, <3>4
  <2>5. ASSUME NoHole(Append(t, c)) PROVE Browsed(FlatMap(g, Append(t, c))) = Fresh
    <3>1. c = "<p>" /\ st = Fresh
      BY <2>1, <2>2, <2>5, Holes
    <3>2. <<>> \o <<>> = <<>>
      BY EmptySeq, ConcatEmptySeq
    <3> QED BY <2>4, <3>1, <3>2 DEF Fresh
  <2>6. ASSUME OneHole(Append(t, c)) PROVE Shown(FlatMap(g, Append(t, c))) = Shown(prepared)
    <3>1. \/ NoHole(t) /\ c = "{x}"
          \/ OneHole(t) /\ c = "<p>"
      BY <2>1, <2>6, Holes
    <3>2. CASE NoHole(t) /\ c = "{x}"
      <4>1. FlatMap(g, Append(t, c)) = F \o prepared /\ prepared \in Seq(B)
        BY <1>1, <2>1, <3>2 DEF prepared
      <4>2. Browsed(F \o prepared) = Browsed(prepared)
        BY <2>1, <2>2, <3>2, <4>1, BrowsedFromFresh
      <4> QED BY <1>3, <4>1, <4>2
    <3>3. CASE OneHole(t) /\ c = "<p>"
      <4> DEFINE page == FlatMap(g, Append(t, c))
      <4>1. Browsed(page) = [ent |-> <<>>, text |-> st.text \o st.ent]
        BY <2>4, <3>3
      <4>0. Browsed(page).text = st.text \o st.ent /\ Browsed(page).ent = <<>>
        <5>1. \A r, a, b : r = [ent |-> a, text |-> b] => r.text = b /\ r.ent = a
          OBVIOUS
        <5> HIDE DEF page, st
        <5> QED BY <4>1, <5>1
      <4>2. st.text \in Seq(T) /\ st.ent \in Seq(T)
        BY <2>3, EntsAre DEF Browser, Shows
      <4>3. (st.text \o st.ent) \o <<>> = st.text \o st.ent
        BY <4>2, ConcatProperties, ConcatEmptySeq
      <4>4. Shown(page) = Shown(F)
        <5> HIDE DEF page, st
        <5>1. Shown(page) = Browsed(page).text \o Browsed(page).ent
          BY <1>3
        <5>2. Shown(F) = st.text \o st.ent
          BY <1>3 DEF st
        <5> QED BY <4>0, <4>3, <5>1, <5>2
      <4> QED BY <2>2, <3>3, <4>4
    <3> QED BY <3>1, <3>2, <3>3
  <2> QED BY <2>1, <2>5, <2>6 DEF P
<1> HIDE DEF P
<1>6. Seq(Pattern) \subseteq P
  BY <1>4, <1>5, SeqSet
<1>7. OneHole(template) => Shown(FlatMap(g, template)) = Shown(prepared)
  BY <1>6 DEF P
<1> QED BY <1>2, <1>7 DEF prepared

-----------------------------------------------------------------------------
(* The entries of a map.                                                   *)

Texts == Seq(Chars)
Entry == [key : Texts, val : Texts]
Of(k) == {e \in Entry : e.key = k}
KeysIn(s) == {e.key : e \in ToSet(s)}
Vals(s) == [i \in DOMAIN s |-> s[i].val]
Block(m, k) == [j \in DOMAIN m[k] |-> [key |-> k, val |-> m[k][j]]]
Distinct(s) == \A i, j \in DOMAIN s : s[i] = s[j] => i = j

LEMMA ValsAre ==
    /\ Vals(<<>>) = <<>>
    /\ \A s \in Seq(Entry) :
          /\ Vals(s) \in Seq(Texts)
          /\ Len(Vals(s)) = Len(s) /\ DOMAIN Vals(s) = DOMAIN s
          /\ Vals(s) = <<>> <=> s = <<>>
          /\ s # <<>> => Head(Vals(s)) = Head(s).val
<1>1. Vals(<<>>) = <<>>
  BY DEF Vals
<1>2. ASSUME NEW s \in Seq(Entry)
      PROVE  /\ Vals(s) \in Seq(Texts)
             /\ Len(Vals(s)) = Len(s) /\ DOMAIN Vals(s) = DOMAIN s
             /\ Vals(s) = <<>> <=> s = <<>>
             /\ s # <<>> => Head(Vals(s)) = Head(s).val
  <2>1. Len(s) \in Nat /\ DOMAIN s = 1..Len(s) /\ \A i \in 1..Len(s) : s[i] \in Entry
    BY LenProperties, ElementOfSeq
  <2>2. Vals(s) \in [1..Len(s) -> Texts]
    BY <2>1 DEF Vals, Entry
  <2>3. Vals(s) \in Seq(Texts) /\ Len(Vals(s)) = Len(s) /\ DOMAIN Vals(s) = DOMAIN s
    BY <2>1, <2>2
  <2>4. Vals(s) = <<>> <=> s = <<>>
    BY <2>3, EmptySeq
  <2>5. ASSUME s # <<>> PROVE Head(Vals(s)) = Head(s).val
    <3>1. Len(s) \in Nat \ {0}
      BY <2>5, EmptySeq
    <3>2. 1 \in DOMAIN s
      BY <2>1, <3>1
    <3>3. Head(s) = s[1] /\ Head(Vals(s)) = Vals(s)[1]
      BY <2>3, <2>4, <2>5
    <3> QED BY <3>2, <3>3 DEF Vals
  <2> QED BY <2>3, <2>4, <2>5
<1> QED BY <1>1, <1>2

LEMMA ValsOfConcat ==
    ASSUME NEW s \in Seq(Entry), NEW t \in Seq(Entry)
    PROVE  Vals(s \o t) = Vals(s) \o Vals(t)
<1> DEFINE n == Len(s)
           k == Len(t)
<1>1. /\ n \in Nat /\ k \in Nat /\ DOMAIN s = 1..n /\ DOMAIN t = 1..k
      /\ s \o t \in Seq(Entry) /\ Len(s \o t) = n + k /\ DOMAIN (s \o t) = 1..n + k
      /\ \A i \in 1..n + k : (s \o t)[i] = IF i <= n THEN s[i] ELSE t[i - n]
  BY ConcatProperties, LenProperties
<1>2. /\ Vals(s) \in Seq(Texts) /\ Len(Vals(s)) = n
      /\ Vals(t) \in Seq(Texts) /\ Len(Vals(t)) = k
      /\ Vals(s \o t) \in Seq(Texts) /\ Len(Vals(s \o t)) = n + k
  BY <1>1, ValsAre
<1>3. /\ Vals(s) \o Vals(t) \in Seq(Texts) /\ Len(Vals(s) \o Vals(t)) = n + k
      /\ \A i \in 1..n + k : (Vals(s) \o Vals(t))[i] = IF i <= n THEN Vals(s)[i] ELSE Vals(t)[i - n]
  BY <1>2, ConcatProperties
<1>4. ASSUME NEW i \in 1..n + k PROVE Vals(s \o t)[i] = (Vals(s) \o Vals(t))[i]
  <2>1. Vals(s \o t)[i] = (s \o t)[i].val
    BY <1>1 DEF Vals
  <2>2. CASE i <= n
    <3>1. i \in 1..n
      BY <1>1, <2>2
    <3>2. Vals(s)[i] = s[i].val
      BY <1>1, <3>1 DEF Vals
    <3> HIDE DEF n, k
    <3> QED BY <1>1, <1>3, <2>1, <2>2, <3>2
  <2>3. CASE ~(i <= n)
    <3>1. i - n \in 1..k
      BY <1>1, <2>3
    <3>2. Vals(t)[i - n] = t[i - n].val
      BY <1>1, <3>1 DEF Vals
    <3> HIDE DEF n, k
    <3> QED BY <1>1, <1>3, <2>1, <2>3, <3>2
  <2> QED BY <2>2, <2>3
<1> QED BY <1>2, <1>3, <1>4, SeqEqual

LEMMA BlockIs ==
    ASSUME NEW m, IsMultiMap(m), NEW k \in DOMAIN m
    PROVE  /\ Block(m, k) \in Seq(Entry) /\ Block(m, k) # <<>>
           /\ ToSet(Block(m, k)) \subseteq Of(k) /\ KeysIn(Block(m, k)) = {k}
           /\ Vals(Block(m, k)) = m[k]
<1> DEFINE n == Len(m[k])
           b == Block(m, k)
<1>1. /\ k \in Texts /\ m[k] \in Seq(Texts) /\ n \in Nat \ {0} /\ DOMAIN m[k] = 1..n
      /\ \A j \in 1..n : m[k][j] \in Texts
  BY LenProperties, EmptySeq, ElementOfSeq DEF IsMultiMap, Texts
<1>2. /\ DOMAIN b = 1..n
      /\ \A j \in 1..n : /\ b[j] = [key |-> k, val |-> m[k][j]] /\ b[j] \in Entry
                         /\ b[j].key = k /\ b[j].val = m[k][j]
  BY <1>1 DEF Block, Entry
<1>3. b \in Seq(Entry) /\ b # <<>> /\ Len(b) = n
  <2>1. b \in [1..n -> Entry]
    BY <1>2 DEF Block
  <2>2. b \in Seq(Entry) /\ Len(b) = n
    BY <1>1, <2>1
  <2> QED BY <1>1, <2>2, EmptySeq
<1>4. ToSet(b) \subseteq Of(k)
  BY <1>2 DEF ToSet, Of
<1>5. KeysIn(b) = {k}
  <2>1. b[1] \in ToSet(b) /\ b[1].key = k
    BY <1>1, <1>2 DEF ToSet
  <2> QED BY <1>4, <2>1 DEF KeysIn, Of
<1>6. Vals(b) = m[k]
  <2>1. Vals(b) \in Seq(Texts) /\ Len(Vals(b)) = n
    BY <1>3, ValsAre
  <2>2. \A i \in 1..n : Vals(b)[i] = m[k][i]
    BY <1>2 DEF Vals
  <2> QED BY <1>1, <2>1, <2>2, SeqEqual
<1> QED BY <1>3, <1>4, <1>5, <1>6

\* The entries of a sequence of keys, key by key.
LEMMA FlatMapEntries ==
    ASSUME NEW K, NEW g \in [K -> Seq(Entry)]
    PROVE  /\ FlatMap(g, <<>>) = <<>>
           /\ \A u \in Seq(K), c \in K : /\ FlatMap(g, u) \in Seq(Entry)
                                       /\ FlatMap(g, Append(u, c)) = FlatMap(g, u) \o g[c]
BY FlatMapAppend

\* What is written for a sequence of things, one by one.
LEMMA FlatMapWrites ==
    ASSUME NEW K, NEW g \in [K -> Seq(Chars)]
    PROVE  \A u \in Seq(K), c \in K : /\ FlatMap(g, u) \in Seq(Chars)
                                    /\ FlatMap(g, Append(u, c)) = FlatMap(g, u) \o g[c]
BY FlatMapAppend

\* Texts one after another, however they are taken together.
LEMMA ConcatTexts ==
    \A a, b \in Texts : /\ a \o b \in Texts
                        /\ \A c \in Texts : (a \o b) \o c = a \o (b \o c)
<1>1. \A a, b \in Seq(Chars) : a \o b \in Seq(Chars)
  BY ConcatProperties
<1>2. ASSUME NEW a \in Seq(Chars), NEW b \in Seq(Chars), NEW c \in Seq(Chars)
      PROVE  (a \o b) \o c = a \o (b \o c)
  BY ConcatAssociative
<1> QED BY <1>1, <1>2 DEF Texts

\* A finite set with one more element.
LEMMA OneMore ==
    ASSUME NEW S, IsFiniteSet(S), NEW x
    PROVE  IsFiniteSet(S \cup {x})
BY FS_AddElement

LEMMA FromMapAppend ==
    ASSUME NEW m, IsMultiMap(m)
    PROVE  /\ FromMap(m, <<>>) = <<>>
           /\ \A o \in Seq(DOMAIN m), k \in DOMAIN m :
                 /\ FromMap(m, o) \in Seq(Entry)
                 /\ FromMap(m, Append(o, k)) = FromMap(m, o) \o Block(m, k)
<1> DEFINE g == [k \in DOMAIN m |-> Block(m, k)]
<1>1. g \in [DOMAIN m -> Seq(Entry)]
  BY BlockIs
<1>2. ASSUME NEW o \in Seq(DOMAIN m) PROVE FromMap(m, o) = FlatMap(g, o)
  <2>1. \A i \in DOMAIN o : o[i] \in DOMAIN m
    BY LenProperties, ElementOfSeq
  <2>2. [i \in DOMAIN o |-> [j \in DOMAIN m[o[i]] |-> [key |-> o[i], val |-> m[o[i]][j]]]]
        = [i \in DOMAIN o |-> g[o[i]]]
    BY <2>1 DEF Block
  <2> HIDE DEF g
  <2> QED BY <2>2 DEF FromMap, FlatMap
<1>3. \A k \in DOMAIN m : g[k] = Block(m, k)
  OBVIOUS
<1> HIDE DEF g
<1>0. /\ FlatMap(g, <<>>) = <<>>
      /\ \A o \in Seq(DOMAIN m), k \in DOMAIN m :
            FlatMap(g, o) \in Seq(Entry) /\ FlatMap(g, Append(o, k)) = FlatMap(g, o) \o g[k]
  BY <1>1, FlatMapEntries
<1>4. FromMap(m, <<>>) = <<>>
  BY <1>2, <1>0, EmptySeq
<1>5. ASSUME NEW o \in Seq(DOMAIN m), NEW k \in DOMAIN m
      PROVE  /\ FromMap(m, o) \in Seq(Entry)
             /\ FromMap(m, Append(o, k)) = FromMap(m, o) \o Block(m, k)
  <2>1. FlatMap(g, o) \in Seq(Entry) /\ FlatMap(g, Append(o, k)) = FlatMap(g, o) \o g[k]
    BY <1>0
  <2>2. Append(o, k) \in Seq(DOMAIN m)
    BY AppendProperties
  <2> QED BY <1>2, <1>3, <2>1, <2>2
<1> QED BY <1>4, <1>5

LEMMA DistinctAppend ==
    ASSUME NEW D, NEW o \in Seq(D), NEW k \in D, Distinct(Append(o, k))
    PROVE  Distinct(o) /\ k \notin ToSet(o)
<1> DEFINE q == Append(o, k)
           n == Len(o)
<1>1. /\ n \in Nat /\ DOMAIN o = 1..n /\ DOMAIN q = 1..n + 1
      /\ q[n + 1] = k /\ \A i \in 1..n : q[i] = o[i]
  BY AppendProperties, LenProperties
<1>2. /\ n + 1 \in 1..n + 1
      /\ \A i \in 1..n : i \in 1..n + 1 /\ i # n + 1
  BY <1>1
<1>3. \A i, j \in 1..n + 1 : q[i] = q[j] => i = j
  BY <1>1 DEF Distinct
<1> HIDE DEF q, n
<1>4. Distinct(o)
  BY <1>1, <1>2, <1>3 DEF Distinct
<1>5. k \notin ToSet(o)
  BY <1>1, <1>2, <1>3 DEF ToSet
<1> QED BY <1>4, <1>5

LEMMA OneMoreDistinct ==
    ASSUME NEW D, NEW o \in Seq(D), NEW k \in D, Distinct(o), k \notin ToSet(o)
    PROVE  Distinct(Append(o, k))
<1> DEFINE q == Append(o, k)
           n == Len(o)
<1>1. /\ n \in Nat /\ DOMAIN o = 1..n /\ DOMAIN q = 1..n + 1
      /\ q[n + 1] = k /\ \A i \in 1..n : q[i] = o[i]
  BY AppendProperties, LenProperties
<1>2. \A i \in 1..n : o[i] # k /\ i \in DOMAIN o
  BY <1>1 DEF ToSet
<1>3. \A i, j \in 1..n : o[i] = o[j] => i = j
  BY <1>1 DEF Distinct
<1> HIDE DEF q, n
<1>4. ASSUME NEW i \in 1..n + 1, NEW j \in 1..n + 1, q[i] = q[j] PROVE i = j
  <2>1. (i = n + 1 \/ i \in 1..n) /\ (j = n + 1 \/ j \in 1..n)
    BY <1>1
  <2> QED BY <1>1, <1>2, <1>3, <1>4, <2>1
<1>5. Distinct(q)
  BY <1>1, <1>4 DEF Distinct
<1> QED BY <1>5 DEF q

\* What is under a key of the map is a block of its entries.
LEMMA FromMapOf ==
    ASSUME NEW m, IsMultiMap(m)
    PROVE  \A o \in Seq(DOMAIN m) :
              /\ FromMap(m, o) \in Seq(Entry)
              /\ KeysIn(FromMap(m, o)) = ToSet(o)
              /\ Distinct(o) => \A k \in DOMAIN m : Only(FromMap(m, o), Of(k)) =
                                    IF k \in ToSet(o) THEN Block(m, k) ELSE <<>>
<1> DEFINE D == DOMAIN m
           Good(o) == \A k \in D : Only(FromMap(m, o), Of(k)) =
                                      IF k \in ToSet(o) THEN Block(m, k) ELSE <<>>
           P == {o \in Seq(D) : /\ FromMap(m, o) \in Seq(Entry)
                                /\ KeysIn(FromMap(m, o)) = ToSet(o)
                                /\ Distinct(o) => Good(o)}
<1>1. <<>> \in P
  <2>1. FromMap(m, <<>>) = <<>> /\ ToSet(<<>>) = {} /\ \A S : Only(<<>>, S) = <<>>
    BY FromMapAppend, Elements, OnlyAppend
  <2>2. KeysIn(<<>>) = {}
    BY <2>1 DEF KeysIn
  <2> QED BY <2>1, <2>2, EmptySeq
<1>2. ASSUME NEW o \in Seq(D) \cap P, NEW c \in D PROVE Append(o, c) \in P
  <2> DEFINE F == FromMap(m, o)
             q == Append(o, c)
  <2>1. /\ o \in Seq(D) /\ q \in Seq(D) /\ ToSet(q) = ToSet(o) \cup {c}
        /\ FromMap(m, q) = F \o Block(m, c) /\ F \in Seq(Entry)
    BY AppendProperties, Elements, FromMapAppend
  <2>2. KeysIn(F) = ToSet(o) /\ (Distinct(o) => Good(o))
    BY <1>2
  <2> HIDE DEF P
  <2>3. /\ Block(m, c) \in Seq(Entry) /\ ToSet(Block(m, c)) \subseteq Of(c)
        /\ KeysIn(Block(m, c)) = {c}
    BY BlockIs
  <2>4. FromMap(m, q) \in Seq(Entry) /\ ToSet(FromMap(m, q)) = ToSet(F) \cup ToSet(Block(m, c))
    BY <2>1, <2>3, ConcatProperties, ElementsOfConcat
  <2>5. KeysIn(FromMap(m, q)) = ToSet(q)
    BY <2>1, <2>2, <2>3, <2>4 DEF KeysIn
  <2>6. ASSUME Distinct(q) PROVE Good(q)
    <3>1. Distinct(o) /\ c \notin ToSet(o)
      BY <2>1, <2>6, DistinctAppend
    <3>2. SUFFICES ASSUME NEW k \in D
                   PROVE  Only(FromMap(m, q), Of(k)) = IF k \in ToSet(q) THEN Block(m, k) ELSE <<>>
      OBVIOUS
    <3>3. Only(F, Of(k)) = IF k \in ToSet(o) THEN Block(m, k) ELSE <<>>
      BY <2>2, <3>1
    <3> HIDE DEF F, q, D
    <3>4. Only(FromMap(m, q), Of(k)) = Only(F, Of(k)) \o Only(Block(m, c), Of(k))
      BY <2>1, <2>3, OnlyConcat
    <3>5. CASE k = c
      <4>1. Only(Block(m, c), Of(k)) = Block(m, c)
        BY <2>3, <3>5, OnlyElements
      <4>2. Only(F, Of(k)) = <<>>
        BY <3>1, <3>3, <3>5
      <4>3. <<>> \o Block(m, c) = Block(m, c)
        BY <2>3, ConcatEmptySeq
      <4> QED BY <2>1, <3>4, <3>5, <4>1, <4>2, <4>3
    <3>6. CASE k # c
      <4>1. Of(c) \cap Of(k) = {}
        BY <3>6 DEF Of
      <4>2. Only(Block(m, c), Of(k)) = <<>>
        BY <2>3, <4>1, OnlyElements
      <4>3. Only(F, Of(k)) \in Seq(Entry)
        BY <2>1, OnlyElements
      <4>4. Only(F, Of(k)) \o <<>> = Only(F, Of(k))
        BY <4>3, ConcatEmptySeq
      <4> QED BY <2>1, <3>3, <3>4, <3>6, <4>2, <4>4
    <3> QED BY <3>5, <3>6
  <2> QED BY <2>1, <2>4, <2>5, <2>6 DEF P
<1> HIDE DEF P
<1>3. Seq(D) \subseteq P
  BY <1>1, <1>2, SeqSet
<1> QED BY <1>3 DEF P

\* Each element of a finite set once, in some order.
LEMMA SetToSeqsIs ==
    ASSUME NEW S, IsFiniteSet(S), NEW o
    PROVE  o \in SetToSeqs(S) <=> o \in Seq(S) /\ Distinct(o) /\ ToSet(o) = S
<1> DEFINE n == Cardinality(S)
           D == 1..n
<1>1. n \in Nat /\ IsFiniteSet(D) /\ Cardinality(D) = n
  <2>1. n \in Nat
    BY FS_CardinalityType
  <2>2. 1 > n => n = 0
    BY <2>1
  <2>3. Cardinality(D) = n
    BY <2>1, <2>2, FS_Interval
  <2> QED BY <2>1, <2>3, FS_Interval
<1>2. ASSUME o \in SetToSeqs(S) PROVE o \in Seq(S) /\ Distinct(o) /\ ToSet(o) = S
  <2>1. o \in [D -> S] /\ \A i, j \in D : i # j => o[i] # o[j]
    BY <1>2 DEF SetToSeqs
  <2>2. DOMAIN o = D /\ o \in Seq(S) /\ Len(o) = n
    BY <1>1, <2>1
  <2>3. Distinct(o)
    BY <2>1, <2>2 DEF Distinct
  <2>4. o \in Injection(D, S)
    BY <2>1 DEF Injection, IsInjective
  <2>5. o \in Surjection(D, S)
    BY <1>1, <2>4, FS_Injection
  <2>6. ToSet(o) = S
    BY <2>2, <2>5 DEF Surjection, ToSet
  <2> QED BY <2>2, <2>3, <2>6
<1>3. ASSUME o \in Seq(S), Distinct(o), ToSet(o) = S PROVE o \in SetToSeqs(S)
  <2> DEFINE E == 1..Len(o)
  <2>1. Len(o) \in Nat /\ DOMAIN o = E /\ o \in [E -> S]
    BY <1>3, LenProperties, ElementOfSeq
  <2>2. IsFiniteSet(E) /\ Cardinality(E) = Len(o)
    <3>1. 1 > Len(o) => Len(o) = 0
      BY <2>1
    <3> QED BY <2>1, <3>1, FS_Interval
  <2>3. o \in Bijection(E, S)
    <3>1. o \in Injection(E, S)
      BY <1>3, <2>1 DEF Distinct, Injection, IsInjective
    <3>2. o \in Surjection(E, S)
      BY <1>3, <2>1 DEF Surjection, ToSet
    <3> QED BY <3>1, <3>2 DEF Bijection
  <2>4. ExistsBijection(E, S)
    BY <2>3 DEF ExistsBijection
  <2>5. n = Len(o)
    BY <2>2, <2>4, FS_Bijection
  <2> QED BY <1>3, <2>1, <2>5 DEF SetToSeqs, Distinct
<1> QED BY <1>2, <1>3

LEMMA OrderIs ==
    ASSUME NEW m, IsMultiMap(m), NEW o \in Orders(m)
    PROVE  o \in Seq(DOMAIN m) /\ Distinct(o) /\ ToSet(o) = DOMAIN m
BY SetToSeqsIs DEF Orders, IsMultiMap

\* The entries of a map, in any order, are its values under its keys.
LEMMA MapLookup ==
    ASSUME NEW m, IsMultiMap(m), NEW o \in Orders(m)
    PROVE  /\ FromMap(m, o) \in Seq(Entry)
           /\ KeysIn(FromMap(m, o)) = DOMAIN m
           /\ \A k : /\ Only(FromMap(m, o), Of(k)) \in Seq(Entry)
                     /\ Vals(Only(FromMap(m, o), Of(k))) = At(m, k)
<1> DEFINE F == FromMap(m, o)
<1>1. o \in Seq(DOMAIN m) /\ Distinct(o) /\ ToSet(o) = DOMAIN m
  BY OrderIs
<1>2. /\ F \in Seq(Entry) /\ KeysIn(F) = DOMAIN m
      /\ \A k \in DOMAIN m : Only(F, Of(k)) = Block(m, k)
  BY <1>1, FromMapOf
<1> HIDE DEF F
<1>3. ASSUME NEW k
      PROVE  Only(F, Of(k)) \in Seq(Entry) /\ Vals(Only(F, Of(k))) = At(m, k)
  <2>1. Only(F, Of(k)) \in Seq(Entry)
    BY <1>2, OnlyElements
  <2>2. CASE k \in DOMAIN m
    <3>1. Only(F, Of(k)) = Block(m, k)
      BY <1>2, <2>2
    <3> QED BY <2>1, <2>2, <3>1, BlockIs DEF At
  <2>3. CASE k \notin DOMAIN m
    <3>1. ToSet(F) \cap Of(k) = {}
      BY <1>2, <2>3 DEF KeysIn, Of
    <3>2. Only(F, Of(k)) = <<>>
      BY <1>2, <3>1, OnlyElements
    <3> QED BY <2>1, <2>3, <3>2, ValsAre DEF At
  <2> QED BY <2>2, <2>3
<1> QED BY <1>2, <1>3 DEF F

-----------------------------------------------------------------------------
(* The order of texts.                                                     *)

\* Of two texts one is before the other, and what is between them is between them.
LEMMA BeforeIsTotal ==
    ASSUME NEW u \in Texts, NEW v \in Texts, u # v
    PROVE  Before(u, v) \/ Before(v, u)
<1> DEFINE D == DOMAIN u \cap DOMAIN v
           Diff == {i \in D : u[i] # v[i]}
<1>1. /\ Len(u) \in Nat /\ DOMAIN u = 1..Len(u) /\ \A i \in 1..Len(u) : u[i] \in Chars
      /\ Len(v) \in Nat /\ DOMAIN v = 1..Len(v) /\ \A i \in 1..Len(v) : v[i] \in Chars
  BY LenProperties, ElementOfSeq DEF Texts
<1>2. /\ \A c \in Chars : Byte[c] \in 0..255
      /\ \A c, d \in Chars : c # d => Byte[c] # Byte[d]
  BY TextConstantsOK
<1>3. CASE Diff # {}
  <2>1. Diff \in SUBSET Nat
    BY <1>1
  <2>2. PICK i \in Diff : \A j \in Diff : i <= j
    BY <1>3, <2>1, LeastOf
  <2>3. /\ i \in DOMAIN u /\ i \in DOMAIN v /\ i \in Nat /\ u[i] \in Chars /\ v[i] \in Chars
        /\ u[i] # v[i]
    BY <1>1, <2>2
  <2>4. ASSUME NEW j \in 1..i - 1 PROVE j \in DOMAIN u /\ j \in DOMAIN v /\ u[j] = v[j]
    <3>1. j \in DOMAIN u /\ j \in DOMAIN v /\ ~(i <= j)
      BY <1>1, <2>3
    <3> QED BY <2>2, <3>1
  <2>5. Byte[u[i]] < Byte[v[i]] \/ Byte[v[i]] < Byte[u[i]]
    <3>1. Byte[u[i]] \in 0..255 /\ Byte[v[i]] \in 0..255 /\ Byte[u[i]] # Byte[v[i]]
      BY <1>2, <2>3
    <3>2. \A a, b \in 0..255 : a # b => a < b \/ b < a
      OBVIOUS
    <3> QED BY <3>1, <3>2, Zenon
  <2> QED BY <2>3, <2>4, <2>5 DEF Before
<1>4. CASE Diff = {}
  <2>1. \A i \in D : u[i] = v[i]
    BY <1>4
  <2>2. CASE Len(u) = Len(v)
    <3>1. u = v
      <4>1. \A i \in 1..Len(u) : u[i] = v[i]
        BY <1>1, <2>1, <2>2
      <4> QED BY <2>2, <4>1, SeqEqual DEF Texts
    <3> QED BY <3>1
  <2>3. CASE Len(u) < Len(v)
    <3>1. /\ Len(u) + 1 \in DOMAIN v /\ Len(u) + 1 \notin DOMAIN u
          /\ \A j \in 1..(Len(u) + 1) - 1 : j \in D
      BY <1>1, <2>3
    <3> QED BY <2>1, <3>1 DEF Before
  <2>4. CASE Len(v) < Len(u)
    <3>1. /\ Len(v) + 1 \in DOMAIN u /\ Len(v) + 1 \notin DOMAIN v
          /\ \A j \in 1..(Len(v) + 1) - 1 : j \in D
      BY <1>1, <2>4
    <3> QED BY <2>1, <3>1 DEF Before
  <2>5. \A a, b \in Nat : a = b \/ a < b \/ b < a
    OBVIOUS
  <2>6. Len(u) = Len(v) \/ Len(u) < Len(v) \/ Len(v) < Len(u)
    BY <1>1, <2>5, Zenon
  <2> QED BY <2>2, <2>3, <2>4, <2>6
<1> QED BY <1>3, <1>4

LEMMA BeforeIsTransitive ==
    ASSUME NEW u \in Texts, NEW v \in Texts, NEW w \in Texts, Before(u, v), Before(v, w)
    PROVE  Before(u, w)
<1>1. /\ Len(u) \in Nat /\ DOMAIN u = 1..Len(u) /\ \A i \in 1..Len(u) : u[i] \in Chars
      /\ Len(v) \in Nat /\ DOMAIN v = 1..Len(v) /\ \A i \in 1..Len(v) : v[i] \in Chars
      /\ Len(w) \in Nat /\ DOMAIN w = 1..Len(w) /\ \A i \in 1..Len(w) : w[i] \in Chars
      /\ \A c \in Chars : Byte[c] \in 0..255
  BY LenProperties, ElementOfSeq, TextConstantsOK DEF Texts
<1>2. PICK i \in DOMAIN v : /\ \A j \in 1..i - 1 : j \in DOMAIN u /\ u[j] = v[j]
                            /\ i \in DOMAIN u => Byte[u[i]] < Byte[v[i]]
  BY DEF Before
<1>3. PICK k \in DOMAIN w : /\ \A j \in 1..k - 1 : j \in DOMAIN v /\ v[j] = w[j]
                            /\ k \in DOMAIN v => Byte[v[k]] < Byte[w[k]]
  BY DEF Before
<1>4. i \in Nat /\ k \in Nat
  BY <1>1
<1>5. CASE i < k
  <2>1. i \in 1..k - 1 /\ i \in DOMAIN w
    BY <1>1, <1>4, <1>5
  <2>2. \A j \in 1..i - 1 : j \in 1..k - 1
    BY <1>4, <1>5
  <2>3. v[i] = w[i] /\ \A j \in 1..i - 1 : j \in DOMAIN u /\ u[j] = w[j]
    BY <1>2, <1>3, <2>1, <2>2
  <2> QED BY <1>2, <2>1, <2>3 DEF Before
<1>6. CASE k < i
  <2>1. k \in 1..i - 1 /\ k \in DOMAIN v
    BY <1>1, <1>4, <1>6
  <2>2. \A j \in 1..k - 1 : j \in 1..i - 1
    BY <1>4, <1>6
  <2>3. u[k] = v[k] /\ \A j \in 1..k - 1 : j \in DOMAIN u /\ u[j] = w[j]
    BY <1>2, <1>3, <2>1, <2>2
  <2>4. Byte[u[k]] < Byte[w[k]]
    BY <1>3, <2>1, <2>3
  <2> QED BY <2>3, <2>4 DEF Before
<1>7. CASE i = k
  <2>1. \A j \in 1..k - 1 : j \in DOMAIN u /\ u[j] = w[j]
    BY <1>2, <1>3, <1>7
  <2>2. ASSUME k \in DOMAIN u PROVE Byte[u[k]] < Byte[w[k]]
    <3>1. Byte[u[k]] < Byte[v[k]] /\ Byte[v[k]] < Byte[w[k]]
      BY <1>2, <1>3, <1>7, <2>2
    <3>2. u[k] \in Chars /\ v[k] \in Chars /\ w[k] \in Chars
      BY <1>1, <1>7, <2>2
    <3>3. Byte[u[k]] \in Int /\ Byte[v[k]] \in Int /\ Byte[w[k]] \in Int
      <4>1. 0..255 \subseteq Int
        OBVIOUS
      <4> QED BY <1>1, <3>2, <4>1, Zenon
    <3>4. \A a, b, c \in Int : a < b /\ b < c => a < c
      OBVIOUS
    <3> QED BY <3>1, <3>3, <3>4, Zenon
  <2> QED BY <2>1, <2>2 DEF Before
<1> QED BY <1>4, <1>5, <1>6, <1>7

\* Some text of a set is the last.
LEMMA LastText ==
    ASSUME NEW n \in Nat
    PROVE  \A S \in SUBSET Texts :
              IsFiniteSet(S) /\ Cardinality(S) = n + 1 =>
                  \E x \in S : \A y \in S \ {x} : Before(y, x)
<1> DEFINE P == {k \in Nat : \A S \in SUBSET Texts :
                    IsFiniteSet(S) /\ Cardinality(S) = k + 1 =>
                        \E x \in S : \A y \in S \ {x} : Before(y, x)}
<1>1. 0 \in P
  <2>1. SUFFICES ASSUME NEW S \in SUBSET Texts, IsFiniteSet(S), Cardinality(S) = 1
                 PROVE  \E x \in S : \A y \in S \ {x} : Before(y, x)
    OBVIOUS
  <2>2. PICK x : S = {x}
    BY <2>1, FS_Singleton
  <2> QED BY <2>2
<1>2. ASSUME NEW k \in Nat, k \in P PROVE k + 1 \in P
  <2>1. SUFFICES ASSUME NEW S \in SUBSET Texts, IsFiniteSet(S), Cardinality(S) = (k + 1) + 1
                 PROVE  \E x \in S : \A y \in S \ {x} : Before(y, x)
    OBVIOUS
  <2>2. PICK z \in S : TRUE
    <3>1. Cardinality(S) # 0
      BY <2>1
    <3> QED BY <2>1, <3>1, FS_EmptySet
  <2>3. IsFiniteSet(S \ {z}) /\ Cardinality(S \ {z}) = k + 1
    BY <2>1, <2>2, FS_RemoveElement
  <2>4. PICK x \in S \ {z} : \A y \in (S \ {z}) \ {x} : Before(y, x)
    BY <1>2, <2>3
  <2>5. x \in Texts /\ z \in Texts /\ x # z
    BY <2>4
  <2>6. CASE Before(z, x)
    BY <2>4, <2>6
  <2>7. CASE Before(x, z)
    <3>1. ASSUME NEW y \in S \ {z} PROVE Before(y, z)
      <4>1. CASE y = x
        BY <2>7, <4>1
      <4>2. CASE y # x
        BY <2>4, <2>5, <2>7, <4>2, BeforeIsTransitive
      <4> QED BY <4>1, <4>2
    <3> QED BY <3>1
  <2> QED BY <2>5, <2>6, <2>7, BeforeIsTotal
<1> HIDE DEF P
<1>3. \A k \in Nat : k \in P
  BY <1>1, <1>2, NatSet
<1> QED BY <1>3 DEF P

\* So that a finite set of texts has an order.
LEMMA SortedIs ==
    ASSUME NEW S \in SUBSET Texts, IsFiniteSet(S)
    PROVE  /\ Sorted(S) \in Seq(S) /\ Distinct(Sorted(S)) /\ ToSet(Sorted(S)) = S
           /\ Sorted(S) \in SetToSeqs(S)
<1> DEFINE Goes(s) == \A i, j \in DOMAIN s : i < j => Before(s[i], s[j])
           P == {k \in Nat : \A T \in SUBSET Texts :
                    IsFiniteSet(T) /\ Cardinality(T) = k =>
                        \E s \in Seq(T) : Distinct(s) /\ ToSet(s) = T /\ Goes(s)}
<1>1. 0 \in P
  <2>1. SUFFICES ASSUME NEW T \in SUBSET Texts, IsFiniteSet(T), Cardinality(T) = 0
                 PROVE  \E s \in Seq(T) : Distinct(s) /\ ToSet(s) = T /\ Goes(s)
    OBVIOUS
  <2>2. T = {} /\ <<>> \in Seq(T) /\ ToSet(<<>>) = {} /\ DOMAIN <<>> = {}
    BY <2>1, FS_EmptySet, EmptySeq, Elements
  <2>3. Distinct(<<>>) /\ Goes(<<>>)
    BY <2>2 DEF Distinct
  <2> QED BY <2>2, <2>3
<1>2. ASSUME NEW k \in Nat, k \in P PROVE k + 1 \in P
  <2>1. SUFFICES ASSUME NEW T \in SUBSET Texts, IsFiniteSet(T), Cardinality(T) = k + 1
                 PROVE  \E s \in Seq(T) : Distinct(s) /\ ToSet(s) = T /\ Goes(s)
    OBVIOUS
  <2>2. PICK x \in T : \A y \in T \ {x} : Before(y, x)
    BY <2>1, LastText
  <2>3. IsFiniteSet(T \ {x}) /\ Cardinality(T \ {x}) = k
    <3>1. x \in T /\ IsFiniteSet(T) /\ (k + 1) - 1 = k
      BY <2>1
    <3>2. IsFiniteSet(T \ {x}) /\ Cardinality(T \ {x}) = Cardinality(T) - 1
      BY <3>1, FS_RemoveElement
    <3> QED BY <2>1, <3>1, <3>2
  <2>4. PICK s \in Seq(T \ {x}) : Distinct(s) /\ ToSet(s) = T \ {x} /\ Goes(s)
    BY <1>2, <2>3
  <2> DEFINE q == Append(s, x)
             n == Len(s)
  <2>5. s \in Seq(T) /\ q \in Seq(T) /\ ToSet(q) = T
    <3>1. s \in Seq(T)
      BY <2>4, Elements
    <3>2. q \in Seq(T) /\ ToSet(q) = ToSet(s) \cup {x}
      BY <3>1, AppendProperties, Elements
    <3> QED BY <2>4, <3>1, <3>2
  <2>6. /\ n \in Nat /\ DOMAIN s = 1..n /\ DOMAIN q = 1..n + 1
        /\ q[n + 1] = x /\ \A i \in 1..n : q[i] = s[i] /\ s[i] \in T \ {x}
    BY <2>4, <2>5, AppendProperties, LenProperties, ElementOfSeq
  <2>7. \A i \in 1..n + 1 : i \in 1..n \/ i = n + 1
    BY <2>6
  <2> HIDE DEF q, n
  <2>8. Distinct(q)
    <3>1. \A i, j \in 1..n : q[i] = q[j] => i = j
      BY <2>4, <2>6 DEF Distinct
    <3>2. \A i \in 1..n : q[i] # q[n + 1]
      BY <2>6
    <3> QED BY <2>6, <2>7, <3>1, <3>2 DEF Distinct
  <2>9. Goes(q)
    <3>1. ASSUME NEW i \in DOMAIN q, NEW j \in DOMAIN q, i < j PROVE Before(q[i], q[j])
      <4>1. i \in 1..n
        BY <2>6, <2>7, <3>1
      <4>2. CASE j \in 1..n
        BY <2>4, <2>6, <3>1, <4>1, <4>2
      <4>3. CASE j = n + 1
        BY <2>2, <2>6, <4>1, <4>3
      <4> QED BY <2>6, <2>7, <4>2, <4>3
    <3> QED BY <3>1
  <2> QED BY <2>5, <2>8, <2>9
<1> HIDE DEF P
<1>3. \A k \in Nat : k \in P
  BY <1>1, <1>2, NatSet
<1>4. Cardinality(S) \in Nat
  BY FS_CardinalityType
<1>5. \E s \in Seq(S) : Distinct(s) /\ ToSet(s) = S /\ Goes(s)
  BY <1>3, <1>4 DEF P
<1>6. \E s \in SetToSeqs(S) : Goes(s)
  BY <1>5, SetToSeqsIs
<1>7. Sorted(S) \in SetToSeqs(S)
  BY <1>6 DEF Sorted
<1> QED BY <1>7, SetToSeqsIs

-----------------------------------------------------------------------------
(* The attributes of a request.                                            *)

Sources == {"args", "form", "values", "headers", "files"}

SentFrom(src, k) ==
    CASE src = "args" -> At(args, k)
      [] src = "form" -> At(form, k)
      [] src = "values" -> At(args, k) \o At(form, k)
      [] src = "headers" -> At(Headers, Canonical(k))
      [] src = "files" -> At(Files, k)

KeysFrom(src) ==
    CASE src = "args" -> DOMAIN args
      [] src = "form" -> DOMAIN form
      [] src = "values" -> DOMAIN args \cup DOMAIN form
      [] src = "headers" -> DOMAIN Headers
      [] src = "files" -> DOMAIN Files

\* A dict of texts, with its keys as they are looked up.
IsDict(d) ==
    /\ d.items \in Seq(Entry)
    /\ \A e \in ToSet(d.items) : normalize(d, e.key) = e.key

LEMMA OfConcat ==
    ASSUME NEW s \in Seq(Entry), NEW t \in Seq(Entry)
    PROVE  /\ s \o t \in Seq(Entry) /\ KeysIn(s \o t) = KeysIn(s) \cup KeysIn(t)
           /\ \A k : Vals(Only(s \o t, Of(k))) = Vals(Only(s, Of(k))) \o Vals(Only(t, Of(k)))
<1>1. s \o t \in Seq(Entry) /\ ToSet(s \o t) = ToSet(s) \cup ToSet(t)
  BY ConcatProperties, ElementsOfConcat
<1>2. KeysIn(s \o t) = KeysIn(s) \cup KeysIn(t)
  BY <1>1 DEF KeysIn
<1>3. ASSUME NEW k
      PROVE  Vals(Only(s \o t, Of(k))) = Vals(Only(s, Of(k))) \o Vals(Only(t, Of(k)))
  <2>1. Only(s \o t, Of(k)) = Only(s, Of(k)) \o Only(t, Of(k))
    BY OnlyConcat
  <2>2. Only(s, Of(k)) \in Seq(Entry) /\ Only(t, Of(k)) \in Seq(Entry)
    BY OnlyElements
  <2> QED BY <2>1, <2>2, ValsOfConcat
<1> QED BY <1>1, <1>2, <1>3

LEMMA AttrIs ==
    ASSUME IsMultiMap(args), IsMultiMap(form), NEW src \in Sources,
           NEW ao \in Orders(IF src = "headers" THEN Headers ELSE args),
           NEW fo \in Orders(IF src = "files" THEN Files ELSE form),
           NEW d, d = Attr(src, ao, fo)
    PROVE  /\ d.items \in Seq(Entry) /\ IsDict(d)
           /\ d.caseInsensitive = (src = "headers")
           /\ KeysIn(d.items) = KeysFrom(src)
           /\ \A k : Vals(Only(d.items, Of(normalize(d, k)))) = SentFrom(src, k)
<1>1. IsMultiMap(Headers) /\ IsMultiMap(Files) /\ \A k \in DOMAIN Headers : Canonical(k) = k
  BY PageConstantsOK
<1>2. CASE src = "headers"
  <2>1. d.items = FromMap(Headers, ao) /\ d.caseInsensitive = TRUE
    BY <1>2 DEF Attr
  <2>2. ao \in Orders(Headers)
    BY <1>2
  <2>3. /\ d.items \in Seq(Entry) /\ KeysIn(d.items) = DOMAIN Headers
        /\ \A k : Vals(Only(d.items, Of(k))) = At(Headers, k)
    BY <1>1, <2>1, <2>2, MapLookup
  <2>4. \A k : normalize(d, k) = Canonical(k)
    BY <2>1 DEF normalize
  <2>5. \A e \in ToSet(d.items) : normalize(d, e.key) = e.key
    BY <1>1, <2>3, <2>4 DEF KeysIn
  <2> QED BY <1>2, <2>1, <2>3, <2>4, <2>5 DEF IsDict, KeysFrom, SentFrom
<1>3. CASE src # "headers"
  <2>1. d.caseInsensitive = FALSE
    BY <1>3 DEF Attr, newMultiDict, newFilesDict, Sources
  <2>2. ao \in Orders(args)
    BY <1>3
  <2>3. \A k : normalize(d, k) = k
    BY <2>1 DEF normalize
  <2>4. ASSUME d.items \in Seq(Entry), KeysIn(d.items) = KeysFrom(src),
               \A k : Vals(Only(d.items, Of(k))) = SentFrom(src, k)
        PROVE  /\ d.items \in Seq(Entry) /\ IsDict(d)
               /\ d.caseInsensitive = (src = "headers")
               /\ KeysIn(d.items) = KeysFrom(src)
               /\ \A k : Vals(Only(d.items, Of(normalize(d, k)))) = SentFrom(src, k)
    BY <1>3, <2>1, <2>3, <2>4 DEF IsDict
  <2>5. CASE src = "args"
    <3>1. d.items = FromMap(args, ao)
      BY <2>5 DEF Attr, newMultiDict
    <3>2. /\ d.items \in Seq(Entry) /\ KeysIn(d.items) = DOMAIN args
          /\ \A k : Vals(Only(d.items, Of(k))) = At(args, k)
      BY <2>2, <3>1, MapLookup
    <3> QED BY <2>4, <2>5, <3>2 DEF KeysFrom, SentFrom
  <2>6. CASE src = "form"
    <3>1. d.items = FromMap(form, fo) /\ fo \in Orders(form)
      BY <2>6 DEF Attr, newMultiDict
    <3>2. /\ d.items \in Seq(Entry) /\ KeysIn(d.items) = DOMAIN form
          /\ \A k : Vals(Only(d.items, Of(k))) = At(form, k)
      BY <3>1, MapLookup
    <3> QED BY <2>4, <2>6, <3>2 DEF KeysFrom, SentFrom
  <2>7. CASE src = "values"
    <3> DEFINE A == FromMap(args, ao)
               F == FromMap(form, fo)
    <3>1. d.items = A \o F /\ fo \in Orders(form)
      BY <2>7 DEF Attr, newMultiDict
    <3>2. /\ A \in Seq(Entry) /\ KeysIn(A) = DOMAIN args
          /\ \A k : Vals(Only(A, Of(k))) = At(args, k)
      BY <2>2, MapLookup
    <3>3. /\ F \in Seq(Entry) /\ KeysIn(F) = DOMAIN form
          /\ \A k : Vals(Only(F, Of(k))) = At(form, k)
      BY <3>1, MapLookup
    <3> HIDE DEF A, F
    <3>4. /\ d.items \in Seq(Entry) /\ KeysIn(d.items) = DOMAIN args \cup DOMAIN form
          /\ \A k : Vals(Only(d.items, Of(k))) = At(args, k) \o At(form, k)
      <4>1. /\ A \o F \in Seq(Entry) /\ KeysIn(A \o F) = KeysIn(A) \cup KeysIn(F)
            /\ \A k : Vals(Only(A \o F, Of(k))) = Vals(Only(A, Of(k))) \o Vals(Only(F, Of(k)))
        BY <3>2, <3>3, OfConcat
      <4> QED BY <3>1, <3>2, <3>3, <4>1
    <3> QED BY <2>4, <2>7, <3>4 DEF KeysFrom, SentFrom
  <2>8. CASE src = "files"
    <3>1. d.items = FromMap(Files, fo) /\ fo \in Orders(Files)
      BY <2>8 DEF Attr, newFilesDict
    <3>2. /\ d.items \in Seq(Entry) /\ KeysIn(d.items) = DOMAIN Files
          /\ \A k : Vals(Only(d.items, Of(k))) = At(Files, k)
      BY <1>1, <3>1, MapLookup
    <3> QED BY <2>4, <2>8, <3>2 DEF KeysFrom, SentFrom
  <2> QED BY <1>3, <2>5, <2>6, <2>7, <2>8 DEF Sources
<1> QED BY <1>2, <1>3

\* What is looked up under a key is what is there under its normal form.
LEMMA UnderIs ==
    ASSUME NEW d, IsDict(d), NEW k
    PROVE  /\ Under(d, k) = Only(d.items, Of(normalize(d, k)))
           /\ Under(d, k) \in Seq(Entry)
           /\ getlist(d, k) = Vals(Under(d, k)) /\ getlist(d, k) \in Seq(Texts)
           /\ Index(d, k) = FirstOf(getlist(d, k))
           /\ \A x : get(d, k, x) = IF getlist(d, k) = <<>> THEN x ELSE Head(getlist(d, k))
           /\ Named(d.items, k) = Only(d.items, Of(k))
<1> DEFINE R == {e \in ToSet(d.items) : normalize(d, e.key) = normalize(d, k)}
           Q == {e \in ToSet(d.items) : e.key = k}
<1>1. d.items \in Seq(Entry) /\ ToSet(d.items) \subseteq Entry
  BY Elements DEF IsDict
<1>2. \A e \in ToSet(d.items) : /\ e \in R <=> e \in Of(normalize(d, k))
                                /\ e \in Q <=> e \in Of(k)
  BY <1>1 DEF IsDict, Of
<1>3. Under(d, k) = Only(d.items, R) /\ Named(d.items, k) = Only(d.items, Q)
  BY DEF Under, Named
<1> HIDE DEF R, Q
<1>4. Under(d, k) = Only(d.items, Of(normalize(d, k)))
  BY <1>1, <1>2, <1>3, OnlySame
<1>5. Named(d.items, k) = Only(d.items, Of(k))
  BY <1>1, <1>2, <1>3, OnlySame
<1>6. Under(d, k) \in Seq(Entry)
  BY <1>1, <1>4, OnlyElements
<1>7. getlist(d, k) = Vals(Under(d, k))
  BY DEF getlist, Vals
<1>8. /\ getlist(d, k) \in Seq(Texts)
      /\ Index(d, k) = FirstOf(getlist(d, k))
      /\ \A x : get(d, k, x) = IF getlist(d, k) = <<>> THEN x ELSE Head(getlist(d, k))
  <2> DEFINE u == Under(d, k)
             vs == getlist(d, k)
  <2>1. vs \in Seq(Texts) /\ (vs = <<>> <=> u = <<>>) /\ (u # <<>> => Head(vs) = Head(u).val)
    BY <1>6, <1>7, ValsAre
  <2>2. Index(d, k) = IF u = <<>> THEN Missing ELSE [found |-> TRUE, val |-> Head(u).val]
    BY DEF Index
  <2>3. \A x : get(d, k, x) = IF u = <<>> THEN x ELSE Head(u).val
    BY DEF get
  <2> HIDE DEF u, vs
  <2>4. Index(d, k) = FirstOf(vs)
    BY <2>1, <2>2 DEF FirstOf
  <2>5. \A x : get(d, k, x) = IF vs = <<>> THEN x ELSE Head(vs)
    BY <2>1, <2>3
  <2> QED BY <2>1, <2>4, <2>5 DEF vs
<1> QED BY <1>4, <1>5, <1>6, <1>7, <1>8

-----------------------------------------------------------------------------
(* The keys of a dict, as it is iterated over.                             *)

IterateOver(d, s) ==
    FoldLeft(LAMBDA ks, e : IF \E i \in DOMAIN ks : normalize(d, ks[i]) = normalize(d, e.key)
                            THEN ks ELSE Append(ks, e.key),
             <<>>, s)

filesIterateOver(d, s) ==
    FoldLeft(LAMBDA ks, e : IF Contains(ks, e.key) THEN ks ELSE Append(ks, e.key), <<>>, s)

LEMMA IterateEnds ==
    ASSUME NEW d, NEW s \in Seq(Entry), NEW f,
           f = [x \in Seq(Texts) \X Entry |->
                   IF \E i \in DOMAIN x[1] : normalize(d, x[1][i]) = normalize(d, x[2].key)
                   THEN x[1] ELSE Append(x[1], x[2].key)]
    PROVE  EndsIn(IterateOver(d, s), f, <<>>, s, Seq(Texts))
<1> DEFINE next(ks, e) == IF \E i \in DOMAIN ks : normalize(d, ks[i]) = normalize(d, e.key)
                          THEN ks ELSE Append(ks, e.key)
           G(it) == [t \in SUBSET DOMAIN s |->
                       IF t = {} THEN <<>> ELSE next(it[t \ {Max(t)}], s[Max(t)])]
           c == CHOOSE it : it = G(it)
<1>1. DOMAIN s = 1..Len(s) /\ Len(s) \in Nat /\ \A i \in 1..Len(s) : s[i] \in Entry
  BY LenProperties, ElementOfSeq
<1>2. /\ f \in [Seq(Texts) \X Entry -> Seq(Texts)] /\ <<>> \in Seq(Texts)
      /\ \A a \in Seq(Texts), e \in Entry : f[<<a, e>>] = next(a, e)
  <2>1. \A a \in Seq(Texts), e \in Entry : Append(a, e.key) \in Seq(Texts)
    BY AppendProperties DEF Entry
  <2> QED BY <2>1, EmptySeq
<1>3. \A t \in SUBSET DOMAIN s : t # {} => s[Max(t)] \in Entry /\ t \ {Max(t)} \in SUBSET DOMAIN s
  BY <1>1, MaxOf
<1>4. IterateOver(d, s) = c[DOMAIN s]
  BY DEF IterateOver, FoldLeft, MapThenFoldSet
<1> HIDE DEF next
<1>5. \E it : it = G(it)
  <2>1. PICK it : IsFold(it, f, <<>>, s, Seq(Texts))
    BY <1>2, FoldExists
  <2>2. \A t \in SUBSET DOMAIN s :
              it[t] = IF t = {} THEN <<>> ELSE next(it[t \ {Max(t)}], s[Max(t)])
    <3>1. ASSUME NEW t \in SUBSET DOMAIN s, t # {}
          PROVE  it[t] = next(it[t \ {Max(t)}], s[Max(t)])
      <4>1. s[Max(t)] \in Entry /\ t \ {Max(t)} \in SUBSET DOMAIN s
        BY <1>3, <3>1
      <4>2. it[t] = f[<<it[t \ {Max(t)}], s[Max(t)]>>] /\ it[t \ {Max(t)}] \in Seq(Texts)
        BY <2>1, <3>1, <4>1 DEF IsFold
      <4>3. \A a \in Seq(Texts) : f[<<a, s[Max(t)]>>] = next(a, s[Max(t)])
        BY <1>2, <4>1
      <4> QED BY <4>2, <4>3
    <3> QED BY <2>1, <3>1 DEF IsFold
  <2>3. it = G(it)
    BY <2>1, <2>2 DEF IsFold
  <2> QED BY <2>3
<1>6. c = G(c)
  <2> HIDE DEF G
  <2> QED BY <1>5
<1> HIDE DEF c
<1>7. IsPartlyFold(c, f, <<>>, s, Seq(Texts))
  <2>1. ASSUME NEW t \in SUBSET DOMAIN s, t # {}, c[t \ {Max(t)}] \in Seq(Texts)
        PROVE  c[t] = f[<<c[t \ {Max(t)}], s[Max(t)]>>]
    <3>1. s[Max(t)] \in Entry
      BY <1>3, <2>1
    <3>2. c[t] = next(c[t \ {Max(t)}], s[Max(t)])
      BY <1>6, <2>1
    <3> QED BY <1>2, <2>1, <3>1, <3>2
  <2> HIDE DEF next
  <2>2. c = [t \in SUBSET DOMAIN s |-> c[t]] /\ c[{}] = <<>>
    BY <1>6
  <2> HIDE DEF G
  <2> QED BY <2>1, <2>2 DEF IsPartlyFold
<1>8. EndsIn(c[DOMAIN s], f, <<>>, s, Seq(Texts))
  BY <1>2, <1>7, FoldRuns
<1> QED BY <1>4, <1>8

LEMMA IterateAppend ==
    ASSUME NEW d, NEW s \in Seq(Entry), NEW e \in Entry
    PROVE  LET ks == IterateOver(d, s) IN
           /\ IterateOver(d, <<>>) = <<>>
           /\ ks \in Seq(Texts)
           /\ IterateOver(d, Append(s, e)) =
                  IF \E i \in DOMAIN ks : normalize(d, ks[i]) = normalize(d, e.key)
                  THEN ks ELSE Append(ks, e.key)
<1> DEFINE f == [x \in Seq(Texts) \X Entry |->
                   IF \E i \in DOMAIN x[1] : normalize(d, x[1][i]) = normalize(d, x[2].key)
                   THEN x[1] ELSE Append(x[1], x[2].key)]
<1>1. <<>> \in Seq(Entry) /\ Append(s, e) \in Seq(Entry)
  BY EmptySeq, AppendProperties
<1>2. /\ EndsIn(IterateOver(d, <<>>), f, <<>>, <<>>, Seq(Texts))
      /\ EndsIn(IterateOver(d, s), f, <<>>, s, Seq(Texts))
      /\ EndsIn(IterateOver(d, Append(s, e)), f, <<>>, Append(s, e), Seq(Texts))
  BY <1>1, IterateEnds
<1> HIDE DEF f
<1>3. IterateOver(d, <<>>) = <<>>
  BY <1>2, EndsEmpty
<1>4. /\ IterateOver(d, s) \in Seq(Texts)
      /\ IterateOver(d, Append(s, e)) = f[<<IterateOver(d, s), e>>]
  BY <1>2, EndsAppend
<1> QED BY <1>3, <1>4 DEF f

LEMMA FilesIterateEnds ==
    ASSUME NEW d, NEW s \in Seq(Entry), NEW f,
           f = [x \in Seq(Texts) \X Entry |->
                   IF Contains(x[1], x[2].key)
                   THEN x[1] ELSE Append(x[1], x[2].key)]
    PROVE  EndsIn(filesIterateOver(d, s), f, <<>>, s, Seq(Texts))
<1> DEFINE next(ks, e) == IF Contains(ks, e.key)
                          THEN ks ELSE Append(ks, e.key)
           G(it) == [t \in SUBSET DOMAIN s |->
                       IF t = {} THEN <<>> ELSE next(it[t \ {Max(t)}], s[Max(t)])]
           c == CHOOSE it : it = G(it)
<1>1. DOMAIN s = 1..Len(s) /\ Len(s) \in Nat /\ \A i \in 1..Len(s) : s[i] \in Entry
  BY LenProperties, ElementOfSeq
<1>2. /\ f \in [Seq(Texts) \X Entry -> Seq(Texts)] /\ <<>> \in Seq(Texts)
      /\ \A a \in Seq(Texts), e \in Entry : f[<<a, e>>] = next(a, e)
  <2>1. \A a \in Seq(Texts), e \in Entry : Append(a, e.key) \in Seq(Texts)
    BY AppendProperties DEF Entry
  <2> QED BY <2>1, EmptySeq
<1>3. \A t \in SUBSET DOMAIN s : t # {} => s[Max(t)] \in Entry /\ t \ {Max(t)} \in SUBSET DOMAIN s
  BY <1>1, MaxOf
<1>4. filesIterateOver(d, s) = c[DOMAIN s]
  BY DEF filesIterateOver, FoldLeft, MapThenFoldSet
<1> HIDE DEF next
<1>5. \E it : it = G(it)
  <2>1. PICK it : IsFold(it, f, <<>>, s, Seq(Texts))
    BY <1>2, FoldExists
  <2>2. \A t \in SUBSET DOMAIN s :
              it[t] = IF t = {} THEN <<>> ELSE next(it[t \ {Max(t)}], s[Max(t)])
    <3>1. ASSUME NEW t \in SUBSET DOMAIN s, t # {}
          PROVE  it[t] = next(it[t \ {Max(t)}], s[Max(t)])
      <4>1. s[Max(t)] \in Entry /\ t \ {Max(t)} \in SUBSET DOMAIN s
        BY <1>3, <3>1
      <4>2. it[t] = f[<<it[t \ {Max(t)}], s[Max(t)]>>] /\ it[t \ {Max(t)}] \in Seq(Texts)
        BY <2>1, <3>1, <4>1 DEF IsFold
      <4>3. \A a \in Seq(Texts) : f[<<a, s[Max(t)]>>] = next(a, s[Max(t)])
        BY <1>2, <4>1
      <4> QED BY <4>2, <4>3
    <3> QED BY <2>1, <3>1 DEF IsFold
  <2>3. it = G(it)
    BY <2>1, <2>2 DEF IsFold
  <2> QED BY <2>3
<1>6. c = G(c)
  <2> HIDE DEF G
  <2> QED BY <1>5
<1> HIDE DEF c
<1>7. IsPartlyFold(c, f, <<>>, s, Seq(Texts))
  <2>1. ASSUME NEW t \in SUBSET DOMAIN s, t # {}, c[t \ {Max(t)}] \in Seq(Texts)
        PROVE  c[t] = f[<<c[t \ {Max(t)}], s[Max(t)]>>]
    <3>1. s[Max(t)] \in Entry
      BY <1>3, <2>1
    <3>2. c[t] = next(c[t \ {Max(t)}], s[Max(t)])
      BY <1>6, <2>1
    <3> QED BY <1>2, <2>1, <3>1, <3>2
  <2> HIDE DEF next
  <2>2. c = [t \in SUBSET DOMAIN s |-> c[t]] /\ c[{}] = <<>>
    BY <1>6
  <2> HIDE DEF G
  <2> QED BY <2>1, <2>2 DEF IsPartlyFold
<1>8. EndsIn(c[DOMAIN s], f, <<>>, s, Seq(Texts))
  BY <1>2, <1>7, FoldRuns
<1> QED BY <1>4, <1>8

LEMMA FilesIterateAppend ==
    ASSUME NEW d, NEW s \in Seq(Entry), NEW e \in Entry
    PROVE  LET ks == filesIterateOver(d, s) IN
           /\ filesIterateOver(d, <<>>) = <<>>
           /\ ks \in Seq(Texts)
           /\ filesIterateOver(d, Append(s, e)) =
                  IF Contains(ks, e.key)
                  THEN ks ELSE Append(ks, e.key)
<1> DEFINE f == [x \in Seq(Texts) \X Entry |->
                   IF Contains(x[1], x[2].key)
                   THEN x[1] ELSE Append(x[1], x[2].key)]
<1>1. <<>> \in Seq(Entry) /\ Append(s, e) \in Seq(Entry)
  BY EmptySeq, AppendProperties
<1>2. /\ EndsIn(filesIterateOver(d, <<>>), f, <<>>, <<>>, Seq(Texts))
      /\ EndsIn(filesIterateOver(d, s), f, <<>>, s, Seq(Texts))
      /\ EndsIn(filesIterateOver(d, Append(s, e)), f, <<>>, Append(s, e), Seq(Texts))
  BY <1>1, FilesIterateEnds
<1> HIDE DEF f
<1>3. filesIterateOver(d, <<>>) = <<>>
  BY <1>2, EndsEmpty
<1>4. /\ filesIterateOver(d, s) \in Seq(Texts)
      /\ filesIterateOver(d, Append(s, e)) = f[<<filesIterateOver(d, s), e>>]
  BY <1>2, EndsAppend
<1> QED BY <1>3, <1>4 DEF f

\* Every key comes up, and no other.
LEMMA IterateIs ==
    ASSUME NEW d, IsDict(d)
    PROVE  /\ ToSet(Iterate(d)) = KeysIn(d.items)
           /\ ToSet(filesIterate(d)) = KeysIn(d.items) /\ Distinct(filesIterate(d))
           /\ KeysIn(d.items) \subseteq Texts /\ IsFiniteSet(KeysIn(d.items))
<1> DEFINE E == {e \in Entry : normalize(d, e.key) = e.key}
           P == {s \in Seq(E) :
                   /\ s \in Seq(Entry)
                   /\ IterateOver(d, s) \in Seq(Texts) /\ filesIterateOver(d, s) \in Seq(Texts)
                   /\ ToSet(IterateOver(d, s)) = KeysIn(s)
                   /\ ToSet(filesIterateOver(d, s)) = KeysIn(s) /\ Distinct(filesIterateOver(d, s))
                   /\ IsFiniteSet(KeysIn(s))}
<1>0. [key |-> <<>>, val |-> <<>>] \in Entry
  BY EmptySeq DEF Entry, Texts
<1>1. <<>> \in P
  <2>1. IterateOver(d, <<>>) = <<>> /\ filesIterateOver(d, <<>>) = <<>>
    BY <1>0, EmptySeq, IterateAppend, FilesIterateAppend
  <2>2. KeysIn(<<>>) = {} /\ IsFiniteSet({}) /\ ToSet(<<>>) = {}
    <3>1. ToSet(<<>>) = {}
      BY Elements
    <3> QED BY <3>1, FS_EmptySet DEF KeysIn
  <2>3. <<>> \in Seq(E) /\ <<>> \in Seq(Entry) /\ <<>> \in Seq(Texts)
    BY EmptySeq
  <2>4. Distinct(<<>>)
    BY DEF Distinct
  <2> QED BY <2>1, <2>2, <2>3, <2>4
<1>2. ASSUME NEW s \in Seq(E) \cap P, NEW e \in E PROVE Append(s, e) \in P
  <2> DEFINE I == IterateOver(d, s)
             J == filesIterateOver(d, s)
             q == Append(s, e)
  <2>1. /\ s \in Seq(E) /\ s \in Seq(Entry) /\ e \in Entry /\ e.key \in Texts
        /\ I \in Seq(Texts) /\ J \in Seq(Texts)
        /\ ToSet(I) = KeysIn(s) /\ ToSet(J) = KeysIn(s) /\ IsFiniteSet(KeysIn(s))
        /\ Distinct(J)
    BY DEF Entry
  <2>2. q \in Seq(E) /\ q \in Seq(Entry) /\ ToSet(q) = ToSet(s) \cup {e} /\ ToSet(s) \subseteq E
    <3>1. ToSet(q) = ToSet(s) \cup {e} /\ ToSet(s) \subseteq E
      BY Elements
    <3> QED BY <2>1, <3>1, AppendProperties
  <2>3. KeysIn(q) = KeysIn(s) \cup {e.key} /\ IsFiniteSet(KeysIn(q))
    <3>1. KeysIn(q) = KeysIn(s) \cup {e.key}
      BY <2>2 DEF KeysIn
    <3>2. IsFiniteSet(KeysIn(s) \cup {e.key})
      BY <2>1, OneMore
    <3> QED BY <3>1, <3>2
  <2>4. \A k \in KeysIn(s) : normalize(d, k) = k
    BY <2>2 DEF KeysIn
  <2>5. normalize(d, e.key) = e.key
    OBVIOUS
  <2>6. /\ Append(I, e.key) \in Seq(Texts) /\ ToSet(Append(I, e.key)) = ToSet(I) \cup {e.key}
        /\ Append(J, e.key) \in Seq(Texts) /\ ToSet(Append(J, e.key)) = ToSet(J) \cup {e.key}
    <3>1. \A u \in Seq(Texts) : ToSet(Append(u, e.key)) = ToSet(u) \cup {e.key}
      BY <2>1, Elements
    <3> QED BY <2>1, <3>1, AppendProperties
  <2>7. IterateOver(d, q) \in Seq(Texts) /\ ToSet(IterateOver(d, q)) = KeysIn(q)
    <3>1. IterateOver(d, q) = IF \E i \in DOMAIN I : normalize(d, I[i]) = normalize(d, e.key)
                              THEN I ELSE Append(I, e.key)
      BY <2>1, IterateAppend
    <3>2. (\E i \in DOMAIN I : normalize(d, I[i]) = normalize(d, e.key)) <=> e.key \in KeysIn(s)
      <4>1. \A i \in DOMAIN I : I[i] \in KeysIn(s)
        BY <2>1 DEF ToSet
      <4>2. \A k \in KeysIn(s) : \E i \in DOMAIN I : I[i] = k
        BY <2>1 DEF ToSet
      <4>3. \A i \in DOMAIN I : normalize(d, I[i]) = I[i]
        BY <2>4, <4>1
      <4> HIDE DEF I
      <4> QED BY <2>5, <4>1, <4>2, <4>3
    <3> HIDE DEF I, q
    <3>3. CASE e.key \in KeysIn(s)
      <4>1. IterateOver(d, q) = I /\ KeysIn(q) = KeysIn(s)
        BY <2>3, <3>1, <3>2, <3>3
      <4> QED BY <2>1, <4>1
    <3>4. CASE e.key \notin KeysIn(s)
      <4>1. IterateOver(d, q) = Append(I, e.key)
        BY <3>1, <3>2, <3>4
      <4> QED BY <2>1, <2>3, <2>6, <4>1
    <3> QED BY <3>3, <3>4
  <2>8. /\ filesIterateOver(d, q) \in Seq(Texts) /\ ToSet(filesIterateOver(d, q)) = KeysIn(q)
        /\ Distinct(filesIterateOver(d, q))
    <3>1. filesIterateOver(d, q) = IF Contains(J, e.key) THEN J ELSE Append(J, e.key)
      BY <2>1, FilesIterateAppend
    <3>2. Contains(J, e.key) <=> e.key \in KeysIn(s)
      <4>1. DOMAIN J = 1..Len(J)
        BY <2>1, LenProperties
      <4> QED BY <2>1, <4>1 DEF ToSet, Contains
    <3> HIDE DEF J, q
    <3>3. CASE e.key \in KeysIn(s)
      <4>1. filesIterateOver(d, q) = J /\ KeysIn(q) = KeysIn(s)
        BY <2>3, <3>1, <3>2, <3>3
      <4> QED BY <2>1, <4>1
    <3>4. CASE e.key \notin KeysIn(s)
      <4>1. filesIterateOver(d, q) = Append(J, e.key)
        BY <3>1, <3>2, <3>4
      <4>2. Distinct(Append(J, e.key))
        BY <2>1, <3>4, OneMoreDistinct
      <4> QED BY <2>1, <2>3, <2>6, <4>1, <4>2
    <3> QED BY <3>3, <3>4
  <2> HIDE DEF q
  <2>9. q \in P
    BY <2>2, <2>3, <2>7, <2>8
  <2> QED BY <2>9 DEF q
<1> HIDE DEF P
<1>3. Seq(E) \subseteq P
  BY <1>1, <1>2, SeqSet
<1>4. d.items \in Seq(E)
  <2>1. d.items \in Seq(Entry) /\ ToSet(d.items) \subseteq Entry
    BY Elements DEF IsDict
  <2>2. ToSet(d.items) \subseteq E
    BY <2>1 DEF IsDict
  <2> HIDE DEF E
  <2> QED BY <2>1, <2>2, Elements
<1>5. KeysIn(d.items) \subseteq Texts
  <2>1. ToSet(d.items) \subseteq Entry
    BY Elements DEF IsDict
  <2> QED BY <2>1 DEF KeysIn, Entry
<1>6. Iterate(d) = IterateOver(d, d.items) /\ filesIterate(d) = filesIterateOver(d, d.items)
  BY DEF Iterate, filesIterate, IterateOver, filesIterateOver
<1>7. d.items \in P
  BY <1>3, <1>4
<1> QED BY <1>5, <1>6, <1>7 DEF P

-----------------------------------------------------------------------------
(* How many entries there are.                                             *)

\* One pair for each entry: its key and its place under it.
Places(s) == UNION {{k} \X DOMAIN Only(s, Of(k)) : k \in KeysIn(s)}

LEMMA PlaceIs ==
    ASSUME NEW s \in Seq(Entry)
    PROVE  \A k, i : <<k, i>> \in Places(s) <=> i \in 1..Len(Only(s, Of(k)))
<1> SUFFICES ASSUME NEW k, NEW i
             PROVE  <<k, i>> \in Places(s) <=> i \in 1..Len(Only(s, Of(k)))
  OBVIOUS
<1>1. Only(s, Of(k)) \in Seq(Entry) /\ DOMAIN Only(s, Of(k)) = 1..Len(Only(s, Of(k)))
  BY OnlyElements, LenProperties
<1>2. ASSUME k \notin KeysIn(s) PROVE Only(s, Of(k)) = <<>> /\ 1..Len(Only(s, Of(k))) = {}
  <2>1. ToSet(s) \cap Of(k) = {}
    BY <1>2 DEF KeysIn, Of
  <2>2. Only(s, Of(k)) = <<>>
    BY <2>1, OnlyElements
  <2> QED BY <2>2
<1>3. <<k, i>> \in Places(s) <=> k \in KeysIn(s) /\ i \in DOMAIN Only(s, Of(k))
  BY DEF Places
<1> QED BY <1>1, <1>2, <1>3

LEMMA PlacesCount ==
    \A s \in Seq(Entry) : IsFiniteSet(Places(s)) /\ Cardinality(Places(s)) = Len(s)
<1> DEFINE P == {s \in Seq(Entry) : IsFiniteSet(Places(s)) /\ Cardinality(Places(s)) = Len(s)}
<1>1. <<>> \in P
  <2>1. Places(<<>>) = {}
    BY Elements DEF Places, KeysIn
  <2> QED BY <2>1, EmptySeq, FS_EmptySet
<1>2. ASSUME NEW s \in Seq(Entry) \cap P, NEW e \in Entry PROVE Append(s, e) \in P
  <2> DEFINE q == Append(s, e)
             n == Len(Only(s, Of(e.key)))
             new == <<e.key, n + 1>>
  <2>1. /\ s \in Seq(Entry) /\ q \in Seq(Entry) /\ Len(q) = Len(s) + 1
        /\ IsFiniteSet(Places(s)) /\ Cardinality(Places(s)) = Len(s)
    BY AppendProperties
  <2>2. \A k : Only(s, Of(k)) \in Seq(Entry) /\ Len(Only(s, Of(k))) \in Nat
    BY <2>1, OnlyElements, LenProperties
  <2>3. ASSUME NEW k PROVE Len(Only(q, Of(k))) = IF k = e.key THEN Len(Only(s, Of(k))) + 1
                                                 ELSE Len(Only(s, Of(k)))
    <3>1. e \in Of(k) <=> k = e.key
      BY DEF Of
    <3>2. Only(q, Of(k)) = IF e \in Of(k) THEN Append(Only(s, Of(k)), e) ELSE Only(s, Of(k))
      BY <2>1, OnlyNext
    <3>3. Len(Append(Only(s, Of(k)), e)) = Len(Only(s, Of(k))) + 1
      BY <2>2, AppendProperties
    <3> QED BY <3>1, <3>2, <3>3
  <2> HIDE DEF q
  <2>4. \A k, i : <<k, i>> \in Places(q) <=> <<k, i>> \in Places(s) \cup {new}
    <3> SUFFICES ASSUME NEW k, NEW i
                 PROVE  <<k, i>> \in Places(q) <=> <<k, i>> \in Places(s) \cup {new}
      OBVIOUS
    <3>1. /\ <<k, i>> \in Places(q) <=> i \in 1..Len(Only(q, Of(k)))
          /\ <<k, i>> \in Places(s) <=> i \in 1..Len(Only(s, Of(k)))
      BY <2>1, PlaceIs
    <3>2. Len(Only(s, Of(k))) \in Nat
      BY <2>2
    <3>3. CASE k # e.key
      BY <2>3, <3>1, <3>3
    <3>4. CASE k = e.key
      <4>1. n \in Nat /\ \A j : j \in 1..n + 1 <=> j \in 1..n \/ j = n + 1
        BY <2>2
      <4>2. Len(Only(q, Of(k))) = n + 1 /\ Len(Only(s, Of(k))) = n
        BY <2>3, <3>4
      <4> HIDE DEF n
      <4> QED BY <3>1, <3>4, <4>1, <4>2
    <3> QED BY <3>3, <3>4
  <2>5. Places(q) = Places(s) \cup {new}
    <3>1. \A z \in Places(q) : \E k, i : z = <<k, i>>
      BY DEF Places
    <3>2. \A z \in Places(s) \cup {new} : \E k, i : z = <<k, i>>
      BY DEF Places
    <3> HIDE DEF new
    <3> QED BY <2>4, <3>1, <3>2
  <2>6. new \notin Places(s)
    <3>1. n \in Nat /\ n + 1 \notin 1..n
      BY <2>2
    <3> QED BY <2>1, <3>1, PlaceIs
  <2>7. IsFiniteSet(Places(q)) /\ Cardinality(Places(q)) = Cardinality(Places(s)) + 1
    <3> HIDE DEF new
    <3>1. IsFiniteSet(Places(s))
      BY <2>1
    <3>2. /\ IsFiniteSet(Places(s) \cup {new})
          /\ Cardinality(Places(s) \cup {new}) = Cardinality(Places(s)) + 1
      BY <2>6, <3>1, FS_AddElement
    <3> QED BY <2>5, <3>2
  <2> QED BY <2>1, <2>7 DEF q
<1> HIDE DEF P
<1>3. Seq(Entry) \subseteq P
  BY <1>1, <1>2, SeqSet
<1> QED BY <1>3 DEF P

-----------------------------------------------------------------------------
(* Looking things up.                                                      *)

LEMMA KeysAre ==
    ASSUME NEW d, IsDict(d)
    PROVE  /\ keys(d) = Sorted(KeysIn(d.items))
           /\ keys(d) \in Seq(Texts) /\ Distinct(keys(d)) /\ ToSet(keys(d)) = KeysIn(d.items)
           /\ \A i \in DOMAIN keys(d) : keys(d)[i] \in KeysIn(d.items)
           /\ ToSet(filesKeys(d)) = KeysIn(d.items) /\ Distinct(filesKeys(d))
           /\ \A k \in KeysIn(d.items) : normalize(d, k) = k /\ getlist(d, k) # <<>>
<1>1. /\ ToSet(Iterate(d)) = KeysIn(d.items)
      /\ ToSet(filesIterate(d)) = KeysIn(d.items) /\ Distinct(filesIterate(d))
      /\ KeysIn(d.items) \subseteq Texts /\ IsFiniteSet(KeysIn(d.items))
  BY IterateIs
<1>2. keys(d) = Sorted(KeysIn(d.items))
  BY <1>1 DEF keys
<1>3. keys(d) \in Seq(KeysIn(d.items)) /\ Distinct(keys(d)) /\ ToSet(keys(d)) = KeysIn(d.items)
  BY <1>1, <1>2, SortedIs
<1>4. keys(d) \in Seq(Texts)
  <2>1. ToSet(keys(d)) \subseteq Texts
    BY <1>1, <1>3
  <2> QED BY <1>3, <2>1, Elements
<1>5. \A i \in DOMAIN keys(d) : keys(d)[i] \in KeysIn(d.items)
  BY <1>3 DEF ToSet
<1>6. ASSUME NEW k \in KeysIn(d.items) PROVE normalize(d, k) = k /\ getlist(d, k) # <<>>
  <2>1. d.items \in Seq(Entry) /\ ToSet(d.items) \subseteq Entry
    BY Elements DEF IsDict
  <2>2. PICK e \in ToSet(d.items) : e.key = k
    BY DEF KeysIn
  <2>3. normalize(d, k) = k /\ e \in Of(k)
    BY <2>1, <2>2 DEF IsDict, Of
  <2>4. e \in ToSet(Only(d.items, Of(k)))
    BY <2>1, <2>2, <2>3, OnlyElements
  <2>5. Under(d, k) # <<>> /\ Under(d, k) \in Seq(Entry) /\ getlist(d, k) = Vals(Under(d, k))
    <3>1. Under(d, k) = Only(d.items, Of(k))
      BY <2>3, UnderIs
    <3>2. Only(d.items, Of(k)) # <<>>
      BY <2>4, Elements
    <3> QED BY <3>1, <3>2, UnderIs
  <2> QED BY <2>3, <2>5, ValsAre
<1> QED BY <1>1, <1>2, <1>3, <1>4, <1>5, <1>6 DEF filesKeys

\* The values of a dict, one by one, are as many as it has entries.
LEMMA LengthIs ==
    ASSUME NEW d, IsDict(d)
    PROVE  MDLen(d) = Cardinality(UNION {{k} \X DOMAIN getlist(d, k) : k \in ToSet(keys(d))})
<1>1. ASSUME NEW k \in KeysIn(d.items) PROVE DOMAIN getlist(d, k) = DOMAIN Only(d.items, Of(k))
  <2>1. Under(d, k) = Only(d.items, Of(k))
    BY KeysAre, UnderIs
  <2>2. Under(d, k) \in Seq(Entry) /\ getlist(d, k) = Vals(Under(d, k))
    BY UnderIs
  <2> QED BY <2>1, <2>2, ValsAre
<1>2. ToSet(keys(d)) = KeysIn(d.items)
  BY KeysAre
<1>3. UNION {{k} \X DOMAIN getlist(d, k) : k \in ToSet(keys(d))} = Places(d.items)
  BY <1>1, <1>2 DEF Places
<1>4. d.items \in Seq(Entry)
  BY DEF IsDict
<1> QED BY <1>3, <1>4, PlacesCount DEF MDLen

\* to_dict.
LEMMA FirstsAre ==
    ASSUME NEW d, IsDict(d)
    PROVE  /\ DOMAIN to_dict(d) = KeysIn(d.items)
           /\ to_dict(d) = [k \in KeysIn(d.items) |-> Head(getlist(d, k))]
<1>4. ASSUME NEW k \in KeysIn(d.items) PROVE Head(Named(d.items, k)).val = Head(getlist(d, k))
  <2>1. normalize(d, k) = k /\ getlist(d, k) # <<>>
    BY KeysAre
  <2>2. /\ Named(d.items, k) = Under(d, k)
        /\ Under(d, k) \in Seq(Entry) /\ getlist(d, k) = Vals(Under(d, k))
    BY <2>1, UnderIs
  <2> QED BY <2>1, <2>2, ValsAre
<1>5. to_dict(d) = [k \in KeysIn(d.items) |-> Head(Named(d.items, k)).val]
  BY DEF to_dict, KeysIn
<1>6. to_dict(d) = [k \in KeysIn(d.items) |-> Head(getlist(d, k))]
  BY <1>4, <1>5
<1> QED BY <1>5, <1>6

\* An entry's value is among those of its key.
LEMMA ItemsAre ==
    ASSUME NEW d, IsDict(d), NEW i \in DOMAIN d.items
    PROVE  d.items[i].val \in ToSet(getlist(d, d.items[i].key))
<1> DEFINE e == d.items[i]
           u == Under(d, e.key)
<1>1. d.items \in Seq(Entry) /\ e \in ToSet(d.items) /\ ToSet(d.items) \subseteq Entry
  BY Elements DEF IsDict, ToSet
<1>2. normalize(d, e.key) = e.key /\ e \in Of(e.key)
  BY <1>1 DEF IsDict, Of
<1>3. u = Only(d.items, Of(e.key)) /\ getlist(d, e.key) = Vals(u)
  BY <1>2, UnderIs
<1>4. ToSet(u) = ToSet(d.items) \cap Of(e.key)
  BY <1>1, <1>3, OnlyElements
<1>5. PICK j \in DOMAIN u : u[j] = e
  BY <1>1, <1>2, <1>4 DEF ToSet
<1> HIDE DEF u, e
<1>6. Vals(u)[j] = e.val /\ j \in DOMAIN Vals(u)
  BY <1>5 DEF Vals
<1> QED BY <1>3, <1>6 DEF ToSet, e

\* The dict of the files does what a MultiDict does whose keys are plain.
LEMMA FilesAre ==
    ASSUME NEW d, IsDict(d), ~d.caseInsensitive
    PROVE  /\ \A k : /\ filesIndex(d, k) = Index(d, k)
                     /\ \A x : filesGet(d, k, x) = get(d, k, x)
                     /\ filesGetlist(d, k) = getlist(d, k)
           /\ filesLen(d) =
                 Cardinality(UNION {{k} \X DOMAIN filesGetlist(d, k) : k \in ToSet(filesKeys(d))})
<1>1. ASSUME NEW k
      PROVE  /\ filesIndex(d, k) = Index(d, k)
             /\ \A x : filesGet(d, k, x) = get(d, k, x)
             /\ filesGetlist(d, k) = getlist(d, k)
  <2>1. normalize(d, k) = k
    BY DEF normalize
  <2>2. Named(d.items, k) = Under(d, k)
    BY <2>1, UnderIs
  <2> QED BY <2>2 DEF filesIndex, filesGet, filesGetlist, Index, get, getlist
<1>2. filesLen(d) =
          Cardinality(UNION {{k} \X DOMAIN filesGetlist(d, k) : k \in ToSet(filesKeys(d))})
  <2>1. filesLen(d) = Cardinality(UNION {{k} \X DOMAIN getlist(d, k) : k \in ToSet(keys(d))})
    BY LengthIs DEF filesLen, MDLen
  <2>2. ToSet(filesKeys(d)) = ToSet(keys(d))
    BY KeysAre
  <2> QED BY <1>1, <2>1, <2>2
<1> QED BY <1>1, <1>2

-----------------------------------------------------------------------------
(* Escapes.                                                                *)

HexDigits == {c \in Chars : IsHexDigit(c)}

LEMMA HexIs ==
    ASSUME NEW i \in 1..16
    PROVE  hex[i] \in HexDigits /\ hex[i] \in Unreserved /\ HexValue(hex[i]) = i - 1
<1>1. /\ hex[i] \in Unreserved /\ Unreserved \subseteq Chars
      /\ Byte[hex[i]] = IF i <= 10 THEN 47 + i ELSE 54 + i
  BY TextConstantsOK
<1> DEFINE b == Byte[hex[i]]
<1>2. CASE i <= 10
  <2>1. b = 47 + i
    BY <1>1, <1>2
  <2> HIDE DEF b
  <2>2. b \in 48..57 /\ b <= 57 /\ b - 48 = i - 1
    BY <1>2, <2>1
  <2> QED BY <1>1, <2>2 DEF b, HexDigits, IsHexDigit, HexValue
<1>3. CASE ~(i <= 10)
  <2>1. b = 54 + i
    BY <1>1, <1>3
  <2> HIDE DEF b
  <2>2. b \in 65..70 /\ ~(b <= 57) /\ b <= 70 /\ b - 55 = i - 1
    BY <1>3, <2>1
  <2> QED BY <1>1, <2>2 DEF b, HexDigits, IsHexDigit, HexValue
<1> QED BY <1>2, <1>3

LEMMA HexDigitIs ==
    \A c \in HexDigits : c \in Chars /\ HexValue(c) \in 0..15
<1> SUFFICES ASSUME NEW c \in HexDigits PROVE c \in Chars /\ HexValue(c) \in 0..15
  OBVIOUS
<1>1. c \in Chars /\ Byte[c] \in (48..57) \cup (65..70) \cup (97..102)
  BY DEF HexDigits, IsHexDigit
<1> DEFINE b == Byte[c]
<1>2. HexValue(c) = IF b <= 57 THEN b - 48 ELSE IF b <= 70 THEN b - 55 ELSE b - 87
  BY DEF HexValue
<1>3. HexValue(c) \in 0..15
  <2> HIDE DEF b
  <2>1. b \in (48..57) \cup (65..70) \cup (97..102)
    BY <1>1 DEF b
  <2> QED BY <1>2, <2>1
<1> QED BY <1>1, <1>3

LEMMA CharIs ==
    /\ \A n \in 0..255 : CharOf(n) \in Chars
    /\ \A c \in Chars : Byte[c] \in 0..255 /\ CharOf(Byte[c]) = c
<1>1. ASSUME NEW n \in 0..255 PROVE CharOf(n) \in Chars /\ Byte[CharOf(n)] = n
  BY TextConstantsOK DEF CharOf
<1>2. ASSUME NEW c \in Chars PROVE Byte[c] \in 0..255 /\ CharOf(Byte[c]) = c
  <2>1. Byte[c] \in 0..255
    BY TextConstantsOK
  <2>2. CharOf(Byte[c]) \in Chars /\ Byte[CharOf(Byte[c])] = Byte[c]
    BY <1>1, <2>1
  <2> QED BY <2>1, <2>2, TextConstantsOK
<1> QED BY <1>1, <1>2

\* An escape stands for its character.
LEMMA PercentEncodeIs ==
    ASSUME NEW c \in Chars
    PROVE  \E h, l \in HexDigits :
              /\ PercentEncode(c) = <<"%", h, l>>
              /\ h \in Unreserved /\ l \in Unreserved
              /\ CharOf(16 * HexValue(h) + HexValue(l)) = c
<1> DEFINE b == Byte[c]
           h == hex[b \div 16 + 1]
           l == hex[(b % 16) + 1]
<1>1. b \in 0..255 /\ CharOf(b) = c
  BY CharIs
<1>2. PercentEncode(c) = <<"%", h, l>>
  BY DEF PercentEncode
<1>3. b \div 16 + 1 \in 1..16 /\ (b % 16) + 1 \in 1..16
      /\ 16 * (b \div 16) + (b % 16) = b
  <2> HIDE DEF b
  <2> QED BY <1>1
<1>4. /\ h \in HexDigits /\ h \in Unreserved /\ HexValue(h) = (b \div 16 + 1) - 1
      /\ l \in HexDigits /\ l \in Unreserved /\ HexValue(l) = ((b % 16) + 1) - 1
  BY <1>3, HexIs
<1>5. 16 * HexValue(h) + HexValue(l) = b
  <2> HIDE DEF b, h, l
  <2>1. b \div 16 \in Int /\ b % 16 \in Int
    BY <1>1
  <2> QED BY <1>3, <1>4, <2>1
<1> HIDE DEF b, h, l
<1> QED BY <1>1, <1>2, <1>4, <1>5

-----------------------------------------------------------------------------
(* Reading escapes, one character at a time.                               *)

Escs == {<<>>, <<"%">>} \cup {<<"%", h>> : h \in HexDigits}
Reader == [ok : BOOLEAN, text : Texts, esc : Escs]
Ready == [ok |-> TRUE, text |-> <<>>, esc |-> <<>>]
Ran(t, plus) == FoldLeft(LAMBDA st, c : Unescape1(plus, st, c), Ready, t)

LEMMA EscsAre ==
    /\ \A e \in Escs : /\ Len(e) \in {0, 1, 2}
                       /\ Len(e) = 0 <=> e = <<>>
                       /\ Len(e) = 1 <=> e = <<"%">>
                       /\ Len(e) = 2 => e[2] \in HexDigits
    /\ <<>> \in Escs /\ <<"%">> \in Escs
    /\ \A h \in HexDigits : Append(<<"%">>, h) = <<"%", h>> /\ <<"%", h>> \in Escs
                            /\ Len(<<"%", h>>) = 2 /\ <<"%", h>>[2] = h /\ <<"%", h>> # <<>>
    /\ Len(<<"%">>) = 1 /\ <<"%">> # <<>>
<1>1. "%" \in Chars /\ \A h \in HexDigits : h \in Chars
  BY TextConstantsOK DEF HexDigits
<1>2. <<"%">> \in Seq(Chars) /\ Len(<<"%">>) = 1 /\ <<>> \in Seq(Chars) /\ Len(<<>>) = 0
  BY <1>1, EmptySeq
<1>3. ASSUME NEW h \in HexDigits
      PROVE  Append(<<"%">>, h) = <<"%", h>> /\ Len(<<"%", h>>) = 2 /\ <<"%", h>> \in Seq(Chars)
  <2>1. <<"%", h>> \in Seq(Chars) /\ Len(<<"%", h>>) = 2
    BY <1>1
  <2> DEFINE q == Append(<<"%">>, h)
  <2>2. q \in Seq(Chars) /\ Len(q) = 2 /\ q[1] = "%" /\ q[2] = h
    BY <1>1, <1>2, AppendProperties
  <2>3. \A i \in 1..2 : q[i] = <<"%", h>>[i]
    BY <2>2
  <2> QED BY <2>1, <2>2, <2>3, SeqEqual
<1>4. ASSUME NEW e \in Escs
      PROVE  /\ Len(e) \in {0, 1, 2}
             /\ Len(e) = 0 <=> e = <<>>
             /\ Len(e) = 1 <=> e = <<"%">>
             /\ Len(e) = 2 => e[2] \in HexDigits
  <2>1. CASE e = <<>>
    BY <1>2, <2>1
  <2>2. CASE e = <<"%">>
    BY <1>2, <2>2
  <2>3. CASE e \in {<<"%", h>> : h \in HexDigits}
    <3>1. PICK h \in HexDigits : e = <<"%", h>>
      BY <2>3
    <3>2. Len(e) = 2 /\ e[2] = h
      BY <1>3, <3>1
    <3> QED BY <1>2, <3>2
  <2> QED BY <2>1, <2>2, <2>3 DEF Escs
<1> QED BY <1>2, <1>3, <1>4 DEF Escs
\* A "+" that stands for a blank.
Blank(plus, c) == IF plus /\ c = "+" THEN " " ELSE c

LEMMA Unescape1Is ==
    ASSUME NEW plus \in BOOLEAN, NEW st \in Reader, NEW c \in Chars
    PROVE  /\ Unescape1(plus, st, c) \in Reader
           /\ st.esc = <<>> /\ c = "%" =>
                 Unescape1(plus, st, c) = [ok |-> st.ok, text |-> st.text, esc |-> <<"%">>]
           /\ st.esc = <<>> /\ c # "%" =>
                 Unescape1(plus, st, c) =
                    [ok |-> st.ok, text |-> Append(st.text, Blank(plus, c)), esc |-> <<>>]
           /\ st.esc = <<"%">> /\ c \in HexDigits =>
                 Unescape1(plus, st, c) = [ok |-> st.ok, text |-> st.text, esc |-> <<"%", c>>]
           /\ \A h \in HexDigits : st.esc = <<"%", h>> /\ c \in HexDigits =>
                 Unescape1(plus, st, c) =
                    [ok |-> st.ok, esc |-> <<>>,
                     text |-> Append(st.text, CharOf(16 * HexValue(h) + HexValue(c)))]
<1>1. st.ok \in BOOLEAN /\ st.text \in Texts /\ st.esc \in Escs
      /\ st = [ok |-> st.ok, text |-> st.text, esc |-> st.esc]
  BY DEF Reader
<1>2. c \in HexDigits <=> IsHexDigit(c)
  BY DEF HexDigits
<1>3. 0 # 1 /\ 0 # 2 /\ 1 # 2
  OBVIOUS
<1>4. CASE st.esc = <<>>
  <2>1. Len(st.esc) # 1 /\ Len(st.esc) # 2
    <3>1. Len(st.esc) = 0
      BY <1>1, <1>4, EscsAre
    <3> QED BY <1>3, <3>1, Zenon
  <2>2. \A h \in HexDigits : st.esc # <<"%", h>>
    BY <1>4, EscsAre
  <2>3. st.esc # <<"%">>
    BY <1>4, EscsAre
  <2>4. CASE c = "%"
    <3>1. Unescape1(plus, st, c) = [st EXCEPT !.esc = <<"%">>]
      BY <1>4, <2>1, <2>4 DEF Unescape1
    <3>2. [st EXCEPT !.esc = <<"%">>] = [ok |-> st.ok, text |-> st.text, esc |-> <<"%">>]
      BY <1>1
    <3>3. [ok |-> st.ok, text |-> st.text, esc |-> <<"%">>] \in Reader
      BY <1>1, EscsAre DEF Reader
    <3> QED BY <2>2, <2>3, <2>4, <3>1, <3>2, <3>3
  <2>5. CASE c # "%"
    <3> DEFINE d == Blank(plus, c)
    <3>1. Unescape1(plus, st, c) = [st EXCEPT !.text = Append(@, d)]
      BY <1>4, <2>1, <2>5 DEF Unescape1, Blank
    <3>2. d \in Chars
      BY TextConstantsOK DEF Blank
    <3>3. Append(st.text, d) \in Texts
      BY <1>1, <3>2, AppendProperties DEF Texts
    <3> HIDE DEF d
    <3>4. [st EXCEPT !.text = Append(@, d)]
          = [ok |-> st.ok, text |-> Append(st.text, d), esc |-> <<>>]
      BY <1>1, <1>4
    <3>5. [ok |-> st.ok, text |-> Append(st.text, d), esc |-> <<>>] \in Reader
      BY <1>1, <3>3, EscsAre DEF Reader
    <3> QED BY <2>2, <2>3, <2>5, <3>1, <3>4, <3>5 DEF d
  <2> QED BY <2>4, <2>5
<1>5. CASE st.esc # <<>> /\ c \notin HexDigits
  <2>1. Unescape1(plus, st, c) = [st EXCEPT !.ok = FALSE]
    BY <1>2, <1>5 DEF Unescape1
  <2>2. [st EXCEPT !.ok = FALSE] \in Reader
    BY <1>1 DEF Reader
  <2> QED BY <1>5, <2>1, <2>2
<1>6. CASE st.esc = <<"%">> /\ c \in HexDigits
  <2>1. Len(st.esc) = 1 /\ st.esc # <<>> /\ IsHexDigit(c)
    BY <1>2, <1>6, EscsAre
  <2>2. Len(st.esc) # 2
    BY <1>3, <2>1, Zenon
  <2>3. Append(st.esc, c) = <<"%", c>> /\ <<"%", c>> \in Escs
    BY <1>6, EscsAre
  <2>4. Unescape1(plus, st, c) = [st EXCEPT !.esc = Append(st.esc, c)]
    BY <2>1, <2>2 DEF Unescape1
  <2>5. [st EXCEPT !.esc = Append(st.esc, c)] = [ok |-> st.ok, text |-> st.text, esc |-> <<"%", c>>]
    BY <1>1, <2>3
  <2>6. [ok |-> st.ok, text |-> st.text, esc |-> <<"%", c>>] \in Reader
    BY <1>1, <2>3 DEF Reader
  <2>7. \A h \in HexDigits : st.esc # <<"%", h>>
    <3>1. \A h \in HexDigits : Len(<<"%", h>>) = 2
      BY EscsAre
    <3> QED BY <2>2, <3>1
  <2> QED BY <1>6, <2>1, <2>4, <2>5, <2>6, <2>7
<1>7. CASE Len(st.esc) = 2 /\ c \in HexDigits
  <2>1. IsHexDigit(c) /\ Len(st.esc) # 1 /\ st.esc # <<>> /\ st.esc # <<"%">>
    <3>1. Len(st.esc) # 1
      BY <1>3, <1>7, Zenon
    <3>2. Len(st.esc) # 0
      BY <1>3, <1>7, Zenon
    <3> QED BY <1>1, <1>2, <1>7, <3>1, <3>2, EscsAre
  <2> DEFINE d == CharOf(16 * HexValue(st.esc[2]) + HexValue(c))
  <2>2. d \in Chars
    <3>1. st.esc[2] \in HexDigits
      BY <1>1, <1>7, EscsAre
    <3>2. HexValue(st.esc[2]) \in 0..15 /\ HexValue(c) \in 0..15
      BY <1>7, <3>1, HexDigitIs
    <3>3. \A a, b \in 0..15 : 16 * a + b \in 0..255
      OBVIOUS
    <3>4. 16 * HexValue(st.esc[2]) + HexValue(c) \in 0..255
      BY <3>2, <3>3, Zenon
    <3> QED BY <3>4, CharIs
  <2>3. Append(st.text, d) \in Texts
    BY <1>1, <2>2, AppendProperties DEF Texts
  <2>4. Unescape1(plus, st, c) = [st EXCEPT !.esc = <<>>, !.text = Append(st.text, d)]
    BY <1>7, <2>1 DEF Unescape1
  <2>5. \A h \in HexDigits : st.esc = <<"%", h>> =>
            d = CharOf(16 * HexValue(h) + HexValue(c))
    <3>1. \A h \in HexDigits : <<"%", h>>[2] = h
      BY EscsAre
    <3> QED BY <3>1
  <2> HIDE DEF d
  <2>6. [st EXCEPT !.esc = <<>>, !.text = Append(st.text, d)]
        = [ok |-> st.ok, esc |-> <<>>, text |-> Append(st.text, d)]
    <3>1. \A r, e, t : [r EXCEPT !.esc = e, !.text = t] = [[r EXCEPT !.esc = e] EXCEPT !.text = t]
      OBVIOUS
    <3>2. [st EXCEPT !.esc = <<>>] = [ok |-> st.ok, text |-> st.text, esc |-> <<>>]
      BY <1>1
    <3>3. \A o, e, t, u : [[ok |-> o, text |-> t, esc |-> e] EXCEPT !.text = u]
                          = [ok |-> o, text |-> u, esc |-> e]
      OBVIOUS
    <3>4. [st EXCEPT !.esc = <<>>, !.text = Append(st.text, d)]
          = [[st EXCEPT !.esc = <<>>] EXCEPT !.text = Append(st.text, d)]
      BY <3>1
    <3>5. [[ok |-> st.ok, text |-> st.text, esc |-> <<>>] EXCEPT !.text = Append(st.text, d)]
          = [ok |-> st.ok, text |-> Append(st.text, d), esc |-> <<>>]
      BY <3>3
    <3> QED BY <3>2, <3>4, <3>5
  <2>7. [ok |-> st.ok, esc |-> <<>>, text |-> Append(st.text, d)] \in Reader
    BY <1>1, <2>3, EscsAre DEF Reader
  <2> QED BY <2>1, <2>4, <2>5, <2>6, <2>7
<1>8. \/ st.esc = <<>>
      \/ st.esc # <<>> /\ c \notin HexDigits
      \/ st.esc = <<"%">> /\ c \in HexDigits
      \/ Len(st.esc) = 2 /\ c \in HexDigits
  BY <1>1, EscsAre
<1> QED BY <1>4, <1>5, <1>6, <1>7, <1>8

LEMMA RanEnds ==
    ASSUME NEW plus \in BOOLEAN, NEW t \in Texts, NEW f,
           f = [x \in Reader \X Chars |-> Unescape1(plus, x[1], x[2])]
    PROVE  EndsIn(Ran(t, plus), f, Ready, t, Reader)
<1> DEFINE G(it) == [u \in SUBSET DOMAIN t |->
                       IF u = {} THEN Ready ELSE Unescape1(plus, it[u \ {Max(u)}], t[Max(u)])]
           c == CHOOSE it : it = G(it)
<1>1. DOMAIN t = 1..Len(t) /\ Len(t) \in Nat /\ \A i \in 1..Len(t) : t[i] \in Chars
  BY LenProperties, ElementOfSeq DEF Texts
<1>2. /\ f \in [Reader \X Chars -> Reader]
      /\ \A a \in Reader, e \in Chars : f[<<a, e>>] = Unescape1(plus, a, e)
  BY Unescape1Is
<1>3. Ready \in Reader /\ t \in Seq(Chars)
  BY EscsAre, EmptySeq DEF Ready, Reader, Texts
<1>4. \A u \in SUBSET DOMAIN t :
          u # {} => t[Max(u)] \in Chars /\ u \ {Max(u)} \in SUBSET DOMAIN t
  BY <1>1, MaxOf
<1>5. Ran(t, plus) = c[DOMAIN t]
  BY DEF Ran, FoldLeft, MapThenFoldSet
<1>6. \E it : it = G(it)
  <2>1. PICK it : IsFold(it, f, Ready, t, Reader)
    BY <1>2, <1>3, FoldExists
  <2>2. \A u \in SUBSET DOMAIN t :
              it[u] = IF u = {} THEN Ready ELSE Unescape1(plus, it[u \ {Max(u)}], t[Max(u)])
    BY <1>2, <1>4, <2>1 DEF IsFold
  <2>3. it = G(it)
    BY <2>1, <2>2 DEF IsFold
  <2> QED BY <2>3
<1>7. c = G(c)
  <2> HIDE DEF G
  <2> QED BY <1>6
<1> HIDE DEF c
<1>8. IsPartlyFold(c, f, Ready, t, Reader)
  BY <1>2, <1>4, <1>7 DEF IsPartlyFold
<1>9. EndsIn(c[DOMAIN t], f, Ready, t, Reader)
  BY <1>2, <1>3, <1>8, FoldRuns
<1> QED BY <1>5, <1>9

LEMMA RanAppend ==
    ASSUME NEW plus \in BOOLEAN
    PROVE  /\ Ran(<<>>, plus) = Ready
           /\ \A t \in Texts, c \in Chars :
                 /\ Ran(t, plus) \in Reader
                 /\ Ran(Append(t, c), plus) = Unescape1(plus, Ran(t, plus), c)
<1> DEFINE f == [x \in Reader \X Chars |-> Unescape1(plus, x[1], x[2])]
<1>1. Ran(<<>>, plus) = Ready
  <2>1. <<>> \in Texts
    BY EmptySeq DEF Texts
  <2>2. EndsIn(Ran(<<>>, plus), f, Ready, <<>>, Reader)
    BY <2>1, RanEnds
  <2> HIDE DEF f
  <2> QED BY <2>2, EndsEmpty
<1>2. ASSUME NEW t \in Texts, NEW c \in Chars
      PROVE  /\ Ran(t, plus) \in Reader
             /\ Ran(Append(t, c), plus) = Unescape1(plus, Ran(t, plus), c)
  <2>1. Append(t, c) \in Texts /\ t \in Seq(Chars)
    BY AppendProperties DEF Texts
  <2>2. EndsIn(Ran(t, plus), f, Ready, t, Reader)
    BY RanEnds
  <2>3. EndsIn(Ran(Append(t, c), plus), f, Ready, Append(t, c), Reader)
    BY <2>1, RanEnds
  <2> HIDE DEF f
  <2>4. Ran(t, plus) \in Reader /\ Ran(Append(t, c), plus) = f[<<Ran(t, plus), c>>]
    BY <2>1, <2>2, <2>3, EndsAppend
  <2> QED BY <2>4 DEF f
<1> QED BY <1>1, <1>2

LEMMA UnescapeType ==
    ASSUME NEW plus \in BOOLEAN, NEW t \in Texts
    PROVE  /\ Unescape(t, plus).text \in Texts /\ Unescape(t, plus).ok \in BOOLEAN
           /\ Unescape(t, plus) = [ok |-> Ran(t, plus).ok /\ Ran(t, plus).esc = <<>>,
                                   text |-> Ran(t, plus).text]
<1>1. Ran(t, plus) \in Reader
  BY RanAppend, TextConstantsOK
<1>2. Unescape(t, plus) = [ok |-> Ran(t, plus).ok /\ Ran(t, plus).esc = <<>>,
                           text |-> Ran(t, plus).text]
  BY DEF Unescape, Ran, Ready
<1> QED BY <1>1, <1>2 DEF Reader

\* A way to write a character that is read as that character.
IsEscape(w, c, plus) ==
    \/ \E d \in Chars : w = <<d>> /\ d # "%" /\ c = Blank(plus, d)
    \/ w = PercentEncode(c)

LEMMA EscapeIsRead ==
    ASSUME NEW plus \in BOOLEAN, NEW s \in Texts, Ran(s, plus).esc = <<>>,
           NEW c \in Chars, NEW w, IsEscape(w, c, plus)
    PROVE  /\ w \in Texts /\ s \o w \in Texts
           /\ Ran(s \o w, plus) =
                 [ok |-> Ran(s, plus).ok, text |-> Append(Ran(s, plus).text, c), esc |-> <<>>]
<1> DEFINE st == Ran(s, plus)
<1>1. st \in Reader /\ s \in Seq(Chars) /\ {"%", "+", " "} \subseteq Chars /\ st.esc = <<>>
  BY RanAppend, TextConstantsOK DEF Texts
<1>2. \A u \in Seq(Chars), d \in Chars :
          /\ Append(u, d) \in Seq(Chars)
          /\ Ran(Append(u, d), plus) = Unescape1(plus, Ran(u, plus), d)
  BY AppendProperties, RanAppend DEF Texts
<1>3. ASSUME NEW d \in Chars, w = <<d>>, d # "%", c = Blank(plus, d)
      PROVE  /\ w \in Texts /\ s \o w \in Texts
             /\ Ran(s \o w, plus) = [ok |-> st.ok, text |-> Append(st.text, c), esc |-> <<>>]
  <2>1. s \o w = Append(s, d) /\ w \in Texts
    BY <1>1, <1>3, ConcatShort, Short DEF Texts
  <2>2. Ran(s \o w, plus) = Unescape1(plus, st, d)
    BY <1>1, <1>2, <2>1
  <2> HIDE DEF st
  <2>3. Unescape1(plus, st, d) = [ok |-> st.ok, text |-> Append(st.text, Blank(plus, d)), esc |-> <<>>]
    BY <1>1, <1>3, Unescape1Is
  <2>4. Append(s, d) \in Texts
    BY <1>1, <1>2 DEF Texts
  <2> QED BY <1>3, <2>1, <2>2, <2>3, <2>4
<1>4. CASE w = PercentEncode(c)
  <2>1. PICK h \in HexDigits, l \in HexDigits :
              /\ w = <<"%", h, l>>
              /\ CharOf(16 * HexValue(h) + HexValue(l)) = c
    BY <1>4, PercentEncodeIs
  <2>2. h \in Chars /\ l \in Chars
    BY HexDigitIs
  <2>3. w \in Texts /\ s \o w = Append(Append(Append(s, "%"), h), l)
    <3>1. "%" \in Chars
      BY <1>1
    <3>2. <<"%", h, l>> \in Seq(Chars)
      BY <2>2, <3>1, Short
    <3>3. s \o <<"%", h, l>> = Append(Append(Append(s, "%"), h), l)
      <4>1. \A a, b, e \in Chars : s \o <<a, b, e>> = Append(Append(Append(s, a), b), e)
        <5> s \in Seq(Chars)
          BY <1>1
        <5> HIDE DEF st
        <5> QED BY ConcatShort
      <4> QED BY <2>2, <3>1, <4>1
    <3> QED BY <2>1, <3>2, <3>3 DEF Texts
  <2> DEFINE s1 == Append(s, "%")
             s2 == Append(s1, h)
             st1 == [ok |-> st.ok, text |-> st.text, esc |-> <<"%">>]
             st2 == [ok |-> st.ok, text |-> st.text, esc |-> <<"%", h>>]
  <2>4. s1 \in Seq(Chars) /\ s2 \in Seq(Chars) /\ Append(s2, l) \in Seq(Chars)
    BY <1>1, <1>2, <2>2
  <2>5. st1.esc = <<"%">> /\ st1.text = st.text /\ st1.ok = st.ok
        /\ st2.esc = <<"%", h>> /\ st2.text = st.text /\ st2.ok = st.ok
    OBVIOUS
  <2>6. /\ Ran(s1, plus) = Unescape1(plus, st, "%")
        /\ Ran(s2, plus) = Unescape1(plus, Ran(s1, plus), h)
        /\ Ran(Append(s2, l), plus) = Unescape1(plus, Ran(s2, plus), l)
    <3> HIDE DEF s1, s2
    <3>1. Ran(s1, plus) = Unescape1(plus, st, "%")
      BY <1>1, <1>2 DEF s1
    <3>2. Ran(s2, plus) = Unescape1(plus, Ran(s1, plus), h)
      BY <1>2, <2>2, <2>4 DEF s2
    <3>3. Ran(Append(s2, l), plus) = Unescape1(plus, Ran(s2, plus), l)
      BY <1>2, <2>2, <2>4
    <3> QED BY <3>1, <3>2, <3>3
  <2>7. Unescape1(plus, st, "%") = st1 /\ st1 \in Reader
    <3> HIDE DEF st
    <3>1. /\ Unescape1(plus, st, "%") \in Reader
          /\ Unescape1(plus, st, "%") = [ok |-> st.ok, text |-> st.text, esc |-> <<"%">>]
      BY <1>1, Unescape1Is
    <3> QED BY <3>1
  <2>8. Unescape1(plus, st1, h) = st2 /\ st2 \in Reader
    <3> HIDE DEF st, st1
    <3>1. /\ Unescape1(plus, st1, h) \in Reader
          /\ Unescape1(plus, st1, h) = [ok |-> st1.ok, text |-> st1.text, esc |-> <<"%", h>>]
      BY <2>2, <2>5, <2>7, Unescape1Is
    <3> QED BY <2>5, <3>1
  <2>9. Unescape1(plus, st2, l) = [ok |-> st.ok, text |-> Append(st.text, c), esc |-> <<>>]
    <3> HIDE DEF st, st1, st2
    <3>1. \A k \in HexDigits : st2.esc = <<"%", k>> /\ l \in HexDigits =>
               Unescape1(plus, st2, l) =
                    [ok |-> st2.ok, esc |-> <<>>,
                     text |-> Append(st2.text, CharOf(16 * HexValue(k) + HexValue(l)))]
      BY <2>2, <2>8, Unescape1Is
    <3>2. Unescape1(plus, st2, l) =
              [ok |-> st2.ok, esc |-> <<>>,
               text |-> Append(st2.text, CharOf(16 * HexValue(h) + HexValue(l)))]
      BY <2>5, <3>1
    <3> QED BY <2>1, <2>5, <3>2
  <2>10. Ran(s \o w, plus) = [ok |-> st.ok, text |-> Append(st.text, c), esc |-> <<>>]
    <3> HIDE DEF st, st1, st2, s1
    <3> QED BY <2>3, <2>6, <2>7, <2>8, <2>9 DEF s1
  <2> QED BY <2>3, <2>4, <2>10 DEF Texts
<1> QED BY <1>3, <1>4 DEF IsEscape

\* A text each character of which is written like that is read as that text.
LEMMA EscapesAreRead ==
    ASSUME NEW plus \in BOOLEAN, NEW g \in [Chars -> Seq(Chars)],
           \A c \in Chars : IsEscape(g[c], c, plus)
    PROVE  \A t \in Texts : /\ FlatMap(g, t) \in Texts
                            /\ Unescape(FlatMap(g, t), plus) = [ok |-> TRUE, text |-> t]
<1>0. \A u \in Seq(Chars), e \in Chars :
         FlatMap(g, u) \in Seq(Chars) /\ FlatMap(g, Append(u, e)) = FlatMap(g, u) \o g[e]
  BY FlatMapWrites
<1> DEFINE P == {t \in Seq(Chars) :
                   /\ FlatMap(g, t) \in Texts
                   /\ Ran(FlatMap(g, t), plus) = [ok |-> TRUE, text |-> t, esc |-> <<>>]}
<1>1. <<>> \in P
  <2>1. FlatMap(g, <<>>) = <<>> /\ <<>> \in Seq(Chars)
    BY FlatMapAppend, EmptySeq
  <2> QED BY <2>1, RanAppend DEF Ready, Texts
<1>2. ASSUME NEW t \in Seq(Chars) \cap P, NEW c \in Chars PROVE Append(t, c) \in P
  <2> DEFINE F == FlatMap(g, t)
  <2>1. /\ F \in Texts /\ Ran(F, plus) = [ok |-> TRUE, text |-> t, esc |-> <<>>]
        /\ t \in Seq(Chars) /\ Append(t, c) \in Seq(Chars)
    BY AppendProperties
  <2> HIDE DEF P
  <2>2. FlatMap(g, Append(t, c)) = F \o g[c]
    BY <1>0, <2>1
  <2> HIDE DEF F
  <2>3. /\ F \o g[c] \in Texts
        /\ Ran(F \o g[c], plus) =
              [ok |-> Ran(F, plus).ok, text |-> Append(Ran(F, plus).text, c), esc |-> <<>>]
    <3>1. Ran(F, plus).esc = <<>> /\ IsEscape(g[c], c, plus)
      BY <2>1
    <3> DEFINE w == g[c]
    <3>2. IsEscape(w, c, plus)
      BY <3>1
    <3> HIDE DEF w
    <3>3. /\ F \o w \in Texts
          /\ Ran(F \o w, plus) =
                [ok |-> Ran(F, plus).ok, text |-> Append(Ran(F, plus).text, c), esc |-> <<>>]
      BY <2>1, <3>1, <3>2, EscapeIsRead
    <3> QED BY <3>3 DEF w
  <2>4. Ran(F \o g[c], plus) = [ok |-> TRUE, text |-> Append(t, c), esc |-> <<>>]
    BY <2>1, <2>3
  <2> QED BY <2>1, <2>2, <2>3, <2>4 DEF P
<1> HIDE DEF P
<1>3. Seq(Chars) \subseteq P
  BY <1>1, <1>2, SeqSet
<1>4. ASSUME NEW t \in Texts
      PROVE  /\ FlatMap(g, t) \in Texts
             /\ Unescape(FlatMap(g, t), plus) = [ok |-> TRUE, text |-> t]
  <2>1. /\ FlatMap(g, t) \in Texts
        /\ Ran(FlatMap(g, t), plus) = [ok |-> TRUE, text |-> t, esc |-> <<>>]
    BY <1>3 DEF P, Texts
  <2> QED BY <2>1, UnescapeType
<1> QED BY <1>4

\* quote() leaves the characters it may, and unquote() takes back what it did.
LEMMA QuoteIs ==
    ASSUME NEW t \in Texts, NEW safe \in SUBSET Chars
    PROVE  /\ ToSet(quote(t, safe)) \subseteq Unreserved \cup safe \cup {"%"}
           /\ "%" \notin safe => unquote(quote(t, safe)) = [ok |-> TRUE, text |-> t]
<1> DEFINE asItIs == Unreserved \cup safe
           K == asItIs \cup {"%"}
           g == [c \in Chars |-> IF c \in asItIs THEN <<c>> ELSE PercentEncode(c)]
<1>1. t \in Seq(Chars) /\ \A i \in DOMAIN t : t[i] \in Chars
  BY LenProperties, ElementOfSeq DEF Texts
<1>2. Unreserved \subseteq Chars /\ "%" \in Chars /\ "%" \notin Unreserved /\ K \subseteq Chars
  BY TextConstantsOK
<1>3. quote(t, safe) = FlatMap(g, t)
  <2>1. [i \in DOMAIN t |-> IF t[i] \in Unreserved \cup safe THEN <<t[i]>> ELSE PercentEncode(t[i])]
        = [i \in DOMAIN t |-> g[t[i]]]
    BY <1>1
  <2> HIDE DEF g
  <2> QED BY <2>1 DEF quote, FlatMap
<1>4. ASSUME NEW c \in Chars PROVE g[c] \in Seq(K)
  <2>1. CASE c \in asItIs
    <3>1. <<c>> \in Seq(K)
      <4> c \in K
        BY <2>1
      <4> HIDE DEF K
      <4> QED BY Short
    <3> QED BY <2>1, <3>1
  <2>2. CASE c \notin asItIs
    <3>1. PICK h \in HexDigits, l \in HexDigits :
              PercentEncode(c) = <<"%", h, l>> /\ h \in Unreserved /\ l \in Unreserved
      BY PercentEncodeIs
    <3>2. "%" \in K /\ h \in K /\ l \in K
      BY <3>1
    <3>3. <<"%", h, l>> \in Seq(K)
      <4> HIDE DEF K
      <4> QED BY <3>2, Short
    <3> QED BY <2>2, <3>1, <3>3
  <2> QED BY <2>1, <2>2
<1>5. g \in [Chars -> Seq(K)]
  BY <1>4
<1>6. FlatMap(g, t) \in Seq(K)
  <2> HIDE DEF g, K
  <2>1. \A u \in Seq(Chars), e \in Chars :
            FlatMap(g, u) \in Seq(K) /\ FlatMap(g, Append(u, e)) = FlatMap(g, u) \o g[e]
    BY <1>5, FlatMapAppend
  <2> QED BY <1>1, <1>2, <2>1
<1>7. ToSet(FlatMap(g, t)) \subseteq K
  <2> HIDE DEF g, K
  <2> QED BY <1>6, Elements
<1>8. ASSUME "%" \notin safe PROVE unquote(quote(t, safe)) = [ok |-> TRUE, text |-> t]
  <2>1. g \in [Chars -> Seq(Chars)]
    <3>1. \A s \in Seq(K) : s \in Seq(Chars)
      <4> HIDE DEF K
      <4>1. \A s \in Seq(K) : ToSet(s) \subseteq Chars
        BY <1>2, Elements
      <4> QED BY <4>1, Elements
    <3> QED BY <1>5, <3>1
  <2>2. ASSUME NEW c \in Chars PROVE IsEscape(g[c], c, FALSE)
    <3>1. CASE c \in asItIs
      <4>1. g[c] = <<c>> /\ c # "%" /\ c = Blank(FALSE, c)
        BY <1>2, <1>8, <3>1 DEF Blank
      <4> HIDE DEF g
      <4> QED BY <4>1 DEF IsEscape
    <3>2. CASE c \notin asItIs
      <4>1. g[c] = PercentEncode(c)
        BY <3>2
      <4> HIDE DEF g
      <4> QED BY <4>1 DEF IsEscape
    <3> QED BY <3>1, <3>2
  <2> HIDE DEF g
  <2>3. \A u \in Texts : Unescape(FlatMap(g, u), FALSE) = [ok |-> TRUE, text |-> u]
    BY <2>1, <2>2, EscapesAreRead
  <2> QED BY <1>3, <2>3 DEF unquote
<1> QED BY <1>3, <1>7, <1>8

\* url.QueryEscape likewise.
QueryChars == Unreserved \cup {"%", "+"}

LEMMA QueryEscapeIs ==
    ASSUME NEW t \in Texts
    PROVE  /\ QueryEscape(t) \in Seq(QueryChars) /\ QueryEscape(t) \in Texts
           /\ Unescape(QueryEscape(t), TRUE) = [ok |-> TRUE, text |-> t]
<1> DEFINE g == [c \in Chars |-> CASE c = " " -> <<"+">>
                                   [] c \in Unreserved -> <<c>>
                                   [] OTHER -> PercentEncode(c)]
<1>1. t \in Seq(Chars) /\ \A i \in DOMAIN t : t[i] \in Chars
  BY LenProperties, ElementOfSeq DEF Texts
<1>2. /\ Unreserved \subseteq Chars /\ QueryChars \subseteq Chars /\ {"%", "+", " "} \subseteq Chars
      /\ Unreserved \cap {"%", "+", " "} = {}
  <2>1. /\ Unreserved \subseteq Chars \ {"%", "+", " ", "&", "=", ";"}
        /\ {"%", "+", " ", "&", "=", ";"} \subseteq Chars
    BY TextConstantsOK
  <2>2. Unreserved \subseteq Chars /\ Unreserved \cap {"%", "+", " "} = {}
    BY <2>1
  <2>3. {"%", "+", " "} \subseteq Chars
    BY <2>1
  <2>4. QueryChars \subseteq Chars
    BY <2>2, <2>3 DEF QueryChars
  <2> QED BY <2>2, <2>3, <2>4
<1>3. QueryEscape(t) = FlatMap(g, t)
  <2> DEFINE w(c) == CASE c = " " -> <<"+">>
                       [] c \in Unreserved -> <<c>>
                       [] OTHER -> PercentEncode(c)
  <2>1. QueryEscape(t) = FlattenSeq([i \in DOMAIN t |-> w(t[i])])
    BY DEF QueryEscape
  <2>2. \A c \in Chars : g[c] = w(c)
    OBVIOUS
  <2> HIDE DEF w, g
  <2>3. [i \in DOMAIN t |-> w(t[i])] = [i \in DOMAIN t |-> g[t[i]]]
    BY <1>1, <2>2
  <2> QED BY <2>1, <2>3 DEF FlatMap
<1>4. ASSUME NEW c \in Chars PROVE g[c] \in Seq(QueryChars) /\ IsEscape(g[c], c, TRUE)
  <2>1. CASE c = " "
    <3>1. g[c] = <<"+">> /\ "+" \in QueryChars /\ "+" # "%" /\ c = Blank(TRUE, "+")
      BY <1>2, <2>1 DEF Blank, QueryChars
    <3>2. <<"+">> \in Seq(QueryChars)
      BY <3>1, Short
    <3>3. "+" \in Chars
      BY <1>2
    <3> HIDE DEF g
    <3> QED BY <3>1, <3>2, <3>3 DEF IsEscape
  <2>2. CASE c \in Unreserved
    <3>1. g[c] = <<c>> /\ c \in QueryChars /\ c # "%" /\ c = Blank(TRUE, c)
      BY <1>2, <2>2 DEF Blank, QueryChars
    <3>2. <<c>> \in Seq(QueryChars)
      BY <3>1, Short
    <3> HIDE DEF g
    <3> QED BY <3>1, <3>2 DEF IsEscape
  <2>3. CASE c # " " /\ c \notin Unreserved
    <3>1. g[c] = PercentEncode(c)
      BY <2>3
    <3>2. PICK h \in HexDigits, l \in HexDigits :
              PercentEncode(c) = <<"%", h, l>> /\ h \in Unreserved /\ l \in Unreserved
      BY PercentEncodeIs
    <3>3. "%" \in QueryChars /\ h \in QueryChars /\ l \in QueryChars
      BY <3>2 DEF QueryChars
    <3>4. <<"%", h, l>> \in Seq(QueryChars)
      BY <3>3, Short
    <3> HIDE DEF g
    <3> QED BY <3>1, <3>2, <3>4 DEF IsEscape
  <2> QED BY <2>1, <2>2, <2>3
<1>5. g \in [Chars -> Seq(QueryChars)]
  BY <1>4
<1>6. g \in [Chars -> Seq(Chars)]
  <2>1. \A s \in Seq(QueryChars) : ToSet(s) \subseteq Chars
    BY <1>2, Elements
  <2>2. \A s \in Seq(QueryChars) : s \in Seq(Chars)
    BY <2>1, Elements
  <2> QED BY <1>5, <2>2
<1>7. FlatMap(g, t) \in Seq(QueryChars)
  <2> HIDE DEF g
  <2>1. \A u \in Seq(Chars), e \in Chars :
            FlatMap(g, u) \in Seq(QueryChars) /\ FlatMap(g, Append(u, e)) = FlatMap(g, u) \o g[e]
    BY <1>5, FlatMapAppend, SMTT(30)
  <2> QED BY <1>1, <1>2, <2>1
<1>8. FlatMap(g, t) \in Texts /\ Unescape(FlatMap(g, t), TRUE) = [ok |-> TRUE, text |-> t]
  <2>1. \A c \in Chars : IsEscape(g[c], c, TRUE)
    BY <1>4
  <2> HIDE DEF g
  <2>2. \A u \in Texts : /\ FlatMap(g, u) \in Texts
                         /\ Unescape(FlatMap(g, u), TRUE) = [ok |-> TRUE, text |-> u]
    BY <1>6, <2>1, EscapesAreRead
  <2> QED BY <2>2
<1> QED BY <1>3, <1>7, <1>8

-----------------------------------------------------------------------------
(* Maps of values, and what is written of them.                            *)

IsMap(m) == IsMultiMap(m) /\ m = [k \in DOMAIN m |-> m[k]]

\* Entries grouped by key are such a map.
LEMMA GroupedIs ==
    ASSUME NEW B, \A e \in B : e.key \in Texts /\ e.val \in Texts, NEW s \in Seq(B)
    PROVE  /\ DOMAIN Grouped(s) = KeysIn(s) /\ IsMap(Grouped(s))
           /\ \A k \in KeysIn(s) : Grouped(s)[k] = Vals(Named(s, k))
<1> DEFINE P == {t \in Seq(B) : IsFiniteSet(KeysIn(t))}
<1>1. ToSet(s) \subseteq B
  BY Elements
<1>2. KeysIn(s) \subseteq Texts /\ IsFiniteSet(KeysIn(s))
  <2>1. <<>> \in P
    <3>1. KeysIn(<<>>) = {}
      BY Elements DEF KeysIn
    <3> QED BY <3>1, EmptySeq, FS_EmptySet
  <2>2. ASSUME NEW t \in Seq(B) \cap P, NEW e \in B PROVE Append(t, e) \in P
    <3>1. IsFiniteSet(KeysIn(t)) /\ Append(t, e) \in Seq(B) /\ ToSet(Append(t, e)) = ToSet(t) \cup {e}
      BY AppendProperties, Elements
    <3>2. KeysIn(Append(t, e)) = KeysIn(t) \cup {e.key}
      BY <3>1 DEF KeysIn
    <3>3. IsFiniteSet(KeysIn(t) \cup {e.key})
      BY <3>1, OneMore
    <3> QED BY <3>1, <3>2, <3>3
  <2>3. Seq(B) \subseteq P
    <3> HIDE DEF P
    <3> QED BY <2>1, <2>2, SeqSet
  <2> QED BY <1>1, <2>3 DEF KeysIn
<1>3. ASSUME NEW k \in KeysIn(s)
      PROVE  Vals(Named(s, k)) \in Seq(Texts) /\ Vals(Named(s, k)) # <<>>
  <2> DEFINE Q == {e \in ToSet(s) : e.key = k}
             n == Named(s, k)
  <2>1. n = Only(s, Q)
    BY DEF Named
  <2>2. n \in Seq(B) /\ ToSet(n) = ToSet(s) \cap Q
    <3> HIDE DEF Q
    <3> QED BY <2>1, OnlyElements
  <2>3. ToSet(n) # {}
    BY <2>2 DEF KeysIn
  <2> HIDE DEF n
  <2>4. n # <<>>
    BY <2>3, Elements
  <2>5. /\ Len(n) \in Nat \ {0} /\ DOMAIN n = 1..Len(n)
        /\ \A i \in DOMAIN n : n[i].val \in Texts
    BY <2>2, <2>4, LenProperties, EmptySeq, ElementOfSeq
  <2>6. Vals(n) \in Seq(Texts) /\ Len(Vals(n)) = Len(n)
    BY <2>5 DEF Vals
  <2> QED BY <2>5, <2>6, EmptySeq DEF n
<1>4. Grouped(s) = [k \in KeysIn(s) |-> Vals(Named(s, k))]
  BY DEF Grouped, KeysIn, Vals
<1> QED BY <1>2, <1>3, <1>4 DEF IsMap, IsMultiMap, Texts

LEMMA NamedIs ==
    ASSUME NEW s \in Seq(Entry), NEW k
    PROVE  Named(s, k) = Only(s, Of(k))
<1> DEFINE Q == {e \in ToSet(s) : e.key = k}
<1>1. ToSet(s) \subseteq Entry
  BY Elements
<1>2. \A e \in ToSet(s) : e \in Q <=> e \in Of(k)
  BY <1>1 DEF Of
<1>3. Named(s, k) = Only(s, Q)
  BY DEF Named
<1> HIDE DEF Q
<1> QED BY <1>2, <1>3, OnlySame

\* What a dict holds by key, and what a map gives back.
LEMMA GroupedOf ==
    ASSUME NEW d, IsDict(d)
    PROVE  /\ IsMap(Grouped(d.items))
           /\ Grouped(d.items) = [k \in KeysIn(d.items) |-> getlist(d, k)]
<1> DEFINE G == Grouped(d.items)
<1>1. \A e \in Entry : e.key \in Texts /\ e.val \in Texts
  BY DEF Entry
<1>2. /\ DOMAIN G = KeysIn(d.items) /\ IsMap(G)
      /\ \A k \in KeysIn(d.items) : G[k] = Vals(Named(d.items, k))
  BY <1>1, GroupedIs DEF IsDict
<1>3. \A k \in KeysIn(d.items) : Vals(Named(d.items, k)) = getlist(d, k)
  <2>1. SUFFICES ASSUME NEW k \in KeysIn(d.items) PROVE Vals(Named(d.items, k)) = getlist(d, k)
    OBVIOUS
  <2>2. normalize(d, k) = k
    BY KeysAre
  <2> QED BY <2>2, UnderIs
<1>4. G = [k \in KeysIn(d.items) |-> G[k]]
  BY <1>2 DEF IsMap
<1> HIDE DEF G
<1>5. G = [k \in KeysIn(d.items) |-> getlist(d, k)]
  BY <1>2, <1>3, <1>4
<1> QED BY <1>2, <1>5 DEF G

LEMMA GroupedBack ==
    ASSUME NEW m, IsMap(m), NEW o \in Orders(m)
    PROVE  Grouped(FromMap(m, o)) = m
<1> DEFINE F == FromMap(m, o)
           G == Grouped(F)
<1>1. \A e \in Entry : e.key \in Texts /\ e.val \in Texts
  BY DEF Entry
<1>2. F \in Seq(Entry) /\ KeysIn(F) = DOMAIN m /\ \A k : Vals(Only(F, Of(k))) = At(m, k)
  BY MapLookup DEF IsMap
<1>3. DOMAIN G = KeysIn(F) /\ IsMap(G) /\ \A k \in KeysIn(F) : G[k] = Vals(Named(F, k))
  <2> HIDE DEF F
  <2> QED BY <1>1, <1>2, GroupedIs
<1>4. \A k \in DOMAIN m : G[k] = m[k]
  <2> HIDE DEF F
  <2> QED BY <1>2, <1>3, NamedIs DEF At
<1>5. G = [k \in DOMAIN G |-> G[k]] /\ m = [k \in DOMAIN m |-> m[k]] /\ DOMAIN G = DOMAIN m
  BY <1>2, <1>3 DEF IsMap
<1> HIDE DEF G
<1>6. G = m
  BY <1>4, <1>5
<1> QED BY <1>6 DEF G

\* url.Values.Encode writes the pairs of a map, each after a "&", and drops the first.
PairText ==
    [e \in Entry |-> <<"&">> \o QueryEscape(e.key) \o <<"=">> \o QueryEscape(e.val)]

LEMMA PairTextIs ==
    ASSUME NEW k \in Texts, NEW v \in Texts
    PROVE  LET e == [key |-> k, val |-> v] IN
           /\ e \in Entry /\ PairText[e] \in Texts
           /\ PairText[e] = <<"&">> \o QueryEscape(k) \o <<"=">> \o QueryEscape(v)
<1> DEFINE e == [key |-> k, val |-> v]
<1>1. e \in Entry /\ e.key = k /\ e.val = v
  BY DEF Entry
<1>2. PairText[e] = <<"&">> \o QueryEscape(k) \o <<"=">> \o QueryEscape(v)
  <2> HIDE DEF e
  <2> QED BY <1>1 DEF PairText
<1>3. <<"&">> \in Texts /\ <<"=">> \in Texts /\ QueryEscape(k) \in Texts /\ QueryEscape(v) \in Texts
  <2>1. "&" \in Chars /\ "=" \in Chars
    BY TextConstantsOK
  <2> QED BY <2>1, QueryEscapeIs, Short DEF Texts
<1>4. <<"&">> \o QueryEscape(k) \o <<"=">> \o QueryEscape(v) \in Texts
  <2>1. \A s, t \in Texts : s \o t \in Texts
    BY ConcatProperties DEF Texts
  <2> DEFINE a == <<"&">>
             b == QueryEscape(k)
             c == <<"=">>
             w == QueryEscape(v)
  <2>2. a \in Texts /\ b \in Texts /\ c \in Texts /\ w \in Texts
    BY <1>3
  <2> HIDE DEF a, b, c, w
  <2>3. a \o b \o c \o w \in Texts
    BY <2>1, <2>2
  <2> QED BY <2>3 DEF a, b, c, w
<1> QED BY <1>1, <1>2, <1>4

LEMMA FlatMapConcat ==
    ASSUME NEW K, NEW S, NEW g \in [K -> Seq(S)], NEW s \in Seq(K)
    PROVE  \A t \in Seq(K) : FlatMap(g, s \o t) = FlatMap(g, s) \o FlatMap(g, t)
<1> DEFINE P == {t \in Seq(K) : FlatMap(g, s \o t) = FlatMap(g, s) \o FlatMap(g, t)}
<1>0. /\ FlatMap(g, <<>>) = <<>>
      /\ \A t \in Seq(K), c \in K : /\ FlatMap(g, t) \in Seq(S)
                                    /\ FlatMap(g, Append(t, c)) = FlatMap(g, t) \o g[c]
  BY FlatMapAppend
<1>1. <<>> \in P
  <2>1. s \o <<>> = s /\ <<>> \in Seq(K)
    BY ConcatEmptySeq, EmptySeq
  <2>2. FlatMap(g, s) \in Seq(S) \/ K = {}
    BY <1>0
  <2>3. FlatMap(g, s) \o <<>> = FlatMap(g, s)
    <3>1. CASE K = {}
      <4>1. s = <<>>
        BY <3>1, EmptySeq, LenProperties
      <4> QED BY <1>0, <4>1, EmptySeq, ConcatEmptySeq
    <3>2. CASE FlatMap(g, s) \in Seq(S)
      BY <3>2, ConcatEmptySeq
    <3> QED BY <2>2, <3>1, <3>2
  <2> QED BY <1>0, <2>1, <2>3
<1>2. ASSUME NEW t \in Seq(K) \cap P, NEW e \in K PROVE Append(t, e) \in P
  <2> DEFINE a == FlatMap(g, s)
             b == FlatMap(g, t)
             c == g[e]
  <2>1. t \in Seq(K) /\ s \o t \in Seq(K) /\ s \o Append(t, e) = Append(s \o t, e)
    BY ConcatProperties, ConcatAppend
  <2>2. a \in Seq(S) /\ b \in Seq(S) /\ c \in Seq(S) /\ FlatMap(g, s \o t) = a \o b
    BY <1>0, <2>1
  <2>3. FlatMap(g, Append(s \o t, e)) = (a \o b) \o c /\ FlatMap(g, Append(t, e)) = b \o c
    BY <1>0, <2>1, <2>2
  <2>4. (a \o b) \o c = a \o (b \o c)
    <3> HIDE DEF a, b, c
    <3> QED BY <2>2, ConcatAssociative, SMTT(30)
  <2> QED BY <2>1, <2>3, <2>4, AppendProperties
<1>3. Seq(K) \subseteq P
  <2> HIDE DEF P
  <2> QED BY <1>1, <1>2, SeqSet
<1> QED BY <1>3

\* All the pairs of a list of entries, and a text without its first character.
AllPairs(es) == FlatMap(PairText, es)

Rest(t) == IF t = <<>> THEN <<>> ELSE Tail(t)

LEMMA PairsAppend ==
    /\ PairText \in [Entry -> Texts] /\ Entry # {}
    /\ AllPairs(<<>>) = <<>>
    /\ \A es \in Seq(Entry), e \in Entry :
          AllPairs(es) \in Texts /\ AllPairs(Append(es, e)) = AllPairs(es) \o PairText[e]
<1>1. ASSUME NEW e \in Entry PROVE PairText[e] \in Texts
  <2>1. e = [key |-> e.key, val |-> e.val] /\ e.key \in Texts /\ e.val \in Texts
    BY DEF Entry
  <2> QED BY <2>1, PairTextIs
<1>2. PairText \in [Entry -> Texts]
  <2>1. PairText = [e \in Entry |-> PairText[e]]
    BY DEF PairText
  <2> QED BY <1>1, <2>1
<1>3. [key |-> <<>>, val |-> <<>>] \in Entry
  BY EmptySeq DEF Entry, Texts
<1> QED BY <1>2, <1>3, FlatMapAppend DEF AllPairs, Texts

LEMMA PairsConcat ==
    \A s, t \in Seq(Entry) : AllPairs(s \o t) = AllPairs(s) \o AllPairs(t)
<1>1. PairText \in [Entry -> Seq(Chars)]
  <2>1. PairText \in [Entry -> Texts]
    BY PairsAppend
  <2> QED BY <2>1 DEF Texts
<1>2. ASSUME NEW s \in Seq(Entry), NEW t \in Seq(Entry)
      PROVE  FlatMap(PairText, s \o t) = FlatMap(PairText, s) \o FlatMap(PairText, t)
  BY <1>1, FlatMapConcat
<1> QED BY <1>2 DEF AllPairs

LEMMA EncodeIs ==
    ASSUME NEW m, IsMultiMap(m)
    PROVE  LET o == Sorted(DOMAIN m) IN
           /\ o \in Orders(m)
           /\ Encode(m) = Rest(AllPairs(FromMap(m, o)))
<1> DEFINE o == Sorted(DOMAIN m)
           W == [k \in DOMAIN m |-> AllPairs(Block(m, k))]
           P == {q \in Seq(DOMAIN m) : FlatMap(W, q) = AllPairs(FromMap(m, q))}
           w(k) == FlattenSeq([j \in DOMAIN m[k] |->
                      <<"&">> \o QueryEscape(k) \o <<"=">> \o QueryEscape(m[k][j])])
<1>1. o \in Seq(DOMAIN m) /\ o \in Orders(m)
  BY SortedIs DEF IsMultiMap, Orders, Texts
<1>2. W \in [DOMAIN m -> Seq(Chars)]
  BY BlockIs, PairsAppend DEF Texts
<1>3. ASSUME NEW k \in DOMAIN m PROVE w(k) = W[k]
  <2> DEFINE b == Block(m, k)
  <2>1. DOMAIN b = DOMAIN m[k] /\ \A j \in DOMAIN m[k] : b[j] = [key |-> k, val |-> m[k][j]]
    BY DEF Block
  <2>2. k \in Texts /\ \A j \in DOMAIN m[k] : m[k][j] \in Texts
    <3>1. m[k] \in Seq(Texts)
      BY DEF IsMultiMap, Texts
    <3> HIDE DEF b
    <3> QED BY <3>1, LenProperties, ElementOfSeq DEF IsMultiMap, Texts
  <2>3. \A j \in DOMAIN m[k] :
            PairText[b[j]] = <<"&">> \o QueryEscape(k) \o <<"=">> \o QueryEscape(m[k][j])
    <3> HIDE DEF b
    <3>1. \A v \in Texts : PairText[[key |-> k, val |-> v]] = <<"&">> \o QueryEscape(k) \o <<"=">> \o QueryEscape(v)
      BY <2>2, PairTextIs
    <3> QED BY <2>1, <2>2, <3>1
  <2>4. AllPairs(b) = FlattenSeq([j \in DOMAIN b |-> PairText[b[j]]])
    BY DEF AllPairs, FlatMap
  <2> HIDE DEF b
  <2>5. [j \in DOMAIN b |-> PairText[b[j]]]
        = [j \in DOMAIN m[k] |-> <<"&">> \o QueryEscape(k) \o <<"=">> \o QueryEscape(m[k][j])]
    BY <2>1, <2>3
  <2>6. AllPairs(b) = w(k)
    BY <2>4, <2>5
  <2>7. W[k] = AllPairs(b)
    BY DEF b
  <2> QED BY <2>6, <2>7
<1>4. Encode(m) = Rest(FlattenSeq([i \in DOMAIN o |-> w(o[i])]))
  BY DEF Encode, Rest
<1>5. FlattenSeq([i \in DOMAIN o |-> w(o[i])]) = FlatMap(W, o)
  <2>1. \A i \in DOMAIN o : o[i] \in DOMAIN m
    <3> HIDE DEF o
    <3> QED BY <1>1, LenProperties, ElementOfSeq
  <2> HIDE DEF W, o, w
  <2>2. [i \in DOMAIN o |-> w(o[i])] = [i \in DOMAIN o |-> W[o[i]]]
    BY <1>3, <2>1
  <2> QED BY <2>2 DEF FlatMap
<1>6. <<>> \in P
  <2>1. FlatMap(W, <<>>) = <<>>
    <3> HIDE DEF W
    <3> QED BY <1>2, FlatMapAppend
  <2>2. AllPairs(FromMap(m, <<>>)) = <<>>
    BY FromMapAppend, PairsAppend
  <2> QED BY <2>1, <2>2, EmptySeq
<1>7. ASSUME NEW q \in Seq(DOMAIN m) \cap P, NEW k \in DOMAIN m PROVE Append(q, k) \in P
  <2>1. Append(q, k) \in Seq(DOMAIN m)
    BY AppendProperties
  <2>2. FlatMap(W, Append(q, k)) = FlatMap(W, q) \o W[k]
    <3> HIDE DEF W, P
    <3>1. \A u \in Seq(DOMAIN m), c \in DOMAIN m : /\ FlatMap(W, u) \in Seq(Chars)
                                                  /\ FlatMap(W, Append(u, c)) = FlatMap(W, u) \o W[c]
      BY <1>2, FlatMapWrites
    <3> QED BY <3>1
  <2>3. FromMap(m, q) \in Seq(Entry) /\ FromMap(m, Append(q, k)) = FromMap(m, q) \o Block(m, k)
    BY FromMapAppend
  <2>4. AllPairs(FromMap(m, q) \o Block(m, k)) = AllPairs(FromMap(m, q)) \o AllPairs(Block(m, k))
    <3>1. Block(m, k) \in Seq(Entry)
      BY BlockIs
    <3> QED BY <2>3, <3>1, PairsConcat
  <2>5. FlatMap(W, q) = AllPairs(FromMap(m, q)) /\ W[k] = AllPairs(Block(m, k))
    OBVIOUS
  <2> HIDE DEF W
  <2> QED BY <2>1, <2>2, <2>3, <2>4, <2>5
<1>8. Seq(DOMAIN m) \subseteq P
  <2> HIDE DEF P
  <2> QED BY <1>6, <1>7, SeqSet
<1>9. FlatMap(W, o) = AllPairs(FromMap(m, o))
  <2> HIDE DEF W, o
  <2> QED BY <1>1, <1>8
<1> QED BY <1>1, <1>4, <1>5, <1>9

LEMMA EncodeType ==
    ASSUME NEW m, IsMultiMap(m)
    PROVE  Encode(m) \in Texts
<1> DEFINE F == FromMap(m, Sorted(DOMAIN m))
           a == AllPairs(F)
<1>1. Sorted(DOMAIN m) \in Orders(m) /\ Encode(m) = Rest(a)
  BY EncodeIs
<1>2. a \in Seq(Chars)
  <2>1. F \in Seq(Entry)
    BY <1>1, MapLookup
  <2> HIDE DEF F
  <2> QED BY <2>1, PairsAppend DEF Texts
<1> HIDE DEF a
<1>3. Rest(a) \in Seq(Chars)
  BY <1>2, EmptySeq, HeadTailProperties DEF Rest
<1> QED BY <1>1, <1>3 DEF Texts

\* Both ways to write a link write the same.
LEMMA LinkIs ==
    ASSUME NEW d, IsDict(d)
    PROVE  /\ urlencode(d) = Encode(Grouped(d.items))
           /\ urlencodeDict([k \in DOMAIN to_dict(d) |-> [list |-> TRUE, val |-> getlist(d, k)]])
              = Encode(Grouped(d.items))
<1> DEFINE D == DOMAIN to_dict(d)
           u == [k \in D |-> [list |-> TRUE, val |-> getlist(d, k)]]
<1>1. D = KeysIn(d.items)
  BY FirstsAre
<1>2. [k \in DOMAIN u |-> addURLValue(k, u[k])] = [k \in D |-> getlist(d, k)]
  <2> HIDE DEF D
  <2> QED BY DEF addURLValue
<1>3. Grouped(d.items) = [k \in D |-> getlist(d, k)]
  BY <1>1, GroupedOf
<1>4. urlencodeDict(u) = Encode([k \in DOMAIN u |-> addURLValue(k, u[k])])
  BY DEF urlencodeDict
<1> HIDE DEF u, D
<1>5. urlencodeDict(u) = Encode(Grouped(d.items))
  BY <1>2, <1>3, <1>4
<1> QED BY <1>5 DEF u, D, urlencode

-----------------------------------------------------------------------------
(* url.ParseQuery: first the query string in parts.                        *)

Parts == Seq(Texts) \ {<<>>}

SplitAt(sep, parts, c) ==
    IF c = sep THEN Append(parts, <<>>) ELSE Append(Front(parts), Append(Last(parts), c))

LEMMA SplitAtType ==
    ASSUME NEW sep, NEW parts \in Parts, NEW c \in Chars
    PROVE  SplitAt(sep, parts, c) \in Parts
<1>1. parts \in Seq(Texts) /\ parts # <<>> /\ Front(parts) \in Seq(Texts) /\ Last(parts) \in Seq(Chars)
  BY FrontType DEF Parts, Texts
<1>2. <<>> \in Texts /\ Append(Last(parts), c) \in Texts
  BY <1>1, EmptySeq, AppendProperties DEF Texts
<1> QED BY <1>1, <1>2, AppendProperties DEF SplitAt, Parts

LEMMA SplitEnds ==
    ASSUME NEW sep, NEW t \in Texts, NEW f,
           f = [x \in Parts \X Chars |-> SplitAt(sep, x[1], x[2])]
    PROVE  EndsIn(Split(t, sep), f, <<<<>>>>, t, Parts)
<1> DEFINE G(it) == [u \in SUBSET DOMAIN t |->
                       IF u = {} THEN <<<<>>>> ELSE SplitAt(sep, it[u \ {Max(u)}], t[Max(u)])]
           c == CHOOSE it : it = G(it)
<1>1. DOMAIN t = 1..Len(t) /\ Len(t) \in Nat /\ \A i \in 1..Len(t) : t[i] \in Chars
  BY LenProperties, ElementOfSeq DEF Texts
<1>2. /\ f \in [Parts \X Chars -> Parts]
      /\ \A a \in Parts, e \in Chars : f[<<a, e>>] = SplitAt(sep, a, e)
  BY SplitAtType
<1>3. <<<<>>>> \in Parts /\ t \in Seq(Chars)
  <2>1. <<>> \in Texts
    BY EmptySeq DEF Texts
  <2>2. \A e \in Texts : <<e>> \in Seq(Texts) /\ <<e>> # <<>>
    BY Short
  <2> QED BY <2>1, <2>2 DEF Parts, Texts
<1>4. \A u \in SUBSET DOMAIN t :
          u # {} => t[Max(u)] \in Chars /\ u \ {Max(u)} \in SUBSET DOMAIN t
  BY <1>1, MaxOf
<1>5. Split(t, sep) = c[DOMAIN t]
  BY DEF Split, SplitAt, FoldLeft, MapThenFoldSet
<1>6. \E it : it = G(it)
  <2>1. PICK it : IsFold(it, f, <<<<>>>>, t, Parts)
    BY <1>2, <1>3, FoldExists
  <2>2. \A u \in SUBSET DOMAIN t :
              it[u] = IF u = {} THEN <<<<>>>> ELSE SplitAt(sep, it[u \ {Max(u)}], t[Max(u)])
    BY <1>2, <1>4, <2>1 DEF IsFold
  <2>3. it = G(it)
    BY <2>1, <2>2 DEF IsFold
  <2> QED BY <2>3
<1>7. c = G(c)
  <2> HIDE DEF G
  <2> QED BY <1>6
<1> HIDE DEF c
<1>8. IsPartlyFold(c, f, <<<<>>>>, t, Parts)
  BY <1>2, <1>4, <1>7 DEF IsPartlyFold
<1>9. EndsIn(c[DOMAIN t], f, <<<<>>>>, t, Parts)
  BY <1>2, <1>3, <1>8, FoldRuns
<1> QED BY <1>5, <1>9

LEMMA SplitAppend ==
    ASSUME NEW sep
    PROVE  /\ Split(<<>>, sep) = <<<<>>>>
           /\ \A t \in Texts, c \in Chars :
                 /\ Split(t, sep) \in Parts
                 /\ Split(Append(t, c), sep) = SplitAt(sep, Split(t, sep), c)
<1> DEFINE f == [x \in Parts \X Chars |-> SplitAt(sep, x[1], x[2])]
<1>1. Split(<<>>, sep) = <<<<>>>>
  <2>1. <<>> \in Texts
    BY EmptySeq DEF Texts
  <2>2. EndsIn(Split(<<>>, sep), f, <<<<>>>>, <<>>, Parts)
    BY <2>1, SplitEnds
  <2> HIDE DEF f
  <2> QED BY <2>2, EndsEmpty
<1>2. ASSUME NEW t \in Texts, NEW c \in Chars
      PROVE  /\ Split(t, sep) \in Parts
             /\ Split(Append(t, c), sep) = SplitAt(sep, Split(t, sep), c)
  <2>1. Append(t, c) \in Texts /\ t \in Seq(Chars)
    BY AppendProperties DEF Texts
  <2>2. EndsIn(Split(t, sep), f, <<<<>>>>, t, Parts)
    BY SplitEnds
  <2>3. EndsIn(Split(Append(t, c), sep), f, <<<<>>>>, Append(t, c), Parts)
    BY <2>1, SplitEnds
  <2> HIDE DEF f
  <2>4. Split(t, sep) \in Parts /\ Split(Append(t, c), sep) = f[<<Split(t, sep), c>>]
    BY <2>1, <2>2, <2>3, EndsAppend
  <2> QED BY <2>4 DEF f
<1> QED BY <1>1, <1>2

LEMMA FrontOfAppend ==
    ASSUME NEW S, NEW q \in Seq(S), NEW e \in S
    PROVE  Front(Append(q, e)) = q /\ Last(Append(q, e)) = e
<1> DEFINE p == Append(q, e)
<1>1. p \in Seq(S) /\ p # <<>> /\ Len(p) = Len(q) + 1 /\ Len(q) \in Nat
      /\ p[Len(q) + 1] = e /\ \A i \in 1..Len(q) : p[i] = q[i]
  BY AppendProperties, LenProperties
<1>2. Last(p) = e
  BY <1>1 DEF Last
<1>3. Front(p) = q
  <2> HIDE DEF p
  <2>1. Front(p) \in Seq(S) /\ Len(Front(p)) = Len(p) - 1 /\ \A i \in 1..Len(p) - 1 : Front(p)[i] = p[i]
    BY <1>1, FrontType
  <2>2. Len(Front(p)) = Len(q) /\ \A i \in 1..Len(Front(p)) : Front(p)[i] = q[i]
    BY <1>1, <2>1
  <2> QED BY <2>1, <2>2, SeqEqual
<1> QED BY <1>2, <1>3

\* What has no separator stays in one part.
LEMMA SplitOn ==
    ASSUME NEW sep, NEW s \in Texts, NEW qs \in Seq(Texts), Split(s, sep) = Append(qs, <<>>)
    PROVE  \A b \in Seq(Chars \ {sep}) : s \o b \in Texts /\ Split(s \o b, sep) = Append(qs, b)
<1> DEFINE K == Chars \ {sep}
           P == {b \in Seq(K) : b \in Texts /\ s \o b \in Texts /\ Split(s \o b, sep) = Append(qs, b)}
<1>1. <<>> \in P
  <2>1. s \o <<>> = s /\ <<>> \in Seq(K) /\ <<>> \in Texts
    BY ConcatEmptySeq, EmptySeq DEF Texts
  <2> QED BY <2>1
<1>2. ASSUME NEW b \in Seq(K) \cap P, NEW c \in K PROVE Append(b, c) \in P
  <2>1. b \in Seq(K) /\ b \in Texts /\ c \in Chars /\ c # sep
    OBVIOUS
  <2>2. Append(b, c) \in Seq(K) /\ Append(b, c) \in Texts
    <3>1. \A C : \A u \in Seq(C), e \in C : Append(u, e) \in Seq(C)
      BY AppendProperties
    <3> QED BY <2>1, <3>1 DEF Texts
  <2>3. s \o b \in Texts /\ s \o Append(b, c) = Append(s \o b, c)
    <3>1. \A u, v \in Seq(Chars), e \in Chars : u \o v \in Seq(Chars) /\ u \o Append(v, e) = Append(u \o v, e)
      BY ConcatProperties, ConcatAppend
    <3> QED BY <2>1, <3>1 DEF Texts
  <2>4. Append(s \o b, c) \in Texts
    BY <2>1, <2>3, AppendProperties DEF Texts
  <2>5. Split(Append(s \o b, c), sep) = SplitAt(sep, Append(qs, b), c)
    BY <2>1, <2>3, SplitAppend
  <2>6. SplitAt(sep, Append(qs, b), c) = Append(qs, Append(b, c))
    <3>1. Front(Append(qs, b)) = qs /\ Last(Append(qs, b)) = b
      BY <2>1, FrontOfAppend
    <3> QED BY <2>1, <3>1 DEF SplitAt
  <2> QED BY <2>2, <2>3, <2>4, <2>5, <2>6
<1>3. Seq(K) \subseteq P
  <2> HIDE DEF P, K
  <2> QED BY <1>1, <1>2, SeqSet
<1> QED BY <1>3

\* A part of a sequence, by its first and its last place.
LEMMA PartIs ==
    ASSUME NEW S, NEW p \in Seq(S), NEW j \in Nat, NEW l \in Nat, 0 < j, l <= Len(p), j <= l + 1
    PROVE  /\ SubSeq(p, j, l) \in Seq(S) /\ Len(SubSeq(p, j, l)) = l - j + 1
           /\ \A i \in 1..l - j + 1 : SubSeq(p, j, l)[i] = p[j + i - 1]
<1>1. SubSeq(p, j, l) \in Seq(S)
  OBVIOUS
<1>2. Len(SubSeq(p, j, l)) = l - j + 1
  OBVIOUS
<1>3. \A i \in 1..l - j + 1 : SubSeq(p, j, l)[i] = p[j + i - 1]
  OBVIOUS
<1> QED BY <1>1, <1>2, <1>3

\* A sequence is cut where it was joined.
LEMMA CutIs ==
    ASSUME NEW S, NEW a \in Seq(S), NEW x \in S, NEW b \in Seq(S), NEW p, p = a \o (<<x>> \o b)
    PROVE  /\ p \in Seq(S) /\ Len(p) = Len(a) + 1 + Len(b)
           /\ \A i \in 1..Len(a) : p[i] = a[i]
           /\ p[Len(a) + 1] = x
           /\ \A i \in 1..Len(b) : p[Len(a) + 1 + i] = b[i]
           /\ SubSeq(p, 1, Len(a)) = a
           /\ SubSeq(p, Len(a) + 2, Len(p)) = b
<1> DEFINE c == <<x>> \o b
           m == Len(a)
           n == Len(b)
<1>1. m \in Nat /\ n \in Nat
  BY LenProperties
<1>2. c \in Seq(S) /\ Len(c) = 1 + n /\ c[1] = x /\ \A i \in 1..n : c[1 + i] = b[i]
  <2>1. <<x>> \in Seq(S) /\ Len(<<x>>) = 1 /\ <<x>>[1] = x
    BY Short
  <2>2. c \in Seq(S) /\ Len(c) = 1 + n
        /\ \A i \in 1..1 + n : c[i] = IF i <= 1 THEN <<x>>[i] ELSE b[i - 1]
    BY <2>1, ConcatProperties
  <2> HIDE DEF c
  <2> QED BY <1>1, <2>1, <2>2
<1>3. p \in Seq(S) /\ Len(p) = m + (1 + n)
      /\ \A i \in 1..m + (1 + n) : p[i] = IF i <= m THEN a[i] ELSE c[i - m]
  <2>1. p = a \o c
    OBVIOUS
  <2> HIDE DEF c
  <2> QED BY <1>2, <2>1, ConcatProperties
<1> HIDE DEF c, m, n
<1>4. /\ \A i \in 1..m : p[i] = a[i]
      /\ p[m + 1] = x
      /\ \A i \in 1..n : p[m + 1 + i] = b[i]
  <2>1. \A i \in 1..m : p[i] = a[i]
    BY <1>1, <1>3
  <2>2. p[m + 1] = c[1]
    <3>1. m + 1 \in 1..m + (1 + n) /\ ~(m + 1 <= m) /\ (m + 1) - m = 1
      BY <1>1
    <3> QED BY <1>3, <3>1
  <2>3. \A i \in 1..n : p[m + 1 + i] = c[1 + i]
    <3>1. \A i \in 1..n : m + 1 + i \in 1..m + (1 + n) /\ ~(m + 1 + i <= m) /\ (m + 1 + i) - m = 1 + i
      BY <1>1
    <3> QED BY <1>3, <3>1
  <2> QED BY <1>2, <2>1, <2>2, <2>3
<1>5. SubSeq(p, 1, m) = a
  <2> DEFINE s == SubSeq(p, 1, m)
  <2>1. 0 < 1 /\ m <= Len(p) /\ 1 <= m + 1 /\ 1 \in Nat
    BY <1>1, <1>3
  <2>2. s \in Seq(S) /\ Len(s) = m - 1 + 1 /\ \A i \in 1..m - 1 + 1 : s[i] = p[1 + i - 1]
    BY <1>1, <1>3, <2>1, PartIs
  <2> HIDE DEF s
  <2>3. m - 1 + 1 = m /\ \A i \in 1..m : 1 + i - 1 = i
    BY <1>1
  <2>4. Len(s) = Len(a) /\ \A i \in 1..Len(s) : s[i] = a[i]
    BY <1>4, <2>2, <2>3 DEF m
  <2>5. s = a
    BY <2>2, <2>4, SeqEqual
  <2> QED BY <2>5 DEF s
<1>6. SubSeq(p, m + 2, Len(p)) = b
  <2> DEFINE j == m + 2
             l == Len(p)
             s == SubSeq(p, j, l)
  <2>1. j \in Nat /\ l \in Nat /\ 0 < j /\ l <= Len(p) /\ j <= l + 1
    BY <1>1, <1>3
  <2>2. l - j + 1 = n /\ \A i \in 1..n : j + i - 1 = m + 1 + i
    BY <1>1, <1>3
  <2> HIDE DEF j, l
  <2>3. s \in Seq(S) /\ Len(s) = l - j + 1 /\ \A i \in 1..l - j + 1 : s[i] = p[j + i - 1]
    BY <1>3, <2>1, PartIs
  <2> HIDE DEF s
  <2>4. Len(s) = n /\ \A i \in 1..n : s[i] = p[m + 1 + i]
    BY <2>2, <2>3
  <2>5. Len(s) = Len(b) /\ \A i \in 1..Len(s) : s[i] = b[i]
    BY <1>4, <2>4 DEF n
  <2>6. s = b
    BY <2>3, <2>5, SeqEqual
  <2> QED BY <2>6 DEF s, j, l
<1>7. Len(p) = m + 1 + n
  BY <1>1, <1>3
<1> QED BY <1>3, <1>4, <1>5, <1>6, <1>7 DEF m, n

\* One part is a key and a value.
Pair == [ok : BOOLEAN, key : Texts, val : Texts]

EqualSigns(part) == {i \in 1..Len(part) : part[i] = "="}

KeyPart(part, eq) == IF eq = 0 THEN part ELSE SubSeq(part, 1, eq - 1)
ValPart(part, eq) == IF eq = 0 THEN <<>> ELSE SubSeq(part, eq + 1, Len(part))

LEMMA PairOfIs ==
    ASSUME NEW part \in Texts,
           NEW eq, eq = IF EqualSigns(part) # {} THEN Min(EqualSigns(part)) ELSE 0
    PROVE  LET k == Unescape(KeyPart(part, eq), TRUE)
               v == Unescape(ValPart(part, eq), TRUE)
           IN PairOf(part) = [ok |-> k.ok /\ v.ok /\ ~Contains(part, ";"),
                              key |-> k.text, val |-> v.text]
BY DEF PairOf, SelectInSeq, EqualSigns, KeyPart, ValPart

LEMMA FirstSign ==
    ASSUME NEW S \in SUBSET Nat, NEW n \in S, \A i \in S : n <= i
    PROVE  Min(S) = n
<1>1. \A x \in S : (\A y \in S : x <= y) => x = n
  BY SMT
<1> QED BY <1>1 DEF Min

LEMMA PairOfType ==
    ASSUME NEW part \in Texts
    PROVE  PairOf(part) \in Pair
<1> DEFINE E == EqualSigns(part)
           eq == IF E # {} THEN Min(E) ELSE 0
           kp == KeyPart(part, eq)
           vp == ValPart(part, eq)
<1>1. part \in Seq(Chars) /\ Len(part) \in Nat
  BY LenProperties DEF Texts
<1>2. eq \in 0..Len(part)
  <2>1. CASE E # {}
    <3>1. E \in SUBSET Nat
      BY <1>1 DEF EqualSigns
    <3>2. PICK n \in E : \A i \in E : n <= i
      BY <2>1, <3>1, LeastOf
    <3>3. Min(E) = n
      BY <3>1, <3>2, FirstSign
    <3> QED BY <1>1, <2>1, <3>2, <3>3 DEF EqualSigns
  <2>2. CASE E = {}
    BY <1>1, <2>2
  <2> QED BY <2>1, <2>2
<1>3. PairOf(part) = [ok |-> Unescape(kp, TRUE).ok /\ Unescape(vp, TRUE).ok /\ ~Contains(part, ";"),
                      key |-> Unescape(kp, TRUE).text, val |-> Unescape(vp, TRUE).text]
  BY PairOfIs
<1> HIDE DEF eq
<1>4. kp \in Texts /\ vp \in Texts
  <2>1. CASE eq = 0
    BY <2>1, EmptySeq DEF KeyPart, ValPart, Texts
  <2>2. CASE eq # 0
    <3>1. /\ eq - 1 \in Nat /\ 0 < 1 /\ eq - 1 <= Len(part) /\ 1 <= (eq - 1) + 1 /\ 1 \in Nat
          /\ eq + 1 \in Nat /\ 0 < eq + 1 /\ Len(part) <= Len(part) /\ eq + 1 <= Len(part) + 1
      BY <1>1, <1>2, <2>2
    <3>2. SubSeq(part, 1, eq - 1) \in Seq(Chars)
      <4> DEFINE l == eq - 1
      <4>1. l \in Nat /\ 0 < 1 /\ l <= Len(part) /\ 1 <= l + 1
        BY <3>1
      <4> HIDE DEF l
      <4>2. SubSeq(part, 1, l) \in Seq(Chars)
        BY <1>1, <4>1, PartIs
      <4> QED BY <4>2 DEF l
    <3>3. SubSeq(part, eq + 1, Len(part)) \in Seq(Chars)
      <4> DEFINE j == eq + 1
      <4>1. j \in Nat /\ 0 < j /\ j <= Len(part) + 1
        BY <3>1
      <4> HIDE DEF j
      <4>2. SubSeq(part, j, Len(part)) \in Seq(Chars)
        BY <1>1, <4>1, PartIs
      <4> QED BY <4>2 DEF j
    <3> QED BY <2>2, <3>2, <3>3 DEF KeyPart, ValPart, Texts
  <2> QED BY <2>1, <2>2
<1> HIDE DEF kp, vp
<1>5. /\ Unescape(kp, TRUE).text \in Texts /\ Unescape(kp, TRUE).ok \in BOOLEAN
      /\ Unescape(vp, TRUE).text \in Texts /\ Unescape(vp, TRUE).ok \in BOOLEAN
  BY <1>4, UnescapeType
<1> DEFINE good == Unescape(kp, TRUE).ok /\ Unescape(vp, TRUE).ok /\ ~Contains(part, ";")
<1>6. good \in BOOLEAN
  OBVIOUS
<1>7. PairOf(part) = [ok |-> good, key |-> Unescape(kp, TRUE).text, val |-> Unescape(vp, TRUE).text]
  BY <1>3
<1> HIDE DEF good
<1>8. \A g \in BOOLEAN, x, y \in Texts : [ok |-> g, key |-> x, val |-> y] \in Pair
  BY DEF Pair
<1>9. Unescape(kp, TRUE).text \in Texts /\ Unescape(vp, TRUE).text \in Texts
  BY <1>5
<1> QED BY <1>6, <1>7, <1>8, <1>9, Zenon

\* The pair that Encode writes is read as it was meant.
QueryBody(e) == QueryEscape(e.key) \o (<<"=">> \o QueryEscape(e.val))

LEMMA QueryBodyIs ==
    ASSUME NEW e \in Entry
    PROVE  /\ QueryBody(e) \in Seq(Chars \ {"&"}) /\ QueryBody(e) \in Texts /\ QueryBody(e) # <<>>
           /\ PairText[e] = <<"&">> \o QueryBody(e)
           /\ PairOf(QueryBody(e)) = [ok |-> TRUE, key |-> e.key, val |-> e.val]
<1> DEFINE a == QueryEscape(e.key)
           b == QueryEscape(e.val)
           p == a \o (<<"=">> \o b)
           K == QueryChars \cup {"="}
<1>1. e.key \in Texts /\ e.val \in Texts /\ e = [key |-> e.key, val |-> e.val]
  BY DEF Entry
<1>2. /\ a \in Seq(QueryChars) /\ a \in Texts /\ Unescape(a, TRUE) = [ok |-> TRUE, text |-> e.key]
      /\ b \in Seq(QueryChars) /\ b \in Texts /\ Unescape(b, TRUE) = [ok |-> TRUE, text |-> e.val]
  BY <1>1, QueryEscapeIs
<1>3. K \subseteq Chars \ {"&", ";"} /\ "=" \in K /\ "=" \in Chars /\ "&" \in Chars /\ "=" \notin QueryChars
  BY TextConstantsOK DEF QueryChars
<1>4. a \in Seq(K) /\ b \in Seq(K)
  <2>1. QueryChars \subseteq K
    OBVIOUS
  <2>2. ToSet(a) \subseteq K /\ ToSet(b) \subseteq K
    <3>1. ToSet(a) \subseteq QueryChars /\ ToSet(b) \subseteq QueryChars
      BY <1>2, Elements
    <3> QED BY <2>1, <3>1
  <2> HIDE DEF a, b, K
  <2> QED BY <1>2, <2>2, Elements
<1>5. PairText[e] = <<"&">> \o QueryBody(e)
  <2>1. PairText[e] = ((<<"&">> \o a) \o <<"=">>) \o b
    <3>1. PairText[[key |-> e.key, val |-> e.val]] = <<"&">> \o a \o <<"=">> \o b
      BY <1>1, PairTextIs
    <3> QED BY <1>1, <3>1
  <2>2. <<"&">> \in Seq(Chars) /\ <<"=">> \in Seq(Chars) /\ a \in Seq(Chars) /\ b \in Seq(Chars)
    BY <1>2, <1>3, Short DEF Texts
  <2> DEFINE x == <<"&">>
             y == <<"=">>
  <2>4. PairText[e] = ((x \o a) \o y) \o b
    BY <2>1
  <2>5. x \in Seq(Chars) /\ y \in Seq(Chars)
    BY <2>2
  <2> HIDE DEF a, b, x, y
  <2>6. ((x \o a) \o y) \o b = x \o (a \o (y \o b))
    <3>1. a \in Texts /\ b \in Texts /\ x \in Texts /\ y \in Texts
      BY <2>2, <2>5 DEF Texts
    <3>2. x \o a \in Texts /\ y \o b \in Texts /\ (x \o a) \o (y \o b) = x \o (a \o (y \o b))
      BY <3>1, ConcatTexts
    <3>3. ((x \o a) \o y) \o b = (x \o a) \o (y \o b)
      <4> DEFINE xa == x \o a
      <4>1. xa \in Texts
        BY <3>2
      <4> HIDE DEF xa
      <4>2. (xa \o y) \o b = xa \o (y \o b)
        BY <3>1, <4>1, ConcatTexts
      <4> QED BY <4>2 DEF xa
    <3> QED BY <3>2, <3>3
  <2>7. PairText[e] = x \o (a \o (y \o b))
    BY <2>4, <2>6, Zenon
  <2> QED BY <2>7 DEF x, y, a, b, QueryBody
<1> HIDE DEF a, b, K
<1>6. /\ p \in Seq(K) /\ Len(p) = Len(a) + 1 + Len(b)
      /\ \A i \in 1..Len(a) : p[i] = a[i]
      /\ p[Len(a) + 1] = "="
      /\ SubSeq(p, 1, Len(a)) = a
      /\ SubSeq(p, Len(a) + 2, Len(p)) = b
  <2>1. p = a \o (<<"=">> \o b) /\ "=" \in K
    BY <1>3
  <2> HIDE DEF p
  <2> QED BY <1>4, <2>1, CutIs
<1>7. p \in Texts /\ p \in Seq(Chars \ {"&"}) /\ p # <<>> /\ ~Contains(p, ";")
  <2>1. ToSet(p) \subseteq K
    BY <1>6, Elements
  <2>2. ToSet(p) \subseteq Chars /\ ToSet(p) \subseteq Chars \ {"&"} /\ ";" \notin ToSet(p)
    BY <1>3, <2>1
  <2>3. p \in Seq(Chars) /\ p \in Seq(Chars \ {"&"})
    <3>1. \A C : ToSet(p) \subseteq C => p \in Seq(C)
      <4> HIDE DEF p
      <4> QED BY <1>6, Elements
    <3> QED BY <2>2, <3>1
  <2>4. Len(p) # 0 /\ DOMAIN p = 1..Len(p)
    BY <1>2, <1>6, LenProperties
  <2>5. ~Contains(p, ";")
    BY <2>2, <2>4 DEF Contains, ToSet
  <2> HIDE DEF p
  <2> QED BY <2>3, <2>4, <2>5, EmptySeq DEF Texts
<1>8. EqualSigns(p) # {} /\ Min(EqualSigns(p)) = Len(a) + 1
  <2>1. Len(a) \in Nat /\ Len(b) \in Nat /\ \A i \in 1..Len(a) : a[i] \in QueryChars
    BY <1>2, LenProperties, ElementOfSeq
  <2> HIDE DEF p
  <2>2. Len(a) + 1 \in EqualSigns(p) /\ EqualSigns(p) \in SUBSET Nat
    BY <1>6, <2>1 DEF EqualSigns
  <2>3. \A i \in EqualSigns(p) : Len(a) + 1 <= i
    <3>1. SUFFICES ASSUME NEW i \in EqualSigns(p), i <= Len(a) PROVE FALSE
      BY <2>1, <2>2
    <3>2. i \in 1..Len(a) /\ p[i] = "="
      BY <2>1, <3>1 DEF EqualSigns
    <3> QED BY <1>3, <1>6, <2>1, <3>2
  <2> QED BY <2>2, <2>3, FirstSign
<1>9. PairOf(p) = [ok |-> TRUE, key |-> e.key, val |-> e.val]
  <2> HIDE DEF p
  <2> DEFINE eq == Len(a) + 1
  <2>1. /\ eq = IF EqualSigns(p) # {} THEN Min(EqualSigns(p)) ELSE 0
        /\ eq # 0 /\ eq - 1 = Len(a) /\ eq + 1 = Len(a) + 2
    BY <1>2, <1>8, LenProperties
  <2> HIDE DEF eq
  <2>2. KeyPart(p, eq) = a /\ ValPart(p, eq) = b
    BY <1>6, <2>1 DEF KeyPart, ValPart
  <2>3. PairOf(p) = [ok |-> Unescape(a, TRUE).ok /\ Unescape(b, TRUE).ok /\ ~Contains(p, ";"),
                     key |-> Unescape(a, TRUE).text, val |-> Unescape(b, TRUE).text]
    BY <1>7, <2>1, <2>2, PairOfIs
  <2> DEFINE u == Unescape(a, TRUE)
             v == Unescape(b, TRUE)
             good == u.ok /\ v.ok /\ ~Contains(p, ";")
  <2>4. PairOf(p) = [ok |-> good, key |-> u.text, val |-> v.text]
    BY <2>3
  <2>5. u = [ok |-> TRUE, text |-> e.key] /\ v = [ok |-> TRUE, text |-> e.val]
    BY <1>2
  <2> HIDE DEF u, v
  <2>6. u.ok = TRUE /\ v.ok = TRUE /\ u.text = e.key /\ v.text = e.val
    BY <2>5
  <2>7. good = TRUE
    BY <1>7, <2>6, Zenon
  <2> HIDE DEF good
  <2> QED BY <2>4, <2>6, <2>7
<1> QED BY <1>5, <1>7, <1>9 DEF QueryBody, a, b

\* A function applied to every element.
Mapped(g, s) == [i \in DOMAIN s |-> g[s[i]]]

LEMMA MappedType ==
    ASSUME NEW K, NEW S, NEW g, \A e \in K : g[e] \in S, NEW s \in Seq(K)
    PROVE  /\ Mapped(g, s) \in Seq(S) /\ Len(Mapped(g, s)) = Len(s)
           /\ \A i \in 1..Len(s) : Mapped(g, s)[i] = g[s[i]]
<1>1. DOMAIN s = 1..Len(s) /\ Len(s) \in Nat /\ \A i \in 1..Len(s) : s[i] \in K
  BY LenProperties, ElementOfSeq
<1> QED BY <1>1 DEF Mapped

LEMMA MappedAppend ==
    ASSUME NEW K, NEW g, NEW s \in Seq(K), NEW e \in K
    PROVE  Mapped(g, Append(s, e)) = Append(Mapped(g, s), g[e])
<1> DEFINE S == {g[x] : x \in K}
           q == Append(s, e)
           a == Mapped(g, s)
           b == Mapped(g, q)
           c == Append(a, g[e])
<1>0. \A x \in K : g[x] \in S
  OBVIOUS
<1> HIDE DEF S
<1>1. q \in Seq(K) /\ Len(q) = Len(s) + 1 /\ Len(s) \in Nat
      /\ q[Len(s) + 1] = e /\ \A i \in 1..Len(s) : q[i] = s[i]
  BY AppendProperties, LenProperties
<1>2. a \in Seq(S) /\ Len(a) = Len(s) /\ \A i \in 1..Len(s) : a[i] = g[s[i]]
  BY <1>0, MappedType
<1> HIDE DEF q, a
<1>3. b \in Seq(S) /\ Len(b) = Len(q) /\ \A i \in 1..Len(q) : b[i] = g[q[i]]
  <2>1. \A u \in Seq(K) : Mapped(g, u) \in Seq(S) /\ Len(Mapped(g, u)) = Len(u)
                           /\ \A i \in 1..Len(u) : Mapped(g, u)[i] = g[u[i]]
    <3>1. SUFFICES ASSUME NEW u \in Seq(K)
                   PROVE  Mapped(g, u) \in Seq(S) /\ Len(Mapped(g, u)) = Len(u)
                           /\ \A i \in 1..Len(u) : Mapped(g, u)[i] = g[u[i]]
      OBVIOUS
    <3>2. DOMAIN u = 1..Len(u) /\ Len(u) \in Nat /\ \A i \in 1..Len(u) : u[i] \in K
      BY LenProperties, ElementOfSeq
    <3> QED BY <1>0, <3>2 DEF Mapped
  <2>2. q \in Seq(K)
    BY <1>1
  <2> QED BY <2>1, <2>2
<1>4. c \in Seq(S) /\ Len(c) = Len(s) + 1
      /\ c[Len(s) + 1] = g[e] /\ \A i \in 1..Len(s) : c[i] = a[i]
  BY <1>0, <1>2, AppendProperties
<1> HIDE DEF b, c
<1>5. \A i \in 1..Len(s) + 1 : b[i] = c[i]
  <2>1. \A i \in 1..Len(s) + 1 : i \in 1..Len(s) \/ i = Len(s) + 1
    BY <1>1
  <2> QED BY <1>1, <1>2, <1>3, <1>4, <2>1
<1>6. b = c
  BY <1>1, <1>3, <1>4, <1>5, SeqEqual
<1> QED BY <1>6 DEF a, b, c, q

LEMMA TailOfConcat ==
    ASSUME NEW S, NEW a \in Seq(S), a # <<>>, NEW b \in Seq(S)
    PROVE  Tail(a \o b) = Tail(a) \o b
<1> DEFINE m == Len(a)
           n == Len(b)
           c == a \o b
           t == Tail(a)
<1>1. m \in Nat \ {0} /\ n \in Nat
  BY EmptySeq, LenProperties
<1>2. c \in Seq(S) /\ Len(c) = m + n /\ \A i \in 1..m + n : c[i] = IF i <= m THEN a[i] ELSE b[i - m]
  BY ConcatProperties
<1>3. t \in Seq(S) /\ Len(t) = m - 1 /\ \A i \in 1..m - 1 : t[i] = a[i + 1]
  BY HeadTailProperties
<1> HIDE DEF c, t
<1>4. t \o b \in Seq(S) /\ Len(t \o b) = (m - 1) + n
      /\ \A i \in 1..(m - 1) + n : (t \o b)[i] = IF i <= m - 1 THEN t[i] ELSE b[i - (m - 1)]
  <2>1. \A u, v \in Seq(S) :
           /\ u \o v \in Seq(S) /\ Len(u \o v) = Len(u) + Len(v)
           /\ \A i \in 1..Len(u) + Len(v) : (u \o v)[i] = IF i <= Len(u) THEN u[i] ELSE v[i - Len(u)]
    BY ConcatProperties
  <2>2. b \in Seq(S) /\ Len(b) = n
    BY DEF n
  <2>3. t \o b \in Seq(S) /\ Len(t \o b) = Len(t) + Len(b)
        /\ \A i \in 1..Len(t) + Len(b) : (t \o b)[i] = IF i <= Len(t) THEN t[i] ELSE b[i - Len(t)]
    BY <1>3, <2>1, <2>2
  <2> HIDE DEF m, n
  <2>4. Len(t) = m - 1 /\ Len(b) = n
    BY <1>3, <2>2
  <2> QED BY <2>3, <2>4
<1>5. c # <<>>
  BY <1>1, <1>2, EmptySeq
<1>6. Tail(c) \in Seq(S) /\ Len(Tail(c)) = (m + n) - 1 /\ \A i \in 1..(m + n) - 1 : Tail(c)[i] = c[i + 1]
  BY <1>2, <1>5, HeadTailProperties
<1> HIDE DEF m, n
<1>7. \A i \in 1..(m + n) - 1 : Tail(c)[i] = (t \o b)[i]
  <2>1. SUFFICES ASSUME NEW i \in 1..(m + n) - 1 PROVE Tail(c)[i] = (t \o b)[i]
    OBVIOUS
  <2>2. i \in 1..(m - 1) + n /\ i + 1 \in 1..m + n /\ (i + 1) - m = i - (m - 1) /\ i \in Int
    BY <1>1
  <2>3. CASE i <= m - 1
    <3>1. i + 1 <= m /\ i \in 1..m - 1
      BY <1>1, <2>3
    <3> QED BY <1>2, <1>3, <1>4, <1>6, <2>2, <2>3, <3>1
  <2>4. CASE ~(i <= m - 1)
    <3>1. ~(i + 1 <= m)
      BY <1>1, <2>4
    <3>2. Tail(c)[i] = b[(i + 1) - m]
      BY <1>2, <1>6, <2>2, <3>1
    <3>3. (t \o b)[i] = b[i - (m - 1)]
      BY <1>4, <2>2, <2>4
    <3> QED BY <2>2, <3>2, <3>3
  <2> QED BY <2>3, <2>4
<1>8. Len(Tail(c)) = Len(t \o b) /\ \A i \in 1..Len(Tail(c)) : Tail(c)[i] = (t \o b)[i]
  <2>1. (m + n) - 1 = (m - 1) + n
    BY <1>1
  <2> QED BY <1>4, <1>6, <1>7, <2>1
<1>9. Tail(c) = t \o b
  BY <1>4, <1>6, <1>8, SeqEqual
<1> QED BY <1>9 DEF c, t

BodyOf == [e \in Entry |-> QueryBody(e)]

\* The parts of the string that Encode writes are the pairs.
LEMMA PairsAreParts ==
    ASSUME NEW es \in Seq(Entry), es # <<>>
    PROVE  /\ Rest(AllPairs(es)) \in Texts
           /\ Split(Rest(AllPairs(es)), "&") = Mapped(BodyOf, es)
<1> DEFINE P == {s \in Seq(Entry) :
                   s = <<>> \/ /\ AllPairs(s) # <<>> /\ Rest(AllPairs(s)) \in Texts
                               /\ Split(Rest(AllPairs(s)), "&") = Mapped(BodyOf, s)}
<1>0. /\ BodyOf \in [Entry -> Texts]
      /\ Mapped(BodyOf, <<>>) = <<>>
      /\ \A s \in Seq(Entry), e \in Entry :
            /\ Mapped(BodyOf, s) \in Seq(Texts)
            /\ Mapped(BodyOf, Append(s, e)) = Append(Mapped(BodyOf, s), QueryBody(e))
  <2>1. BodyOf \in [Entry -> Texts] /\ \A e \in Entry : BodyOf[e] = QueryBody(e)
    BY QueryBodyIs DEF BodyOf
  <2>2. Mapped(BodyOf, <<>>) = <<>>
    BY DEF Mapped
  <2>3. \A s \in Seq(Entry) : Mapped(BodyOf, s) \in Seq(Texts)
    BY <2>1, MappedType
  <2>4. \A s \in Seq(Entry), e \in Entry :
            Mapped(BodyOf, Append(s, e)) = Append(Mapped(BodyOf, s), BodyOf[e])
    BY MappedAppend
  <2> QED BY <2>1, <2>2, <2>3, <2>4
<1>1. <<>> \in P
  BY EmptySeq
<1>2. ASSUME NEW s \in Seq(Entry) \cap P, NEW e \in Entry PROVE Append(s, e) \in P
  <2> DEFINE a == AllPairs(s)
             b == QueryBody(e)
             q == Append(s, e)
             ms == Mapped(BodyOf, s)
  <2>1. s \in Seq(Entry) /\ q \in Seq(Entry)
    BY AppendProperties
  <2>2. /\ a \in Seq(Chars) /\ AllPairs(q) = a \o (<<"&">> \o b)
        /\ b \in Seq(Chars \ {"&"}) /\ b \in Seq(Chars)
    BY <2>1, PairsAppend, QueryBodyIs DEF Texts
  <2>3. ms \in Seq(Texts) /\ Mapped(BodyOf, q) = Append(ms, b)
    BY <1>0, <2>1
  <2>4. /\ "&" \in Chars /\ <<"&">> \in Seq(Chars) /\ <<"&">> # <<>>
        /\ Head(<<"&">>) = "&" /\ Tail(<<"&">>) = <<>>
    <3>1. "&" \in Chars
      BY TextConstantsOK
    <3> QED BY <3>1, Short
  <2> HIDE DEF a, b, ms
  <2>5. CASE s = <<>>
    <3>1. a = <<>> /\ ms = <<>>
      BY <1>0, <2>5, PairsAppend DEF a, ms
    <3>2. AllPairs(q) = <<"&">> \o b
      <4>1. <<"&">> \o b \in Seq(Chars)
        BY <2>2, <2>4, ConcatProperties
      <4>2. <<>> \o (<<"&">> \o b) = <<"&">> \o b
        BY <4>1, ConcatEmptySeq
      <4> QED BY <2>2, <3>1, <4>2
    <3>3. <<"&">> \o b # <<>> /\ Tail(<<"&">> \o b) = b
      <4> DEFINE x == <<"&">> \o b
      <4>1. x \in Seq(Chars) /\ Len(x) = 1 + Len(b) /\ Len(b) \in Nat
            /\ \A i \in 1..1 + Len(b) : x[i] = IF i <= 1 THEN <<"&">>[i] ELSE b[i - 1]
        <5>1. Len(<<"&">>) = 1
          OBVIOUS
        <5> QED BY <2>2, <2>4, <5>1, ConcatProperties, LenProperties
      <4> HIDE DEF x
      <4>2. x # <<>>
        BY <4>1, EmptySeq
      <4>3. Tail(x) \in Seq(Chars) /\ Len(Tail(x)) = Len(b) /\ \A i \in 1..Len(b) : Tail(x)[i] = x[i + 1]
        BY <4>1, <4>2, HeadTailProperties
      <4>4. \A i \in 1..Len(b) : i + 1 \in 1..1 + Len(b) /\ ~(i + 1 <= 1) /\ (i + 1) - 1 = i
        BY <4>1
      <4>5. \A i \in 1..Len(b) : Tail(x)[i] = b[i]
        BY <4>1, <4>3, <4>4
      <4>6. Tail(x) = b
        BY <2>2, <4>3, <4>5, SeqEqual
      <4> QED BY <4>2, <4>6 DEF x
    <3>4. Rest(AllPairs(q)) = b /\ AllPairs(q) # <<>>
      BY <3>2, <3>3 DEF Rest
    <3>5. Split(b, "&") = Append(<<>>, b)
      <4>1. Split(<<>>, "&") = Append(<<>>, <<>>) /\ <<>> \in Texts /\ <<>> \in Seq(Texts)
        <5>1. Append(<<>>, <<>>) = <<<<>>>>
          OBVIOUS
        <5> QED BY <5>1, SplitAppend, EmptySeq DEF Texts
      <4>2. \A c \in Seq(Chars \ {"&"}) : Split(<<>> \o c, "&") = Append(<<>>, c)
        BY <4>1, SplitOn
      <4>3. <<>> \o b = b
        BY <2>2, ConcatEmptySeq
      <4>4. Split(<<>> \o b, "&") = Append(<<>>, b)
        BY <2>2, <4>2
      <4> QED BY <4>3, <4>4
    <3> QED BY <2>1, <2>2, <2>3, <3>1, <3>4, <3>5 DEF Texts
  <2>6. CASE s # <<>>
    <3> DEFINE r == Rest(a)
    <3>1. /\ a # <<>> /\ r \in Seq(Chars) /\ Split(r, "&") = ms
          /\ r = Tail(a) /\ Len(r) = Len(a) - 1 /\ \A i \in 1..Len(r) : r[i] = a[i + 1]
      <4>1. a # <<>> /\ r \in Seq(Chars) /\ Split(r, "&") = ms
        BY <2>6 DEF Texts, a, ms
      <4> QED BY <2>2, <4>1, HeadTailProperties DEF Rest
    <3> DEFINE x == <<"&">> \o b
    <3>2. x \in Seq(Chars)
      BY <2>2, <2>4, ConcatProperties
    <3>3. AllPairs(q) # <<>> /\ Rest(AllPairs(q)) = r \o x
      <4>1. AllPairs(q) = a \o x
        BY <2>2
      <4> HIDE DEF x, r
      <4>2. a \o x # <<>>
        BY <2>2, <3>1, <3>2, ConcatEqualIffEmpty
      <4>3. Tail(a \o x) = r \o x
        BY <2>2, <3>1, <3>2, TailOfConcat
      <4> QED BY <4>1, <4>2, <4>3 DEF Rest
    <3>4. Split(r \o <<"&">>, "&") = Append(ms, <<>>) /\ r \o <<"&">> \in Texts
      <4> HIDE DEF r
      <4>1. r \o <<"&">> = Append(r, "&") /\ Append(r, "&") \in Texts
        BY <2>4, <3>1, AppendIsConcat, AppendProperties DEF Texts
      <4>2. Split(Append(r, "&"), "&") = SplitAt("&", ms, "&")
        BY <2>4, <3>1, SplitAppend DEF Texts
      <4> QED BY <4>1, <4>2 DEF SplitAt
    <3>5. (r \o <<"&">>) \o b \in Texts /\ Split((r \o <<"&">>) \o b, "&") = Append(ms, b)
      <4> DEFINE z == r \o <<"&">>
      <4> HIDE DEF r, z
      <4>1. z \in Texts /\ Split(z, "&") = Append(ms, <<>>)
        BY <3>4 DEF z
      <4>2. \A c \in Seq(Chars \ {"&"}) : z \o c \in Texts /\ Split(z \o c, "&") = Append(ms, c)
        BY <2>3, <4>1, SplitOn
      <4>3. z \o b \in Texts /\ Split(z \o b, "&") = Append(ms, b)
        BY <2>2, <4>2
      <4> QED BY <4>3 DEF z
    <3>6. (r \o <<"&">>) \o b = r \o x
      <4> HIDE DEF r
      <4> QED BY <2>2, <2>4, <3>1, ConcatTexts
    <3> QED BY <2>1, <2>3, <3>3, <3>5, <3>6
  <2> QED BY <2>5, <2>6
<1>3. Seq(Entry) \subseteq P
  <2> HIDE DEF P
  <2> QED BY <1>1, <1>2, SeqSet
<1> QED BY <1>3

\* The pairs that have been read, and their values.
OkOf == [e \in Entry |-> [ok |-> TRUE, key |-> e.key, val |-> e.val]]

LEMMA OkGrouped ==
    ASSUME NEW s \in Seq(Entry)
    PROVE  /\ Mapped(OkOf, s) \in Seq(Pair) /\ \A p \in ToSet(Mapped(OkOf, s)) : p.ok = TRUE
           /\ Grouped(Mapped(OkOf, s)) = Grouped(s)
<1> DEFINE ps == Mapped(OkOf, s)
           OkKey(k) == {p \in Pair : p.key = k}
           P(k) == {u \in Seq(Entry) : Only(Mapped(OkOf, u), OkKey(k)) = Mapped(OkOf, Only(u, Of(k)))}
<1>1. \A e \in Entry : /\ OkOf[e] \in Pair /\ OkOf[e].key = e.key /\ OkOf[e].val = e.val
                       /\ OkOf[e].ok = TRUE /\ e.key \in Texts /\ e.val \in Texts
  BY DEF OkOf, Entry, Pair
<1>2. ASSUME NEW u \in Seq(Entry)
      PROVE  /\ Mapped(OkOf, u) \in Seq(Pair) /\ Len(Mapped(OkOf, u)) = Len(u)
             /\ DOMAIN u = 1..Len(u) /\ DOMAIN Mapped(OkOf, u) = 1..Len(u)
             /\ \A i \in 1..Len(u) : Mapped(OkOf, u)[i] = OkOf[u[i]] /\ u[i] \in Entry
  <2>1. DOMAIN u = 1..Len(u) /\ Len(u) \in Nat /\ \A i \in 1..Len(u) : u[i] \in Entry
    BY LenProperties, ElementOfSeq
  <2> QED BY <1>1, <2>1 DEF Mapped
<1>3. ToSet(ps) = {OkOf[e] : e \in ToSet(s)} /\ ToSet(s) \subseteq Entry
  BY <1>2, Elements DEF ToSet, Mapped
<1>4. KeysIn(ps) = KeysIn(s)
  <2> HIDE DEF ps
  <2> QED BY <1>1, <1>3 DEF KeysIn
<1>5. ASSUME NEW k PROVE Seq(Entry) \subseteq P(k)
  <2>1. <<>> \in P(k)
    <3>1. Mapped(OkOf, <<>>) = <<>>
      BY DEF Mapped
    <3>2. \A S : Only(<<>>, S) = <<>>
      BY OnlyAppend
    <3> QED BY <3>1, <3>2, EmptySeq
  <2>2. ASSUME NEW u \in Seq(Entry) \cap P(k), NEW e \in Entry PROVE Append(u, e) \in P(k)
    <3> DEFINE mu == Mapped(OkOf, u)
               ou == Only(u, Of(k))
    <3>1. u \in Seq(Entry) /\ Append(u, e) \in Seq(Entry) /\ mu \in Seq(Pair) /\ OkOf[e] \in Pair
      BY <1>1, <1>2, AppendProperties
    <3>2. Mapped(OkOf, Append(u, e)) = Append(mu, OkOf[e])
      BY <3>1, MappedAppend
    <3>3. Only(Append(mu, OkOf[e]), OkKey(k)) =
              IF OkOf[e] \in OkKey(k) THEN Append(Only(mu, OkKey(k)), OkOf[e]) ELSE Only(mu, OkKey(k))
      <4> HIDE DEF mu, OkKey
      <4>1. \A S : \A v \in Seq(Pair), p \in Pair :
               /\ Only(v, S) \in Seq(Pair)
               /\ Only(Append(v, p), S) = IF p \in S THEN Append(Only(v, S), p) ELSE Only(v, S)
        BY OnlyNext
      <4> QED BY <3>1, <4>1
    <3>4. ou \in Seq(Entry)
          /\ Only(Append(u, e), Of(k)) = IF e \in Of(k) THEN Append(ou, e) ELSE ou
      BY <3>1, OnlyNext
    <3>5. OkOf[e] \in OkKey(k) <=> e \in Of(k)
      BY <1>1 DEF Of
    <3>6. Mapped(OkOf, Append(ou, e)) = Append(Mapped(OkOf, ou), OkOf[e])
      <4> HIDE DEF ou
      <4> QED BY <3>4, MappedAppend
    <3>7. Only(mu, OkKey(k)) = Mapped(OkOf, ou)
      OBVIOUS
    <3> HIDE DEF mu, ou, OkKey
    <3>8. Only(Append(mu, OkOf[e]), OkKey(k)) = Mapped(OkOf, Only(Append(u, e), Of(k)))
      BY <3>3, <3>4, <3>5, <3>6, <3>7
    <3> QED BY <3>1, <3>2, <3>8 DEF P
  <2> HIDE DEF P
  <2> QED BY <2>1, <2>2, SeqSet
<1>6. ASSUME NEW k PROVE Vals(Named(ps, k)) = Vals(Named(s, k))
  <2> DEFINE Q == {e \in ToSet(ps) : e.key = k}
             u == Only(s, Of(k))
  <2>1. ps \in Seq(Pair) /\ ToSet(ps) \subseteq Pair
    BY <1>2, Elements
  <2>2. Named(ps, k) = Only(ps, Q) /\ \A e \in ToSet(ps) : e \in Q <=> e \in OkKey(k)
    BY <2>1 DEF Named
  <2>3. Only(ps, Q) = Only(ps, OkKey(k))
    <3> HIDE DEF ps, Q, OkKey
    <3> QED BY <2>1, <2>2, OnlySame
  <2>4. Named(s, k) = u /\ u \in Seq(Entry)
    BY NamedIs, OnlyElements
  <2>5. Only(ps, OkKey(k)) = Mapped(OkOf, u)
    BY <1>5
  <2> HIDE DEF u
  <2>6. /\ DOMAIN u = 1..Len(u) /\ DOMAIN Mapped(OkOf, u) = 1..Len(u)
        /\ \A i \in 1..Len(u) : Mapped(OkOf, u)[i].val = u[i].val
    BY <1>1, <1>2, <2>4
  <2>7. Vals(Mapped(OkOf, u)) = Vals(u)
    BY <2>6 DEF Vals
  <2> QED BY <2>2, <2>3, <2>4, <2>5, <2>7
<1>7. Grouped(ps) = Grouped(s)
  <2>1. \A e \in Pair : e.key \in Texts /\ e.val \in Texts
    BY DEF Pair
  <2>2. Grouped(ps) = [k \in KeysIn(ps) |-> Vals(Named(ps, k))]
    BY DEF Grouped, KeysIn, Vals
  <2>3. Grouped(s) = [k \in KeysIn(s) |-> Vals(Named(s, k))]
    BY DEF Grouped, KeysIn, Vals
  <2> HIDE DEF ps
  <2> QED BY <1>4, <1>6, <2>2, <2>3
<1> QED BY <1>1, <1>2, <1>3, <1>7

\* url.ParseQuery, step by step.
QueryParts(t) == Only(Split(t, "&"), {p \in ToSet(Split(t, "&")) : p # <<>>})
QueryPairs(t) == [i \in DOMAIN QueryParts(t) |-> PairOf(QueryParts(t)[i])]
QueryGood(t) == Only(QueryPairs(t), {p \in ToSet(QueryPairs(t)) : p.ok})

LEMMA ParseQueryIs ==
    ASSUME NEW t
    PROVE  ParseQuery(t) = [ok |-> \A i \in DOMAIN QueryPairs(t) : QueryPairs(t)[i].ok,
                            values |-> Grouped(QueryGood(t))]
BY DEF ParseQuery, QueryParts, QueryPairs, QueryGood

LEMMA ParseQueryType ==
    ASSUME NEW t \in Texts
    PROVE  IsMap(ParseQuery(t).values)
<1> DEFINE parts == QueryParts(t)
           pairs == QueryPairs(t)
<1>1. parts \in Seq(Texts)
  <2>1. Split(t, "&") \in Seq(Texts)
    <3>1. "&" \in Chars
      BY TextConstantsOK
    <3> QED BY <3>1, SplitAppend DEF Parts
  <2> QED BY <2>1, OnlyElements DEF QueryParts
<1>2. pairs \in Seq(Pair)
  <2> HIDE DEF parts
  <2>1. DOMAIN parts = 1..Len(parts) /\ Len(parts) \in Nat /\ \A i \in 1..Len(parts) : parts[i] \in Texts
    BY <1>1, LenProperties, ElementOfSeq
  <2>2. \A i \in 1..Len(parts) : PairOf(parts[i]) \in Pair
    BY <2>1, PairOfType
  <2>3. pairs = [i \in DOMAIN parts |-> PairOf(parts[i])]
    BY DEF QueryPairs, parts
  <2> HIDE DEF pairs
  <2> QED BY <2>1, <2>2, <2>3
<1>3. QueryGood(t) \in Seq(Pair)
  BY <1>2, OnlyElements DEF QueryGood
<1>4. \A e \in Pair : e.key \in Texts /\ e.val \in Texts
  BY DEF Pair
<1>5. IsMap(Grouped(QueryGood(t)))
  BY <1>3, <1>4, GroupedIs
<1> QED BY <1>5, ParseQueryIs

\* What urlencode() writes is read as it was meant.
LEMMA EncodeIsRead ==
    ASSUME NEW m, IsMap(m)
    PROVE  ParseQuery(Encode(m)) = [ok |-> TRUE, values |-> m]
<1> DEFINE o == Sorted(DOMAIN m)
           F == FromMap(m, o)
           t == Encode(m)
           bs == Mapped(BodyOf, F)
           ps == Mapped(OkOf, F)
<1>1. o \in Orders(m) /\ t = Rest(AllPairs(F))
  BY EncodeIs DEF IsMap
<1> HIDE DEF o
<1>2. F \in Seq(Entry) /\ Grouped(F) = m
  BY <1>1, MapLookup, GroupedBack DEF IsMap
<1> HIDE DEF F
<1>3. /\ DOMAIN F = 1..Len(F) /\ Len(F) \in Nat /\ \A i \in 1..Len(F) : F[i] \in Entry
      /\ bs \in Seq(Texts) /\ DOMAIN bs = DOMAIN F /\ \A i \in 1..Len(F) : bs[i] = QueryBody(F[i])
  <2>1. DOMAIN F = 1..Len(F) /\ Len(F) \in Nat /\ \A i \in 1..Len(F) : F[i] \in Entry
    BY <1>2, LenProperties, ElementOfSeq
  <2>2. \A e \in Entry : BodyOf[e] = QueryBody(e) /\ QueryBody(e) \in Texts
    BY QueryBodyIs DEF BodyOf
  <2> QED BY <2>1, <2>2 DEF Mapped
<1> HIDE DEF t
<1>4. QueryParts(t) = bs
  <2> DEFINE sp == Split(t, "&")
             Q == {p \in ToSet(sp) : p # <<>>}
  <2>1. QueryParts(t) = Only(sp, Q)
    BY DEF QueryParts
  <2>2. CASE F = <<>>
    <3>1. t = <<>> /\ sp = <<<<>>>> /\ bs = <<>>
      <4>1. t = <<>>
        BY <1>1, <2>2, PairsAppend DEF Rest
      <4> QED BY <2>2, <4>1, SplitAppend DEF Mapped
    <3>2. <<>> \in Texts /\ <<<<>>>> \in Seq(Texts) /\ ToSet(<<<<>>>>) = {<<>>}
      <4>1. <<>> \in Texts
        BY EmptySeq DEF Texts
      <4>2. \A e : ToSet(<<e>>) = {e}
        BY DEF ToSet
      <4> QED BY <4>1, <4>2, Short
    <3>3. Q = {}
      BY <3>1, <3>2
    <3>4. \A u \in Seq(Texts) : \A S : ToSet(u) \cap S = {} => Only(u, S) = <<>>
      BY OnlyElements
    <3> HIDE DEF Q
    <3>5. sp \in Seq(Texts) /\ ToSet(sp) \cap Q = {}
      BY <3>1, <3>2, <3>3
    <3> HIDE DEF sp
    <3> QED BY <2>1, <3>1, <3>4, <3>5
  <2>3. CASE F # <<>>
    <3>1. sp = bs
      BY <1>1, <1>2, <2>3, PairsAreParts
    <3>2. ToSet(bs) \subseteq Q
      <4>1. \A i \in DOMAIN bs : bs[i] # <<>>
        BY <1>3, QueryBodyIs
      <4> QED BY <3>1, <4>1 DEF ToSet
    <3>3. \A u \in Seq(Texts) : \A S : ToSet(u) \subseteq S => Only(u, S) = u
      BY OnlyElements
    <3> HIDE DEF Q, sp, bs
    <3> QED BY <1>3, <2>1, <3>1, <3>2, <3>3
  <2> QED BY <2>2, <2>3
<1>5. QueryPairs(t) = ps
  <2>1. \A e \in Entry : PairOf(QueryBody(e)) = OkOf[e]
    BY QueryBodyIs DEF OkOf
  <2>2. \A i \in DOMAIN F : PairOf(bs[i]) = OkOf[F[i]]
    BY <1>3, <2>1
  <2>3. QueryPairs(t) = [i \in DOMAIN bs |-> PairOf(bs[i])]
    BY <1>4 DEF QueryPairs
  <2> HIDE DEF bs
  <2> QED BY <1>3, <2>2, <2>3 DEF Mapped
<1>6. ps \in Seq(Pair) /\ (\A p \in ToSet(ps) : p.ok = TRUE) /\ Grouped(ps) = m
  BY <1>2, OkGrouped
<1> HIDE DEF ps, bs
<1>7. QueryGood(t) = ps
  <2> DEFINE Q == {p \in ToSet(ps) : p.ok}
  <2>1. ToSet(ps) \subseteq Q
    BY <1>6
  <2>2. QueryGood(t) = Only(ps, Q)
    BY <1>5 DEF QueryGood
  <2> HIDE DEF Q
  <2> QED BY <1>6, <2>1, <2>2, OnlyElements
<1>8. \A i \in DOMAIN ps : ps[i].ok
  BY <1>6 DEF ToSet
<1>9. ParseQuery(t) = [ok |-> \A i \in DOMAIN ps : ps[i].ok, values |-> m]
  BY <1>5, <1>6, <1>7, ParseQueryIs
<1> DEFINE good == \A i \in DOMAIN ps : ps[i].ok
<1>10. good = TRUE
  BY <1>8, Zenon
<1>11. ParseQuery(t) = [ok |-> good, values |-> m]
  BY <1>9
<1> HIDE DEF good
<1> QED BY <1>10, <1>11 DEF t

-----------------------------------------------------------------------------
(* The inductive invariant.  What is in hand says what it is meant to say,  *)
(* as long as nothing odd was done: as text to the letter, as markup when a *)
(* browser shows it.  And there is no tag in markup that nobody trusted.    *)

Tokens == Chars \cup Signs
Pieces == Tokens \ {"injected"}
Harmless == Pieces \ {"<"}

Said == IF kind = "text" THEN want ELSE Encode(want)

SentOK == IsMap(args) /\ IsMap(form)

ReadOK ==
    IF pc = "view" /\ ops = 0
    THEN /\ source \in Sources
         /\ \E ao, ao2 \in Orders(IF source = "headers" THEN Headers ELSE args),
               fo \in Orders(IF source = "files" THEN Files ELSE form) :
               md = Attr(source, ao, fo) /\ again = Attr(source, ao2, fo)
    ELSE md = newMultiDict /\ again = newMultiDict

WantOK ==
    /\ kind \in {"text", "link"}
    /\ kind = "text" => want \in Texts
    /\ kind = "link" => IsMap(want)

PieceOK ==
    /\ piece.markup \in BOOLEAN
    /\ piece.text \in Seq(Pieces)
    /\ piece.markup /\ "trusted" \notin odd => piece.text \in Seq(Harmless)

SaysOK ==
    pc = "view" /\ ops > 0 /\ odd = {} =>
        IF piece.markup THEN Shown(piece.text) = Said ELSE piece.text = Said

ShownOK ==
    IF pc = "shown"
    THEN /\ shown \in Seq(Tokens)
         /\ "trusted" \notin odd => shown \in Seq(Pieces)
         /\ odd = {} => shown = Said
    ELSE shown = <<>>

CountsOK ==
    /\ pc \in {"request", "view", "shown"} /\ (pc = "request" => ops = 0)
    /\ odd \subseteq {"trusted", "unwrapped", "template"}
    /\ ops \in 0..MaxOps + 1 /\ hops \in 0..MaxHops

IInv == SentOK /\ ReadOK /\ WantOK /\ PieceOK /\ SaysOK /\ ShownOK /\ CountsOK

LEMMA TokensAre ==
    /\ Chars \subseteq Pieces /\ Harmless \subseteq Pieces /\ Pieces \subseteq Tokens
    /\ "<p>" \in Harmless /\ "<p>" \notin Chars /\ "2" \in Chars /\ "injected" \notin Pieces
    /\ Written(Pieces) \subseteq Harmless
    /\ Shows(Pieces, Tokens) /\ Shows(Harmless, Pieces)
<1>1. /\ EntityChars \subseteq Signs /\ Names \subseteq Signs
      /\ ";" \in Signs /\ "<p>" \in Signs /\ "injected" \in Signs /\ "&" \in EntityChars
  BY DEF Signs, Names, EntityChars
<1>2. EntityChars = {"&", "<", ">", "\"", "'"} /\ Names = {"amp", "lt", "gt", "quot", "#39"}
  <2>1. Names = {Entity["&"], Entity["<"], Entity[">"], Entity["\""], Entity["'"]}
    BY DEF Names, EntityChars
  <2> QED BY <2>1, EntityIs DEF EntityChars
<1>3. "<p>" \notin Chars /\ "injected" \notin Chars
  BY PageConstantsOK
<1>4. "2" \in Chars
  <2>1. hex[3] = "2" /\ 3 \in 1..16
    BY DEF hex
  <2> QED BY <2>1, TextConstantsOK
<1>5. "injected" \notin EntityChars /\ "injected" \notin Names /\ "<" \notin Names
  BY <1>2
<1>6. Chars \subseteq Pieces /\ Harmless \subseteq Pieces /\ Pieces \subseteq Tokens
      /\ "<p>" \in Harmless /\ "injected" \notin Pieces
  BY <1>1, <1>3 DEF Pieces, Harmless, Tokens
<1>7. Written(Pieces) \subseteq Harmless
  <2>1. "<" \in EntityChars /\ ";" # "<" /\ ";" # "injected" /\ "&" # "<" /\ "&" # "injected"
    BY <1>2
  <2> QED BY <1>1, <1>5, <2>1 DEF Written, Harmless, Pieces, Tokens
<1>8. Shows(Pieces, Tokens)
  BY <1>1 DEF Shows, Pieces, Tokens
<1>9. Shows(Harmless, Pieces)
  BY <1>1, <1>5 DEF Shows, Harmless, Pieces, Tokens
<1> QED BY <1>3, <1>4, <1>6, <1>7, <1>8, <1>9

\* What a page of tokens in B shows are tokens in T.
LEMMA ShownType ==
    ASSUME NEW B, NEW T, Shows(B, T), NEW page \in Seq(B), B # {}
    PROVE  Shown(page) \in Seq(T)
<1>1. Browsed(page) \in Browser(T)
  BY BrowsedAppend
<1>2. Browsed(page).text \in Seq(T) /\ Browsed(page).ent \in Ents
  BY <1>1 DEF Browser
<1>3. Browsed(page).ent \in Seq(T)
  <2>1. Browsed(page).ent \in Seq(EntityChars \cup Names)
    BY <1>2, EntsAre
  <2>2. ToSet(Browsed(page).ent) \subseteq EntityChars \cup Names
    BY <2>1, Elements
  <2>3. ToSet(Browsed(page).ent) \subseteq T
    BY <2>2 DEF Shows
  <2> QED BY <2>1, <2>3, Elements
<1>4. Shown(page) = Browsed(page).text \o Browsed(page).ent
  BY DEF Shown, Browsed, Fresh
<1> QED BY <1>2, <1>3, <1>4, ConcatProperties

LEMMA SeqsOfTokens ==
    /\ \A s \in Seq(Harmless) : s \in Seq(Pieces)
    /\ \A s \in Seq(Pieces) : s \in Seq(Tokens)
    /\ \A s \in Texts : s \in Seq(Pieces)
    /\ \A s \in Seq(Written(Pieces)) : s \in Seq(Harmless)
<1>1. /\ Harmless \subseteq Pieces /\ Pieces \subseteq Tokens /\ Chars \subseteq Pieces
      /\ Written(Pieces) \subseteq Harmless
  BY TokensAre
<1>2. \A A, C : A \subseteq C => \A s \in Seq(A) : s \in Seq(C)
  BY SeqMonotonic
<1> QED BY <1>1, <1>2 DEF Texts

\* A page that shows the value in hand.
LEMMA EscapedPiece ==
    ASSUME PieceOK
    PROVE  LET p == escape(piece) IN
           /\ p.markup = TRUE /\ p.text \in Seq(Pieces)
           /\ "trusted" \notin odd \/ ~piece.markup => p.text \in Seq(Harmless)
<1>1. Pieces # {}
  BY TokensAre
<1>2. /\ escape(piece).markup = TRUE
      /\ ~piece.markup => escape(piece).text \in Seq(Written(Pieces))
      /\ piece.markup => escape(piece).text = piece.text
  BY <1>1, EscapeType DEF PieceOK
<1> QED BY <1>2, SeqsOfTokens DEF PieceOK

LEMMA EscapedSays ==
    ASSUME WantOK, PieceOK, SaysOK, pc = "view", ops > 0, odd = {}
    PROVE  Said \in Texts /\ Shown(escape(piece).text) = Said
<1>1. Said \in Texts
  BY EncodeType DEF Said, WantOK, IsMap
<1>2. CASE piece.markup
  <2>1. escape(piece).text = piece.text
    BY <1>2 DEF escape
  <2> QED BY <1>1, <1>2, <2>1 DEF SaysOK
<1>3. CASE ~piece.markup
  <2>1. piece.text = Said
    BY <1>3 DEF SaysOK
  <2>2. escape(piece).text = escapeHTML(Said)
    BY <1>3, <2>1 DEF escape, AsMarkup
  <2>3. Browsed(escapeHTML(Said)) = [ent |-> <<>>, text |-> Said]
    <3>1. Chars # {} /\ "<p>" \notin Chars
      BY TokensAre
    <3> QED BY <1>1, <3>1, EscapedIsShown DEF Texts
  <2>4. Shown(escapeHTML(Said)) = Said \o <<>>
    <3> DEFINE page == escapeHTML(Said)
               b == Browsed(page)
    <3>1. Shown(page) = b.text \o b.ent
      BY DEF Shown, Browsed, Fresh
    <3>2. b = [ent |-> <<>>, text |-> Said]
      BY <2>3
    <3> HIDE DEF page, b
    <3>3. b.text = Said /\ b.ent = <<>>
      BY <3>2
    <3>4. Shown(page) = Said \o <<>>
      BY <3>1, <3>3
    <3> QED BY <3>4 DEF page
  <2>5. Said \o <<>> = Said
    BY <1>1, ConcatEmptySeq DEF Texts
  <2> QED BY <1>1, <2>2, <2>4, <2>5
<1> QED BY <1>2, <1>3

\* Whatever the template, what the page shows.
LEMMA Filled ==
    ASSUME PieceOK, NEW t \in Templates
    PROVE  LET p == html(String(t), piece) IN
           /\ p.markup = TRUE /\ p.text \in Seq(Pieces)
           /\ "trusted" \notin odd \/ ~piece.markup => p.text \in Seq(Harmless)
           /\ Shown(p.text) = Shown(escape(piece).text)
<1>1. t \in Seq(Pattern) /\ OneHole(t)
  BY PageConstantsOK DEF Pattern, OneHole
<1>2. /\ escape(piece).text \in Seq(Pieces)
      /\ "trusted" \notin odd \/ ~piece.markup => escape(piece).text \in Seq(Harmless)
  BY EscapedPiece
<1>3. Pattern \subseteq Harmless
  <2>1. "{x}" \in Harmless
    BY DEF Harmless, Pieces, Tokens, Signs
  <2> QED BY <2>1, TokensAre DEF Pattern
<1>4. String(t).text \in Seq(Harmless) /\ String(t).text \in Seq(Pieces)
  <2>1. t \in Seq(Harmless)
    BY <1>1, <1>3, SeqMonotonic
  <2> QED BY <2>1, SeqsOfTokens DEF String
<1>5. html(String(t), piece).markup = TRUE /\ html(String(t), piece).text \in Seq(Pieces)
  BY <1>2, <1>4, HtmlType
<1>6. "trusted" \notin odd \/ ~piece.markup => html(String(t), piece).text \in Seq(Harmless)
  BY <1>2, <1>4, HtmlType
<1>7. Shown(html(String(t), piece).text) = Shown(escape(piece).text)
  BY <1>1, <1>2, TokensAre, TemplateShows
<1> QED BY <1>5, <1>6, <1>7

\* A visitor's request.
LEMMA RequestIs ==
    ASSUME NEW r \in Requests
    PROVE  IsMap(Query(r[1])) /\ IsMap(FormValues(r[2]))
<1>1. r[1] \in Texts /\ r[2] \in Texts
  BY PageConstantsOK DEF Texts
<1>2. IsMap(Grouped(<<>>))
  <2>1. <<>> \in Seq(Entry) /\ \A e \in Entry : e.key \in Texts /\ e.val \in Texts
    BY EmptySeq DEF Entry
  <2> QED BY <2>1, GroupedIs
<1> QED BY <1>1, <1>2, ParseQueryType DEF Query, FormValues

LEMMA InitInv == Init => IInv
<1> SUFFICES ASSUME Init PROVE IInv
  OBVIOUS
<1>1. SentOK
  BY RequestIs DEF Init, SentOK
<1>2. ReadOK
  BY DEF Init, ReadOK
<1>3. WantOK
  BY EmptySeq DEF Init, WantOK, Texts
<1>4. PieceOK
  BY EmptySeq DEF Init, PieceOK, String
<1>5. SaysOK /\ ShownOK
  BY DEF Init, SaysOK, ShownOK
<1>6. CountsOK
  <2>1. MaxOps \in Nat /\ MaxHops \in Nat
    BY PageConstantsOK
  <2> QED BY <2>1 DEF Init, CountsOK
<1> QED BY <1>1, <1>2, <1>3, <1>4, <1>5, <1>6 DEF IInv

LEMMA ReadInv == IInv /\ Read => IInv'
<1> SUFFICES ASSUME IInv, Read PROVE IInv'
  OBVIOUS
<1> USE DEF Read, request
<1>1. SentOK'
  BY DEF IInv, SentOK
<1>2. ReadOK'
  <2>1. pc' = "view" /\ ops' = 0 /\ args' = args /\ form' = form
    BY DEF IInv, CountsOK
  <2>2. source' \in Sources
    BY DEF Sources
  <2>3. PICK ao \in Orders(IF source' = "headers" THEN Headers ELSE args),
             ao2 \in Orders(IF source' = "headers" THEN Headers ELSE args),
             fo \in Orders(IF source' = "files" THEN Files ELSE form) :
             md' = Attr(source', ao, fo) /\ again' = Attr(source', ao2, fo)
    OBVIOUS
  <2> QED BY <2>1, <2>2, <2>3 DEF ReadOK, Attr
<1>3. WantOK'
  BY DEF IInv, WantOK
<1>4. PieceOK'
  BY DEF IInv, PieceOK
<1>5. SaysOK' /\ ShownOK'
  BY DEF IInv, CountsOK, SaysOK, ShownOK
<1>6. CountsOK'
  BY DEF IInv, CountsOK
<1> QED BY <1>1, <1>2, <1>3, <1>4, <1>5, <1>6 DEF IInv

\* What the view has read.
LEMMA DictsAre ==
    ASSUME IInv, pc = "view", ops = 0
    PROVE  /\ source \in Sources
           /\ \A d \in {md, again} :
                 /\ IsDict(d) /\ d.items \in Seq(Entry)
                 /\ d.caseInsensitive = (source = "headers")
                 /\ KeysIn(d.items) = KeysFrom(source)
                 /\ \A k : Vals(Only(d.items, Of(normalize(d, k)))) = SentFrom(source, k)
<1>1. source \in Sources /\ IsMultiMap(args) /\ IsMultiMap(form)
  BY DEF IInv, ReadOK, SentOK, IsMap
<1>2. PICK ao \in Orders(IF source = "headers" THEN Headers ELSE args),
           ao2 \in Orders(IF source = "headers" THEN Headers ELSE args),
           fo \in Orders(IF source = "files" THEN Files ELSE form) :
           md = Attr(source, ao, fo) /\ again = Attr(source, ao2, fo)
  BY DEF IInv, ReadOK
<1>3. ASSUME NEW d, NEW o \in Orders(IF source = "headers" THEN Headers ELSE args),
             d = Attr(source, o, fo)
      PROVE  /\ IsDict(d) /\ d.items \in Seq(Entry)
             /\ d.caseInsensitive = (source = "headers")
             /\ KeysIn(d.items) = KeysFrom(source)
             /\ \A k : Vals(Only(d.items, Of(normalize(d, k)))) = SentFrom(source, k)
  <2> DEFINE src == source
  <2>1. src \in Sources /\ IsMultiMap(args) /\ IsMultiMap(form)
    BY <1>1
  <2>2. /\ o \in Orders(IF src = "headers" THEN Headers ELSE args)
        /\ fo \in Orders(IF src = "files" THEN Files ELSE form)
        /\ d = Attr(src, o, fo)
    BY <1>3
  <2> HIDE DEF src
  <2>3. /\ IsDict(d) /\ d.items \in Seq(Entry)
        /\ d.caseInsensitive = (src = "headers")
        /\ KeysIn(d.items) = KeysFrom(src)
        /\ \A k : Vals(Only(d.items, Of(normalize(d, k)))) = SentFrom(src, k)
    <3>1. IsDict(d)
      BY <2>1, <2>2, AttrIs
    <3>2. d.items \in Seq(Entry)
      BY <3>1 DEF IsDict
    <3>5. KeysIn(d.items) = KeysFrom(src)
      <4>1. \A k : k \in KeysIn(d.items) <=> k \in KeysFrom(src)
        BY <2>1, <2>2, AttrIs
      <4> QED BY <4>1
    <3>3. d.caseInsensitive = (src = "headers")
      BY <2>1, <2>2, AttrIs
    <3>4. \A k : Vals(Only(d.items, Of(normalize(d, k)))) = SentFrom(src, k)
      BY <2>1, <2>2, AttrIs
    <3> QED BY <3>1, <3>2, <3>3, <3>4, <3>5
  <2> QED BY <2>3 DEF src
<1> QED BY <1>1, <1>2, <1>3

LEMMA TakeInv == IInv /\ Take => IInv'
<1> SUFFICES ASSUME IInv, Take PROVE IInv'
  OBVIOUS
<1> USE DEF Take, Taken, request
<1>1. SentOK'
  BY DEF IInv, SentOK
<1>2. ReadOK'
  BY DEF ReadOK, newMultiDict
<1>3. want' \in Texts
  <2>1. PICK v \in ToSet(values(md)) : want' = v
    OBVIOUS
  <2>2. md.items \in Seq(Entry)
    BY DictsAre
  <2>3. values(md) = Vals(md.items)
    BY DEF values, Vals
  <2>4. Vals(md.items) \in Seq(Texts)
    BY <2>2, ValsAre
  <2>5. ToSet(values(md)) \subseteq Texts
    BY <2>3, <2>4, Elements
  <2> QED BY <2>1, <2>5
<1>4. WantOK' /\ kind' = "text" /\ piece' = String(want')
  BY <1>3 DEF WantOK
<1>5. PieceOK'
  <2>1. want' \in Seq(Pieces)
    BY <1>3, SeqsOfTokens
  <2> QED BY <1>4, <2>1 DEF PieceOK, String, Pieces, Tokens, Signs
<1>6. SaysOK'
  BY <1>4 DEF SaysOK, Said, String
<1>7. ShownOK'
  BY DEF IInv, ShownOK
<1>8. CountsOK'
  <2>1. MaxOps \in Nat
    BY PageConstantsOK
  <2> QED BY <2>1 DEF IInv, CountsOK
<1> QED BY <1>1, <1>2, <1>4, <1>5, <1>6, <1>7, <1>8 DEF IInv

LEMMA LinkInv == IInv /\ Link => IInv'
<1> SUFFICES ASSUME IInv, Link PROVE IInv'
  OBVIOUS
<1> USE DEF Link, Taken, request
<1>1. SentOK'
  BY DEF IInv, SentOK
<1>2. ReadOK'
  BY DEF ReadOK, newMultiDict
<1>3. IsMap(want') /\ want' = Grouped(md.items) /\ piece' = String(Encode(want')) /\ kind' = "link"
  <2>1. IsDict(md)
    BY DictsAre
  <2>2. /\ urlencode(md) = Encode(Grouped(md.items))
        /\ urlencodeDict([k \in DOMAIN to_dict(md) |-> [list |-> TRUE, val |-> getlist(md, k)]])
           = Encode(Grouped(md.items))
    BY <2>1, LinkIs
  <2>3. piece' = String(Encode(Grouped(md.items)))
    BY <2>2
  <2>4. IsMap(Grouped(md.items))
    BY <2>1, GroupedOf
  <2> QED BY <2>3, <2>4
<1>4. WantOK'
  BY <1>3 DEF WantOK
<1>5. Encode(want') \in Texts
  BY <1>3, EncodeType DEF IsMap
<1>6. PieceOK'
  <2>1. Encode(want') \in Seq(Pieces)
    BY <1>5, SeqsOfTokens
  <2> QED BY <1>3, <2>1 DEF PieceOK, String
<1>7. SaysOK'
  <2>1. Said' = Encode(want')
    BY <1>3 DEF Said
  <2> QED BY <1>3, <2>1 DEF SaysOK, String
<1>8. ShownOK'
  BY DEF IInv, ShownOK
<1>9. CountsOK'
  <2>1. MaxOps \in Nat
    BY PageConstantsOK
  <2> QED BY <2>1 DEF IInv, CountsOK
<1> QED BY <1>1, <1>2, <1>4, <1>6, <1>7, <1>8, <1>9 DEF IInv

\* A helper: new is what it makes of the value in hand.
LEMMA HandleInv ==
    ASSUME IInv, NEW oddly \in SUBSET {"trusted", "unwrapped", "template"},
           pc = "view" /\ ops \in 1..MaxOps,
           piece'.markup \in BOOLEAN, piece'.text \in Seq(Pieces),
           piece'.markup /\ "trusted" \notin odd \cup oddly => piece'.text \in Seq(Harmless),
           odd = {} /\ oddly = {} =>
               IF piece'.markup THEN Shown(piece'.text) = Said ELSE piece'.text = Said,
           odd' = odd \cup oddly, ops' = ops + 1,
           UNCHANGED <<request, read, pc, shown>>
    PROVE  IInv'
<1> USE DEF request, read
<1>0. MaxOps \in Nat /\ ops \in Nat /\ ops # 0 /\ ops' # 0 /\ ops' \in 0..MaxOps + 1
  <2>1. MaxOps \in Nat
    BY PageConstantsOK
  <2> QED BY <2>1
<1>1. SentOK'
  BY DEF IInv, SentOK
<1>2. ReadOK'
  BY <1>0 DEF IInv, ReadOK, newMultiDict
<1>3. WantOK'
  BY DEF IInv, WantOK
<1>4. PieceOK'
  BY DEF PieceOK
<1>5. SaysOK'
  <2>1. Said' = Said
    BY DEF Said
  <2> QED BY <2>1 DEF SaysOK
<1>6. ShownOK'
  BY DEF IInv, ShownOK
<1>7. CountsOK'
  BY <1>0 DEF IInv, CountsOK
<1> QED BY <1>1, <1>2, <1>3, <1>4, <1>5, <1>6, <1>7 DEF IInv

\* What the helpers make of the value in hand is as it should be.
Good(new, oddly) ==
    /\ oddly \subseteq {"trusted", "unwrapped", "template"}
    /\ new.markup \in BOOLEAN /\ new.text \in Seq(Pieces)
    /\ new.markup /\ "trusted" \notin odd \cup oddly => new.text \in Seq(Harmless)
    /\ odd = {} /\ oddly = {} =>
           IF new.markup THEN Shown(new.text) = Said ELSE new.text = Said

LEMMA GoodInv ==
    ASSUME IInv, NEW new, NEW oddly, Handle(new, oddly), Good(new, oddly)
    PROVE  IInv'
<1>1. piece' = new
  BY DEF Handle
<1>2. /\ oddly \in SUBSET {"trusted", "unwrapped", "template"}
      /\ piece'.markup \in BOOLEAN /\ piece'.text \in Seq(Pieces)
      /\ piece'.markup /\ "trusted" \notin odd \cup oddly => piece'.text \in Seq(Harmless)
      /\ odd = {} /\ oddly = {} =>
             IF piece'.markup THEN Shown(piece'.text) = Said ELSE piece'.text = Said
  BY <1>1 DEF Good
<1>3. /\ pc = "view" /\ ops \in 1..MaxOps
      /\ odd' = odd \cup oddly /\ ops' = ops + 1
      /\ UNCHANGED <<request, read, pc, shown>>
  BY DEF Handle
<1> QED BY <1>2, <1>3, HandleInv

LEMMA HelpersInv ==
    IInv /\ (Escape \/ Trust \/ Unwrap \/ Insert \/ AsTemplate) => IInv'
<1> SUFFICES ASSUME IInv, Escape \/ Trust \/ Unwrap \/ Insert \/ AsTemplate PROVE IInv'
  OBVIOUS
<1>1. PieceOK /\ SaysOK /\ WantOK
  BY DEF IInv
<1>2. pc = "view" /\ ops > 0
  <2>1. pc = "view" /\ ops \in 1..MaxOps /\ MaxOps \in Nat
    BY PageConstantsOK DEF Escape, Trust, Unwrap, Insert, AsTemplate, Handle
  <2> QED BY <2>1
<1>3. /\ escape(piece).markup = TRUE /\ escape(piece).text \in Seq(Pieces)
      /\ "trusted" \notin odd \/ ~piece.markup => escape(piece).text \in Seq(Harmless)
      /\ odd = {} => Shown(escape(piece).text) = Said
  BY <1>1, <1>2, EscapedPiece, EscapedSays
<1>4. CASE Escape
  <2>1. Good(escape(piece), {})
    BY <1>3 DEF Good
  <2> QED BY <1>4, <2>1, GoodInv DEF Escape
<1>5. CASE Trust
  <2> DEFINE oddly == IF piece.markup THEN {} ELSE {"trusted"}
  <2>1. Good(markup(piece), oddly)
    BY <1>1, <1>2 DEF Good, PieceOK, SaysOK, markup, AsMarkup
  <2>2. Handle(markup(piece), oddly)
    BY <1>5 DEF Trust
  <2> QED BY <2>1, <2>2, GoodInv
<1>6. CASE Unwrap
  <2> DEFINE oddly == IF piece.markup THEN {"unwrapped"} ELSE {}
  <2>1. Good(plain(piece), oddly)
    BY <1>1, <1>2 DEF Good, PieceOK, SaysOK, plain, String
  <2>2. Handle(plain(piece), oddly)
    BY <1>6 DEF Unwrap
  <2> QED BY <2>1, <2>2, GoodInv
<1>7. CASE Insert
  <2>1. PICK t \in Templates : Handle(html(String(t), piece), {})
    BY <1>7 DEF Insert
  <2>2. Good(html(String(t), piece), {})
    <3>1. /\ html(String(t), piece).markup = TRUE /\ html(String(t), piece).text \in Seq(Pieces)
          /\ "trusted" \notin odd \/ ~piece.markup => html(String(t), piece).text \in Seq(Harmless)
          /\ Shown(html(String(t), piece).text) = Shown(escape(piece).text)
      BY <1>1, Filled
    <3> QED BY <1>3, <3>1 DEF Good
  <2> QED BY <2>1, <2>2, GoodInv
<1>8. CASE AsTemplate
  <2> DEFINE two == String(<<"2">>)
             new == html(piece, two)
             oddly == {"template"} \cup IF piece.markup THEN {} ELSE {"trusted"}
  <2>1. escape(two).text \in Seq(Harmless) /\ escape(two).text \in Seq(Pieces)
    <3>1. two.text \in Seq(Pieces) /\ two.markup = FALSE
      <4>1. "2" \in Pieces
        BY TokensAre
      <4> QED BY <4>1, Short DEF String
    <3> HIDE DEF two
    <3>2. escape(two).text \in Seq(Written(Pieces))
      BY <3>1, TokensAre, EscapeType
    <3> QED BY <3>2, SeqsOfTokens
  <2> HIDE DEF two
  <2>2. new.markup = TRUE /\ new.text \in Seq(Pieces)
    BY <1>1, <2>1, HtmlType DEF PieceOK
  <2>3. piece.markup /\ "trusted" \notin odd => new.text \in Seq(Harmless)
    <3>1. SUFFICES ASSUME piece.markup, "trusted" \notin odd PROVE new.text \in Seq(Harmless)
      OBVIOUS
    <3>2. piece.text \in Seq(Harmless)
      BY <1>1, <3>1 DEF PieceOK
    <3> QED BY <2>1, <3>2, HtmlType
  <2>4. Good(new, oddly)
    <3> HIDE DEF new
    <3> QED BY <2>2, <2>3 DEF Good
  <2>5. Handle(new, oddly)
    BY <1>8 DEF AsTemplate, two
  <2> QED BY <2>4, <2>5, GoodInv
<1> QED BY <1>4, <1>5, <1>6, <1>7, <1>8

LEMMA RespondInv == IInv /\ Respond => IInv'
<1> SUFFICES ASSUME IInv, Respond PROVE IInv'
  OBVIOUS
<1> USE DEF Respond, request, read
<1>0. PieceOK /\ SaysOK /\ WantOK /\ ops > 0
  BY DEF IInv
<1>1. SentOK'
  BY DEF IInv, SentOK
<1>2. ReadOK'
  <2>1. ops # 0
    BY DEF IInv, CountsOK
  <2> QED BY <2>1 DEF IInv, ReadOK, newMultiDict
<1>3. WantOK'
  BY DEF IInv, WantOK
<1>4. PieceOK'
  BY DEF IInv, PieceOK
<1>5. SaysOK'
  BY DEF SaysOK
<1>6. ShownOK'
  <2>1. PICK t \in Templates : shown' = Shown(html(String(t), piece).text)
    OBVIOUS
  <2> DEFINE p == html(String(t), piece).text
  <2>2. /\ p \in Seq(Pieces)
        /\ "trusted" \notin odd \/ ~piece.markup => p \in Seq(Harmless)
        /\ Shown(p) = Shown(escape(piece).text)
    BY <1>0, Filled
  <2> HIDE DEF p
  <2>3. Shown(p) \in Seq(Tokens)
    BY <2>2, TokensAre, ShownType
  <2>4. "trusted" \notin odd => Shown(p) \in Seq(Pieces)
    BY <2>2, TokensAre, ShownType
  <2>5. odd = {} => Shown(p) = Said
    BY <1>0, <2>2, EscapedSays
  <2>6. shown' = Shown(p)
    BY <2>1 DEF p
  <2>7. Said' = Said /\ pc' = "shown" /\ odd' = odd
    BY DEF Said
  <2> QED BY <2>3, <2>4, <2>5, <2>6, <2>7 DEF ShownOK
<1>7. CountsOK'
  BY DEF IInv, CountsOK
<1> QED BY <1>1, <1>2, <1>3, <1>4, <1>5, <1>6, <1>7 DEF IInv

\* A link that is followed sends what it was made of.
LEMMA LinkSends ==
    ASSUME IInv, pc = "shown", kind = "link", odd = {}
    PROVE  IsMap(want) /\ ParseQuery(shown) = [ok |-> TRUE, values |-> want]
<1>1. IsMap(want)
  BY DEF IInv, WantOK
<1>2. shown = Encode(want)
  BY DEF IInv, ShownOK, Said
<1> QED BY <1>1, <1>2, EncodeIsRead

LEMMA FollowInv == IInv /\ Follow => IInv'
<1> SUFFICES ASSUME IInv, Follow PROVE IInv'
  OBVIOUS
<1> USE DEF Follow, read
<1>1. SentOK'
  <2>1. args' = want /\ IsMap(want)
    <3>1. IsMap(want) /\ ParseQuery(shown) = [ok |-> TRUE, values |-> want]
      BY LinkSends
    <3> QED BY <3>1 DEF Query
  <2>2. IsMap(Grouped(<<>>))
    <3>1. <<>> \in Seq(Entry) /\ \A e \in Entry : e.key \in Texts /\ e.val \in Texts
      BY EmptySeq DEF Entry
    <3> QED BY <3>1, GroupedIs
  <2> QED BY <2>1, <2>2 DEF SentOK
<1>2. ReadOK'
  BY DEF IInv, ReadOK, newMultiDict
<1>3. WantOK'
  BY DEF IInv, WantOK
<1>4. PieceOK'
  BY EmptySeq DEF PieceOK, String
<1>5. SaysOK'
  BY DEF SaysOK
<1>6. ShownOK'
  BY DEF ShownOK
<1>7. CountsOK'
  <2>1. MaxHops \in Nat /\ MaxOps \in Nat
    BY PageConstantsOK
  <2> QED BY <2>1 DEF IInv, CountsOK
<1> QED BY <1>1, <1>2, <1>3, <1>4, <1>5, <1>6, <1>7 DEF IInv

LEMMA NextInv == IInv /\ [Next]_vars => IInv'
<1> SUFFICES ASSUME IInv, [Next]_vars PROVE IInv'
  OBVIOUS
<1>1. CASE Read
  BY <1>1, ReadInv
<1>2. CASE Take
  BY <1>2, TakeInv
<1>3. CASE Link
  BY <1>3, LinkInv
<1>4. CASE Escape \/ Trust \/ Unwrap \/ Insert \/ AsTemplate
  BY <1>4, HelpersInv
<1>5. CASE Respond
  BY <1>5, RespondInv
<1>6. CASE Follow
  BY <1>6, FollowInv
<1>7. CASE UNCHANGED vars
  BY <1>7 DEF vars, IInv, SentOK, ReadOK, WantOK, PieceOK, SaysOK, ShownOK, CountsOK, Said, Attr
<1> QED BY <1>1, <1>2, <1>3, <1>4, <1>5, <1>6, <1>7 DEF Next

\* Every reachable state.
LEMMA Invariant == Spec => []IInv
BY InitInv, NextInv, PTL DEF Spec

-----------------------------------------------------------------------------
(* What the invariant gives.                                               *)

LEMMA TypesFollow == IInv => TypeOK
<1> SUFFICES ASSUME IInv PROVE TypeOK
  OBVIOUS
<1>0. \A s \in Seq(Pieces) : IsText(s)
  BY SeqsOfTokens DEF IsText, Tokens
<1>1. IsText(shown)
  BY EmptySeq DEF IInv, ShownOK, IsText, Tokens
<1>2. \A t \in Texts : IsText(t)
  BY <1>0, SeqsOfTokens
<1>3. ASSUME NEW m, IsMap(m), NEW k \in DOMAIN m
      PROVE  IsText(k) /\ \A v \in ToSet(m[k]) : IsText(v)
  <2>1. k \in Texts /\ m[k] \in Seq(Texts)
    BY <1>3 DEF IsMap, IsMultiMap, Texts
  <2>2. ToSet(m[k]) \subseteq Texts
    BY <2>1, Elements
  <2> QED BY <1>2, <2>1, <2>2
<1>4. \A m \in {args, form} : \A k \in DOMAIN m : IsText(k) /\ \A v \in ToSet(m[k]) : IsText(v)
  BY <1>3 DEF IInv, SentOK
<1>5. \A e \in ToSet(md.items) : IsText(e.key) /\ IsText(e.val)
  <2>1. md.items \in Seq(Entry)
    <3>1. CASE pc = "view" /\ ops = 0
      BY <3>1, DictsAre
    <3>2. CASE ~(pc = "view" /\ ops = 0)
      <4>1. md = newMultiDict
        BY <3>2 DEF IInv, ReadOK
      <4>2. newMultiDict.items = <<>>
        BY DEF newMultiDict
      <4> QED BY <4>1, <4>2, EmptySeq
    <3> QED BY <3>1, <3>2
  <2>2. ToSet(md.items) \subseteq Entry
    BY <2>1, Elements
  <2> QED BY <1>2, <2>2 DEF Entry
<1>6. IsText(piece.text) /\ piece.markup \in BOOLEAN
  BY <1>0 DEF IInv, PieceOK
<1> QED BY <1>1, <1>4, <1>5, <1>6 DEF IInv, CountsOK, TypeOK

\* What a lookup finds is what was sent under the key.
LEMMA LookupIs ==
    ASSUME IInv, pc = "view", ops = 0, NEW d, d \in {md, again}
    PROVE  /\ IsDict(d) /\ d.caseInsensitive = (source = "headers")
           /\ KeysIn(d.items) = KeysFrom(source)
           /\ \A k : /\ getlist(d, k) = SentFrom(source, k)
                     /\ Index(d, k) = FirstOf(SentFrom(source, k))
                     /\ \A x : get(d, k, x) = IF SentFrom(source, k) = <<>> THEN x
                                              ELSE Head(SentFrom(source, k))
<1>1. /\ IsDict(d) /\ d.caseInsensitive = (source = "headers")
      /\ KeysIn(d.items) = KeysFrom(source)
      /\ \A k : Vals(Only(d.items, Of(normalize(d, k)))) = SentFrom(source, k)
  BY DictsAre
<1>2. ASSUME NEW k
      PROVE  /\ getlist(d, k) = SentFrom(source, k)
             /\ Index(d, k) = FirstOf(SentFrom(source, k))
             /\ \A x : get(d, k, x) = IF SentFrom(source, k) = <<>> THEN x
                                      ELSE Head(SentFrom(source, k))
  <2>1. Under(d, k) = Only(d.items, Of(normalize(d, k))) /\ getlist(d, k) = Vals(Under(d, k))
    BY <1>1, UnderIs
  <2>2. getlist(d, k) = SentFrom(source, k)
    BY <1>1, <2>1
  <2>3. /\ Index(d, k) = FirstOf(getlist(d, k))
        /\ \A x : get(d, k, x) = IF getlist(d, k) = <<>> THEN x ELSE Head(getlist(d, k))
    BY <1>1, UnderIs
  <2> QED BY <2>2, <2>3
<1> QED BY <1>1, <1>2

LEMMA ReadsFollow == IInv => ReadsAgree
<1> SUFFICES ASSUME IInv, pc = "view", ops = 0 PROVE ReadsAgree
  BY DEF ReadsAgree
<1> DEFINE K == KeysFrom(source)
           g(k) == SentFrom(source, k)
           Size == Cardinality(UNION {{k} \X DOMAIN g(k) : k \in ToSet(Sorted(K))})
<1> HIDE DEF K, g, Size
<1>1. ASSUME NEW d, d \in {md, again}
      PROVE  /\ IsDict(d) /\ d.caseInsensitive = (source = "headers") /\ KeysIn(d.items) = K
             /\ \A k : getlist(d, k) = g(k)
             /\ keys(d) = Sorted(K) /\ MDLen(d) = Size
  <2>1. /\ IsDict(d) /\ d.caseInsensitive = (source = "headers") /\ KeysIn(d.items) = K
        /\ \A k : getlist(d, k) = g(k)
    BY <1>1, LookupIs DEF K, g
  <2>2. keys(d) = Sorted(K)
    BY <2>1, KeysAre
  <2>3. MDLen(d) = Cardinality(UNION {{k} \X DOMAIN getlist(d, k) : k \in ToSet(keys(d))})
    BY <2>1, LengthIs
  <2>4. MDLen(d) = Size
    BY <2>1, <2>2, <2>3 DEF Size
  <2> QED BY <2>1, <2>2, <2>4
<1>2. ASSUME NEW d, d \in {md, again}
      PROVE  /\ to_dict(d) = [k \in K |-> Head(g(k))]
             /\ urlencode(d) = Encode([k \in K |-> g(k)])
  <2>1. to_dict(d) = [k \in KeysIn(d.items) |-> Head(getlist(d, k))]
    BY <1>1, <1>2, FirstsAre
  <2>2. Grouped(d.items) = [k \in KeysIn(d.items) |-> getlist(d, k)]
    BY <1>1, <1>2, GroupedOf
  <2>3. KeysIn(d.items) = K /\ \A k : getlist(d, k) = g(k)
    BY <1>1, <1>2
  <2>4. to_dict(d) = [k \in K |-> Head(g(k))]
    BY <2>1, <2>3
  <2>5. Grouped(d.items) = [k \in K |-> g(k)]
    BY <2>2, <2>3
  <2> QED BY <2>4, <2>5 DEF urlencode
<1>3. ASSUME source = "files", NEW d, d \in {md, again}
      PROVE  /\ \A k : filesGetlist(d, k) = g(k)
             /\ ToSet(filesKeys(d)) = K
             /\ filesLen(d) = Size
  <2>1. IsDict(d) /\ ~d.caseInsensitive
    BY <1>1, <1>3
  <2>2. \A k : filesGetlist(d, k) = getlist(d, k)
    BY <2>1, FilesAre
  <2>3. ToSet(filesKeys(d)) = KeysIn(d.items)
    BY <2>1, KeysAre
  <2>4. filesLen(d) = MDLen(d)
    BY DEF filesLen, MDLen
  <2> QED BY <1>1, <1>3, <2>2, <2>3, <2>4
<1>4. CASE source = "files"
  <2>1. \A k : filesGetlist(md, k) = filesGetlist(again, k)
    BY <1>3, <1>4
  <2>2. ToSet(filesKeys(md)) = ToSet(filesKeys(again)) /\ filesLen(md) = filesLen(again)
    BY <1>3, <1>4
  <2> QED BY <1>4, <2>1, <2>2 DEF ReadsAgree
<1>5. CASE source # "files"
  <2>1. \A k : getlist(md, k) = getlist(again, k)
    BY <1>1
  <2>2. keys(md) = keys(again) /\ MDLen(md) = MDLen(again)
    BY <1>1
  <2>3. to_dict(md) = to_dict(again) /\ urlencode(md) = urlencode(again)
    BY <1>2
  <2> QED BY <1>5, <2>1, <2>2, <2>3 DEF ReadsAgree
<1> QED BY <1>4, <1>5

LEMMA LookupsFollow == IInv => LookupsAgree
<1> SUFFICES ASSUME IInv, pc = "view", ops = 0 PROVE LookupsAgree
  BY DEF LookupsAgree
<1>1. /\ IsDict(md) /\ md.caseInsensitive = (source = "headers")
      /\ \A k : /\ getlist(md, k) = SentUnder(k)
                /\ Index(md, k) = FirstOf(SentUnder(k))
                /\ \A x : get(md, k, x) = IF SentUnder(k) = <<>> THEN x ELSE Head(SentUnder(k))
  <2>1. \A k : SentFrom(source, k) = SentUnder(k)
    BY DEF SentFrom, SentUnder
  <2> QED BY <2>1, LookupIs
<1>2. \A i \in DOMAIN md.items : md.items[i].val \in ToSet(getlist(md, md.items[i].key))
  BY <1>1, ItemsAre
<1>3. CASE source # "files"
  <2>1. \A i, j \in DOMAIN keys(md) : getlist(md, keys(md)[i]) # <<>>
           /\ (normalize(md, keys(md)[i]) = normalize(md, keys(md)[j]) => i = j)
    <3> DEFINE ks == keys(md)
    <3>1. /\ Distinct(ks)
          /\ \A i \in DOMAIN ks : ks[i] \in KeysIn(md.items)
          /\ \A k \in KeysIn(md.items) : normalize(md, k) = k /\ getlist(md, k) # <<>>
      BY <1>1, KeysAre
    <3> HIDE DEF ks
    <3>2. \A i, j \in DOMAIN ks : getlist(md, ks[i]) # <<>>
             /\ (normalize(md, ks[i]) = normalize(md, ks[j]) => i = j)
      BY <3>1 DEF Distinct
    <3> QED BY <3>2 DEF ks
  <2>2. MDLen(md) = Cardinality(UNION {{k} \X DOMAIN getlist(md, k) : k \in ToSet(keys(md))})
    BY <1>1, LengthIs
  <2>3. \A k \in DOMAIN to_dict(md) : Index(md, k) = [found |-> TRUE, val |-> to_dict(md)[k]]
    <3>1. to_dict(md) = [k \in KeysIn(md.items) |-> Head(getlist(md, k))]
      BY <1>1, FirstsAre
    <3>2. \A k \in KeysIn(md.items) : getlist(md, k) # <<>>
      BY <1>1, KeysAre
    <3>3. ASSUME NEW k \in KeysIn(md.items)
          PROVE  Index(md, k) = [found |-> TRUE, val |-> Head(getlist(md, k))]
      BY <1>1, <3>2 DEF FirstOf
    <3> QED BY <3>1, <3>3
  <2>4. \A i \in DOMAIN items(md) :
           items(md)[i][2] = values(md)[i] /\ values(md)[i] \in ToSet(getlist(md, items(md)[i][1]))
    BY <1>2 DEF items, values
  <2>5. source = "headers" =>
           \A k \in Keys : getHeader(k, <<"x">>) =
               IF get(md, k, <<>>) = <<>> THEN <<"x">> ELSE get(md, k, <<>>)
    <3>1. SUFFICES ASSUME source = "headers", NEW k \in Keys
                   PROVE  getHeader(k, <<"x">>) =
                              IF get(md, k, <<>>) = <<>> THEN <<"x">> ELSE get(md, k, <<>>)
      OBVIOUS
    <3> DEFINE vs == At(Headers, Canonical(k))
               first == get(md, k, <<>>)
    <3>2. SentUnder(k) = vs
      BY <3>1 DEF SentUnder
    <3>3. first = IF vs = <<>> THEN <<>> ELSE Head(vs)
      BY <1>1, <3>2
    <3>4. getHeader(k, <<"x">>) = IF vs = <<>> \/ Head(vs) = <<>> THEN <<"x">> ELSE Head(vs)
      BY DEF getHeader
    <3> HIDE DEF vs, first
    <3>5. getHeader(k, <<"x">>) = IF first = <<>> THEN <<"x">> ELSE first
      BY <3>3, <3>4
    <3> QED BY <3>5 DEF first
  <2>6. MultiDictAgrees
    BY <1>1, <2>1, <2>2, <2>3, <2>4, <2>5 DEF MultiDictAgrees
  <2> QED BY <1>3, <2>6 DEF LookupsAgree
<1>4. CASE source = "files"
  <2>1. \A k : /\ filesGetlist(md, k) = SentUnder(k)
               /\ filesIndex(md, k) = FirstOf(SentUnder(k))
               /\ \A x : filesGet(md, k, x) = IF SentUnder(k) = <<>> THEN x ELSE Head(SentUnder(k))
    BY <1>1, <1>4, FilesAre
  <2>2. \A i, j \in DOMAIN filesKeys(md) : filesGetlist(md, filesKeys(md)[i]) # <<>>
           /\ (filesKeys(md)[i] = filesKeys(md)[j] => i = j)
    <3> DEFINE ks == filesKeys(md)
    <3>1. /\ Distinct(ks) /\ ToSet(ks) = KeysIn(md.items)
          /\ \A k \in KeysIn(md.items) : getlist(md, k) # <<>>
          /\ \A k : filesGetlist(md, k) = getlist(md, k)
      BY <1>1, <1>4, KeysAre, FilesAre
    <3> HIDE DEF ks
    <3>2. \A i \in DOMAIN ks : ks[i] \in KeysIn(md.items)
      BY <3>1 DEF ToSet
    <3>3. \A i, j \in DOMAIN ks : filesGetlist(md, ks[i]) # <<>> /\ (ks[i] = ks[j] => i = j)
      BY <3>1, <3>2 DEF Distinct
    <3> QED BY <3>3 DEF ks
  <2>3. filesLen(md) =
            Cardinality(UNION {{k} \X DOMAIN filesGetlist(md, k) : k \in ToSet(filesKeys(md))})
    BY <1>1, <1>4, FilesAre
  <2>4. \A i \in DOMAIN filesItems(md) :
           filesItems(md)[i][2] \in ToSet(filesGetlist(md, filesItems(md)[i][1]))
    <3>1. \A k : filesGetlist(md, k) = getlist(md, k)
      BY <1>1, <1>4, FilesAre
    <3> QED BY <1>2, <3>1 DEF filesItems, items
  <2>5. FilesAgree
    BY <2>1, <2>2, <2>3, <2>4 DEF FilesAgree
  <2> QED BY <1>4, <2>5 DEF LookupsAgree
<1> QED BY <1>3, <1>4

LEMMA ShownFollows == IInv => ShownAsMeant
<1> SUFFICES ASSUME IInv, pc = "shown"
             PROVE  /\ kind = "text" /\ odd = {} => shown = want
                    /\ Contains(shown, "injected") => "trusted" \in odd
  BY DEF ShownAsMeant
<1>1. kind = "text" /\ odd = {} => shown = want
  BY DEF IInv, ShownOK, Said
<1>2. ASSUME "trusted" \notin odd PROVE ~Contains(shown, "injected")
  <2>1. shown \in Seq(Pieces)
    BY <1>2 DEF IInv, ShownOK
  <2>2. \A i \in 1..Len(shown) : shown[i] \in Pieces
    BY <2>1, ElementOfSeq
  <2> QED BY <2>2, TokensAre DEF Contains
<1> QED BY <1>1, <1>2

LEMMA LinkFollows == IInv => LinkKeepsArgs
BY LinkSends DEF LinkKeepsArgs

LEMMA QuoteFollows == IInv => QuoteRoundTrip
<1> SUFFICES ASSUME IInv, kind = "text", NEW safe \in SafeSets
             PROVE  /\ "%" \in safe \/ unquote(quote(want, safe)) = [ok |-> TRUE, text |-> want]
                    /\ ToSet(quote(want, safe)) \subseteq Unreserved \cup safe \cup {"%"}
  BY DEF QuoteRoundTrip
<1>1. want \in Texts
  BY DEF IInv, WantOK
<1>2. safe \in SUBSET Chars
  BY PageConstantsOK
<1> QED BY <1>1, <1>2, QuoteIs

-----------------------------------------------------------------------------
(* The theorems.                                                           *)

\* The types.
THEOREM TypeCorrect == Spec => []TypeOK
BY Invariant, TypesFollow, PTL

\* All the ways to look into an attribute of a request find what was sent under
\* the key, in order, whatever was sent (multidict.go, files.go, README.md:100).
THEOREM LookupsTellOneStory == Spec => []LookupsAgree
BY Invariant, LookupsFollow, PTL

\* The random order of Go's maps shows in no lookup, nor in keys(), len(), to_dict()
\* and urlencode().
THEOREM OrderNeverShows == Spec => []ReadsAgree
BY Invariant, ReadsFollow, PTL

\* html.go:98: a visitor's text is shown to the letter however escape() and html()
\* are composed, and no tag of his is one unless the view trusted it.
THEOREM TextIsShown == Spec => []ShownAsMeant
BY Invariant, ShownFollows, PTL

\* README.md:250, 262: a link of urlencode() sends every value under its key.
THEOREM LinksSendAll == Spec => []LinkKeepsArgs
BY Invariant, LinkFollows, PTL

\* README.md:197-198: unquote takes back what quote did.
THEOREM UnquoteTakesBack == Spec => []QuoteRoundTrip
BY Invariant, QuoteFollows, PTL
================================================================================
