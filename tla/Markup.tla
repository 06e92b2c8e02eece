-------------------------------- MODULE Markup --------------------------------
(***************************************************************************)
(* The HTML helpers escape, markup and html (html.go) and the browser they *)
(* write for.  A value is a string or markup (trusted HTML).  A template's *)
(* hole is the one character "{x}", a tag of its own "<p>"; an entity's    *)
(* name is one character, too.                                             *)
(***************************************************************************)
EXTENDS SequencesExt

String(t) == [markup |-> FALSE, text |-> t]
AsMarkup(t) == [markup |-> TRUE, text |-> t]

EntityChars == {"&", "<", ">", "\"", "'"}
Entity == [c \in EntityChars |->
            CASE c = "&" -> "amp" [] c = "<" -> "lt" [] c = ">" -> "gt"
              [] c = "\"" -> "quot" [] c = "'" -> "#39"]

\* What a page is made of beside the visitor's characters; "injected" stands for
\* a tag of his that the browser takes for one.
Signs == EntityChars \cup {Entity[c] : c \in EntityChars} \cup {";", "{x}", "<p>", "injected"}

\* Mutant: a nameless entity.
escapeHTMLNameless(t) ==
    FlattenSeq([i \in DOMAIN t |->
        IF t[i] \in EntityChars THEN <<"&", "", ";">> ELSE <<t[i]>>])

escapeHTML(t) ==
    FlattenSeq([i \in DOMAIN t |->
        IF t[i] \in EntityChars THEN <<"&", Entity[t[i]], ";">> ELSE <<t[i]>>])

\* Mutant: markup is escaped again.
escapeTwice(v) == AsMarkup(escapeHTML(v.text))

escape(v) == IF v.markup THEN v ELSE AsMarkup(escapeHTML(v.text))

markup(v) == AsMarkup(v.text)

\* The attributes s and string of markup: a plain string again.
plain(v) == String(v.text)

\* html(template, x = v): v fills the holes, escaped unless it is markup.  The
\* template may be a string or markup.
html(template, v) ==
    LET prepared == escape(v).text IN
    AsMarkup(FlattenSeq([i \in DOMAIN template.text |->
        IF template.text[i] = "{x}" THEN prepared ELSE <<template.text[i]>>]))

\* The character an entity stands for.
Decoded(name) == CHOOSE c \in EntityChars : Entity[c] = name

\* What a browser shows of a page: entities decoded, tags gone.  A "<" that is
\* not a tag of the view's own starts one of the user's.
Show1(st, c) ==
    CASE Len(st.ent) = 2 /\ c = ";" ->
            [ent |-> <<>>, text |-> Append(st.text, Decoded(st.ent[2]))]
      [] Len(st.ent) = 1 /\ \E e \in EntityChars : Entity[e] = c ->
            [st EXCEPT !.ent = Append(@, c)]
      [] OTHER ->
            LET flushed == st.text \o st.ent IN
            CASE c = "&" -> [ent |-> <<"&">>, text |-> flushed]
              [] c = "<p>" -> [ent |-> <<>>, text |-> flushed]
              [] c = "<" -> [ent |-> <<>>, text |-> Append(flushed, "injected")]
              [] OTHER -> [ent |-> <<>>, text |-> Append(flushed, c)]

Shown(page) ==
    LET end == FoldLeft(Show1, [ent |-> <<>>, text |-> <<>>], page) IN end.text \o end.ent
=============================================================================
