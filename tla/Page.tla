--------------------------------- MODULE Page ---------------------------------
(***************************************************************************)
(* What a visitor sends and what he gets to see of it: a view reads a      *)
(* multi-valued attribute of the request (request.go: args, form, values,  *)
(* headers, files), makes a text or a link of it with the helpers of       *)
(* URLText and Markup in any order, and the browser shows the page or      *)
(* follows the link.                                                       *)
(*                                                                         *)
(* net/http and net/url keep what is sent under a key in order, but the    *)
(* keys in a Go map, and the attributes go over that map in a random order:*)
(* args, values and headers at every access, form and files once in a      *)
(* request.                                                                *)
(***************************************************************************)
EXTENDS URLText, Markup

CONSTANTS
    Requests,       \* what visitors send: query string and body, a form
    Headers,        \* the request's headers: their values by name
    Files,          \* its uploaded files: the parts by field
    Probes,         \* keys a view looks for
    Templates,      \* templates of views
    SafeSets,       \* second arguments of quote()
    MaxOps,         \* how often a view handles a value
    MaxHops         \* how many links the visitor follows

\* The values by key, as net/http and net/url keep them: none without a value.
IsMultiMap(m) ==
    /\ IsFiniteSet(DOMAIN m) /\ DOMAIN m \subseteq Seq(Chars)
    /\ \A k \in DOMAIN m : m[k] \in Seq(Seq(Chars)) /\ m[k] # <<>>

\* A header's name is canonical; a template shows its value once.
ASSUME PageConstantsOK ==
    /\ Requests \subseteq Seq(Chars) \X Seq(Chars)
    /\ IsMultiMap(Headers) /\ IsMultiMap(Files)
    /\ \A k \in DOMAIN Headers : Canonical(k) = k
    /\ \A t \in Templates : /\ t \in Seq({"{x}", "<p>"})
                             /\ \E i \in DOMAIN t : \A j \in DOMAIN t : t[j] = "{x}" <=> j = i
    /\ SafeSets \subseteq SUBSET Chars
    /\ "<p>" \notin Chars /\ "injected" \notin Chars
    /\ MaxOps \in Nat /\ MaxHops \in Nat

VARIABLES
    args, form,     \* what the visitor sends: the values by key of the query
                    \* string and of the body
    pc,             \* "request", "view", "shown"
    source, md,     \* the attribute the view reads, and what it gets
    again,          \* and gets the second time
    kind, want,     \* what it makes of it, "link" or "text", and what this
                    \* should say
    piece,          \* the value it handles
    odd,            \* the operations not meant for what visitors send: "trusted",
                    \* "unwrapped", "template"
    ops, hops,      \* how many operations, links
    shown           \* what the browser shows

request == <<args, form, hops>>
read == <<source, md, again, kind, want>>
vars == <<args, form, pc, source, md, again, kind, want, piece, odd, ops, hops, shown>>

\* r.URL.Query() leaves out the pairs it cannot parse; a form with such a pair
\* is empty.
Query(t) == ParseQuery(t).values
FormValues(t) == IF ParseQuery(t).ok THEN Query(t) ELSE Grouped(<<>>)

Init ==
    /\ \E r \in Requests : args = Query(r[1]) /\ form = FormValues(r[2])
    /\ pc = "request"
    /\ source = "args" /\ md = newMultiDict /\ again = newMultiDict
    /\ kind = "text" /\ want = <<>>
    /\ piece = String(<<>>)
    /\ odd = {} /\ ops = 0 /\ hops = 0
    /\ shown = <<>>

-----------------------------------------------------------------------------
\* request.get_header: the first value (http.Header.Get), unless it is empty.
At(m, k) == IF k \in DOMAIN m THEN m[k] ELSE <<>>
getHeader(name, dflt) ==
    LET vs == At(Headers, Canonical(name)) IN
    IF vs = <<>> \/ Head(vs) = <<>> THEN dflt ELSE Head(vs)

\* Entries from a Go map, its keys in some order.
FromMap(m, order) ==
    FlattenSeq([i \in DOMAIN order |->
        [j \in DOMAIN m[order[i]] |-> [key |-> order[i], val |-> m[order[i]][j]]]])

Orders(m) == SetToSeqs(DOMAIN m)

\* The attribute's value: ao and fo are the orders of the two maps.
Attr(src, ao, fo) ==
    CASE src = "args" -> [newMultiDict EXCEPT !.items = FromMap(args, ao)]
      [] src = "form" -> [newMultiDict EXCEPT !.items = FromMap(form, fo)]
      [] src = "values" ->
            [newMultiDict EXCEPT !.items = FromMap(args, ao) \o FromMap(form, fo)]
      [] src = "headers" -> [items |-> FromMap(Headers, ao), caseInsensitive |-> TRUE]
      [] src = "files" -> [newFilesDict EXCEPT !.items = FromMap(Files, fo)]

\* The view reads an attribute, twice.
Read ==
    /\ pc = "request"
    /\ \E src \in {"args", "form", "values", "headers", "files"} :
          /\ source' = src
          /\ \E ao, ao2 \in Orders(IF src = "headers" THEN Headers ELSE args),
                fo \in Orders(IF src = "files" THEN Files ELSE form) :
                md' = Attr(src, ao, fo) /\ again' = Attr(src, ao2, fo)
    /\ pc' = "view"
    /\ UNCHANGED <<request, kind, want, piece, odd, ops, shown>>

\* What has been read is of no more use.
Taken ==
    /\ ops' = 1
    /\ md' = newMultiDict /\ again' = newMultiDict
    /\ UNCHANGED <<request, pc, source, odd, shown>>

\* It takes one of the values, or writes a link with all of them.
Take ==
    /\ pc = "view" /\ ops = 0 /\ source \in {"args", "form", "values"}
    /\ \E v \in ToSet(values(md)) : want' = v /\ piece' = String(v)
    /\ kind' = "text" /\ Taken

Link ==
    /\ pc = "view" /\ ops = 0 /\ source \in {"args", "form", "values"}
    /\ want' = Grouped(md.items)
    /\ piece' \in {String(urlencode(md)),
                   String(urlencodeDict([k \in DOMAIN to_dict(md) |->
                                            [list |-> TRUE, val |-> getlist(md, k)]]))}
    /\ kind' = "link" /\ Taken

\* One of the helpers, on the value in hand.
Handle(new, oddly) ==
    /\ pc = "view" /\ ops \in 1..MaxOps
    /\ piece' = new
    /\ odd' = odd \cup oddly
    /\ ops' = ops + 1
    /\ UNCHANGED <<request, read, pc, shown>>

Escape == Handle(escape(piece), {})
Trust == Handle(markup(piece), IF piece.markup THEN {} ELSE {"trusted"})
Unwrap == Handle(plain(piece), IF piece.markup THEN {"unwrapped"} ELSE {})
Insert == \E t \in Templates : Handle(html(String(t), piece), {})

\* The value as a template: html(piece, x = "2").
AsTemplate ==
    Handle(html(piece, String(<<"2">>)),
           {"template"} \cup IF piece.markup THEN {} ELSE {"trusted"})

Respond ==
    /\ pc = "view" /\ ops > 0
    /\ shown' \in {Shown(html(String(t), piece).text) : t \in Templates}
    /\ pc' = "shown"
    /\ UNCHANGED <<request, read, piece, odd, ops>>

Follow ==
    /\ pc = "shown" /\ kind = "link" /\ hops < MaxHops /\ odd = {}
    /\ args' = Query(shown) /\ form' = Grouped(<<>>)
    /\ hops' = hops + 1
    /\ pc' = "request" /\ ops' = 0 /\ piece' = String(<<>>) /\ shown' = <<>>
    /\ UNCHANGED <<read, odd>>

Next == Read \/ Take \/ Link \/ Escape \/ Trust \/ Unwrap \/ Insert \/ AsTemplate
        \/ Respond \/ Follow

Spec == Init /\ [][Next]_vars

-----------------------------------------------------------------------------
(* What must hold.                                                         *)

IsText(t) == t \in Seq(Chars \cup Signs)

TypeOK ==
    /\ IsText(shown)
    /\ \A m \in {args, form} : \A k \in DOMAIN m : IsText(k) /\ \A v \in ToSet(m[k]) : IsText(v)
    /\ pc \in {"request", "view", "shown"}
    /\ \A e \in ToSet(md.items) : IsText(e.key) /\ IsText(e.val)
    /\ IsText(piece.text) /\ piece.markup \in BOOLEAN
    /\ odd \subseteq {"trusted", "unwrapped", "template"}
    /\ ops \in 0..MaxOps + 1 /\ hops \in 0..MaxHops

SentUnder(k) ==
    CASE source = "args" -> At(args, k)
      [] source = "form" -> At(form, k)
      [] source = "values" -> At(args, k) \o At(form, k)
      [] source = "headers" -> At(Headers, Canonical(k))
      [] source = "files" -> At(Files, k)

\* A key's first value, as indexing has it, among all of them.
FirstOf(vs) == IF vs = <<>> THEN Missing ELSE [found |-> TRUE, val |-> Head(vs)]

Keys == Probes \cup ToSet(Iterate(md))

MultiDictAgrees ==
    /\ \A k \in Keys :
          /\ getlist(md, k) = SentUnder(k)
          /\ Index(md, k) = FirstOf(SentUnder(k))
          /\ get(md, k, <<"x">>) = IF SentUnder(k) = <<>> THEN <<"x">> ELSE Head(SentUnder(k))
    /\ \A i, j \in DOMAIN keys(md) : getlist(md, keys(md)[i]) # <<>>
          /\ (normalize(md, keys(md)[i]) = normalize(md, keys(md)[j]) => i = j)
    /\ MDLen(md) = Cardinality(UNION {{k} \X DOMAIN getlist(md, k) : k \in ToSet(keys(md))})
    /\ \A k \in DOMAIN to_dict(md) : Index(md, k) = [found |-> TRUE, val |-> to_dict(md)[k]]
    /\ \A i \in DOMAIN items(md) :
          items(md)[i][2] = values(md)[i] /\ values(md)[i] \in ToSet(getlist(md, items(md)[i][1]))
    /\ source = "headers" =>
          \A k \in Keys : getHeader(k, <<"x">>) =
              IF get(md, k, <<>>) = <<>> THEN <<"x">> ELSE get(md, k, <<>>)

FileKeys == Probes \cup ToSet(filesIterate(md))

FilesAgree ==
    /\ \A k \in FileKeys :
          /\ filesGetlist(md, k) = SentUnder(k)
          /\ filesIndex(md, k) = FirstOf(SentUnder(k))
          /\ filesGet(md, k, <<"x">>) = IF SentUnder(k) = <<>> THEN <<"x">> ELSE Head(SentUnder(k))
    /\ \A i, j \in DOMAIN filesKeys(md) : filesGetlist(md, filesKeys(md)[i]) # <<>>
          /\ (filesKeys(md)[i] = filesKeys(md)[j] => i = j)
    /\ filesLen(md) =
          Cardinality(UNION {{k} \X DOMAIN filesGetlist(md, k) : k \in ToSet(filesKeys(md))})
    /\ \A i \in DOMAIN filesItems(md) :
          filesItems(md)[i][2] \in ToSet(filesGetlist(md, filesItems(md)[i][1]))

\* README.md:100: "indexing returns the first value, while getlist(key) returns
\* all values", in the order they were sent, those of the query before those of
\* the form; and all the ways to look into a MultiDict tell the same story,
\* however a header's name is written.  (get_header differs from headers.get for
\* a header that is there and empty, which it overlooks.)  files.go:77 promises
\* the same of the uploaded files, "values" excepted, which files.go does not have.
LookupsAgree ==
    pc = "view" /\ ops = 0 => IF source = "files" THEN FilesAgree ELSE MultiDictAgrees

\* The random order of the map never shows in a lookup, in keys(), len(),
\* to_dict() or urlencode().  (It does in iteration, values() and items(), and in
\* the order of files.keys().)
ReadsAgree ==
    pc = "view" /\ ops = 0 =>
        IF source = "files"
        THEN /\ \A k \in FileKeys : filesGetlist(md, k) = filesGetlist(again, k)
             /\ ToSet(filesKeys(md)) = ToSet(filesKeys(again))
             /\ filesLen(md) = filesLen(again)
        ELSE /\ \A k \in Keys : getlist(md, k) = getlist(again, k)
             /\ keys(md) = keys(again)
             /\ MDLen(md) = MDLen(again)
             /\ to_dict(md) = to_dict(again)
             /\ urlencode(md) = urlencode(again)

\* html.go:98, TestHtmlComposes: what a visitor sent is shown to the letter
\* however escape() and html() are composed, unless the view trusted it, took
\* escaped text for plain or used it as a template; and only what the view
\* trusted can be markup.
ShownAsMeant ==
    pc = "shown" =>
        /\ kind = "text" /\ odd = {} => shown = want
        /\ Contains(shown, "injected") => "trusted" \in odd

\* README.md:250, 262: a link made with urlencode() and escaped for the page
\* sends what it was made of: every value under its key, in order.
LinkKeepsArgs ==
    pc = "shown" /\ kind = "link" /\ odd = {} =>
        ParseQuery(shown) = [ok |-> TRUE, values |-> want]

\* README.md:197-198: unquote takes back what quote did, whatever is safe, "%"
\* excepted; and what quote leaves is no other character than it may.
QuoteRoundTrip ==
    kind = "text" /\ ops = 1 =>
        \A safe \in SafeSets :
            /\ "%" \in safe \/ unquote(quote(want, safe)) = [ok |-> TRUE, text |-> want]
            /\ ToSet(quote(want, safe)) \subseteq Unreserved \cup safe \cup {"%"}
=============================================================================
