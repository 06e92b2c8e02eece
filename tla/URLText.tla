------------------------------- MODULE URLText --------------------------------
(***************************************************************************)
(* Text in URLs: quote, unquote and urlencode (url.go), and what net/url   *)
(* makes of them again.  A text is a sequence of characters, one byte each.*)
(***************************************************************************)
EXTENDS MultiDict

CONSTANT
    Unreserved      \* the characters A-Z a-z 0-9 _ . - ~

hex == <<"0", "1", "2", "3", "4", "5", "6", "7", "8", "9", "A", "B", "C", "D", "E", "F">>

ASSUME TextConstantsOK ==
    /\ Byte \in [Chars -> 0..255]
    /\ \A c, d \in Chars : Byte[c] = Byte[d] => c = d
    /\ \A n \in 0..255 : \E c \in Chars : Byte[c] = n
    /\ Unreserved \subseteq Chars \ {"%", "+", " ", "&", "=", ";"}
    /\ {"%", "+", " ", "&", "=", ";"} \subseteq Chars
    /\ \A i \in 1..16 : /\ hex[i] \in Unreserved
                        /\ Byte[hex[i]] = IF i <= 10 THEN 47 + i ELSE 54 + i

PercentEncode(c) == <<"%", hex[Byte[c] \div 16 + 1], hex[(Byte[c] % 16) + 1]>>

\* quoteString(t, safe), for a set of safe characters.
quote(t, safe) ==
    FlattenSeq([i \in DOMAIN t |->
        IF t[i] \in Unreserved \cup safe THEN <<t[i]>> ELSE PercentEncode(t[i])])

IsHexDigit(c) == c \in Chars /\ Byte[c] \in (48..57) \cup (65..70) \cup (97..102)

HexValue(c) ==
    IF Byte[c] <= 57 THEN Byte[c] - 48 ELSE IF Byte[c] <= 70 THEN Byte[c] - 55 ELSE Byte[c] - 87

CharOf(n) == CHOOSE c \in Chars : Byte[c] = n

\* url.PathUnescape, or with plus url.QueryUnescape, one character at a time:
\* esc is the part of an escape that has been read.
Unescape1(plus, st, c) ==
    CASE st.esc # <<>> /\ ~IsHexDigit(c) -> [st EXCEPT !.ok = FALSE]
      [] Len(st.esc) = 1 /\ IsHexDigit(c) -> [st EXCEPT !.esc = Append(@, c)]
      [] Len(st.esc) = 2 /\ IsHexDigit(c) ->
            [st EXCEPT !.esc = <<>>,
                       !.text = Append(@, CharOf(16 * HexValue(st.esc[2]) + HexValue(c)))]
      [] st.esc = <<>> /\ c = "%" -> [st EXCEPT !.esc = <<"%">>]
      [] OTHER -> [st EXCEPT !.text = Append(@, IF plus /\ c = "+" THEN " " ELSE c)]

Unescape(t, plus) ==
    LET end == FoldLeft(LAMBDA st, c : Unescape1(plus, st, c),
                        [ok |-> TRUE, text |-> <<>>, esc |-> <<>>], t)
    IN [ok |-> end.ok /\ end.esc = <<>>, text |-> end.text]

\* Mutant: as in a query.
unquoteForm(t) == Unescape(t, TRUE)

unquote(t) == Unescape(t, FALSE)

Split(t, sep) ==
    FoldLeft(LAMBDA parts, c : IF c = sep THEN Append(parts, <<>>)
                               ELSE Append(Front(parts), Append(Last(parts), c)),
             <<<<>>>>, t)

\* url.ParseQuery: its values, grouped by key, and whether all pairs were good.
PairOf(part) ==
    LET eq == SelectInSeq(part, LAMBDA c : c = "=")
        k == Unescape(IF eq = 0 THEN part ELSE SubSeq(part, 1, eq - 1), TRUE)
        v == Unescape(IF eq = 0 THEN <<>> ELSE SubSeq(part, eq + 1, Len(part)), TRUE)
    IN [ok |-> k.ok /\ v.ok /\ ~Contains(part, ";"), key |-> k.text, val |-> v.text]

Grouped(entries) ==
    [k \in {e.key : e \in ToSet(entries)} |->
        [i \in DOMAIN Named(entries, k) |-> Named(entries, k)[i].val]]

ParseQuery(t) ==
    LET split == Split(t, "&")
        parts == Only(split, {p \in ToSet(split) : p # <<>>})
        pairs == [i \in DOMAIN parts |-> PairOf(parts[i])]
    IN [ok |-> \A i \in DOMAIN pairs : pairs[i].ok,
        values |-> Grouped(Only(pairs, {p \in ToSet(pairs) : p.ok}))]

\* url.Values.Encode: sorted by key; url.QueryEscape writes a blank as "+".
QueryEscape(t) ==
    FlattenSeq([i \in DOMAIN t |->
        CASE t[i] = " " -> <<"+">>
          [] t[i] \in Unreserved -> <<t[i]>>
          [] OTHER -> PercentEncode(t[i])])

Encode(vals) ==
    LET ks == Sorted(DOMAIN vals)
        pair(k, v) == <<"&">> \o QueryEscape(k) \o <<"=">> \o QueryEscape(v)
        all == FlattenSeq([i \in DOMAIN ks |->
                    FlattenSeq([j \in DOMAIN vals[ks[i]] |-> pair(ks[i], vals[ks[i]][j])])])
    IN IF all = <<>> THEN <<>> ELSE Tail(all)

\* urlencode of a MultiDict.
urlencode(md) == Encode(Grouped(md.items))

\* Mutant: a list is a single value.
addFirst(k, v) == IF v.list THEN <<Head(v.val)>> ELSE <<v.val>>

\* addURLValue: the values that a dict's value v adds under k, one for each item
\* of a list or tuple.
addURLValue(k, v) == IF v.list THEN v.val ELSE <<v.val>>

\* urlencode of a dict.
urlencodeDict(d) == Encode([k \in DOMAIN d |-> addURLValue(k, d[k])])
=============================================================================
