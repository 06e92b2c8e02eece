------------------------------- MODULE MultiDict ------------------------------
(***************************************************************************)
(* The MultiDict of request.args, form, values and headers (multidict.go). *)
(* md.items is its list of entries [key, val].                             *)
(***************************************************************************)
EXTENDS Integers, SequencesExt

CONSTANTS
    Canonical(_),   \* textproto.CanonicalMIMEHeaderKey
    Byte            \* Byte[c]: the byte of character c

Chars == DOMAIN Byte

\* The order of Go strings: byte by byte.
Before(u, v) ==
    \E i \in DOMAIN v :
        /\ \A j \in 1..i - 1 : j \in DOMAIN u /\ u[j] = v[j]
        /\ i \in DOMAIN u => Byte[u[i]] < Byte[v[i]]

\* A set of texts in that order.
Sorted(S) ==
    CHOOSE s \in SetToSeqs(S) : \A i, j \in DOMAIN s : i < j => Before(s[i], s[j])

\* The elements of s that are in S.
Only(s, S) == FoldLeft(LAMBDA kept, e : IF e \in S THEN Append(kept, e) ELSE kept, <<>>, s)

newMultiDict == [items |-> <<>>, caseInsensitive |-> FALSE]

add(md, k, v) == [md EXCEPT !.items = Append(@, [key |-> k, val |-> v])]

normalize(md, k) == IF md.caseInsensitive THEN Canonical(k) ELSE k

Under(md, k) ==
    Only(md.items, {e \in ToSet(md.items) : normalize(md, e.key) = normalize(md, k)})

Missing == [found |-> FALSE, val |-> <<>>]

\* Mutant: the last value.
IndexLast(md, k) ==
    IF Under(md, k) = <<>> THEN Missing ELSE [found |-> TRUE, val |-> Last(Under(md, k)).val]

\* key in md and, if it is, md[key].
Index(md, k) ==
    IF Under(md, k) = <<>> THEN Missing ELSE [found |-> TRUE, val |-> Head(Under(md, k)).val]

get(md, k, dflt) == IF Under(md, k) = <<>> THEN dflt ELSE Head(Under(md, k)).val

\* getlist and getall.
getlist(md, k) == [i \in DOMAIN Under(md, k) |-> Under(md, k)[i].val]

\* len(md) counts entries,
MDLen(md) == Len(md.items)

\* and iteration yields each key once, as it was first written.
Iterate(md) ==
    FoldLeft(LAMBDA ks, e : IF \E i \in DOMAIN ks : normalize(md, ks[i]) = normalize(md, e.key)
                            THEN ks ELSE Append(ks, e.key),
             <<>>, md.items)

\* Mutant: not sorted.
keysUnsorted(md) == Iterate(md)

keys(md) == Sorted(ToSet(Iterate(md)))

values(md) == [i \in DOMAIN md.items |-> md.items[i].val]

items(md) == [i \in DOMAIN md.items |-> <<md.items[i].key, md.items[i].val>>]

\* The entries whose key is k to the letter.
Named(entries, k) == Only(entries, {e \in ToSet(entries) : e.key = k})

\* The first value of each key, and here case counts.
to_dict(md) ==
    [k \in {e.key : e \in ToSet(md.items)} |-> Head(Named(md.items, k)).val]

-----------------------------------------------------------------------------
(* The dict of request.files (files.go): case counts, keys() is not sorted, *)
(* and there is no values() or to_dict().  An uploaded file stands for its  *)
(* FileStorage record.                                                      *)

newFilesDict == [items |-> <<>>, caseInsensitive |-> FALSE]

filesAdd(d, k, file) == add(d, k, file)

\* key in files and files[key].
filesIndex(d, k) ==
    IF Named(d.items, k) = <<>> THEN Missing
    ELSE [found |-> TRUE, val |-> Head(Named(d.items, k)).val]

filesGet(d, k, dflt) ==
    IF Named(d.items, k) = <<>> THEN dflt ELSE Head(Named(d.items, k)).val

filesGetlist(d, k) == [i \in DOMAIN Named(d.items, k) |-> Named(d.items, k)[i].val]

filesLen(d) == Len(d.items)

filesIterate(d) ==
    FoldLeft(LAMBDA ks, e : IF Contains(ks, e.key) THEN ks ELSE Append(ks, e.key), <<>>, d.items)

filesKeys(d) == filesIterate(d)

filesItems(d) == items(d)
=============================================================================
