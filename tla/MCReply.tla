------------------------------- MODULE MCReply -------------------------------
(***************************************************************************)
(* Small instances of Reply for TLC.                                       *)
(***************************************************************************)
EXTENDS Reply

\* Plain and blank values, lists of none, of two and with a hole in them.
MCEntries ==
    {[name |-> n, list |-> FALSE, vals |-> v] :
        n \in {"Set-Cookie", "Content-Type", "Content-Length"}, v \in {<<"own">>, <<"blank">>}} \cup
    {[name |-> n, list |-> TRUE, vals |-> v] :
        n \in {"Set-Cookie", "Content-Type"},
        v \in {<<>>, <<"own", "own">>, <<"own", "bad">>}} \cup
    {[name |-> n, list |-> FALSE, vals |-> <<"own">>] : n \in {"X", "notString"}}

MCHeaders == {<<>>} \cup {<<e>> : e \in MCEntries} \cup {<<e, f>> : e, f \in MCEntries}

\* Both sides of the ends of the range, the lower being an interim status, and one
\* that allows no body.
MCStatuses == {99, 100, 200, 204, 999, 1000}

Plain == [shape |-> "scalar", body |-> "str", empty |-> FALSE, malformed |-> FALSE,
          status |-> 200, headers |-> <<>>, ctype |-> FALSE, cookies |-> 0]

MCResults ==
    \* every body and status, with no headers
    {[Plain EXCEPT !.shape = s, !.body = b, !.empty = e, !.malformed = m, !.status = c] :
        s \in {"tuple", "dict", "response", "unsupported"}, b \in Bodies, e \in BOOLEAN,
        m \in BOOLEAN, c \in MCStatuses} \cup
    {[Plain EXCEPT !.body = b, !.empty = e] : b \in Bodies, e \in BOOLEAN} \cup
    \* every headers dict
    {[Plain EXCEPT !.shape = "tuple", !.body = b, !.headers = h] :
        b \in Text, h \in MCHeaders} \cup
    {[Plain EXCEPT !.shape = "dict", !.headers = h, !.ctype = t] :
        h \in MCHeaders, t \in BOOLEAN} \cup
    {[Plain EXCEPT !.shape = "response", !.headers = h, !.cookies = k, !.ctype = t] :
        h \in MCHeaders, k \in 0..2, t \in BOOLEAN}

MCEndings ==
    {[how |-> "returned", status |-> 0, result |-> v] : v \in MCResults} \cup
    {[how |-> h, status |-> s, result |-> Plain] :
        h \in {"abort", "tooBig", "failed"}, s \in MCStatuses}
=============================================================================
