-------------------------------- MODULE Reply --------------------------------
(***************************************************************************)
(* The end of ServeHTTP: from what the view returned, or died of, to what  *)
(* is on the wire (module.go:212-240; response.go: coerceResponse,         *)
(* coerceTuple, coerceDict, validStatus, writeResponse).                   *)
(*                                                                         *)
(* Several hands write on one header map: the session cookie, the view's   *)
(* headers one entry after the other, its cookies, the content type, the   *)
(* length.  Each of the first two can fail half-way, and Caddy then writes *)
(* its error page over the same map.  Write can fail after the status line *)
(* has gone out.                                                           *)
(***************************************************************************)
EXTENDS Integers, SequencesExt

CONSTANTS
    Endings,        \* how views end: records [how, status, result]
    SessionWrites   \* what writeSessionCookie does: subset of SessionKinds

Names == {"Set-Cookie", "Content-Type", "Content-Length", "X"}
Bodies == {"str", "bytes", "markup", "none", "other"}
Text == {"str", "bytes", "markup"}
Shapes == {"scalar", "tuple", "dict", "response", "unsupported"}
SessionKinds == {"notOpened", "unchanged", "changed", "fails"}

\* A key of a headers dict with its value: the values to set (a list has any
\* number of them), "blank" when empty, "bad" when no string.  Names are canonical,
\* so that two keys of one dict can have the same name.
Entries == [name : Names \cup {"notString"}, list : BOOLEAN,
            vals : Seq({"own", "blank", "bad"})]
IsEntry(e) == e \in Entries /\ (~e.list => e.vals \in {<<"own">>, <<"blank">>})

\* A view's result.  Parts not given have the constructors' default values;
\* malformed: another part has a wrong type, or there are too many of them.
\* cookies counts the cookies of set_cookie that http.SetCookie accepts.
IsResult(v) ==
    /\ v.shape \in Shapes /\ v.body \in Bodies
    /\ v.empty \in BOOLEAN /\ v.malformed \in BOOLEAN
    /\ v.status \in Int
    /\ v.headers \in Seq(Entries) /\ \A i \in DOMAIN v.headers : IsEntry(v.headers[i])
    /\ v.ctype \in BOOLEAN
    /\ v.cookies \in Nat
    /\ v.shape = "scalar" => v.headers = <<>> /\ v.status = 200 /\ ~v.malformed
    /\ v.shape \in {"scalar", "tuple"} => ~v.ctype
    /\ v.shape # "response" => v.cookies = 0

ASSUME ReplyConstantsOK ==
    /\ \A e \in Endings : /\ e.how \in {"returned", "abort", "tooBig", "failed"}
                          /\ e.status \in Int
                          /\ IsResult(e.result)
    /\ SessionWrites \subseteq SessionKinds

VARIABLES
    ending,     \* how the view ended
    session,    \* what writeSessionCookie will do
    pc,         \* "called", "session", "coerce", "headers", "commit", "write", "done"
    resp,       \* the *Response, once coerced
    entry,      \* index of the next key of resp.Headers
    hdr,        \* hdr[n]: values of header n in the ResponseWriter
    sent,       \* the response's status on the wire, 0 if none
    err         \* the status of the error ServeHTTP returned, 0 if none

vars == <<ending, session, pc, resp, entry, hdr, sent, err>>

-----------------------------------------------------------------------------
(* coerceResponse: a Response, or a refusal.                               *)

\* Mutant: one end of the range is not checked.
validStatusLow(s) == s >= 100

validStatus(s) == s \in 100..999

Refused == [ok |-> FALSE, status |-> 0, body |-> "none", empty |-> TRUE,
            headers |-> <<>>, ctype |-> FALSE, cookies |-> 0]

Response(v, status) ==
    [ok |-> TRUE, status |-> status,
     body |-> IF v.body = "none" THEN "str" ELSE v.body,
     empty |-> v.empty \/ v.body = "none",
     headers |-> v.headers, ctype |-> v.ctype, cookies |-> v.cookies]

\* What a view hands over as a Response has passed the checks of Response(...)
\* or redirect(...); a bad argument of theirs is an error of the view's.
Constructible(v) ==
    ~v.malformed /\ v.body \in Text \cup {"none"} /\ validStatus(v.status)

\* Mutant: a 204 with something to say.
coerceScalarNone(v) ==
    IF v.body \in Text THEN Response(v, 200)
    ELSE IF v.body = "none" THEN [Response(v, 204) EXCEPT !.empty = FALSE]
    ELSE Refused

coerceScalar(v) ==
    IF v.body \in Text THEN Response(v, 200)
    ELSE IF v.body = "none" THEN Response(v, 204)
    ELSE Refused

\* Mutant: parts of the wrong type are passed over.
coercePartsLax(v) ==
    IF v.body \in Text /\ validStatus(v.status) THEN Response(v, v.status) ELSE Refused

\* Here a body of None is no body.
coerceParts(v) ==
    IF v.body \in Text /\ validStatus(v.status) /\ ~v.malformed
    THEN Response(v, v.status)
    ELSE Refused

coerceResponse(v) ==
    CASE v.shape = "response" -> Response(v, v.status)
      [] v.shape = "scalar" -> coerceScalar(v)
      [] v.shape \in {"tuple", "dict"} -> coerceParts(v)
      [] OTHER -> Refused

-----------------------------------------------------------------------------
Init ==
    /\ ending \in Endings
    /\ ending.how = "returned" /\ ending.result.shape = "response" =>
          Constructible(ending.result)
    /\ session \in SessionWrites
    /\ pc = "called"
    /\ resp = Refused
    /\ entry = 1
    /\ hdr = [n \in Names |-> <<>>]
    /\ sent = 0
    /\ err = 0

Stop(status) == pc' = "done" /\ err' = status

\* starlark.Call has returned.
AfterCall ==
    /\ pc = "called"
    /\ \/ ending.how = "returned" /\ pc' = "session" /\ UNCHANGED err
       \/ ending.how = "abort" /\ Stop(ending.status)
       \/ ending.how = "tooBig" /\ Stop(413)
       \/ ending.how = "failed" /\ Stop(500)
    /\ UNCHANGED <<ending, session, resp, entry, hdr, sent>>

\* writeSessionCookie, if the view has opened its session.
SessionCookie ==
    /\ pc = "session"
    /\ \/ session \in {"notOpened", "unchanged"}
          /\ pc' = "coerce" /\ UNCHANGED <<hdr, err>>
       \/ session = "changed"
          /\ hdr' = [hdr EXCEPT !["Set-Cookie"] = Append(@, "session")]
          /\ pc' = "coerce" /\ UNCHANGED err
       \/ session = "fails" /\ Stop(500) /\ UNCHANGED hdr
    /\ UNCHANGED <<ending, session, resp, entry, sent>>

Coerce ==
    /\ pc = "coerce"
    /\ resp' = coerceResponse(ending.result)
    /\ IF resp'.ok THEN pc' = "headers" /\ UNCHANGED err ELSE Stop(500)
    /\ UNCHANGED <<ending, session, entry, hdr, sent>>

\* One key of resp.Headers; a list is deleted and added item by item, up to
\* the one that is no string.
Bads(s) == {i \in 1..Len(s) : s[i] = "bad"}
Strings(s) == IF Contains(s, "bad") THEN SubSeq(s, 1, Min(Bads(s)) - 1) ELSE s

\* Mutant: a header is added to, not set.
HeaderEntryAdds ==
    /\ pc = "headers" /\ entry <= Len(resp.headers)
    /\ LET e == resp.headers[entry] IN
       IF e.name = "notString" \/ Contains(e.vals, "bad") THEN Stop(500) /\ UNCHANGED <<hdr, entry>>
       ELSE /\ hdr' = [hdr EXCEPT ![e.name] = @ \o e.vals]
            /\ entry' = entry + 1 /\ UNCHANGED <<pc, err>>
    /\ UNCHANGED <<ending, session, resp, sent>>

HeaderEntry ==
    /\ pc = "headers" /\ entry <= Len(resp.headers)
    /\ LET e == resp.headers[entry] IN
       \/ /\ e.name = "notString"
          /\ Stop(500) /\ UNCHANGED <<hdr, entry>>
       \/ /\ e.name # "notString"
          /\ hdr' = [hdr EXCEPT ![e.name] = Strings(e.vals)]
          /\ IF Contains(e.vals, "bad") THEN Stop(500) /\ UNCHANGED entry
             ELSE entry' = entry + 1 /\ UNCHANGED <<pc, err>>
    /\ UNCHANGED <<ending, session, resp, sent>>

\* http.Header.Get: the first value, an empty one when there is none.
Get(h, n) == IF h[n] = <<>> THEN "blank" ELSE h[n][1]

DefaultType(b) == IF b = "bytes" THEN "octets" ELSE "html"

\* net/http takes every 1xx status but 101 for an interim response.
Interim(s) == s \in 100..199 \ {101}

\* The first Write then makes the response itself a 200.
WireStatus(s) == IF Interim(s) THEN 200 ELSE s

\* The cookies, the content type, the length and WriteHeader.
Commit ==
    /\ pc = "headers" /\ entry > Len(resp.headers)
    /\ LET cookies == hdr["Set-Cookie"] \o [i \in 1..resp.cookies |-> "cookie"]
           type == IF resp.ctype THEN <<"typed">>
                   ELSE IF Get(hdr, "Content-Type") = "blank" THEN <<DefaultType(resp.body)>>
                   ELSE hdr["Content-Type"]
           len == IF Get(hdr, "Content-Length") = "blank" THEN <<"length">>
                  ELSE hdr["Content-Length"]
       IN hdr' = [hdr EXCEPT !["Set-Cookie"] = cookies, !["Content-Type"] = type,
                             !["Content-Length"] = len]
    /\ sent' = WireStatus(resp.status)
    /\ pc' = "write"
    /\ UNCHANGED <<ending, session, resp, entry, err>>

\* net/http refuses a body that the status or the declared length has no room
\* for, and does so after the status line.  (So does a broken connection, which
\* is left out: nobody is there to be answered.)
NoBody == {101, 204, 304}

Write ==
    /\ pc = "write"
    /\ \/ ~(sent \in NoBody /\ ~resp.empty) /\ Stop(0)
       \/ sent \in NoBody /\ ~resp.empty /\ Stop(500)
       \/ hdr["Content-Length"] # <<"length">> /\ ~resp.empty /\ Stop(500)
    /\ UNCHANGED <<ending, session, resp, entry, hdr, sent>>

Next == AfterCall \/ SessionCookie \/ Coerce \/ HeaderEntry \/ Commit \/ Write

Spec == Init /\ [][Next]_vars

-----------------------------------------------------------------------------
(* What must hold.                                                         *)

TypeOK ==
    /\ session \in SessionWrites
    /\ pc \in {"called", "session", "coerce", "headers", "write", "done"}
    /\ resp.ok => resp.body \in Text /\ validStatus(resp.status)
    /\ entry \in 1..Len(resp.headers) + 1
    /\ hdr \in [Names -> Seq({"session", "own", "blank", "cookie", "typed", "html",
                              "octets", "length"})]
    /\ sent \in {0} \cup 100..999
    /\ err \in Int

result == ending.result

\* What the README's table of return values says of a result, read off the
\* result as a whole.
Acceptable ==
    /\ ending.how = "returned"
    /\ session # "fails"
    /\ result.shape # "unsupported" /\ ~result.malformed
    /\ result.body = "none" => result.shape \in {"scalar", "response"}
    /\ result.body # "other"
    /\ result.status \in 100..999
    /\ \A i \in DOMAIN result.headers :
          result.headers[i].name # "notString" /\ ~Contains(result.headers[i].vals, "bad")

\* A status line goes out only for a result that is good to its last header: no
\* check that fails is made after it.  In particular WriteHeader, which panics
\* on a status out of range, never sees one (validStatus).
OnlyAcceptableIsSent == sent # 0 => Acceptable

MeantStatus ==
    IF result.shape = "scalar" /\ result.body = "none" THEN 204 ELSE result.status

Latest(S) == CHOOSE i \in S : \A j \in S : j <= i

\* The last key of that name, canonical names being equal, or else the session.
Own(n) ==
    LET named == {i \in DOMAIN result.headers : result.headers[i].name = n} IN
    IF named # {} THEN result.headers[Latest(named)].vals
    ELSE IF n = "Set-Cookie" /\ session = "changed" THEN <<"session">> ELSE <<>>

Blank(s) == s = <<>> \/ Head(s) = "blank"

MeantHeader(n) ==
    CASE n = "Set-Cookie" -> Own(n) \o [i \in 1..result.cookies |-> "cookie"]
      [] n = "Content-Type" /\ result.ctype -> <<"typed">>
      [] n = "Content-Type" /\ ~result.ctype /\ Blank(Own(n)) ->
            IF result.body = "bytes" THEN <<"octets">> ELSE <<"html">>
      [] n = "Content-Length" /\ Blank(Own(n)) -> <<"length">>
      [] OTHER -> Own(n)

\* Whatever is on the wire is the view's status, under the headers it asked for,
\* each with the value of its last mention, its cookies added to the session's,
\* and the defaults only where it left room for them.  Nothing is said here of the
\* status when the view's is an interim one: StatusAsGiven has a run of its own.
ReplyIsWhatViewMeant ==
    sent # 0 => /\ Interim(MeantStatus) \/ sent = MeantStatus
                /\ \A n \in Names : hdr[n] = MeantHeader(n)

\* response.go:277: "(body, status) -> body + status", for every status that
\* validStatus lets through; handler_test.go:992 has 100 among them.
StatusAsGiven == sent # 0 => sent = MeantStatus

\* ServeHTTP returns an error for a reply already on the wire (Caddy's error page
\* can then no longer be sent) only when the view asked for the impossible: a
\* body under a status that has none, or with a length of its own.  A plain
\* result never does: None is 204 and empty.
LateErrorOnlyByRequest ==
    sent # 0 /\ err # 0 =>
        /\ err = 500
        /\ result.shape # "scalar" /\ ~result.empty
        /\ result.status \in NoBody \/ ~Blank(Own("Content-Length"))

\* response.go:196-197: "rejects values outside [100, 999] before they reach
\* http.ResponseWriter.WriteHeader": also the one Caddy makes its error page
\* with.
ErrorStatusValid == err # 0 => validStatus(err)
=============================================================================
