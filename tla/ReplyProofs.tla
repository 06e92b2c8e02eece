------------------------------ MODULE ReplyProofs ------------------------------
(***************************************************************************)
(* Theorems about Reply, for every result a view can return: any number of *)
(* headers with any number of values, of cookies, any status.  The         *)
(* argument follows the header map: after k keys of the headers dict it    *)
(* holds, under each name, the value of the last of those k keys of that   *)
(* name, or what the session left there.                                   *)
(***************************************************************************)
EXTENDS Reply, SequenceTheorems, WellFoundedInduction, TLAPS

Values == {"session", "own", "blank", "cookie", "typed", "html", "octets", "length"}

\* The headers after the first k - 1 keys.
NamedTo(n, k) == {i \in DOMAIN result.headers : i < k /\ result.headers[i].name = n}

OwnTo(n, k) ==
    IF NamedTo(n, k) # {}
    THEN result.headers[Latest(NamedTo(n, k))].vals
    ELSE IF n = "Set-Cookie" /\ session = "changed" THEN <<"session">> ELSE <<>>

GoodTo(k) == \A i \in DOMAIN result.headers : i < k =>
    result.headers[i].name # "notString" /\ ~Contains(result.headers[i].vals, "bad")

Types ==
    /\ ending \in Endings
    /\ ending.how = "returned" /\ result.shape = "response" => Constructible(result)
    /\ session \in SessionWrites
    /\ pc \in {"called", "session", "coerce", "headers", "write", "done"}
    /\ hdr \in [Names -> Seq(Values)]
    /\ err \in Int

\* Nothing on the wire and no result until Coerce.
Before ==
    pc \in {"called", "session", "coerce"} =>
        /\ resp = Refused /\ entry = 1 /\ sent = 0 /\ err = 0
        /\ pc = "coerce" => \A n \in Names : hdr[n] = OwnTo(n, 1)
        /\ pc # "coerce" => \A n \in Names : hdr[n] = <<>>
        /\ pc # "called" => ending.how = "returned"
        /\ pc = "coerce" => session # "fails"

\* What a Response that is being written is.
Accepted ==
    resp.ok => /\ ending.how = "returned" /\ session # "fails"
               /\ resp = coerceResponse(result)

Filling ==
    pc = "headers" =>
        /\ resp.ok /\ sent = 0 /\ err = 0
        /\ entry \in 1..Len(result.headers) + 1
        /\ GoodTo(entry)
        /\ \A n \in Names : hdr[n] = OwnTo(n, entry)

Out == sent # 0 => /\ pc \in {"write", "done"} /\ resp.ok
                   /\ GoodTo(Len(result.headers) + 1)
                   /\ sent = WireStatus(MeantStatus) /\ ReplyIsWhatViewMeant
                   /\ pc = "write" => err = 0
                   /\ LateErrorOnlyByRequest

Sizes == entry \in 1..Len(resp.headers) + 1
         /\ (~resp.ok => resp = Refused)
         /\ (pc = "write" => sent # 0)

Inv == Types /\ Before /\ Accepted /\ Filling /\ Out /\ Sizes

-----------------------------------------------------------------------------
(* Results.                                                                *)

LEMMA ResultTypes ==
    ASSUME Types
    PROVE  /\ ending.status \in Int /\ IsResult(result)
           /\ ending.how \in {"returned", "abort", "tooBig", "failed"}
           /\ result.headers \in Seq(Entries)
           /\ result.status \in Int /\ result.cookies \in Nat
           /\ DOMAIN result.headers = 1..Len(result.headers)
           /\ Len(result.headers) \in Nat
           /\ \A i \in DOMAIN result.headers :
                 result.headers[i] \in Entries /\ result.headers[i].vals \in Seq({"own", "blank", "bad"})
<1>1. /\ ending.status \in Int /\ IsResult(result)
      /\ ending.how \in {"returned", "abort", "tooBig", "failed"}
  BY ReplyConstantsOK DEF ReplyConstantsOK, Types, result
<1>2. result.headers \in Seq(Entries) /\ result.status \in Int /\ result.cookies \in Nat
  BY <1>1 DEF IsResult
<1>3. \A i \in 1..Len(result.headers) : result.headers[i] \in Entries
  BY <1>2
<1>4. \A e \in Entries : e.vals \in Seq({"own", "blank", "bad"})
  BY DEF Entries
<1>5. DOMAIN result.headers = 1..Len(result.headers) /\ Len(result.headers) \in Nat
  BY <1>2
<1>6. \A i \in DOMAIN result.headers :
         result.headers[i] \in Entries /\ result.headers[i].vals \in Seq({"own", "blank", "bad"})
  BY <1>3, <1>4, <1>5
<1> QED BY <1>1, <1>2, <1>5, <1>6

\* A coerced result is one of the README's table, with its parts and defaults.
LEMMA CoerceIs ==
    ASSUME Types, ending.how = "returned", NEW v, v = coerceResponse(result), v.ok
    PROVE  /\ v.body \in Text /\ validStatus(v.status)
           /\ v.headers = result.headers /\ v.ctype = result.ctype
           /\ v.cookies = result.cookies
           /\ v.status = MeantStatus
           /\ v.empty <=> result.empty \/ result.body = "none"
           /\ v.body = "bytes" <=> result.body = "bytes"
           /\ result.shape # "unsupported" /\ ~result.malformed
           /\ result.body = "none" => result.shape \in {"scalar", "response"}
           /\ result.body # "other"
           /\ result.status \in 100..999
<1>1. /\ IsResult(result)
      /\ result.shape = "response" => Constructible(result)
  BY ResultTypes DEF Types
<1>2. ~Refused.ok
  BY DEF Refused
<1>3. CASE result.shape = "scalar"
  <2>1. v = coerceScalar(result) /\ result.status = 200 /\ ~result.malformed
    BY <1>1, <1>3 DEF coerceResponse, IsResult
  <2>2. CASE result.body \in Text
    <3>1. v = Response(result, 200) /\ result.body # "none"
      BY <2>1, <2>2 DEF coerceScalar, Text
    <3> QED BY <1>1, <1>3, <2>1, <2>2, <3>1 DEF IsResult, Response, Text,
           validStatus, MeantStatus
  <2>3. CASE result.body = "none"
    <3>1. v = Response(result, 204)
      BY <2>1, <2>3 DEF coerceScalar, Text
    <3>2. v = [ok |-> TRUE, status |-> 204, body |-> "str", empty |-> TRUE,
               headers |-> result.headers, ctype |-> result.ctype,
               cookies |-> result.cookies]
      BY <2>3, <3>1 DEF Response
    <3> QED BY <1>3, <2>1, <2>3, <3>2 DEF Text, validStatus, MeantStatus
  <2>4. result.body \in Text \/ result.body = "none"
    BY <1>2, <2>1 DEF coerceScalar
  <2> QED BY <2>2, <2>3, <2>4
<1>4. CASE result.shape \in {"tuple", "dict"}
  BY <1>1, <1>2, <1>4
     DEF coerceResponse, coerceParts, Response, IsResult, Text, validStatus, MeantStatus
<1>5. CASE result.shape = "response"
  BY <1>1, <1>5
     DEF coerceResponse, Constructible, Response, IsResult, Text, validStatus, MeantStatus
<1>6. CASE result.shape = "unsupported"
  BY <1>2, <1>6 DEF coerceResponse
<1> QED BY <1>1, <1>3, <1>4, <1>5, <1>6 DEF IsResult, Shapes

-----------------------------------------------------------------------------
(* Headers.                                                                *)

\* A least element, without which Min means nothing.
LEMMA Least ==
    ASSUME NEW S \in SUBSET Nat, S # {}
    PROVE  \E m \in S : \A k \in S : m <= k
<1> DEFINE R == {q \in Nat \X Nat : q[1] < q[2]}
<1>1. R = OpToRel(<, Nat)
  BY DEF OpToRel
<1>2. IsWellFoundedOn(R, Nat)
  BY <1>1, NatLessThanWellFounded
<1>3. \A a, b \in Nat : a < b => <<a, b>> \in R
  OBVIOUS
<1> HIDE DEF R
<1>4. \E m \in S : \A k \in S : ~ (<<k, m>> \in R)
  BY <1>2, WFMin
<1>5. PICK m \in S : \A k \in S : ~ (<<k, m>> \in R)
  BY <1>4
<1>6. ASSUME NEW k \in S PROVE m <= k
  <2>1. ~ (k < m)
    BY <1>3, <1>5
  <2> QED BY <2>1
<1> QED BY <1>6

\* What is set of a list is the strings before the first that is none.
LEMMA StringsType ==
    ASSUME NEW s \in Seq({"own", "blank", "bad"})
    PROVE  /\ Strings(s) \in Seq(Values)
           /\ ~Contains(s, "bad") => Strings(s) = s
<1>1. Len(s) \in Nat
  BY LenProperties
<1>2. \A i \in 1..Len(s) : s[i] \in {"own", "blank", "bad"}
  BY ElementOfSeq
<1>3. CASE ~Contains(s, "bad")
  <2>1. \A i \in 1..Len(s) : s[i] \in Values
    BY <1>2, <1>3 DEF Contains, Values
  <2>2. SubSeq(s, 1, Len(s)) \in Seq(Values)
    BY <1>1, <2>1, SubSeqProperties
  <2>3. s \in Seq(Values)
    BY <2>2
  <2> QED BY <1>3, <2>3 DEF Strings
<1>4. CASE Contains(s, "bad")
  <2>1. Bads(s) \in SUBSET Nat /\ Bads(s) # {}
    BY <1>1, <1>4 DEF Contains, Bads
  <2>2. \E m \in Bads(s) : \A k \in Bads(s) : m <= k
    BY <2>1, Least
  <2>3. PICK m \in Bads(s) : m = Min(Bads(s)) /\ \A k \in Bads(s) : m <= k
    BY <2>2 DEF Min
  <2>4. m \in 1..Len(s)
    BY <2>3 DEF Bads
  <2>5. ASSUME NEW i \in 1..m - 1
        PROVE  s[i] \in Values
    <3>1. i \in 1..Len(s) /\ i \notin Bads(s)
      BY <1>1, <2>3, <2>4, <2>5
    <3>2. s[i] \in {"own", "blank"}
      BY <1>2, <3>1 DEF Bads
    <3> QED BY <3>2 DEF Values
  <2>6. m - 1 \in Int
    BY <1>1, <2>4
  <2>7. SubSeq(s, 1, m - 1) \in Seq(Values)
    BY <2>5, <2>6, SubSeqProperties
  <2> QED BY <1>4, <2>3, <2>7 DEF Strings
<1> QED BY <1>3, <1>4

\* Each key replaces what was there under its name, and nothing else.
LEMMA OwnStep ==
    ASSUME Types, NEW k \in DOMAIN result.headers, NEW n \in Names
    PROVE  OwnTo(n, k + 1) = IF result.headers[k].name = n THEN result.headers[k].vals
                             ELSE OwnTo(n, k)
<1>1. DOMAIN result.headers \subseteq Nat
  <2>1. DOMAIN result.headers = 1..Len(result.headers) /\ Len(result.headers) \in Nat
    BY ResultTypes
  <2> QED BY <2>1
<1>2. CASE result.headers[k].name = n
  <2>1. k \in NamedTo(n, k + 1) /\ \A j \in NamedTo(n, k + 1) : j <= k /\ j \in Nat
    BY <1>1, <1>2 DEF NamedTo
  <2>2. Latest(NamedTo(n, k + 1)) = k
    BY <1>1, <2>1 DEF Latest
  <2> QED BY <1>2, <2>1, <2>2 DEF OwnTo
<1>3. CASE result.headers[k].name # n
  <2>1. NamedTo(n, k + 1) = NamedTo(n, k)
    BY <1>1, <1>3 DEF NamedTo
  <2> QED BY <1>3, <2>1 DEF OwnTo
<1> QED BY <1>2, <1>3

LEMMA OwnEnds ==
    ASSUME Types, NEW n \in Names
    PROVE  /\ OwnTo(n, Len(result.headers) + 1) = Own(n)
           /\ OwnTo(n, 1) = IF n = "Set-Cookie" /\ session = "changed" THEN <<"session">>
                            ELSE <<>>
<1>1. DOMAIN result.headers = 1..Len(result.headers) /\ Len(result.headers) \in Nat
  BY ResultTypes
<1>2. NamedTo(n, 1) = {}
  BY <1>1 DEF NamedTo
<1>3. NamedTo(n, Len(result.headers) + 1)
         = {i \in DOMAIN result.headers : result.headers[i].name = n}
  BY <1>1 DEF NamedTo
<1> QED BY <1>2, <1>3 DEF OwnTo, Own

\* What the view and its session ended with is settled.
LEMMA Settled ==
    ASSUME UNCHANGED <<ending, session>>
    PROVE  /\ \A n, k : OwnTo(n, k)' = OwnTo(n, k)
           /\ \A n : Own(n)' = Own(n) /\ MeantHeader(n)' = MeantHeader(n)
           /\ \A k : GoodTo(k)' = GoodTo(k)
           /\ result' = result /\ MeantStatus' = MeantStatus
BY DEF OwnTo, NamedTo, Own, MeantHeader, GoodTo, result, MeantStatus

-----------------------------------------------------------------------------
(* One step of each kind.                                                  *)

LEMMA InvInit == Init => Inv
<1> SUFFICES ASSUME Init PROVE Inv
  OBVIOUS
<1>1. Types
  BY DEF Init, Types, result
<1>2. Before /\ Accepted /\ Filling /\ Out /\ Sizes
  BY DEF Init, Before, Accepted, Filling, Out, Sizes, Refused
<1> QED BY <1>1, <1>2 DEF Inv

LEMMA AfterCallKeeps == ASSUME Inv, AfterCall PROVE Inv'
<1>0. Types /\ ending.status \in Int /\ err \in Int
  BY ResultTypes DEF Inv, Types
<1>1. /\ UNCHANGED <<ending, session, resp, entry, hdr, sent>>
      /\ pc = "called" /\ pc' \in {"session", "done"} /\ err' \in Int
      /\ pc' = "session" => ending.how = "returned" /\ err' = err
  BY <1>0 DEF AfterCall, Stop
<1>2. /\ resp = Refused /\ entry = 1 /\ sent = 0 /\ err = 0 /\ ~resp.ok
      /\ \A n \in Names : hdr[n] = <<>>
  BY <1>1 DEF Inv, Before, Refused
<1> QED BY <1>1, <1>2, Settled
        DEF Inv, Types, Before, Accepted, Filling, Out, Sizes

LEMMA SessionCookieKeeps == ASSUME Inv, SessionCookie PROVE Inv'
<1>1. /\ pc = "session" /\ resp = Refused /\ entry = 1 /\ sent = 0 /\ err = 0 /\ ~resp.ok
      /\ \A n \in Names : hdr[n] = <<>>
      /\ ending.how = "returned" /\ Types
      /\ UNCHANGED <<ending, session, resp, entry, sent>>
  BY DEF Inv, Before, Refused, SessionCookie
<1>2. CASE session \in {"notOpened", "unchanged"} /\ pc' = "coerce" /\ UNCHANGED <<hdr, err>>
  <2>1. \A n \in Names : hdr'[n] = OwnTo(n, 1)'
    BY <1>1, <1>2, OwnEnds, Settled
  <2> QED BY <1>1, <1>2, <2>1, Settled
          DEF Inv, Types, Before, Accepted, Filling, Out, Sizes
<1>3. CASE /\ session = "changed" /\ pc' = "coerce" /\ UNCHANGED err
           /\ hdr' = [hdr EXCEPT !["Set-Cookie"] = Append(@, "session")]
  <2>1. hdr \in [Names -> Seq(Values)] /\ "Set-Cookie" \in Names
    BY <1>1 DEF Types, Names
  <2>2. hdr' = [hdr EXCEPT !["Set-Cookie"] = <<"session">>]
    <3>1. Append(<<>>, "session") = <<"session">>
      OBVIOUS
    <3> QED BY <1>1, <1>3, <2>1, <3>1
  <2>3. <<"session">> \in Seq(Values)
    BY DEF Values
  <2>4. hdr' \in [Names -> Seq(Values)]
    BY <2>1, <2>2, <2>3
  <2>5. \A n \in Names : hdr'[n] = OwnTo(n, 1)'
    BY <1>1, <1>3, <2>1, <2>2, OwnEnds, Settled
  <2> QED BY <1>1, <1>3, <2>4, <2>5, Settled
          DEF Inv, Types, Before, Accepted, Filling, Out, Sizes
<1>4. CASE session = "fails" /\ Stop(500) /\ UNCHANGED hdr
  BY <1>1, <1>4, Settled DEF Stop, Inv, Types, Before, Accepted, Filling, Out, Sizes
<1> QED BY <1>2, <1>3, <1>4 DEF SessionCookie

LEMMA CoerceKeeps == ASSUME Inv, Coerce PROVE Inv'
<1>1. /\ pc = "coerce" /\ entry = 1 /\ sent = 0 /\ err = 0 /\ Types
      /\ \A n \in Names : hdr[n] = OwnTo(n, 1)
      /\ ending.how = "returned" /\ session # "fails"
      /\ UNCHANGED <<ending, session, entry, hdr, sent>>
      /\ resp' = coerceResponse(result)
      /\ \/ resp'.ok /\ pc' = "headers" /\ UNCHANGED err
         \/ ~resp'.ok /\ Stop(500)
  BY DEF Inv, Before, Coerce, result
<1>2. resp'.ok => resp'.headers = result.headers
  BY <1>1, CoerceIs
<1>3. ~resp'.ok => resp' = Refused
  BY <1>1 DEF coerceResponse, coerceScalar, coerceParts, Response
<1>4. Sizes'
  <2>1. Len(result.headers) \in Nat
    BY <1>1, ResultTypes
  <2> QED BY <1>1, <1>2, <1>3, <2>1 DEF Sizes, Stop, Refused
<1>5. Filling'
  <2>1. Len(result.headers) \in Nat /\ DOMAIN result.headers = 1..Len(result.headers)
    BY <1>1, ResultTypes
  <2>2. GoodTo(1)
    BY <2>1 DEF GoodTo
  <2> QED BY <1>1, <2>1, <2>2, Settled DEF Filling, Stop
<1> QED BY <1>1, <1>4, <1>5, Settled DEF Inv, Types, Before, Accepted, Out, Stop, coerceResponse

LEMMA HeaderEntryKeeps == ASSUME Inv, HeaderEntry PROVE Inv'
<1>1. /\ pc = "headers" /\ resp.ok /\ sent = 0 /\ err = 0 /\ Types
      /\ UNCHANGED <<ending, session, resp, sent>>
      /\ entry \in 1..Len(result.headers) + 1 /\ GoodTo(entry)
      /\ \A n \in Names : hdr[n] = OwnTo(n, entry)
      /\ ending.how = "returned" /\ session # "fails" /\ resp = coerceResponse(result)
  BY DEF Inv, Filling, Accepted, HeaderEntry
<1>2. resp.headers = result.headers
  BY <1>1, CoerceIs
<1>3. /\ entry \in DOMAIN result.headers /\ entry \in Nat /\ Len(result.headers) \in Nat
      /\ DOMAIN result.headers = 1..Len(result.headers)
  <2>1. DOMAIN result.headers = 1..Len(result.headers) /\ Len(result.headers) \in Nat
    BY <1>1, ResultTypes
  <2> QED BY <1>1, <1>2, <2>1 DEF HeaderEntry
<1> DEFINE e == result.headers[entry]
<1>4. e \in Entries /\ e.vals \in Seq({"own", "blank", "bad"})
  BY <1>1, <1>3, ResultTypes
<1>5. Strings(e.vals) \in Seq(Values) /\ (~Contains(e.vals, "bad") => Strings(e.vals) = e.vals)
  BY <1>4, StringsType
<1>6. CASE e.name = "notString" /\ Stop(500) /\ UNCHANGED <<hdr, entry>>
  BY <1>1, <1>6, Settled DEF Stop, Inv, Types, Before, Accepted, Filling, Out, Sizes
<1>7. CASE /\ e.name # "notString"
           /\ hdr' = [hdr EXCEPT ![e.name] = Strings(e.vals)]
           /\ IF Contains(e.vals, "bad") THEN Stop(500) /\ UNCHANGED entry
              ELSE entry' = entry + 1 /\ UNCHANGED <<pc, err>>
  <2>1. e.name \in Names /\ hdr \in [Names -> Seq(Values)]
    BY <1>1, <1>4, <1>7 DEF Entries, Types
  <2>2. hdr' \in [Names -> Seq(Values)]
    BY <1>5, <1>7, <2>1
  <2>3. CASE Contains(e.vals, "bad")
    BY <1>1, <1>7, <2>2, <2>3, Settled
       DEF Stop, Inv, Types, Before, Accepted, Filling, Out, Sizes
  <2>4. CASE ~Contains(e.vals, "bad")
    <3>1. entry' = entry + 1 /\ UNCHANGED <<pc, err>>
      BY <1>7, <2>4
    <3>2. GoodTo(entry + 1)
      BY <1>1, <1>3, <1>7, <2>4 DEF GoodTo
    <3>3. ASSUME NEW n \in Names
          PROVE  hdr'[n] = OwnTo(n, entry + 1)
      <4>1. OwnTo(n, entry + 1) = IF e.name = n THEN e.vals ELSE OwnTo(n, entry)
        BY <1>1, <1>3, OwnStep
      <4> QED BY <1>1, <1>5, <1>7, <2>1, <2>4, <4>1
    <3>4. Filling'
      <4>1. \A n \in Names : OwnTo(n, entry)' = OwnTo(n, entry')
        BY <1>1 DEF OwnTo, NamedTo, result
      <4>2. GoodTo(entry)' = GoodTo(entry')
        BY <1>1 DEF GoodTo, result
      <4> QED BY <1>1, <1>3, <3>1, <3>2, <3>3, <4>1, <4>2, Settled DEF Filling
    <3> QED BY <1>1, <1>2, <1>3, <2>2, <3>1, <3>4, Settled
            DEF Inv, Types, Before, Accepted, Out, Sizes
  <2> QED BY <2>3, <2>4
<1>8. resp.headers[entry] = e
  BY <1>2
<1> HIDE DEF e
<1> QED BY <1>6, <1>7, <1>8 DEF HeaderEntry

\* The length of a reply that has it from the view.
LEMMA LengthIs ==
    ASSUME Types
    PROVE  MeantHeader("Content-Length") # <<"length">> => ~Blank(Own("Content-Length"))
BY DEF MeantHeader

LEMMA CommitKeeps == ASSUME Inv, Commit PROVE Inv'
<1>1. /\ pc = "headers" /\ resp.ok /\ err = 0 /\ Types /\ err' = 0 /\ pc' = "write"
      /\ UNCHANGED <<ending, session, resp, entry, err>>
      /\ entry \in 1..Len(result.headers) + 1 /\ GoodTo(entry)
      /\ \A n \in Names : hdr[n] = OwnTo(n, entry)
      /\ ending.how = "returned" /\ session # "fails" /\ resp = coerceResponse(result)
      /\ entry > Len(resp.headers) /\ sent' = WireStatus(resp.status)
  BY DEF Inv, Filling, Accepted, Commit
<1>2. /\ resp.headers = result.headers /\ resp.ctype = result.ctype
      /\ resp.cookies = result.cookies /\ resp.status = MeantStatus
      /\ validStatus(resp.status) /\ (resp.body = "bytes" <=> result.body = "bytes")
  BY <1>1, CoerceIs
<1>3. entry = Len(result.headers) + 1 /\ Len(result.headers) \in Nat
      /\ result.cookies \in Nat
  BY <1>1, <1>2, ResultTypes
<1>4. \A n \in Names : hdr[n] = Own(n)
  BY <1>1, <1>3, OwnEnds
<1>5. \A n \in Names : hdr'[n] = MeantHeader(n)
  <2>1. hdr' = [hdr EXCEPT
          !["Set-Cookie"] = hdr["Set-Cookie"] \o [i \in 1..resp.cookies |-> "cookie"],
          !["Content-Type"] = IF resp.ctype THEN <<"typed">>
                              ELSE IF Get(hdr, "Content-Type") = "blank"
                              THEN <<DefaultType(resp.body)>> ELSE hdr["Content-Type"],
          !["Content-Length"] = IF Get(hdr, "Content-Length") = "blank"
                                THEN <<"length">> ELSE hdr["Content-Length"]]
    BY DEF Commit
  <2>2. hdr \in [Names -> Seq(Values)]
    BY <1>1 DEF Types
  <2>3. \A n \in Names : Get(hdr, n) = "blank" <=> Blank(Own(n))
    BY <1>4, <2>2 DEF Get, Blank
  <2>4. hdr'["Set-Cookie"] = MeantHeader("Set-Cookie")
    BY <1>2, <1>4, <2>1, <2>2 DEF MeantHeader, Names
  <2>5. hdr'["Content-Type"] = MeantHeader("Content-Type")
    BY <1>2, <1>4, <2>1, <2>2, <2>3 DEF MeantHeader, Names, DefaultType
  <2>6. hdr'["Content-Length"] = MeantHeader("Content-Length")
    BY <1>2, <1>4, <2>1, <2>2, <2>3 DEF MeantHeader, Names
  <2>7. hdr'["X"] = MeantHeader("X")
    BY <1>4, <2>1, <2>2 DEF MeantHeader, Names
  <2> QED BY <2>4, <2>5, <2>6, <2>7 DEF Names
<1>6. hdr' \in [Names -> Seq(Values)]
  <2>1. hdr \in [Names -> Seq(Values)]
    BY <1>1 DEF Types
  <2>2. [i \in 1..resp.cookies |-> "cookie"] \in Seq(Values)
    BY <1>2, <1>3 DEF Values
  <2>3. hdr["Set-Cookie"] \o [i \in 1..resp.cookies |-> "cookie"] \in Seq(Values)
    BY <2>1, <2>2, ConcatProperties DEF Names
  <2>4. \A v \in {"typed", "octets", "html", "length"} : <<v>> \in Seq(Values)
    BY DEF Values
  <2>5. DefaultType(resp.body) \in {"octets", "html"}
    BY DEF DefaultType
  <2> QED BY <2>1, <2>3, <2>4, <2>5 DEF Commit, Names
<1>7. sent' \in 100..999
  BY <1>1, <1>2 DEF WireStatus, Interim, validStatus
<1>8. ReplyIsWhatViewMeant'
  <2>1. Interim(MeantStatus) \/ sent' = MeantStatus
    BY <1>1, <1>2 DEF WireStatus
  <2> QED BY <1>1, <1>2, <1>5, <2>1, Settled DEF ReplyIsWhatViewMeant, Interim
<1>9. Out'
  BY <1>1, <1>2, <1>3, <1>8, Settled DEF Out, LateErrorOnlyByRequest, WireStatus, Interim
<1>10. Sizes'
  <2>1. sent' # 0
    BY <1>7
  <2>2. Sizes
    BY DEF Inv
  <2> QED BY <1>1, <2>1, <2>2 DEF Sizes
<1>11. Types' /\ Before' /\ Accepted' /\ Filling'
  BY <1>1, <1>6, Settled DEF Inv, Types, Before, Accepted, Filling
<1> QED BY <1>9, <1>10, <1>11 DEF Inv

LEMMA WriteKeeps == ASSUME Inv, Write PROVE Inv'
<1>1. /\ pc = "write" /\ pc' = "done" /\ sent # 0 /\ resp.ok /\ Types
      /\ UNCHANGED <<ending, session, resp, entry, hdr, sent>>
      /\ sent = WireStatus(MeantStatus)
      /\ ReplyIsWhatViewMeant /\ ending.how = "returned" /\ resp = coerceResponse(result)
      /\ err' \in {0, 500}
      /\ err' = 500 => /\ ~resp.empty
                       /\ sent \in NoBody \/ hdr["Content-Length"] # <<"length">>
  BY DEF Write, Stop, Inv, Out, Accepted, Sizes
<1>2. /\ resp.status = MeantStatus
      /\ (resp.empty <=> result.empty \/ result.body = "none")
      /\ IsResult(result)
  BY <1>1, CoerceIs, ResultTypes
<1>3. LateErrorOnlyByRequest'
  <2> SUFFICES ASSUME err' = 500
               PROVE  /\ result.shape # "scalar" /\ ~result.empty
                      /\ result.status \in NoBody \/ ~Blank(Own("Content-Length"))
    BY <1>1, Settled DEF LateErrorOnlyByRequest
  <2>1. ~result.empty /\ result.body # "none"
    BY <1>1, <1>2
  <2>2. sent = WireStatus(result.status) /\ MeantStatus = result.status
    BY <1>1, <2>1 DEF MeantStatus
  <2>3. sent \in NoBody => result.status \in NoBody
    BY <2>2 DEF WireStatus, Interim, NoBody
  <2>4. CASE hdr["Content-Length"] # <<"length">>
    <3>1. ~Blank(Own("Content-Length"))
      BY <1>1, <2>4, LengthIs DEF ReplyIsWhatViewMeant, Names
    <3>2. result.shape # "scalar"
      <4>1. SUFFICES ASSUME result.shape = "scalar" PROVE Own("Content-Length") = <<>>
        BY <3>1 DEF Blank
      <4>2. result.headers = <<>>
        BY <1>2, <4>1 DEF IsResult
      <4> QED BY <4>2 DEF Own
    <3> QED BY <2>1, <3>1, <3>2
  <2>5. CASE sent \in NoBody
    <3>1. result.shape = "scalar" => result.status = 200
      BY <1>2 DEF IsResult
    <3>2. result.status # 200
      BY <2>3, <2>5 DEF NoBody
    <3> QED BY <2>1, <2>3, <2>5, <3>1, <3>2
  <2> QED BY <1>1, <2>4, <2>5
<1>4. ReplyIsWhatViewMeant'
  BY <1>1, Settled DEF ReplyIsWhatViewMeant, Interim
<1>5. Out'
  BY <1>1, <1>3, <1>4, Settled DEF Inv, Out, WireStatus, Interim
<1>6. Types' /\ Before' /\ Accepted' /\ Filling' /\ Sizes'
  BY <1>1, Settled DEF Inv, Types, Before, Accepted, Filling, Sizes
<1> QED BY <1>5, <1>6 DEF Inv

LEMMA InvNext == Inv /\ [Next]_vars => Inv'
<1> SUFFICES ASSUME Inv, [Next]_vars PROVE Inv'
  OBVIOUS
<1>1. CASE UNCHANGED vars
  <2>1. UNCHANGED <<ending, session, pc, resp, entry, hdr, sent, err>>
    BY <1>1 DEF vars
  <2>2. ReplyIsWhatViewMeant' = ReplyIsWhatViewMeant
    BY <2>1, Settled DEF ReplyIsWhatViewMeant, Interim
  <2>3. LateErrorOnlyByRequest' = LateErrorOnlyByRequest
    BY <2>1, Settled DEF LateErrorOnlyByRequest
  <2>4. Out'
    BY <2>1, <2>2, <2>3, Settled DEF Inv, Out, WireStatus, Interim
  <2>5. Types' /\ Before' /\ Accepted' /\ Filling' /\ Sizes'
    BY <2>1, Settled DEF Inv, Types, Before, Accepted, Filling, Sizes
  <2> QED BY <2>4, <2>5 DEF Inv
<1>2. CASE Next
  BY <1>2, AfterCallKeeps, SessionCookieKeeps, CoerceKeeps, HeaderEntryKeeps, CommitKeeps,
     WriteKeeps DEF Next
<1> QED BY <1>1, <1>2

-----------------------------------------------------------------------------
(* The theorems.                                                           *)

LEMMA InvTypeOK == Inv => TypeOK
<1> SUFFICES ASSUME Inv PROVE TypeOK
  OBVIOUS
<1>1. resp.ok => resp.body \in Text /\ validStatus(resp.status)
  BY CoerceIs DEF Inv, Accepted
<1>2. sent \in {0} \cup 100..999
  <2>1. sent # 0 => sent = WireStatus(MeantStatus) /\ resp.ok
    BY DEF Inv, Out
  <2>2. resp.ok => resp.status = MeantStatus
    BY CoerceIs DEF Inv, Accepted
  <2> QED BY <1>1, <2>1, <2>2 DEF WireStatus, Interim, validStatus
<1> QED BY <1>1, <1>2 DEF Inv, Types, Sizes, TypeOK, Values

LEMMA InvAcceptable == Inv => OnlyAcceptableIsSent
<1> SUFFICES ASSUME Inv, sent # 0 PROVE Acceptable
  BY DEF OnlyAcceptableIsSent
<1>1. /\ Types /\ resp.ok /\ ending.how = "returned" /\ session # "fails"
      /\ resp = coerceResponse(result) /\ GoodTo(Len(result.headers) + 1)
  BY DEF Inv, Out, Accepted
<1>2. \A i \in DOMAIN result.headers :
         result.headers[i].name # "notString" /\ ~Contains(result.headers[i].vals, "bad")
  <2>1. DOMAIN result.headers = 1..Len(result.headers) /\ Len(result.headers) \in Nat
    BY <1>1, ResultTypes
  <2> QED BY <1>1, <2>1 DEF GoodTo
<1> QED BY <1>1, <1>2, CoerceIs DEF Acceptable

\* Every variable keeps its type; a Response has a text for a body and a status that
\* WriteHeader does not panic on.
THEOREM TypeCorrect == Spec => []TypeOK
BY InvInit, InvNext, InvTypeOK, PTL DEF Spec

\* A status line is the last thing decided: a result refused anywhere, down to the
\* last value of its last header, leaves nothing on the wire (coerceResponse,
\* writeResponse).
THEOREM OnlyAcceptableIsSentCorrect == Spec => []OnlyAcceptableIsSent
BY InvInit, InvNext, InvAcceptable, PTL DEF Spec

\* What is on the wire is the view's status, unless that is an interim one, under
\* the view's headers, whatever the order and number of its keys, values and cookies
\* (writeResponse).
THEOREM ReplyIsWhatViewMeantCorrect == Spec => []ReplyIsWhatViewMeant
<1>1. Inv => ReplyIsWhatViewMeant
  BY DEF Inv, Out, ReplyIsWhatViewMeant
<1> QED BY InvInit, InvNext, <1>1, PTL DEF Spec

\* ServeHTTP fails after the status line only if the view asked for the impossible.
THEOREM LateErrorOnlyByRequestCorrect == Spec => []LateErrorOnlyByRequest
<1>1. Inv => LateErrorOnlyByRequest
  BY DEF Inv, Out, LateErrorOnlyByRequest
<1> QED BY InvInit, InvNext, <1>1, PTL DEF Spec
=============================================================================
