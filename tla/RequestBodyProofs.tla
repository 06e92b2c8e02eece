--------------------------- MODULE RequestBodyProofs ---------------------------
(***************************************************************************)
(* Theorems about RequestBody, for bodies of any length, any limit and any *)
(* memory cap.  The argument: the three caches (body, form, parts) are     *)
(* each filled once, what fills them follows from what the client sent and *)
(* from the order of the view's questions, and every answer of the past is *)
(* the one the caches would give now.                                      *)
(***************************************************************************)
EXTENDS RequestBody, FiniteSetTheorems, TLAPS

\* What attribute a answers once its cache is filled.
PartsAnswer(v) == IF parts.ok THEN Value(v) ELSE Failure(parts.err)

Held(a) ==
    CASE a = "data" -> Result(body)
      [] a = "json" -> IF body.ok /\ ~IsJSON(body.val) THEN Failure("json") ELSE Result(body)
      [] a \in {"form", "values"} ->
            IF ctype = "multipart" THEN PartsAnswer(parts.fields) ELSE form
      [] a = "files" -> PartsAnswer(parts.files)

\* Is the cache filled that attribute a answers from?
Filled(a) ==
    CASE a \in {"data", "json"} -> body # Undone
      [] a \in {"form", "values"} ->
            IF ctype = "multipart" THEN parts # Parsed("undone") ELSE form # Undone
      [] a = "files" -> parts # Parsed("undone")

\* The answers of the past are the answers of the caches.
Remembered == \A a \in Attrs : answers[a] \subseteq {x \in {Held(a)} : Filled(a)}

\* What is in the caches.
Moved == /\ ctype = "multipart"
         /\ parts.err \in {"none", "refused", "query", "tooBig", "broken"}

BodyCache ==
    /\ closed <=> body # Undone
    /\ body = Undone /\ ~Moved => pos = 0
    /\ body # Undone =>
          /\ body.ok = (ReadError = "none")
          /\ body.err = ReadError
          /\ Moved \/ body.val = 1..Allowed

FormCache ==
    form # Undone =>
        /\ body # Undone /\ ctype # "multipart"
        /\ form = Value(IF ctype = "urlencoded" THEN ParseQuery(body.val) ELSE {})

PartsCache ==
    /\ parts.err = "undone" <=> parts = Parsed("undone")
    /\ parts.ok <=> parts.err = "none"
    /\ parts.err = "none" =>
          IF ctype = "multipart"
          THEN ~Over /\ parts.fields = Of("field", All) /\ parts.files = Of("file", All)
          ELSE parts.fields = {} /\ parts.files = {}
    /\ parts.err \notin {"none", "undone"} => ctype = "multipart"
    /\ parts.err \in ReadErrors => ReadError = parts.err
    /\ parts.err = "refused" => Stops # {}
    /\ parts.err = "query" => "query" \in faults /\ ~Over
    /\ parts.err = "boundary" => "boundary" \in faults

\* A multipart body is read whole only for data and json().
WhoRead == closed /\ ctype = "multipart" => answers["data"] \cup answers["json"] # {}
WhoClosed == parts.err = "closed" => closed /\ ~Over

Ended == /\ status = "none" => failed = "none" /\ ~left
         /\ BlameTheBody

Inv == TypeOK /\ Remembered /\ BodyCache /\ FormCache /\ PartsCache /\ WhoRead
       /\ WhoClosed /\ Ended /\ TempFilesRemoved

-----------------------------------------------------------------------------
(* Data.                                                                   *)

LEMMA GivenTypes ==
    ASSUME TypeOK
    PROVE  /\ sent \in Seq(Units) /\ Len(sent) \in Nat /\ All = 1..Len(sent)
           /\ limit \in Int /\ MemoryCap \in Nat \ {0}
           /\ arrives \in 0..Len(sent)
           /\ Allowed \in 0..Len(sent) /\ 1..Allowed \subseteq All
           /\ ReadError \in ReadErrors \cup {"none"}
           /\ ReadError = "none" => ~Over /\ Allowed = Len(sent)
           /\ Over => Allowed = limit /\ ReadError = "tooBig"
BY BodyConstantsOK
   DEF BodyConstantsOK, TypeOK, Allowed, Over, Capped, All, ReadError, ReadErrors

\* The file parts of a body are no more than its parts, so that the share of them
\* that goes to disk is bounded, and empty while memory has room for the body.
LEMMA FileCount ==
    ASSUME TypeOK, NEW n, n = Cardinality(Of("file", All))
    PROVE  n \in 0..Len(sent)
<1>1. IsFiniteSet(1..Len(sent)) /\ Cardinality(1..Len(sent)) = Len(sent)
  <2>1. Len(sent) \in Nat
    BY GivenTypes
  <2>2. \A a, b \in Int : /\ IsFiniteSet(a..b)
                         /\ Cardinality(a..b) = IF a > b THEN 0 ELSE b - a + 1
    BY FS_Interval
  <2>3. /\ IsFiniteSet(1..Len(sent))
        /\ Cardinality(1..Len(sent)) = IF 1 > Len(sent) THEN 0 ELSE Len(sent) - 1 + 1
    BY <2>1, <2>2
  <2> QED BY <2>1, <2>3
<1>2. Of("file", All) \subseteq 1..Len(sent)
  BY GivenTypes DEF Of
<1>3. IsFiniteSet(Of("file", All)) /\ Cardinality(Of("file", All)) <= Len(sent)
  BY <1>1, <1>2, FS_Subset
<1> QED BY <1>3, FS_CardinalityType, GivenTypes

LEMMA ResultTypes ==
    /\ Undone = [ok |-> FALSE, val |-> {}, err |-> "undone"]
    /\ \A v \in SUBSET All : Value(v) \in Results
    /\ \A e \in PartsErrors \cup {"none", "undone", "json"} : Failure(e) \in Results
    /\ \A read \in Results : Result(read) \in Results
    /\ \A k, ps : Of(k, ps) \subseteq ps /\ ParseQuery(ps) \subseteq ps
BY DEF Undone, Value, Failure, Results, Result, Of, ParseQuery, PartsErrors

\* A parse that fails leaves nothing behind but its error.
LEMMA RefusalTypes ==
    \A e \in PartsErrors : Parsed(e) \in PartsResults /\ Parsed(e) # Parsed("undone")
BY DEF Parsed, PartsResults, PartsErrors, ReadErrors

LEMMA HeldTypes ==
    ASSUME TypeOK, NEW a \in Attrs
    PROVE  Held(a) \in Results
BY ResultTypes DEF TypeOK, Attrs, Held, PartsAnswer, PartsResults

LEMMA InvInit == Init => Inv
<1> SUFFICES ASSUME Init PROVE Inv
  OBVIOUS
<1>1. TypeOK
  <2>1. /\ sent \in Bodies /\ sent \in Seq(Units) /\ limit \in Limits /\ limit \in Int
        /\ faults \in Faults /\ arrives \in 0..Len(sent)
        /\ "connection" \notin faults => arrives = Len(sent)
    BY BodyConstantsOK DEF BodyConstantsOK, Init
  <2>2. Allowed \in 0..Len(sent)
    BY <2>1 DEF Allowed, Over, Capped
  <2>3. Undone \in Results
    BY ResultTypes DEF Undone
  <2>4. pos \in 0..Allowed /\ temp \in 0..Len(sent)
    BY <2>1, <2>2 DEF Init
  <2>5. parts \in PartsResults
    BY DEF Init, PartsResults
  <2>6. answers \in [Attrs -> SUBSET Results]
    BY DEF Init
  <2> QED BY <2>1, <2>3, <2>4, <2>5, <2>6 DEF Init, TypeOK
<1>2. Remembered /\ WhoRead /\ WhoClosed
  BY DEF Init, Remembered, WhoRead, WhoClosed, Attrs
<1>3. BodyCache /\ FormCache /\ PartsCache
  <2>1. BodyCache /\ FormCache
    BY DEF Init, BodyCache, FormCache
  <2>2. parts = Parsed("undone") /\ parts.err = "undone" /\ ~parts.ok
    BY DEF Init, Parsed
  <2> QED BY <2>1, <2>2 DEF PartsCache, ReadErrors
<1>4. Ended /\ TempFilesRemoved
  BY DEF Init, Ended, BlameTheBody, TempFilesRemoved
<1> QED BY <1>1, <1>2, <1>3, <1>4 DEF Inv

-----------------------------------------------------------------------------
(* Filling a cache.                                                        *)

CacheVars == /\ pos \in 0..Allowed /\ closed \in BOOLEAN
             /\ body \in Results /\ form \in Results
             /\ parts \in PartsResults
             /\ temp \in 0..Len(sent)

Caches == CacheVars /\ BodyCache /\ FormCache /\ PartsCache /\ WhoClosed
          /\ (Capped /\ limit <= MemoryCap => temp = 0)

\* What a cache step must show: the caches are as they should be, and those that
\* were filled stay as they are.
Step == /\ Caches'
        /\ \A a \in Attrs : Filled(a) => Filled(a)' /\ Held(a)' = Held(a)

LEMMA GivenSame ==
    ASSUME UNCHANGED given
    PROVE  /\ All' = All /\ Over' = Over /\ Allowed' = Allowed /\ Results' = Results
           /\ Capped' = Capped /\ PartsResults' = PartsResults
           /\ ReadError' = ReadError /\ Stops' = Stops
           /\ \A k, ps : Of(k, ps)' = Of(k, ps)
           /\ \A ps : Bad(ps)' = Bad(ps) /\ ParseQuery(ps)' = ParseQuery(ps)
           /\ \A ps : IsJSON(ps)' = IsJSON(ps)
<1> USE DEF given
<1>1. /\ All' = All /\ Over' = Over /\ Allowed' = Allowed /\ Capped' = Capped
      /\ ReadError' = ReadError /\ MaxMemory' = MaxMemory
  BY DEF All, Over, Allowed, Capped, ReadError, MaxMemory
<1>2. /\ \A k, ps : Of(k, ps)' = Of(k, ps)
      /\ \A ps : Bad(ps)' = Bad(ps) /\ ParseQuery(ps)' = ParseQuery(ps)
      /\ \A ps : IsJSON(ps)' = IsJSON(ps)
  BY DEF Of, Bad, ParseQuery, IsJSON
<1>3. Results' = Results /\ PartsResults' = PartsResults
  BY <1>1 DEF Results, PartsResults
<1>4. \A ps : InMemory(ps)' = InMemory(ps)
  BY <1>1, <1>2 DEF InMemory
<1>5. Stops' = Stops
  BY <1>1, <1>2, <1>4 DEF Stops
<1> QED BY <1>1, <1>2, <1>3, <1>5

\* readBody: the whole of what the cap allows, unless the parts came first.
LEMMA ReadBodyFills ==
    ASSUME Inv, ReadBody, UNCHANGED <<given, parts>>
    PROVE  /\ body' \in Results /\ body' # Undone /\ closed' /\ pos' \in 0..Allowed
           /\ body # Undone => body' = body
           /\ BodyCache'
<1>1. /\ UNCHANGED given /\ body \in Results /\ pos \in 0..Allowed /\ closed \in BOOLEAN
      /\ Allowed \in 0..Len(sent) /\ All = 1..Len(sent) /\ Len(sent) \in Nat
      /\ BodyCache
  BY GivenTypes DEF Inv, TypeOK, given
<1>2. CASE body # Undone
  <2>1. UNCHANGED <<body, pos, closed, ctype, parts>>
    BY <1>1, <1>2 DEF ReadBody, given
  <2> QED BY <1>1, <1>2, <2>1, GivenSame DEF BodyCache, Moved
<1>3. CASE body = Undone
  <2>1. body' = ReadAll /\ pos' = Allowed /\ closed' = TRUE /\ UNCHANGED <<ctype, parts>>
    BY <1>1, <1>3 DEF ReadBody, given
  <2>2. /\ body'.ok = (ReadError = "none") /\ body'.val = pos + 1..Allowed
        /\ body'.err = ReadError
    BY <2>1 DEF ReadAll
  <2>3. body' \in Results
    <3>1. pos + 1..Allowed \subseteq All
      BY <1>1
    <3>2. ReadError \in PartsErrors \cup {"none"}
      BY GivenTypes DEF Inv, PartsErrors
    <3> QED BY <2>1, <3>1, <3>2 DEF ReadAll, Results
  <2>4. body' # Undone
    BY <2>2, ResultTypes, GivenTypes DEF Inv, ReadErrors
  <2>5. Moved \/ body'.val = 1..Allowed
    BY <1>1, <1>3, <2>2 DEF BodyCache
  <2>6. BodyCache'
    BY <1>1, <2>1, <2>2, <2>4, <2>5, GivenSame DEF BodyCache, Moved, given
  <2> QED BY <1>1, <1>3, <2>1, <2>3, <2>4, <2>6
<1> QED BY <1>2, <1>3

LEMMA InvCaches ==
    ASSUME Inv
    PROVE  Caches
BY DEF Inv, Caches, TypeOK, CacheVars, TempFilesRemoved

LEMMA ReadBodyStep ==
    ASSUME Inv, ReadBody, UNCHANGED <<given, form, parts, temp>>
    PROVE  Step /\ body' # Undone
<1>1. UNCHANGED given
  BY DEF given
<1>2. /\ body' \in Results /\ body' # Undone /\ closed' /\ pos' \in 0..Allowed
      /\ body # Undone => body' = body
      /\ BodyCache'
  BY ReadBodyFills
<1>3. Caches /\ UNCHANGED <<sent, ctype, limit, faults, arrives, form, parts, temp>>
  BY InvCaches DEF given
<1>4. CacheVars'
  BY <1>1, <1>2, <1>3, GivenSame DEF Caches, CacheVars
<1>5. FormCache'
  BY <1>1, <1>2, <1>3, GivenSame DEF Caches, FormCache
<1>6. PartsCache' /\ WhoClosed'
  BY <1>1, <1>2, <1>3, GivenSame DEF Caches, PartsCache, WhoClosed
<1>7. ASSUME NEW a \in Attrs, Filled(a)
      PROVE  Filled(a)' /\ Held(a)' = Held(a)
  <2>1. CASE a \in {"data", "json"}
    <3>1. body' = body
      BY <1>2, <1>7, <2>1 DEF Filled
    <3>2. Filled(a)'
      BY <1>2, <2>1 DEF Filled
    <3> QED BY <1>1, <2>1, <3>1, <3>2, GivenSame DEF Held, Result
  <2>2. CASE a \in {"form", "values", "files"}
    BY <1>3, <1>7, <2>2 DEF Filled, Held, PartsAnswer
  <2> QED BY <2>1, <2>2 DEF Attrs
<1> QED BY <1>1, <1>2, <1>3, <1>4, <1>5, <1>6, <1>7, GivenSame DEF Step, Caches

\* parsedForm: the pairs of what readBody has or gets.
LEMMA ParseFormStep ==
    ASSUME Inv, ParseForm, ctype # "multipart", UNCHANGED <<given, parts, temp>>
    PROVE  Step /\ form' # Undone
<1>1. UNCHANGED given
  BY DEF given
<1>2. Caches /\ UNCHANGED <<sent, ctype, limit, faults, arrives, parts, temp>>
  BY InvCaches DEF given
<1>3. CASE form # Undone
  <2>1. UNCHANGED <<form, body, pos, closed>>
    BY <1>3 DEF ParseForm
  <2>3. Caches'
    BY <1>1, <1>2, <2>1, GivenSame
       DEF Caches, CacheVars, BodyCache, FormCache, PartsCache, WhoClosed, Moved
  <2>4. \A a \in Attrs : Filled(a) => Filled(a)' /\ Held(a)' = Held(a)
    BY <1>1, <1>2, <2>1, GivenSame DEF Attrs, Filled, Held, PartsAnswer, Result
  <2> QED BY <1>3, <2>1, <2>3, <2>4 DEF Step
<1>4. CASE form = Undone
  <2>1. /\ ReadBody
        /\ form' = Value(IF ctype = "urlencoded" THEN ParseQuery(body'.val) ELSE {})
    BY <1>4 DEF ParseForm
  <2>2. /\ body' \in Results /\ body' # Undone /\ closed' /\ pos' \in 0..Allowed
        /\ body # Undone => body' = body
        /\ BodyCache'
    BY <2>1, ReadBodyFills
  <2>3. form' \in Results /\ form' # Undone
    <3>1. body'.val \in SUBSET All
      BY <2>2 DEF Results
    <3>2. ParseQuery(body'.val) \in SUBSET All
      BY <3>1, ResultTypes
    <3>3. form' \in Results
      BY <2>1, <3>2, ResultTypes
    <3>4. form'.ok = TRUE
      BY <2>1 DEF Value
    <3> QED BY <3>3, <3>4, ResultTypes
  <2>4. CacheVars'
    BY <1>1, <1>2, <2>2, <2>3, GivenSame DEF Caches, CacheVars
  <2>5. FormCache'
    <3>1. ParseQuery(body'.val) = ParseQuery(body.val)'
      BY <1>2 DEF ParseQuery, Bad, Of
    <3> QED BY <1>2, <2>1, <2>2, <3>1 DEF FormCache
  <2>6. PartsCache' /\ WhoClosed'
    BY <1>1, <1>2, <2>2, GivenSame DEF Caches, PartsCache, WhoClosed
  <2>7. ASSUME NEW a \in Attrs, Filled(a)
        PROVE  Filled(a)' /\ Held(a)' = Held(a)
    <3>1. CASE a \in {"data", "json"}
      <4>1. body' = body
        BY <2>2, <2>7, <3>1 DEF Filled
      <4>2. Filled(a)'
        BY <2>2, <3>1 DEF Filled
      <4> QED BY <1>1, <3>1, <4>1, <4>2, GivenSame DEF Held, Result
    <3>2. CASE a \in {"form", "values"}
      BY <1>4, <2>7, <3>2 DEF Filled
    <3>3. CASE a = "files"
      BY <1>2, <2>7, <3>3 DEF Filled, Held, PartsAnswer
    <3> QED BY <3>1, <3>2, <3>3 DEF Attrs
  <2> QED BY <1>1, <1>2, <2>2, <2>3, <2>4, <2>5, <2>6, <2>7, GivenSame DEF Step, Caches
<1> QED BY <1>3, <1>4

\* A parse that fails for a cause.
LEMMA Refusal ==
    ASSUME UNCHANGED given, ctype = "multipart", NEW e \in PartsErrors, parts' = Parsed(e),
           e \in ReadErrors => ReadError = e,
           e = "refused" => Stops # {},
           e = "query" => "query" \in faults /\ ~Over,
           e = "boundary" => "boundary" \in faults
    PROVE  /\ parts' \in PartsResults /\ parts'.err = e
           /\ parts' # Parsed("undone") /\ PartsCache'
<1>1. /\ parts'.err = e /\ parts'.ok = FALSE /\ e \notin {"none", "undone"}
      /\ UNCHANGED <<ctype, faults>>
  BY DEF Parsed, PartsErrors, ReadErrors, given
<1>2. parts' \in PartsResults /\ parts' # Parsed("undone")
  BY RefusalTypes
<1>3. /\ ReadError' = ReadError /\ Stops' = Stops /\ Over' = Over
  BY GivenSame
<1>4. ReadErrors' = ReadErrors /\ Parsed("undone")' = Parsed("undone")
  BY DEF ReadErrors, Parsed
<1>5. PartsCache'
  BY <1>1, <1>2, <1>3, <1>4 DEF PartsCache
<1> QED BY <1>1, <1>2, <1>5

\* r.ParseMultipartForm: what it makes of the body and what that costs on disk.
LEMMA MultipartFills ==
    ASSUME Inv, ParseMultipartForm, UNCHANGED given, ctype = "multipart",
           parts = Parsed("undone")
    PROVE  /\ parts' \in PartsResults
           /\ parts' # Parsed("undone") /\ PartsCache'
           /\ pos' \in 0..Allowed
           /\ pos' # pos =>
                ~closed /\ parts'.err \in {"none", "refused", "query", "tooBig", "broken"}
           /\ temp' \in 0..Len(sent)
           /\ (Capped /\ limit <= MemoryCap => temp' = 0)
           /\ parts'.err = "closed" => closed /\ ~Over
           /\ parts'.err \in {"none", "refused", "query", "broken"} => ~closed
<1>1. /\ CacheVars /\ (Capped /\ limit <= MemoryCap => temp = 0)
      /\ Allowed \in 0..Len(sent) /\ All = 1..Len(sent) /\ Len(sent) \in Nat
      /\ limit \in Int /\ MemoryCap \in Nat \ {0} /\ 1..Allowed \subseteq All
  BY GivenTypes, InvCaches DEF Inv, Caches
<1>2. Parsed("undone").err = "undone"
  BY DEF Parsed
<1>3. UNCHANGED <<sent, ctype, limit, faults, arrives>>
  BY DEF given
<1>4. CASE /\ "boundary" \in faults
           /\ parts' = Parsed("boundary")
           /\ UNCHANGED <<pos, temp>>
  <2>1. /\ parts' \in PartsResults /\ parts'.err = "boundary"
        /\ parts' # Parsed("undone") /\ PartsCache'
    BY <1>4, Refusal DEF PartsErrors, ReadErrors
  <2> QED BY <1>1, <1>4, <2>1 DEF CacheVars
<1>5. CASE /\ closed
           /\ parts' = Parsed(IF Over THEN "tooBig" ELSE "closed")
           /\ UNCHANGED <<pos, temp>>
  <2> DEFINE e == IF Over THEN "tooBig" ELSE "closed"
  <2>1. /\ e \in PartsErrors /\ (e \in ReadErrors => ReadError = e)
        /\ e \notin {"none", "refused", "query", "broken", "boundary"}
        /\ (e = "closed" => ~Over)
    BY DEF ReadError, PartsErrors, ReadErrors
  <2>2. parts' = Parsed(e)
    BY <1>5
  <2> HIDE DEF e
  <2>3. /\ parts' \in PartsResults /\ parts'.err = e
        /\ parts' # Parsed("undone") /\ PartsCache'
    BY <2>1, <2>2, Refusal
  <2> QED BY <1>1, <1>5, <2>1, <2>3 DEF CacheVars
<1>6. CASE /\ ~closed
           /\ \E i \in Stops : pos' \in i..Allowed
           /\ parts' = Parsed("refused")
           /\ UNCHANGED temp
  <2>1. pos' \in 0..Allowed /\ Stops # {}
    BY <1>1, <1>6 DEF Stops
  <2>2. /\ parts' \in PartsResults /\ parts'.err = "refused"
        /\ parts' # Parsed("undone") /\ PartsCache'
    BY <1>6, <2>1, Refusal DEF PartsErrors, ReadErrors
  <2> QED BY <1>1, <1>6, <2>1, <2>2 DEF CacheVars
<1>7. CASE /\ ~closed /\ ReadError # "none"
           /\ pos' = Allowed /\ parts' = Parsed(ReadError) /\ UNCHANGED temp
  <2>1. ReadError \in {"tooBig", "broken"}
    BY <1>7 DEF ReadError
  <2>2. /\ parts' \in PartsResults /\ parts'.err = ReadError
        /\ parts' # Parsed("undone") /\ PartsCache'
    BY <1>7, <2>1, Refusal DEF PartsErrors, ReadErrors
  <2> QED BY <1>1, <1>7, <2>1, <2>2 DEF CacheVars
<1>8. CASE /\ ~closed /\ ~Over /\ arrives = Len(sent) /\ pos' = Allowed
           /\ LET n == Cardinality(Of("file", All)) IN
                temp' = IF n > MaxMemory THEN n - MaxMemory ELSE 0
           /\ parts' = IF "query" \in faults THEN Parsed("query")
                       ELSE [ok |-> TRUE, fields |-> Of("field", All),
                             files |-> Of("file", All), err |-> "none"]
  <2> DEFINE n == Cardinality(Of("file", All))
  <2>1. n \in 0..Len(sent)
    BY FileCount DEF Inv
  <2>2. MaxMemory \in Nat /\ (Capped /\ limit <= MemoryCap => MaxMemory = limit)
    BY <1>1 DEF MaxMemory, Capped
  <2>3. Capped => Len(sent) <= limit
    BY <1>1, <1>8 DEF Over
  <2>4. temp' = IF n > MaxMemory THEN n - MaxMemory ELSE 0
    BY <1>8
  <2> HIDE DEF n
  <2>5. temp' \in 0..Len(sent) /\ (Capped /\ limit <= MemoryCap => temp' = 0)
    BY <1>1, <2>1, <2>2, <2>3, <2>4
  <2>6. PartsCache'
    BY <1>2, <1>3, <1>8, GivenSame DEF PartsCache, Parsed, ReadErrors
  <2>7. parts' \in PartsResults
    <3>1. "query" \in PartsErrors
      BY DEF PartsErrors
    <3>2. Of("field", All) \in SUBSET All /\ Of("file", All) \in SUBSET All
      BY ResultTypes
    <3>3. Parsed("query") \in PartsResults
      BY <3>1, RefusalTypes
    <3> QED BY <1>8, <3>2, <3>3 DEF PartsResults
  <2> QED BY <1>1, <1>2, <1>8, <2>5, <2>6, <2>7 DEF Parsed
<1> QED BY <1>4, <1>5, <1>6, <1>7, <1>8 DEF ParseMultipartForm

LEMMA ParseMultipartStep ==
    ASSUME Inv, ParseMultipart, UNCHANGED given
    PROVE  Step /\ parts' # Parsed("undone")
<1>1. Caches /\ UNCHANGED <<sent, ctype, limit, faults, arrives, body, form, closed>>
  BY InvCaches DEF given, ParseMultipart
<1>2. CASE parts # Parsed("undone")
  <2>1. UNCHANGED <<parts, pos, temp>>
    BY <1>2 DEF ParseMultipart
  <2>2. Caches'
    BY <1>1, <2>1, GivenSame
       DEF Caches, CacheVars, BodyCache, FormCache, PartsCache, WhoClosed, Moved
  <2>3. \A a \in Attrs : Filled(a) => Filled(a)' /\ Held(a)' = Held(a)
    BY <1>1, <2>1, GivenSame DEF Attrs, Filled, Held, PartsAnswer, Result
  <2> QED BY <1>2, <2>1, <2>2, <2>3 DEF Step
<1>3. CASE parts = Parsed("undone")
  <2>1. ASSUME NEW a \in Attrs, Filled(a)
        PROVE  Filled(a)' /\ Held(a)' = Held(a)
    <3>1. CASE a \in {"data", "json"}
      BY <1>1, <2>1, <3>1, GivenSame DEF Filled, Held, Result
    <3>2. CASE a \in {"form", "values"}
      BY <1>1, <1>3, <2>1, <3>2 DEF Filled, Held
    <3>3. CASE a = "files"
      BY <1>3, <2>1, <3>3 DEF Filled
    <3> QED BY <3>1, <3>2, <3>3 DEF Attrs
  <2>2. CASE ctype # "multipart"
    <3>1. /\ parts' = [ok |-> TRUE, fields |-> {}, files |-> {}, err |-> "none"]
          /\ UNCHANGED <<pos, temp>>
      BY <1>3, <2>2 DEF ParseMultipart
    <3>2. parts' # Parsed("undone")
      BY <3>1 DEF Parsed
    <3>3. Caches'
      <4>1. parts' \in PartsResults
        BY <3>1 DEF PartsResults
      <4>2. parts'.err = "none" /\ parts'.ok /\ parts'.fields = {} /\ parts'.files = {}
        BY <3>1
      <4>3. PartsCache'
        BY <1>1, <2>2, <3>2, <4>2 DEF PartsCache, ReadErrors, Parsed
      <4>4. CacheVars' /\ WhoClosed'
        BY <1>1, <3>1, <4>1, <4>2, GivenSame DEF Caches, CacheVars, WhoClosed
      <4>5. BodyCache' /\ FormCache'
        BY <1>1, <2>2, <3>1, GivenSame DEF Caches, BodyCache, FormCache, Moved
      <4> QED BY <1>1, <3>1, <4>3, <4>4, <4>5, GivenSame DEF Caches
    <3> QED BY <2>1, <3>2, <3>3 DEF Step
  <2>3. CASE ctype = "multipart"
    <3>1. ParseMultipartForm
      BY <1>3, <2>3 DEF ParseMultipart
    <3>2. /\ parts' \in PartsResults
          /\ parts' # Parsed("undone") /\ PartsCache'
          /\ pos' \in 0..Allowed
          /\ pos' # pos =>
               ~closed /\ parts'.err \in {"none", "refused", "query", "tooBig", "broken"}
          /\ temp' \in 0..Len(sent)
          /\ (Capped /\ limit <= MemoryCap => temp' = 0)
          /\ parts'.err = "closed" => closed /\ ~Over
          /\ parts'.err \in {"none", "refused", "query", "broken"} => ~closed
      BY <1>3, <2>3, <3>1, MultipartFills
    <3>3. CacheVars' /\ WhoClosed'
      BY <1>1, <3>2, GivenSame DEF Caches, CacheVars, WhoClosed
    <3>4. BodyCache'
      <4>1. BodyCache /\ closed \in BOOLEAN /\ ~Moved
        BY <1>1, <1>3 DEF Caches, CacheVars, Moved, Parsed
      <4>2. parts'.err # "undone"
        BY <3>2 DEF PartsCache
      <4>3. CASE closed
        BY <1>1, <4>1, <4>3, <3>2, GivenSame DEF BodyCache, Moved
      <4>4. CASE ~closed
        <5>1. body = Undone /\ pos = 0
          BY <4>1, <4>4 DEF BodyCache
        <5>2. Moved' \/ pos' = 0
          BY <1>1, <2>3, <3>2, <5>1 DEF Moved
        <5> QED BY <1>1, <4>1, <4>4, <5>1, <5>2 DEF BodyCache
      <4> QED BY <4>3, <4>4
    <3>5. FormCache'
      BY <1>1, GivenSame DEF Caches, FormCache
    <3> QED BY <1>1, <2>1, <3>2, <3>3, <3>4, <3>5, GivenSame DEF Step, Caches
  <2> QED BY <2>2, <2>3
<1> QED BY <1>2, <1>3

-----------------------------------------------------------------------------
(* Answering.                                                              *)

\* An answer from a filled cache keeps everything, and the status it ends the view
\* with, if it does, is right.
LEMMA AnswerKeeps ==
    ASSUME Inv, Running, NEW a \in Attrs, Step, Filled(a)', Answer(a, Held(a)'),
           closed' /\ ctype = "multipart" => closed \/ a \in {"data", "json"}
    PROVE  Inv'
<1>1. /\ Caches' /\ UNCHANGED <<sent, ctype, limit, faults, arrives, left>> /\ UNCHANGED given
      /\ answers' = [answers EXCEPT ![a] = @ \cup {Held(a)'}]
  BY DEF Step, Answer, given
<1>2. TypeOK /\ answers \in [Attrs -> SUBSET Results] /\ ~left
      /\ failed = "none"
  BY DEF Inv, TypeOK, Ended, Running
<1>3. /\ body' \in Results /\ form' \in Results /\ ctype' = ctype
      /\ parts' \in PartsResults
  BY <1>1, GivenSame DEF Caches, CacheVars
<1>4. Held(a)' \in Results'
  <2>1. \A read \in Results' : Result(read)' \in Results'
    BY <1>1, GivenSame, ResultTypes DEF Result
  <2>2. \A v \in SUBSET All : Value(v) \in Results'
    BY <1>1, GivenSame, ResultTypes
  <2>3. \A e \in PartsErrors \cup {"none", "undone", "json"} : Failure(e) \in Results'
    BY <1>1, GivenSame, ResultTypes
  <2>4. /\ parts'.fields \in SUBSET All /\ parts'.files \in SUBSET All
        /\ parts'.err \in PartsErrors \cup {"none", "undone"}
    BY <1>3 DEF PartsResults
  <2>5. PartsAnswer(parts.fields)' \in Results' /\ PartsAnswer(parts.files)' \in Results'
    BY <2>2, <2>3, <2>4 DEF PartsAnswer
  <2> QED BY <1>1, <1>3, <2>1, <2>3, <2>5, GivenSame DEF Held, Attrs
<1>5. TypeOK'
  <2>1. answers' \in [Attrs -> SUBSET Results']
    BY <1>1, <1>2, <1>4, GivenSame
  <2>2. status' \in {"none", "ok", "abort", "413", "500"} /\ failed' \in Attrs \cup {"none"}
    BY <1>2 DEF TypeOK, Answer, StatusOf, Running
  <2> QED BY <1>1, <1>2, <2>1, <2>2 DEF TypeOK, Caches, CacheVars
<1>6. Remembered'
  <2>1. ASSUME NEW b \in Attrs
        PROVE  answers'[b] \subseteq {x \in {Held(b)'} : Filled(b)'}
    <3>1. answers[b] \subseteq {x \in {Held(b)} : Filled(b)}
      BY DEF Inv, Remembered
    <3>2. Filled(b) => Filled(b)' /\ Held(b)' = Held(b)
      BY DEF Step
    <3>3. answers[b] \subseteq {x \in {Held(b)'} : Filled(b)'}
      BY <3>1, <3>2
    <3>4. answers'[b] = IF b = a THEN answers[b] \cup {Held(a)'} ELSE answers[b]
      BY <1>1, <1>2
    <3> QED BY <3>3, <3>4
  <2> QED BY <2>1 DEF Remembered
<1>7. WhoRead'
  <2>1. answers["data"] \cup answers["json"] \subseteq answers'["data"] \cup answers'["json"]
    BY <1>1, <1>2 DEF Attrs
  <2>2. a \in {"data", "json"} => answers'["data"] \cup answers'["json"] # {}
    BY <1>1, <1>2 DEF Attrs
  <2> QED BY <1>1, <2>1, <2>2 DEF Inv, WhoRead
<1>8. Ended'
  <2>1. CASE UNCHANGED <<status, failed>>
    BY <1>1, <1>2, <2>1, GivenSame DEF Inv, Ended, BlameTheBody, Running
  <2>2. CASE ~Held(a)'.ok /\ status' = StatusOf(Held(a)'.err) /\ failed' = a
    <3>1. Held(a)'.err = "tooBig" => Over
      <4>1. CASE a \in {"data", "json"}
        <5>1. Held(a)' \in {Result(body'), Failure("json")}
          BY <4>1 DEF Held, Result
        <5>2. body' # Undone
          BY <4>1 DEF Filled
        <5>3. body'.err = ReadError
          BY <1>1, <5>2, GivenSame DEF Caches, BodyCache
        <5> QED BY <5>1, <5>3 DEF Result, Failure, ReadError
      <4>2. CASE a \in {"form", "values"} /\ ctype # "multipart"
        <5>1. Held(a)' = form' /\ form' # Undone
          BY <1>1, <4>2 DEF Held, Filled
        <5>2. form'.ok
          BY <1>1, <5>1 DEF Caches, FormCache, Value
        <5> QED BY <2>2, <5>1, <5>2
      <4>3. CASE a = "files" \/ (a \in {"form", "values"} /\ ctype = "multipart")
        <5>1. Held(a)' \in {PartsAnswer(parts.fields)', PartsAnswer(parts.files)'}
          BY <1>1, <4>3 DEF Held
        <5>2. Held(a)'.err = parts'.err
          BY <2>2, <5>1 DEF PartsAnswer, Value, Failure
        <5>3. parts'.err = "tooBig" => ReadError = "tooBig"
          BY <1>1, GivenSame DEF Caches, PartsCache, ReadErrors
        <5> QED BY <5>2, <5>3 DEF ReadError
      <4> QED BY <4>1, <4>2, <4>3 DEF Attrs
    <3>2. a \in {"data", "json"} /\ Over => Held(a)'.err = "tooBig"
      <4> SUFFICES ASSUME a \in {"data", "json"}, Over PROVE Held(a)'.err = "tooBig"
        OBVIOUS
      <4>1. ReadError = "tooBig"
        BY DEF ReadError
      <4>2. body' # Undone
        BY DEF Filled
      <4>3. body'.err = "tooBig" /\ ~body'.ok
        BY <1>1, <4>1, <4>2, GivenSame DEF Caches, BodyCache
      <4>4. Held(a)' = Result(body')
        BY <4>3 DEF Held, Result
      <4> QED BY <4>3, <4>4 DEF Result, Failure
    <3> QED BY <1>1, <2>2, <3>1, <3>2, GivenSame DEF Ended, BlameTheBody, StatusOf
  <2> QED BY <2>1, <2>2 DEF Answer
<1>9. TempFilesRemoved'
  BY <1>1, <1>2 DEF TempFilesRemoved, Caches
<1> QED BY <1>1, <1>5, <1>6, <1>7, <1>8, <1>9 DEF Inv, Caches

-----------------------------------------------------------------------------
(* One step of each kind.                                                  *)

LEMMA DataKeeps == ASSUME Inv, Data PROVE Inv'
<1>1. /\ Running /\ ReadBody /\ UNCHANGED <<given, form, parts, temp>>
      /\ Answer("data", Result(body'))
  BY DEF Data, Answer
<1>2. Step /\ body' # Undone
  BY <1>1, ReadBodyStep
<1>3. Filled("data")' /\ Held("data")' = Result(body')
  BY <1>2 DEF Filled, Held, Result
<1> QED BY <1>1, <1>2, <1>3, AnswerKeeps DEF Attrs

LEMMA JsonKeeps == ASSUME Inv, Json PROVE Inv'
<1>1. /\ Running /\ ReadBody /\ UNCHANGED <<given, form, parts, temp>>
      /\ Answer("json", IF body'.ok /\ ~IsJSON(body'.val) THEN Failure("json")
                        ELSE Result(body'))
  BY DEF Json, Answer
<1>2. Step /\ body' # Undone
  BY <1>1, ReadBodyStep
<1>3. /\ Filled("json")'
      /\ Held("json")' = IF body'.ok /\ ~IsJSON(body'.val) THEN Failure("json")
                         ELSE Result(body')
  <2>1. IsJSON(body.val)' = IsJSON(body'.val)
    BY <1>1, GivenSame DEF given, IsJSON, Bad, Of
  <2> QED BY <1>2, <2>1 DEF Filled, Held, Result
<1> QED BY <1>1, <1>2, <1>3, AnswerKeeps DEF Attrs

LEMMA FormKeeps == ASSUME Inv, NEW a \in {"form", "values"}, Form(a) PROVE Inv'
<1>1. Running /\ UNCHANGED given /\ UNCHANGED ctype /\ a \in Attrs
  BY DEF Form, Answer, Attrs, given
<1>2. CASE ctype = "multipart"
  <2>1. /\ ParseMultipart
        /\ Answer(a, IF parts'.ok THEN Value(parts'.fields) ELSE Failure(parts'.err))
    BY <1>2 DEF Form
  <2>2. Step /\ parts' # Parsed("undone") /\ UNCHANGED closed
    BY <1>1, <2>1, ParseMultipartStep DEF ParseMultipart
  <2>3. /\ Filled(a)'
        /\ Held(a)' = IF parts'.ok THEN Value(parts'.fields) ELSE Failure(parts'.err)
    BY <1>1, <1>2, <2>2 DEF Filled, Held, PartsAnswer
  <2> QED BY <1>1, <2>1, <2>2, <2>3, AnswerKeeps
<1>3. CASE ctype # "multipart"
  <2>1. ParseForm /\ Answer(a, form') /\ UNCHANGED <<given, parts, temp>>
    BY <1>1, <1>3 DEF Form
  <2>2. Step /\ form' # Undone
    BY <1>3, <2>1, ParseFormStep
  <2>3. Filled(a)' /\ Held(a)' = form'
    BY <1>1, <1>3, <2>2 DEF Filled, Held
  <2> QED BY <1>1, <1>3, <2>1, <2>2, <2>3, AnswerKeeps
<1> QED BY <1>2, <1>3

LEMMA FilesKeeps == ASSUME Inv, FilesAttr PROVE Inv'
<1>1. /\ Running /\ UNCHANGED given /\ ParseMultipart
      /\ Answer("files", IF parts'.ok THEN Value(parts'.files) ELSE Failure(parts'.err))
  BY DEF FilesAttr, Answer
<1>2. Step /\ parts' # Parsed("undone") /\ UNCHANGED closed
  BY <1>1, ParseMultipartStep DEF ParseMultipart
<1>3. /\ Filled("files")'
      /\ Held("files")' = IF parts'.ok THEN Value(parts'.files) ELSE Failure(parts'.err)
  BY <1>2 DEF Filled, Held, PartsAnswer
<1> QED BY <1>1, <1>2, <1>3, AnswerKeeps DEF Attrs

\* Whoever reads and answers nothing disturbs none of this.
LEMMA NothingRead ==
    ASSUME Inv, UNCHANGED <<given, pos, closed, body, form, parts, answers>>
    PROVE  /\ Remembered' /\ BodyCache' /\ FormCache' /\ PartsCache'
           /\ WhoRead' /\ WhoClosed'
<1>1. /\ UNCHANGED <<sent, ctype, limit, faults, arrives, pos, closed, body, form, parts,
                     answers>>
      /\ UNCHANGED given
  BY DEF given
<1>2. Remembered'
  <2>1. ASSUME NEW a \in Attrs
        PROVE  Held(a)' = Held(a) /\ Filled(a)' = Filled(a)
    BY <1>1, GivenSame DEF Held, Filled, PartsAnswer, Result, Attrs
  <2> QED BY <1>1, <2>1 DEF Inv, Remembered
<1>3. Moved' = Moved
  BY <1>1 DEF Moved
<1>4. BodyCache'
  BY <1>1, <1>3, GivenSame DEF Inv, BodyCache
<1>5. FormCache'
  <2>1. ParseQuery(body.val)' = ParseQuery(body.val)
    BY <1>1, GivenSame
  <2> QED BY <1>1, <2>1 DEF Inv, FormCache
<1>6. PartsCache'
  BY <1>1, GivenSame DEF Inv, PartsCache
<1>7. WhoRead' /\ WhoClosed'
  BY <1>1, GivenSame DEF Inv, WhoRead, WhoClosed
<1> QED BY <1>2, <1>4, <1>5, <1>6, <1>7

\* Nothing is read, answered or blamed; Leave removes what is on disk.
LEMMA EndKeeps ==
    ASSUME Inv, Leave \/ \E s \in {"ok", "abort", "500"} : Finish(s)
    PROVE  Inv'
<1>1. /\ UNCHANGED <<sent, ctype, limit, faults, arrives, pos, closed, body, form, parts,
                     failed, answers>>
      /\ UNCHANGED given
      /\ temp' \in {0, temp} /\ left' \in BOOLEAN /\ (left' => temp' = 0)
      /\ status' \in {"ok", "abort", "413", "500"}
      /\ Over' = Over /\ BlameTheBody'
  <2>1. CASE Leave
    <3>1. UNCHANGED <<given, status, failed>>
      BY <2>1 DEF Leave
    <3>2. BlameTheBody'
      BY <3>1, GivenSame DEF Inv, Ended, BlameTheBody
    <3> QED BY <2>1, <3>1, <3>2, GivenSame DEF Leave, given, Inv, TypeOK, Running
  <2>2. CASE \E s \in {"ok", "abort", "500"} : Finish(s)
    <3>1. /\ status' \in {"ok", "abort", "500"} /\ failed = "none" /\ ~left
          /\ UNCHANGED <<given, pos, closed, body, form, parts, temp, failed, answers, left>>
      BY <2>2 DEF Finish, Inv, Ended, Running
    <3>2. BlameTheBody'
      BY <3>1, GivenSame DEF BlameTheBody
    <3> QED BY <3>1, <3>2, GivenSame DEF given, Inv, TypeOK
  <2> QED BY <2>1, <2>2
<1>2. TypeOK'
  BY <1>1, GivenTypes, GivenSame DEF Inv, TypeOK
<1>3. /\ Remembered' /\ BodyCache' /\ FormCache' /\ PartsCache'
      /\ WhoRead' /\ WhoClosed'
  BY <1>1, NothingRead
<1>4. Ended' /\ TempFilesRemoved'
  BY <1>1, GivenSame DEF Inv, Ended, TempFilesRemoved
<1> QED BY <1>2, <1>3, <1>4 DEF Inv

LEMMA InvNext == Inv /\ [Next]_vars => Inv'
<1> SUFFICES ASSUME Inv, [Next]_vars PROVE Inv'
  OBVIOUS
<1>1. CASE UNCHANGED vars
  <2>1. UNCHANGED given
    BY <1>1 DEF vars, given
  <2>2. UNCHANGED <<sent, ctype, limit, faults, arrives, pos, closed, body, form, parts, temp, left,
                    status, failed, answers>>
    BY <1>1 DEF vars
  <2>3. TypeOK'
    BY <2>1, <2>2, GivenSame DEF Inv, TypeOK
  <2>4. /\ Remembered' /\ BodyCache' /\ FormCache' /\ PartsCache'
        /\ WhoRead' /\ WhoClosed'
    BY <2>1, <2>2, NothingRead
  <2>5. Ended' /\ TempFilesRemoved'
    BY <2>1, <2>2, GivenSame DEF Inv, Ended, BlameTheBody, TempFilesRemoved
  <2> QED BY <2>3, <2>4, <2>5 DEF Inv
<1>2. CASE Next
  BY <1>2, DataKeeps, JsonKeeps, FormKeeps, FilesKeeps, EndKeeps DEF Next
<1> QED BY <1>1, <1>2

-----------------------------------------------------------------------------
(* What follows.                                                           *)

\* The attributes answer from what the client sent.
LEMMA InvStable == Inv => StableAnswers
<1> SUFFICES ASSUME Inv PROVE StableAnswers
  OBVIOUS
<1>1. \A a \in Attrs : \A x \in answers[a] : x = Held(a)
  BY DEF Inv, Remembered
<1>2. Held("form") = Held("values")
  BY DEF Held
<1> QED BY <1>1, <1>2 DEF StableAnswers, Attrs

LEMMA InvWhole == Inv => NothingCutShort
<1> SUFFICES ASSUME Inv, NEW a \in Attrs, NEW x \in answers[a], x.ok
             PROVE  \/ x.val = Whole(a)
                    \/ /\ a \in {"form", "values"} /\ ctype = "urlencoded"
                       /\ ReadError # "none"
                    \/ /\ a \in {"data", "json"} /\ ctype = "multipart"
                       /\ parts.err \in {"none", "refused", "query"}
  BY DEF NothingCutShort
<1>1. /\ x = Held(a) /\ Filled(a)
      /\ All = 1..Len(sent) /\ (ReadError = "none" => Allowed = Len(sent))
      /\ BodyCache /\ FormCache /\ PartsCache
  BY GivenTypes DEF Inv, Remembered
<1>2. CASE a \in {"data", "json"}
  <2>1. x \in {body, Failure(body.err), Failure("json")} /\ body # Undone
    BY <1>1, <1>2 DEF Held, Filled, Result
  <2>2. x = body /\ body.ok
    BY <2>1 DEF Failure
  <2>3. ReadError = "none" /\ (Moved \/ body.val = All)
    BY <1>1, <2>1, <2>2 DEF BodyCache
  <2>4. Moved => ctype = "multipart" /\ parts.err \in {"none", "refused", "query"}
    BY <1>1, <2>3 DEF Moved, PartsCache, ReadErrors
  <2> QED BY <1>2, <2>2, <2>3, <2>4 DEF Whole
<1>3. CASE a \in {"form", "values"} /\ ctype # "multipart"
  <2>1. x = form /\ form # Undone
    BY <1>1, <1>3 DEF Held, Filled
  <2>2. /\ body # Undone
        /\ form = Value(IF ctype = "urlencoded" THEN ParseQuery(body.val) ELSE {})
    BY <1>1, <2>1 DEF FormCache
  <2>3. CASE ctype = "urlencoded" /\ ReadError = "none"
    <3>1. body.val = All
      BY <1>1, <2>2, <2>3 DEF BodyCache, Moved
    <3> QED BY <1>3, <2>1, <2>2, <2>3, <3>1 DEF Whole, Value
  <2>4. CASE ctype # "urlencoded"
    BY <1>3, <2>1, <2>2, <2>4 DEF Whole, Value
  <2> QED BY <1>3, <2>3, <2>4
<1>4. CASE a \in {"form", "values"} /\ ctype = "multipart"
  <2>1. x = PartsAnswer(parts.fields)
    BY <1>1, <1>4 DEF Held
  <2>2. parts.ok /\ x.val = parts.fields
    BY <2>1 DEF PartsAnswer, Value, Failure
  <2> QED BY <1>1, <1>4, <2>2 DEF PartsCache, Whole
<1>5. CASE a = "files"
  <2>1. x = PartsAnswer(parts.files)
    BY <1>1, <1>5 DEF Held
  <2>2. parts.ok /\ x.val = parts.files
    BY <2>1 DEF PartsAnswer, Value, Failure
  <2> QED BY <1>1, <1>5, <2>2 DEF PartsCache, Whole
<1> QED BY <1>2, <1>3, <1>4, <1>5 DEF Attrs

LEMMA InvCause == Inv => FormFailsForCause
<1> SUFFICES ASSUME Inv, NEW a \in {"form", "values", "files"}, NEW x \in answers[a], ~x.ok
             PROVE  /\ ctype = "multipart"
                    /\ \/ ReadError # "none"
                       \/ Stops # {}
                       \/ faults \cap {"boundary", "query"} # {}
                       \/ answers["data"] \cup answers["json"] # {}
  BY DEF FormFailsForCause
<1>1. /\ x = Held(a) /\ Filled(a)
      /\ FormCache /\ PartsCache /\ WhoClosed /\ WhoRead
      /\ parts.err \in PartsErrors \cup {"none", "undone"}
  BY DEF Inv, Remembered, Attrs, TypeOK, PartsResults
<1>2. CASE a \in {"form", "values"} /\ ctype # "multipart"
  <2>1. x = form /\ form # Undone
    BY <1>1, <1>2 DEF Held, Filled
  <2> QED BY <1>1, <2>1 DEF FormCache, Value
<1>3. CASE a = "files" \/ (a \in {"form", "values"} /\ ctype = "multipart")
  <2>1. parts # Parsed("undone") /\ x \in {PartsAnswer(parts.fields), PartsAnswer(parts.files)}
    BY <1>1, <1>3 DEF Held, Filled
  <2>2. ~parts.ok /\ parts.err \notin {"none", "undone"}
    BY <1>1, <2>1 DEF PartsAnswer, Value, PartsCache
  <2> QED BY <1>1, <2>2 DEF PartsCache, WhoClosed, WhoRead, PartsErrors, ReadErrors
<1> QED BY <1>2, <1>3

-----------------------------------------------------------------------------
(* The theorems.                                                           *)

\* Every variable keeps its type; r.Body is never read beyond the cap.
THEOREM TypeCorrect == Spec => []TypeOK
<1>1. Inv => TypeOK
  BY DEF Inv
<1> QED BY InvInit, InvNext, <1>1, PTL DEF Spec

\* An attribute that has answered answers the same ever after (Request.once,
\* formOnce and multipartOnce).
THEOREM StableAnswersCorrect == Spec => []StableAnswers
BY InvInit, InvNext, InvStable, PTL DEF Spec

\* What an attribute answers without an error is all there is, with the two
\* exceptions named in NothingCutShort (readBody, parsedForm, parseMultipart).
THEOREM NothingCutShortCorrect == Spec => []NothingCutShort
BY InvInit, InvNext, InvWhole, PTL DEF Spec

\* Order matters to form, values and files in one way only: data and json() read
\* first close a multipart body (parseMultipart).
THEOREM FormFailsForCauseCorrect == Spec => []FormFailsForCause
BY InvInit, InvNext, InvCause, PTL DEF Spec

\* 413 blames the body, and only when it is to blame (ServeHTTP's errors.As).
THEOREM BlameTheBodyCorrect == Spec => []BlameTheBody
<1>1. Inv => BlameTheBody
  BY DEF Inv, Ended
<1> QED BY InvInit, InvNext, <1>1, PTL DEF Spec

\* No temporary file outlives its request (ServeHTTP's deferred RemoveAll), and
\* none is made while the cap on the body fits in memory (parseMultipart).
THEOREM TempFilesRemovedCorrect == Spec => []TempFilesRemoved
<1>1. Inv => TempFilesRemoved
  BY DEF Inv
<1> QED BY InvInit, InvNext, <1>1, PTL DEF Spec
=============================================================================
