----------------------------- MODULE RequestBody -----------------------------
(***************************************************************************)
(* The request body as a view sees it (request.go: readBody, parsedForm,   *)
(* parseMultipart and the attributes data, json(), form, values, files),   *)
(* under the cap that ServeHTTP puts on it, up to the clean-up and the     *)
(* status ServeHTTP ends with.                                             *)
(*                                                                         *)
(* A body can be read once.  Which attribute a view touches first decides  *)
(* who gets the bytes, so this module lets a view touch them in any order. *)
(* Starlark has no exceptions, but getattr(request, name, default)         *)
(* swallows a failing attribute: after it the view goes on.                *)
(*                                                                         *)
(* A body is a sequence of units: form pairs ("field"), file parts         *)
(* ("file") and units no form parser accepts ("bad").  What a reader gets  *)
(* of it is the set of the positions of the units it got, which are never  *)
(* reordered.  Limits and memory caps count units.  What may go wrong      *)
(* besides, on the client's side or on the disk, is a set of faults that a *)
(* request is born with.                                                   *)
(***************************************************************************)
EXTENDS Integers, Sequences, FiniteSets

CONSTANTS
    Bodies,         \* the bodies clients send: sequences of Units
    ContentTypes,   \* subset of Types
    Limits,         \* values of Handler.MaxBodySize; not positive: no cap
    MemoryCap,      \* multipartMemoryCap
    MaxParts,       \* how many parts mime/multipart accepts
    FieldSlack,     \* what it grants fields beyond the memory for files
    Faults,         \* the sets of FaultKinds that may befall a request
    Defaults        \* do views use getattr(request, name, default)?

Units == {"field", "file", "bad"}
Types == {"urlencoded", "multipart", "other"}
Attrs == {"data", "json", "form", "values", "files"}

\* A malformed query in the URL, a multipart content type without a usable
\* boundary, temporary files that cannot be written, a connection that breaks
\* before the body's end (a timeout, a bad chunk), a body that is no JSON text.
FaultKinds == {"query", "boundary", "disk", "connection", "json"}

ASSUME BodyConstantsOK ==
    /\ Bodies \subseteq Seq(Units)
    /\ ContentTypes \subseteq Types
    /\ Limits \subseteq Int
    /\ MemoryCap \in Nat \ {0}
    /\ MaxParts \in Nat /\ FieldSlack \in Nat
    /\ Faults \subseteq SUBSET FaultKinds
    /\ Defaults \in BOOLEAN

VARIABLES
    sent,       \* the body the client sends
    ctype,      \* its media type
    limit,      \* Handler.MaxBodySize
    faults,     \* what goes wrong with this request
    arrives,    \* how many units of the body reach the server
    pos,        \* how many units of r.Body have been read
    closed,     \* has r.Body been closed?
    body,       \* Request.once, body and bodyErr
    form,       \* Request.formOnce and form
    parts,      \* Request.multipartOnce, multipartErr, multipartForm, files
    temp,       \* how many file parts r.MultipartForm has on disk
    left,       \* has ServeHTTP returned?
    status,     \* how the request ended, "none" while the view runs
    failed,     \* the attribute whose failure ended the view
    answers     \* history: what each attribute has answered the view

given == <<sent, ctype, limit, faults, arrives>>
vars == <<sent, ctype, limit, faults, arrives, pos, closed, body, form, parts,
          temp, left, status, failed, answers>>

Value(v) == [ok |-> TRUE, val |-> v, err |-> "none"]
Failure(e) == [ok |-> FALSE, val |-> {}, err |-> e]
Undone == Failure("undone")

All == DOMAIN sent
Of(kind, ps) == {i \in ps : sent[i] = kind}
Bad(ps) == Of("bad", ps) # {}

Capped == limit > 0
Over == Capped /\ arrives > limit
Allowed == IF Over THEN limit ELSE arrives

Init ==
    /\ sent \in Bodies
    /\ ctype \in ContentTypes
    /\ limit \in Limits
    /\ faults \in Faults
    /\ arrives \in IF "connection" \in faults THEN 0..Len(sent) ELSE {Len(sent)}
    /\ pos = 0
    /\ closed = FALSE
    /\ body = Undone
    /\ form = Undone
    /\ parts = [ok |-> FALSE, fields |-> {}, files |-> {}, err |-> "undone"]
    /\ temp = 0
    /\ left = FALSE
    /\ status = "none"
    /\ failed = "none"
    /\ answers = [a \in Attrs |-> {}]

-----------------------------------------------------------------------------
(* Reading.                                                                *)

\* What reading r.Body to its end ends with: MaxBytesReader's error when the cap
\* cuts it short, or the connection's.
ReadError == IF Over THEN "tooBig"
             ELSE IF "connection" \in faults THEN "broken" ELSE "none"

\* io.ReadAll(r.Body): what is left.  val is kept beside the error.
ReadAll == [ok |-> ReadError = "none", val |-> pos + 1..Allowed, err |-> ReadError]

\* Mutant: no sync.Once.
ReadBodyEveryTime == body' = ReadAll /\ pos' = Allowed /\ closed' = TRUE

\* Mutant: no MaxBytesReader.
ReadBodyUncapped ==
    IF body = Undone
    THEN body' = Value(pos + 1..Len(sent)) /\ pos' = Len(sent) /\ closed' = TRUE
    ELSE UNCHANGED <<body, pos, closed>>

\* readBody: once; the body is closed behind it.
ReadBody ==
    IF body = Undone
    THEN body' = ReadAll /\ pos' = Allowed /\ closed' = TRUE
    ELSE UNCHANGED <<body, pos, closed>>

\* ParseQuery fails on a malformed pair, and then the form stays empty.
ParseQuery(ps) == IF Bad(ps) THEN {} ELSE ps

\* parsedForm for a body that is not multipart: once, and whatever error
\* readBody returned is dropped.
ParseForm ==
    IF form = Undone
    THEN /\ ReadBody
         /\ form' = Value(IF ctype = "urlencoded" THEN ParseQuery(body'.val) ELSE {})
    ELSE UNCHANGED <<form, body, pos, closed>>

\* The in-memory share of files: multipartMemoryCap or the cap on the body.
MaxMemory == IF Capped /\ limit < MemoryCap THEN limit ELSE MemoryCap

\* What mime/multipart holds in memory of the parts ps.
InMemory(ps) ==
    LET files == Cardinality(Of("file", ps)) IN
    Cardinality(Of("field", ps)) + (IF files > MaxMemory THEN MaxMemory ELSE files)

\* The parts at which mime/multipart gives up: malformed, one too many, too much
\* for its memory (both ErrMessageTooLarge, whatever the cap on the body) or for
\* the disk.
Stops == {i \in 1..Allowed :
             \/ sent[i] = "bad"
             \/ i > MaxParts
             \/ InMemory(1..i) > MaxMemory + FieldSlack
             \/ "disk" \in faults /\ Cardinality(Of("file", 1..i)) > MaxMemory}

Parsed(e) == [ok |-> FALSE, fields |-> {}, files |-> {}, err |-> e]

\* r.ParseMultipartForm, after which r.Body is somewhere in the body: at its
\* end if all went well, anywhere past the offending part if not.  The boundary
\* is looked for before anything is read.  A connection that breaks after the last
\* part may or may not be noticed.
ParseMultipartForm ==
    \/ /\ "boundary" \in faults
       /\ parts' = Parsed("boundary")
       /\ UNCHANGED <<pos, temp>>
    \/ /\ "boundary" \notin faults /\ closed
       /\ parts' = Parsed(IF Over THEN "tooBig" ELSE "closed")
       /\ UNCHANGED <<pos, temp>>
    \/ /\ "boundary" \notin faults /\ ~closed
       /\ \E i \in Stops : pos' \in i..Allowed
       /\ parts' = Parsed("refused")
       /\ UNCHANGED temp
    \/ /\ "boundary" \notin faults /\ ~closed
       /\ Stops = {} /\ ReadError # "none"
       /\ pos' = Allowed
       /\ parts' = Parsed(ReadError)
       /\ UNCHANGED temp
    \/ /\ "boundary" \notin faults /\ ~closed
       /\ Stops = {} /\ ~Over /\ arrives = Len(sent)
       /\ pos' = Allowed
       /\ LET n == Cardinality(Of("file", All)) IN
            temp' = IF n > MaxMemory THEN n - MaxMemory ELSE 0
       \* A malformed query is reported only after the parts have been parsed.
       /\ parts' = IF "query" \in faults THEN Parsed("query")
                   ELSE [ok |-> TRUE, fields |-> Of("field", All),
                         files |-> Of("file", All), err |-> "none"]

\* Mutant: whatever the content type.
ParseMultipartOfAll ==
    /\ IF parts # Parsed("undone") THEN UNCHANGED <<parts, pos, temp>>
       ELSE ParseMultipartForm
    /\ UNCHANGED <<body, form, closed>>

\* parseMultipart: once.
ParseMultipart ==
    /\ IF parts # Parsed("undone") THEN UNCHANGED <<parts, pos, temp>>
       ELSE IF ctype # "multipart"
       THEN /\ parts' = [ok |-> TRUE, fields |-> {}, files |-> {}, err |-> "none"]
            /\ UNCHANGED <<pos, temp>>
       ELSE ParseMultipartForm
    /\ UNCHANGED <<body, form, closed>>

-----------------------------------------------------------------------------
(* The view.                                                               *)

\* Mutant: errors are not looked into.
StatusAlways500(e) == "500"

\* ServeHTTP's choice of status for an error from the view.
StatusOf(e) == IF e = "tooBig" THEN "413" ELSE "500"

\* Attribute a answers ans; a failing attribute ends the view, unless the view
\* asked for it with a default.
Answer(a, ans) ==
    /\ answers' = [answers EXCEPT ![a] = @ \cup {ans}]
    /\ \/ /\ ans.ok \/ (Defaults /\ a # "json")
          /\ UNCHANGED <<status, failed>>
       \/ /\ ~ans.ok
          /\ status' = StatusOf(ans.err)
          /\ failed' = a
    /\ UNCHANGED <<given, left>>

\* Mutant: the bytes read count, and the error does not.
ResultBytes(read) == Value(read.val)

\* Without its bytes an error is just an error.
Result(read) == IF read.ok THEN read ELSE Failure(read.err)

Running == status = "none"

Data ==
    /\ Running
    /\ ReadBody
    /\ Answer("data", Result(body'))
    /\ UNCHANGED <<form, parts, temp>>

\* What json.decode accepts, whatever the content type says: a text the client
\* meant as JSON, which is not empty and holds no part of a multipart body.
IsJSON(ps) ==
    /\ "json" \notin faults
    /\ ps # {}
    /\ ctype = "multipart" => \A i \in ps : sent[i] = "bad"

\* jsonBuiltin: json.decode of the bytes.
Json ==
    /\ Running
    /\ ReadBody
    /\ Answer("json", IF body'.ok /\ ~IsJSON(body'.val) THEN Failure("json")
                      ELSE Result(body'))
    /\ UNCHANGED <<form, parts, temp>>

\* request.form and request.values, which adds the query's arguments to it.
Form(a) ==
    /\ Running
    /\ IF ctype = "multipart"
       THEN /\ ParseMultipart
            /\ Answer(a, IF parts'.ok THEN Value(parts'.fields) ELSE Failure(parts'.err))
       ELSE /\ ParseForm
            /\ Answer(a, form')
            /\ UNCHANGED <<parts, temp>>

FilesAttr ==
    /\ Running
    /\ ParseMultipart
    /\ Answer("files", IF parts'.ok THEN Value(parts'.files) ELSE Failure(parts'.err))

\* The view returns a response, calls abort() or fails for reasons of its own.
Finish(s) ==
    /\ Running
    /\ status' = s
    /\ UNCHANGED <<given, pos, closed, body, form, parts, temp, failed, answers, left>>

\* Mutant: only the files the view could see are removed.
LeaveIfParsed ==
    /\ ~Running /\ ~left
    /\ left' = TRUE
    /\ temp' = IF parts.ok THEN 0 ELSE temp
    /\ UNCHANGED <<given, pos, closed, body, form, parts, status, failed, answers>>

\* ServeHTTP returns: the deferred function removes what ParseMultipartForm
\* left on disk, whether or not the view saw it.
Leave ==
    /\ ~Running /\ ~left
    /\ left' = TRUE
    /\ temp' = 0
    /\ UNCHANGED <<given, pos, closed, body, form, parts, status, failed, answers>>

Next ==
    \/ Data
    \/ Json
    \/ \E a \in {"form", "values"} : Form(a)
    \/ FilesAttr
    \/ \E s \in {"ok", "abort", "500"} : Finish(s)
    \/ Leave

Spec == Init /\ [][Next]_vars

-----------------------------------------------------------------------------
(* What must hold.                                                         *)

ReadErrors == {"tooBig", "broken"}
PartsErrors == ReadErrors \cup {"closed", "boundary", "refused", "query"}
Results == [ok : BOOLEAN, val : SUBSET All,
            err : PartsErrors \cup {"none", "undone", "json"}]
PartsResults == [ok : BOOLEAN, fields : SUBSET All, files : SUBSET All,
                 err : PartsErrors \cup {"none", "undone"}]

TypeOK ==
    /\ sent \in Bodies /\ ctype \in ContentTypes /\ limit \in Limits
    /\ faults \in Faults
    /\ arrives \in 0..Len(sent)
    /\ "connection" \notin faults => arrives = Len(sent)
    /\ pos \in 0..Allowed
    /\ closed \in BOOLEAN /\ left \in BOOLEAN
    /\ body \in Results /\ form \in Results
    /\ parts \in PartsResults
    /\ temp \in 0..Len(sent)
    /\ status \in {"none", "ok", "abort", "413", "500"}
    /\ failed \in Attrs \cup {"none"}
    /\ answers \in [Attrs -> SUBSET Results]

\* An attribute answers the same whenever it is asked, whatever the view asked
\* for in between, and form and values agree (the three sync.Once).
StableAnswers ==
    /\ \A a \in Attrs : \A x, y \in answers[a] : x = y
    /\ \A x \in answers["form"], y \in answers["values"] : x = y

\* What an attribute would answer, were it the first to read an uncut body.
Whole(a) ==
    CASE a \in {"data", "json"} -> All
      [] a \in {"form", "values"} /\ ctype = "multipart" -> Of("field", All)
      [] a \in {"form", "values"} /\ ctype = "urlencoded" -> ParseQuery(All)
      [] a = "files" /\ ctype = "multipart" -> Of("file", All)
      [] OTHER -> {}

\* No attribute passes off a part of the body as the whole, but two: the form of
\* an urlencoded body that could not be read to its end (parsedForm drops the
\* error; for a body beyond the limit there is a run of its own), and data and
\* json() of a multipart body whose parts were parsed before anyone read it whole.
NothingCutShort ==
    \A a \in Attrs : \A x \in answers[a] :
        \/ ~x.ok
        \/ x.val = Whole(a)
        \/ a \in {"form", "values"} /\ ctype = "urlencoded" /\ ReadError # "none"
        \/ /\ a \in {"data", "json"} /\ ctype = "multipart"
           /\ parts.err \in {"none", "refused", "query"}

\* The order in which a view asks decides nothing but this: form, values and
\* files fail only for a multipart body, and then because the body could not be
\* read to its end or its parts are refused, because the content type or the query
\* is malformed, or because data or json() came first and has closed it.  In
\* particular other bodies have no files, and that is no error.
FormFailsForCause ==
    \A a \in {"form", "values", "files"} : \A x \in answers[a] :
        ~x.ok => /\ ctype = "multipart"
                 /\ \/ ReadError # "none"
                    \/ Stops # {}
                    \/ faults \cap {"boundary", "query"} # {}
                    \/ answers["data"] \cup answers["json"] # {}

\* A 413 is the answer to a body that is too big and to nothing else, and a
\* view that dies reading such a body whole gets it (ServeHTTP's errors.As).
BlameTheBody ==
    /\ status = "413" => Over
    /\ Over /\ failed \in {"data", "json"} => status = "413"

\* Temporary files never outlive the request, however the view ended and
\* whether or not the parse they come from counted as a success; and a cap on
\* the body no larger than the memory cap keeps files off the disk.
TempFilesRemoved ==
    /\ left => temp = 0
    /\ Capped /\ limit <= MemoryCap => temp = 0

\* README.md:367: "Reads beyond the limit (request.data, request.json(),
\* request.form) fail and the response becomes HTTP 413".
BeyondLimitIs413 ==
    left /\ Over /\ (\E a \in {"data", "json", "form"} : answers[a] # {})
        => status = "413"
=============================================================================
