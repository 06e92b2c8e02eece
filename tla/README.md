# caddy-starlark in TLA+

caddy-starlark is a Caddy HTTP handler that maps a URL to a Starlark file, the *view*, runs its `respond(request)` function and turns what it returns into a response.
One Handler serves many requests at once, each in its own goroutine; the view files are edited while it does; the only state that outlives a request is the cache of compiled programs in the Handler, and the session cookie in the visitor's browser.
This directory holds a model of it, split along those lines, with configurations for TLC and proofs for TLAPS.
Source references are to the repository's `module.go`, `request.go`, `session.go`, `response.go`, `multidict.go`, `files.go`, `html.go`, `url.go`.

## Inventory

| component | state | operations | what is hard | what must hold | modules |
|---|---|---|---|---|---|
| View cache (`resolveView`'s Stat, `loadProgram`) | `Handler.cache`: program and mtime per path, under an RWMutex; the file system | Stat, Stat, Lookup, Read and compile, Store | no lock is held from Stat to Store; other requests and edits fall in between; equal or preserved mtimes | never run a text the file did not have during the request; fall through when there is no file; stop compiling when edits stop | `ProgramCache`, promise in `ViewStore` |
| Request body | `Request`: three `sync.Once` with their results; `r.Body`; temporary files | `data`, `json()`, `form`, `values`, `files` | a body can be read once, any attribute can be first; a cap; partial failure | stable answers, nothing cut short silently, failures only for a cause, 413 for a big body and only for it, temporary files removed | `RequestBody` |
| Sessions | none on the server: the cookie in the browser; per request two dicts | `request.session`, change, `writeSessionCookie` | overlapping requests, lost and reordered responses, forged and old cookies, a new secret key | only what the server wrote is a session; readers write nothing; an atomic last-writer-wins register | `Session`, promise in `SessionStore` |
| Reply | the ResponseWriter's header map | `coerceResponse`, `writeResponse`, the error returns of `ServeHTTP` | five writers of one header map, failures between them and after the status line | a refused result sends nothing; what is sent is what the view meant; no status out of range; no late error but by request | `Reply` |
| `ServeHTTP` as a whole | the stack of one request | resolve, load, `Program.Init`, entry point, call | which stage's failure gives which answer | each request is answered; the entry point runs only in a sound view, and always then | `Serving` |
| `resolveView`'s path algorithm | none | Clean, index, extension, confinement | `..`, dots in names, "" and "/" | the view is one the URL can mean; never outside the root | `ViewPath`, `Serving` |
| `load()` | none (no cache) | one per `load` statement | cycles, nesting, confinement to the view's own directory | as above, for loaded files | `ViewPath`, `Serving` |
| Configuration | `Handler`'s fields | `parseCaddyfile`, `Provision`, `Validate` | defaults against zero values and against each other, the width and sign of the cap | what is asked for is what is done | `Config`, `Serving` |
| MultiDict, FilesDict | lists of pairs | lookup, iteration, `getlist`, `keys`, ... | random order of Go maps, case of header names, `len` against iteration | all lookups agree, whatever the order | `MultiDict`, `Page` |
| `html`, `markup`, `escape` | none | text to HTML | any composition of them | shown to the letter, trusted only if the view says so | `Markup`, `Page` |
| `quote`, `unquote`, `urlencode` | none | text to URL | reserved characters, repeated keys | what a link is made of comes back | `URLText`, `Page` |
| FileStorage, `placeholder`, other attributes, `cmd/caddy`, example views | none | reads | – | – | not modelled |

The components meet in `ServeHTTP`: `resolveView` gives a path, or the request goes to the next handler; the cache yields a program, or the request ends in a 500; the program's top level runs, with those of the files it loads; the entry point is called with a `Request`, whose body and session attributes are lazy; when it returns, the session cookie goes into the header map first and the reply after it; the deferred function removes temporary files last.

## Modules

**`ProgramCache`** (module.go:149-167, 243-321).
`disk` is the file system (kind, text and modification time per path; `Above` says which view paths lie under which), `cache` is `Handler.cache.m`, `pc` and the per-request variables are the locals of `ServeHTTP` and `loadProgram`.
One action per access to shared state: `Resolve` (os.Stat), `Stat` (os.Stat), `Lookup` (RLock), `Read` (ReadFile, compile), `Store` (Lock).
`Install`, `MakeDir` and `Remove` are the people editing the site; an edit is atomic, as rename(2) is.
`Stamping` says where modification times come from: `"fresh"`, later than every earlier one; `"sameTick"`, within the clock's granularity of the last; `"kept"`, brought along by `mv` or `tar`.
`held` and `seen` are history variables: what a path has ever shown, and what it has shown since a request arrived.
A write in place that ReadFile sees half of, and the change of a directory's own time when a file in it changes, are left out.

**`ViewStore`** is the promise: a store without a cache, in which one atomic step answers a request from a text that the view had at some moment between request and answer.
`ProgramCache!ImplementsViewStore` maps the cache to it.

**`RequestBody`** (request.go:34-163, 228-262, 314-324; module.go:169-171, 202-225).
A body is a sequence of units (form pairs, file parts, garbage); limits count units.
What else can go wrong is a set of `faults` that a request is born with: a connection that breaks (by a timeout, a bad chunk, a client that leaves) when `arrives` units are there, a multipart content type without a usable boundary, a disk that takes no temporary file, a malformed query, a body that is no JSON.
`ReadError` is what reading the body to its end then ends with, the cap's error or the connection's.
A view is any sequence of attribute accesses; since `getattr(request, name, default)` swallows a failing attribute, it may go on after a failure.
`http.Request.ParseMultipartForm` and `MaxBytesReader` are modelled from how request.go uses them: the first looks for the boundary before it reads anything, fails on a closed body and on a read error, stops anywhere behind a part it refuses (`Stops`: malformed, more than `MaxParts`, more than fits into memory with `FieldSlack` for fields, a file when the disk is faulty), and reports a malformed query only after it has stored the parts; the second fails for good once the cap is reached.
What a refused part gives is a 500 whatever its reason: mime/multipart's own ErrMessageTooLarge has nothing to do with the cap.

**`Session`** (session.go; request.go:287-312; module.go:202-235).
A session dict is the set of its items; a cookie is such a set and the number of the key it was signed with (0: none), so a forgery is a cookie whose signature verifies under no key of the server.
There is one browser with a jar, any number of overlapping requests, loss and reordering of responses, a visitor who deletes or forges the cookie or puts back one he has had before (`seen`), and reloads that change the secret key while requests keep the old one.
`Return` does both halves of the end of `ServeHTTP` in their order: session cookie first, then the response, which may be refused or overwrite it.
Not in the model: cookies over the browser's size limit, a second browser (sessions share nothing).

**`SessionStore`** is the promise: per browser a register; a request works on a snapshot of it and either replaces the register or leaves it alone, in one step; the last one wins, overlapping writers lose updates, the visitor can turn the register back to any earlier content, and a change of the key empties it for good.

**`Reply`** (module.go:212-240; response.go:140-203, 281-437).
From `starlark.Call`'s return to `Write`'s, for one request: the session's cookie, the coercion, one step per key of the headers dict, the commit (cookies, content type, length, `WriteHeader`), the write.
Header values are tokens that say who wrote them; cookies are counted, those only that `http.SetCookie` accepts.
How net/http treats statuses (1xx but 101 are interim responses, after which the client gets a 200; 101, 204 and 304 take no body) is external.
`ReplyIsWhatViewMeant` says nothing of the status a client gets when the view's is an interim one (`Interim`); `StatusAsGiven` does, and is violated.

**`ViewPath`** (module.go:243-278, 328-341) has the path algorithm as operators.
A path is the sequence of its segments and a segment the sequence of what its dots separate, for slashes and dots are all the code looks at.
`resolveView` keeps the order of the code: name, extension, confinement, Stat.
`Confined` is its textual test on `filepath.Rel`'s result, which also refuses a first name that merely starts with two dots.
It is about names: the code follows symbolic links and so does not confine what they point to; the model has none.

**`Config`** (module.go:48-138, 141-146, 384-465) is the way from a directive to a Handler: `SetOption` for one subdirective, folded over the block, then `Provision` and `Valid`.
Sizes have `SizeRange` values, half of which are positive as an int64, so that the conversion from uint64 to int64 can wrap.
`IsDirective` says what the Caddyfile's lexer can leave: a path or an extension is made of `Words`, a size is any natural number or one of two words, and a subdirective may lack its argument, which is an error.

**`Serving`** (module.go:105-241, 323-358) takes one request from there to the call: `Configure`, `Resolve`, `LoadProgram`, `Load` (one load statement: read, check, begin the file's top level), `TopLevelEnds`, `EntryPoint`, `Call`.
A case (`IsCase`) is any directive, any URL path and any finite tree of files that load each other.
`stack` holds the files whose top levels are running, as the thread's stack does: there is no record of files loaded earlier, and a circle ends where the stack does (`MaxDepth`).
The files stand still here; what happens when they do not is in `ProgramCache` for the view itself.
Loaded files are not cached, so each load sees what is there at its moment; a file loaded twice in one request may be seen in two versions, which is not in the model.

**`MultiDict`** (multidict.go, files.go:80-213), **`URLText`** (url.go) and **`Markup`** (html.go) have the text functions and the multi-valued dicts as operators.
Each of the two dicts has its own operators, as each method of the code has a loop of its own: `Index` and `filesIndex` are Starlark's `d[key]` and `key in d` (the Go method `Get`), `get` and `filesGet` the method of that name.
Text is a sequence of characters, one for each of the 256 bytes; a template's hole, a tag and the name of an entity are one character each.
net/url's parsing and encoding, `textproto.CanonicalMIMEHeaderKey` and the browser are external.
The browser shows what stands between tags; a value put into an attribute of a tag is not modelled (`escape` covers both kinds of quotes, but an attribute without quotes is beyond it).

**`Page`** (request.go:103-117, 205-256, 326-336) uses them as views do: `Read` an attribute (twice, each time in some order of the Go map), take a value or make a link (`Take`, `Link`), put it through the helpers in any order (`Escape`, `Trust`, `Unwrap`, `Insert`, `AsTemplate`), `Respond`, and let the visitor `Follow` the link.
`odd` remembers what a view does that the helpers are not made for.
Its `form` is an urlencoded one.
Templates have one hole, since a value shown twice is not the value.

The `*Proofs` modules hold the theorems, `SeqLemmas` what several of them need to know of sequences and folds; the `MC*` modules give the constants their small values.

Operators marked *Mutant* are a definition of the code with a plausible mistake in it; putting one in the place of the definition that follows it makes one property fail, which is how each property is known to say something. Nothing else refers to them.

## Runs

| run | instance | shows |
|---|---|---|
| `CacheNested` | 2 requests, `hello.star` and `hello.star/index.star`, one good and one broken text, fresh stamps up to time 3, cache on | `TypeOK`, `NeverStale`, `ImplementsViewStore`; with fairness `CacheSettles` |
| `CacheCoarse` | 2 requests, one view, two good texts, fresh and equal stamps up to 2, cache on or off | `RunsUnderItsTime`, `UncachedNeverStale`, `MissingFallsThrough` |
| `CacheKept` | stamps preserved by moves | **violated**: `RunsUnderItsTime` |
| `Body` | all bodies of up to 3 units and three of 4, three content types, no cap and caps 1 to 3, memory cap 2, 3 parts, no fault, each fault alone and two pairs of them | `TypeOK`, `StableAnswers`, `NothingCutShort`, `FormFailsForCause`, `BlameTheBody`, `TempFilesRemoved` |
| `BodyForm` | the same, urlencoded only, no getattr defaults | **violated**: `BeyondLimitIs413` |
| `Session` | 2 requests, one ordinary and one unencodable item, one change of key | `TypeOK`, `OnlyOwnSessions`, `ReadersDoNotClobber`, `ImplementsSessionStore` |
| `SessionHeader` | a response with a `Set-Cookie` header of its own | **violated**: `SessionReissued` |
| `Reply` | every shape of result, statuses at and beyond both ends of the range, all headers dicts of up to two of 14 keys | `TypeOK`, `OnlyAcceptableIsSent`, `ReplyIsWhatViewMeant`, `LateErrorOnlyByRequest` |
| `ReplyInterim` | the same | **violated**: `StatusAsGiven` |
| `ReplyAbort` | the same | **violated**: `ErrorStatusValid` |
| `Serving` | every URL of up to three of five segments and some odd ones, 25 directives, a site of twelve files and variations of it with one file changed, 8 sizes, stack of 5 | `TypeOK`, `ReadsConfined`, `RightView`, `OnlySoundViewsRun`, `ForGoodReason`, `CapAsAsked`; with fairness `Answered` |
| `Page` | 256 characters; every query string of up to three of six of them, eight longer ones with four forms, 3 helpers on a value, 2 links followed | `TypeOK`, `LookupsAgree`, `ReadsAgree`, `ShownAsMeant`, `LinkKeepsArgs`, `QuoteRoundTrip` |

Why the bounds are enough to mean something.
Staleness needs one request that stores and one that hits, an edit between the first one's Stat and Read and one before the second's Lookup: two requests and three moments give all of them, and a goroutine that leaves can arrive again.
Two requests race for the store in either order.
Bodies of three units have room for a pair, a file and garbage in any order, with the cap before, between and after them and below, at and above the memory cap, the connection breaking anywhere, and the file count above and below the memory cap; those of four have a part too many, and three of them more than memory and disk take.
`FieldSlack` stands for mime/multipart's 10 MB; it is 0, so that fields alone can be too much.
Overlapping sessions need two requests; two headers with one name need two keys.
In `Serving` the site has a file of each name inside the view's directory, below it and above it, so that a path taken from the wrong place finds another file; the stack holds any chain of different files that these trees have (`TreesAreShallow`, which TLC evaluates) and nothing but the circles, of one, two and three files, overflows it; sizes lie on both sides of 0, of half the range and of the range; there are URLs, index names and loads that end in `..` or whose last name is all dots.
In `Page` three characters of raw query are enough for an escape, a pair and an empty key or value, and the longer ones carry an entity, a tag, a hole, escapes with digits of either case and repeated keys through the page and back.
`RequestBody`, `Reply`, `Serving` and `Page` end when the request does, so their runs do not look for deadlock; the others do.

### Where the code and its documentation part

1. `CacheKept`: "caches parsed programs in memory keyed by absolute path and modification time" (module.go:66-67). The program comes from a read made after the Stat that gave the time. If the file is replaced in between, the newer text is stored under the older time, and served once a file with that time is moved back.
2. `BodyForm`: "Reads beyond the limit (`request.data`, `request.json()`, `request.form`) fail and the response becomes HTTP 413" (README.md:367). `parsedForm` drops the read error of an urlencoded body: the view gets the form of the body's beginning. It drops every other read error, too, a timeout's or a broken connection's (`NothingCutShort` excepts them all by `ReadError`).
3. `SessionHeader`: "After the view returns, if the dict has changed, the session cookie is re-issued" (README.md:299). A `Set-Cookie` key in the view's headers dict replaces it.
4. `ReplyInterim`: "(body, status) → body + status" (response.go:277), and the test of valid edge statuses wants 100 back for 100 (handler_test.go:992-998), of a recorder. From net/http's server the client gets an interim response, if any, and then a 200.
5. `ReplyAbort`: statuses out of range are rejected "before they reach http.ResponseWriter.WriteHeader, which panics" (response.go:196-197). `abort()` does not check its status.

Seen on the way, with no run of their own: `resolveView` "returns fs.ErrNotExist when nothing matches so the request can fall through" (module.go:243-244), but below a regular file Stat fails with ENOTDIR, which `os.IsNotExist` (module.go:155) does not count, so that the request ends in a 500 (`ForGoodReason` states it, `MissingFallsThrough` is checked where no view lies below another); `"Hello, " + escape(...)` (README.md:236) fails, `Markup` having no `+` by intention (html.go:14); `unquote("100%")` is an error where Python's returns the text (url.go:22); `request.files` has no `values()`, which a comment promises (files.go:77-78); a Response's `set_cookie(..., max_age=0)` (response.go:95) makes a cookie without Max-Age where Flask's deletes it; files "in the same root directory" (README.md:166) can be loaded only from below the directory of the view (module.go:180); and a max_body_size from 2^63 on is no cap (`CapAsAsked` states it).

### Fairness

`CacheSettles` needs weak fairness of every request's own steps, for Go runs a runnable goroutine eventually, and the RWMutex is never held over I/O.
Nothing makes requests arrive or files change.
Edits are bounded by `MaxTime` when they create something, and removals by what there is to remove, so "once edits stop" happens in every behaviour of the instance.

`Answered` needs weak fairness of what `Serving` does up to the call (`ToTheCall`), which waits for nobody: a single sequence of steps of one goroutine.
It asks for no end of the call itself. A view that reads the body waits in `io.ReadAll` (request.go:85) for a client who may never send it, and nothing in this code has a timeout; so `Call` has no fairness, and `Answered` is that every request comes to its call or is answered before, the process being lost only to a circle of loads.
That a top level ends is no assumption about views: Starlark without the options for `while` and recursion (`syntax.FileOptions{}`, module.go:300 and 346) has no unbounded loop of its own, and the one there is, through `load`, is the one the model has.

## Proofs

`ProgramCacheProofs` proves, for every finite or infinite set of requests, views and texts, for every tree of paths and every setting of the cache:

- `TypeCorrect`: `Spec => []TypeOK`.
- `RunsUnderItsTimeCorrect`: if no edit preserves an old time (`"kept" \notin Stamping`), a program that runs is one its file had under a time it showed during the request.
- `NeverStaleCorrect`: if all stamps are fresh, nothing stale ever runs.
- `UncachedCorrect`: without the cache nothing stale ever runs, however edits are stamped.
- `FallsThroughCorrect`: where no view lies below another, a path with no file falls through, however edits are stamped.
- `Implementation`: if all stamps are fresh, `Spec => ImplementsViewStore`.

`SessionProofs` and `SessionStoreProofs` prove, for any number of overlapping requests, any items and any number of changes of the key:

- `TypeCorrect`: `Spec => []TypeOK`.
- `OnlyOwnSessionsCorrect`: a view works on a fresh session or on one the server wrote under the key in force when the request came in.
- `ReadersDoNotClobberCorrect`: delivering the answer of a request that left its session alone leaves the jar alone.
- `SessionIsAStore`: if no view sets a `Set-Cookie` header of its own (`"ownCookie" \notin Replies`), `Spec => ImplementsSessionStore`.

`RequestBodyProofs` proves, for bodies of any length, any limits, faults and sequences of accesses, `TypeCorrect`, `StableAnswersCorrect`, `NothingCutShortCorrect`, `FormFailsForCauseCorrect`, `BlameTheBodyCorrect`, `TempFilesRemovedCorrect`.

`ReplyProofs` proves, for any results and headers dicts of any length, `TypeCorrect`, `OnlyAcceptableIsSentCorrect`, `ReplyIsWhatViewMeantCorrect` (the headers always, the status unless it is an interim one), `LateErrorOnlyByRequestCorrect`.

`ServingProofs` proves, for every directive, URL, tree of files, working directory and depth of the stack:

- `Typed`: `Spec => []TypeOK`.
- `Confinement`: nothing is opened but below the root and below the view's own directory, whatever the URL, the index and the loads say.
- `ViewOfURL`: the view is a file that the URL can mean, and the request goes to the next handler only if there is none (names with a dot too many aside, see `RightView`).
- `CapOfDirective`: the cap is the size that the block asks for last, or the default.
- `SoundViews`: an entry point is called only when every file that its view reaches by `load` is without fault and none reaches itself.
- `GoodReason`: if the stack holds every chain of different files that load each other (`DeepEnough`), a 500 before the call has a cause in one of these files, in the path or in the entry point, and the process is lost only to a circle. `GoodReasonOfFewFiles`: so it is where there are no more files than the stack holds.

`PageProofs` proves, for every request, header, uploaded file, template and safe set, and any number of operations and links:

- `TypeCorrect`: `Spec => []TypeOK`.
- `LookupsTellOneStory`: `LookupsAgree`, indexing included, for MultiDicts and for the dict of files.
- `OrderNeverShows`: `ReadsAgree`, in whatever orders the Go maps yield their keys.
- `TextIsShown`: `ShownAsMeant`, for any composition of the helpers.
- `LinksSendAll`: `LinkKeepsArgs`, for any map and any bytes in it.
- `UnquoteTakesBack`: `QuoteRoundTrip`.

The arguments.

*The cache.*
`RunsUnderItsTime` is not inductive: a hit at time *t* is right only because of what was stored under *t*, possibly by a request that is long gone.
The inductive invariant `IInv` adds what the code relies on without saying: no face a path has held is newer than the clock (`Clock`), what is there now is among them (`Current`) and, when it exists, is the newest of them (`Newest`); a request in flight has seen what is at its view now, and only faces the view has held (`Watching`); a request past its Stat has seen a face with the modification time it carries, and every face with a later one (`Statted`); a cached program was in its file under the entry's time or a later one (`CachedWasHeld`), and a program about to be stored was seen so by its request (`StoringWasSeen`).
At a hit the entry's time is the request's: the program was held under that time, of which the request has seen a face, or under a later one, and then the request has seen the very face.
With fresh stamps two faces of one path with one time are the same face (`Unique`), which turns "a text held under a time seen" into "a text seen", that is `NeverStale`.
The refinement adds that cached programs compile (`Compiled`) and maps every action to an action of `ViewStore` or a stutter.
`UncachedCorrect` and `FallsThroughCorrect` have short invariants of their own; the latter's says that whoever is past `resolveView` has seen a file (`Found`).

*Sessions.*
`OnlyOwnSessions` speaks of what a view has opened, and that came from a jar: the invariant follows the cookie through every place it can be, the jar, a request, a response, the visitor's old ones (`Provenance`), and says that a request starts with nothing of its predecessor's (`Clean`), without which a change of the key between two requests would mix them.
The refinement adds that no cookie, wherever it is, is signed with a key of the future, so that a new key empties the abstract register and its past at once (`Dated`), and what each stage of a request has done so far: a response carries exactly the difference between the two dicts, or nothing when there is an error (`Stages`).
With that, a delivery is the register's atomic `Deliver`, everything before it a stutter or an edit of the request's own copy, and a tampering a `PutBack`.

*Bodies.*
The properties speak of all answers ever given, the code only of its three caches.
The inductive invariant ties the two: a cache that is filled never changes, each says what one reading of the body gives, an attribute that has answered has filled its cache, and every past answer equals the one the caches give now.
Stability is then immediate, and the other properties are read off the caches.
The count of files on disk needs that a subset of a finite set has no more elements.

*Replies.*
The invariant says what the header map is after *k* keys of the headers dict: for each name, the value of the last of these keys with that name, or what the session wrote before.
Each key extends it by one; at the commit *k* is the length, which makes it the header the view meant.
A list stops at its first bad value, which exists because the natural numbers are well-founded.

*Folds.*
Paths, blocks, texts and lists are taken apart with `FoldLeft` and `FlattenSeq`, whose definitions choose a function that solves an equation.
`SeqLemmas` proves that the equation has a solution on every finite sequence (`FoldExists`), that what solves it runs through the sequence from left to right (`FoldRuns`), and that a sequence with one element more ends one step further (`EndsAppend`); `FlattenAppend` says the same of `FlattenSeq`.
Each operator of the model that is a fold gets a lemma of that form: its value on `<<>>`, its type, its value on `Append(s, e)` (`CleanAppend`, `IterateAppend`, `RanAppend`, `SplitAppend`, ...).
A fact about all sequences then follows from `SeqSet`, by which a set that has `<<>>` and is closed under `Append` has them all; this is how induction is done without the theorems that take an operator as a parameter.

*One request.*
The inductive invariant `Inv` has five parts.
`Resolution` ties the view to what `resolveView` gives for the case; that this is the right file is then a lemma about paths (`RightResolution`), which rests on `Clean`'s never yielding `..` or a blank name and on its leaving what it yields as it is (`CleanTwice`).
`OpenedBelow`, `Capped` and `Running` say what has been opened, what the cap is, and that each frame of the stack is the load in hand of the one below it.
`SoundSoFar` is the part that is needed and not obvious.
Nothing records which files have been loaded, so it has to follow from the loads that have run to the end that there is no circle: each of them is `Sound`, with everything beyond it.
A circle through a file goes through one of its loads, and that load, being sound, reaches nothing that reaches itself; so a file all of whose loads have run is sound in its turn (`SoundAbove`).
`Beyond`, the files over any number of loads, takes as many rounds as there are files, and that nothing new can come after them is a count of the files (`BeyondIs`).
For `GoodReason`, the frames of a full stack with the load that overflows it are a chain longer than `DeepEnough` allows for different files, so one of them is in it twice, which is a circle that the view reaches (`FullIsCircular`).

*A page.*
The inductive invariant `IInv`, with which TLC agrees on the instance of the run, says where the two maps and the two reads come from (`SentOK`, `ReadOK`), and of the value in hand that as long as nothing odd was done it says what is meant (`SaysOK`): a string is that text to the letter, and markup shows it.
Beside that, markup that nobody trusted has no `<` of its own (`PieceOK`), which is what "only what the view trusted can be markup" is before the browser sees it.
Each helper keeps that, for a browser shows `escapeHTML(t)` as `t`, character by character (`EscapedIsShown`: after each it is at rest again), and a template around its one hole as what it shows of the value (`TemplateShows`).
The lookups are about two maps put one after the other, each in some order of its keys: under a key there is what the one map, then what the other has (`MapLookup`, `OfConcat`), `keys()` exists because `Before` orders every finite set of texts totally (`SortedIs`), and the length counts the pairs of a key and a place (`LengthIs`).
What the dict of files does is what a MultiDict with plain keys does (`FilesAre`), and its keys, which come in the map's order, are each there once (`IterateIs`).
The links are a chain of inverses: two hex digits are one byte, so a percent-escape is read back as its character (`EscapeIsRead`) and an escaped text as itself (`EscapesAreRead`); what `Encode` writes is the map's pairs with `&` between them (`EncodeIs`), and as no `&`, `;` or second `=` is left in a pair, `Split` and `PairOf` take them apart again (`PairsAreParts`, `PairOfIs`); grouped by key they are the map (`GroupedBack`), so `ParseQuery(Encode(m))` is `m` for every map (`EncodeIsRead`).

*What proving found.*
Attempts at `Serving` and `Page` that failed for a good reason changed the models, not the theorems.
In `Serving`, a URL of `/.` (which means `/.star`), an index that ends in `..` and the cases of `Stat` were not what the code does; and a view with a name like `..b.star`, which runs as a view but which no file can load, had not been told apart from a file that is at fault.
In `Page`, `url.PathUnescape` did not take lower-case hex digits, and not every byte had a character.
The instances now have such URLs, names and escapes.

The assumptions are the `ConstantsOK` of each module and, per theorem, the one about `Stamping`, `Above` or `Replies` named in it; `CacheKept` shows that the first of these cannot be dropped and `SessionHeader` the one about `Replies`; without the one about `Above` the 500 below a regular file refutes `MissingFallsThrough`; equal stamps refute `NeverStale`.
Of the constants of `Serving`, `ServingConstantsOK` asks no more than that a case is one; of the text, `TextConstantsOK` asks that there is a character for each byte and that the unreserved ones are not those with a meaning; `PageConstantsOK` asks that the maps are as net/http keeps them and that a template has one hole.
`DeepEnough` is an assumption about the site, which the instance satisfies (`TreesAreShallow`): with a stack too small for files that load each other in no circle, the process would be lost for no reason.

Only model-checked.
`CacheSettles` and `Answered`: liveness is out of the prover's reach.
Every safety property that a passing run checks is stated by a theorem.
The five runs that find a violation have only TLC's counterexample.

## Not modelled

- `FileStorage`: its attributes read the part's header, and `read()` opens the part afresh each time and so keeps no offset; that the file behind it exists while the view runs is in `RequestBody` (`temp`).
- `placeholder()`: a lookup in Caddy's replacer. Where it is defined (views) and where not (loaded files) is in `Serving`.
- `set_cookie`'s arguments, the attributes of `Request` that only read `http.Request` (method, url, host, cookies and so on), the rendering of values with `str()`.
- `cmd/caddy` and the example views.
- One module with everything in it: requests overlap where they share state (`ProgramCache`, `Session`) and run alone elsewhere, where they share none.
- Errors of Stat other than ENOENT and ENOTDIR (EACCES, ENAMETOOLONG), which end in a 500 like ENOTDIR.
- What is in Caddy's error page when a headers dict stops half-way: the headers set before it are in the map (response.go:309), and nothing says whether they should be.
- Compromises within the modelled parts are named with their module above.
