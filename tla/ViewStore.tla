----------------------------- MODULE ViewStore -----------------------------
(***************************************************************************)
(* What the handler promises about view files, with no cache, no stat and  *)
(* no read in sight: a request for a view is answered as ONE text that the *)
(* view's file really had at some moment between the request's arrival and *)
(* its answer.  A loadable text runs, a broken one is an error, and when   *)
(* there is no regular file the request falls through to the next handler  *)
(* (or is an error, when the file vanished after it had been resolved).    *)
(*                                                                         *)
(* ProgramCache, the code's stat / lookup / read / store sequence, is      *)
(* shown to implement this specification whenever every edit of a file     *)
(* gets a modification time of its own.                                    *)
(***************************************************************************)

CONSTANTS Requests,     \* the requests being served, one goroutine each
          Views,        \* absolute paths that URLs resolve to
          Contents,     \* texts a view file may have
          Broken,       \* those that do not compile
          NoText        \* stands for "no regular file here"

VARIABLES text,         \* text[v]: what the file at v holds now, or NoText
          phase,        \* phase[r]: "idle", "asked" or "answered"
          asked,        \* asked[r]: the view that request r names
          window,       \* window[r]: texts asked[r] has had since r arrived
          outcome,      \* outcome[r]: how r was answered
          ran           \* ran[r]: the program that answered it, or NoText

vars == <<text, phase, asked, window, outcome, ran>>

Texts == Contents \cup {NoText}

\* The answers that are right for a view whose file holds c.
Verdicts(c) == IF c = NoText THEN {"next", "error"}
               ELSE IF c \in Broken THEN {"error"} ELSE {"run"}

Init ==
    /\ text = [v \in Views |-> NoText]
    /\ phase = [r \in Requests |-> "idle"]
    /\ asked \in [Requests -> Views]
    /\ window = [r \in Requests |-> {}]
    /\ outcome = [r \in Requests |-> "none"]
    /\ ran = [r \in Requests |-> NoText]

\* Somebody edits, replaces or removes the file of view v.
Change(v, c) ==
    /\ text' = [text EXCEPT ![v] = c]
    /\ window' = [r \in Requests |->
                    IF phase[r] = "asked" /\ asked[r] = v
                    THEN window[r] \cup {c} ELSE window[r]]
    /\ UNCHANGED <<phase, asked, outcome, ran>>

Ask(r, v) ==
    /\ phase[r] = "idle"
    /\ phase' = [phase EXCEPT ![r] = "asked"]
    /\ asked' = [asked EXCEPT ![r] = v]
    /\ window' = [window EXCEPT ![r] = {text[v]}]
    /\ UNCHANGED <<text, outcome, ran>>

\* The one observable step: the answer is right for some text in the window.
Answer(r, c, o) ==
    /\ phase[r] = "asked"
    /\ c \in window[r]
    /\ o \in Verdicts(c)
    /\ phase' = [phase EXCEPT ![r] = "answered"]
    /\ outcome' = [outcome EXCEPT ![r] = o]
    /\ ran' = [ran EXCEPT ![r] = IF o = "run" THEN c ELSE NoText]
    /\ UNCHANGED <<text, asked, window>>

Close(r) ==
    /\ phase[r] = "answered"
    /\ phase' = [phase EXCEPT ![r] = "idle"]
    /\ window' = [window EXCEPT ![r] = {}]
    /\ outcome' = [outcome EXCEPT ![r] = "none"]
    /\ ran' = [ran EXCEPT ![r] = NoText]
    /\ UNCHANGED <<text, asked>>

Next ==
    \/ \E v \in Views, c \in Texts : Change(v, c)
    \/ \E r \in Requests, v \in Views : Ask(r, v)
    \/ \E r \in Requests, c \in Texts, o \in {"next", "error", "run"} :
          Answer(r, c, o)
    \/ \E r \in Requests : Close(r)

Spec == Init /\ [][Next]_vars
=============================================================================
