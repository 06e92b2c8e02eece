---------------------------- MODULE SessionStore ----------------------------
(***************************************************************************)
(* What request.session promises one visitor, with no cookie, signature,   *)
(* snapshot or header in sight: a register.  A request works on what the   *)
(* register held when the browser sent it; when the page arrives, a        *)
(* request that changed its copy replaces the register by it, and one that *)
(* did not leaves the register alone, whatever others wrote meanwhile.     *)
(* Overlapping writers overwrite each other.  When an error page arrives   *)
(* the register has been replaced or left alone; when nothing arrives it   *)
(* has been left alone.  The visitor can have it empty, or as it was at any*)
(* earlier time under the same secret: nothing dates a session.            *)
(***************************************************************************)
EXTENDS Naturals

CONSTANTS Requests,     \* requests of this visitor
          Items         \* what a session can hold

VARIABLES store,        \* the session, as the next request will find it
          past,         \* what it has been under the secret in use
          busy,         \* busy[r]: has r been sent and not been answered?
          stale,        \* stale[r]: has the secret changed since r was sent?
          snap,         \* snap[r]: what the session held when r was sent
          work,         \* work[r]: r's own copy of it
          told          \* told[r]: what the browser got back for r

vars == <<store, past, busy, stale, snap, work, told>>

Init ==
    /\ store = {} /\ past = {{}}
    /\ busy = [r \in Requests |-> FALSE]
    /\ stale = [r \in Requests |-> FALSE]
    /\ snap = [r \in Requests |-> {}]
    /\ work = [r \in Requests |-> {}]
    /\ told = [r \in Requests |-> "none"]

Begin(r) ==
    /\ ~busy[r]
    /\ busy' = [busy EXCEPT ![r] = TRUE]
    /\ stale' = [stale EXCEPT ![r] = FALSE]
    /\ snap' = [snap EXCEPT ![r] = store]
    /\ work' = [work EXCEPT ![r] = store]
    /\ told' = [told EXCEPT ![r] = "none"]
    /\ UNCHANGED <<store, past>>

Edit(r, S) ==
    /\ busy[r]
    /\ work' = [work EXCEPT ![r] = S]
    /\ UNCHANGED <<store, past, busy, stale, snap, told>>

\* What the register holds once r's copy has been saved.  A session saved
\* under a secret that is no longer in use is void.
Saved(r) == IF work[r] = snap[r] THEN store
            ELSE IF stale[r] THEN {} ELSE work[r]

Deliver(r, t) ==
    /\ busy[r]
    /\ \/ t \in {"page", "error"} /\ store' = Saved(r)
       \/ t \in {"error", "lost"} /\ store' = store
    /\ past' = past \cup {store'}
    /\ busy' = [busy EXCEPT ![r] = FALSE]
    /\ told' = [told EXCEPT ![r] = t]
    /\ snap' = [snap EXCEPT ![r] = {}]
    /\ work' = [work EXCEPT ![r] = {}]
    /\ stale' = [stale EXCEPT ![r] = FALSE]

\* The visitor loses the cookie, tampers with it or puts an old one back.
PutBack ==
    /\ store' \in past
    /\ UNCHANGED <<past, busy, stale, snap, work, told>>

\* The site gets another secret key.
Rotate ==
    /\ store' = {} /\ past' = {{}}
    /\ stale' = busy
    /\ UNCHANGED <<busy, snap, work, told>>

Next ==
    \/ \E r \in Requests : Begin(r)
    \/ \E r \in Requests, S \in SUBSET Items : Edit(r, S)
    \/ \E r \in Requests, t \in {"page", "error", "lost"} : Deliver(r, t)
    \/ PutBack
    \/ Rotate

Spec == Init /\ [][Next]_vars
=============================================================================
