---------------------------- MODULE MCRequestBody ----------------------------
(***************************************************************************)
(* Small instances of RequestBody for TLC.                                 *)
(***************************************************************************)
EXTENDS RequestBody

\* Every body of up to three units, and some that have one part too many.
MCBodies ==
    UNION {[1..n -> Units] : n \in 0..3}
    \cup {<<"file", "file", "file", "file">>, <<"file", "file", "file", "field">>,
          <<"field", "file", "file", "bad">>}

\* No cap, caps below and at the memory cap, and a cap above it.
MCLimits == {-1, 1, 2, 3}

\* No fault, each fault alone, and two at a time where both may show.
MCFaults ==
    {{}, {"query"}, {"boundary"}, {"disk"}, {"connection"}, {"json"},
     {"query", "connection"}, {"boundary", "connection"}}
=============================================================================
