--------------------------- MODULE MCProgramCache ---------------------------
(***************************************************************************)
(* Small instances of ProgramCache for TLC.                                *)
(***************************************************************************)
EXTENDS ProgramCache, TLC

CONSTANTS r1, r2, hello, index, good, better, bad

\* Two views apart, and a directory hello.star with an index.star in it.
FlatAbove == [v \in Views |-> {}]
NestedAbove == hello :> {} @@ index :> {hello}

\* Files prepared at moments 1 and 2 and later put in place, time and all.
MCKeptStamp == [c \in Contents |-> IF c = better THEN 2 ELSE 1]

RequestSymmetry == Permutations(Requests)
TextSymmetry == Permutations(Contents \ Broken)
Symmetry == RequestSymmetry \cup TextSymmetry
=============================================================================
