------------------------------- MODULE SeqLemmas -------------------------------
(***************************************************************************)
(* Lemmas about sequences and their folds, for the proofs about the        *)
(* modules that take paths, blocks and texts apart.                        *)
(*                                                                         *)
(* FoldLeft(Op, base, s) is the value at DOMAIN s of a function on the     *)
(* subsets of DOMAIN s that satisfies an equation, if there is one.  Here  *)
(* is that there is one, and what follows from the equation; a lemma for   *)
(* each Op, in the module that needs it, does the rest.                    *)
(***************************************************************************)
EXTENDS Integers, SequencesExt, SequenceTheorems, FiniteSetTheorems,
        WellFoundedInduction, TLAPS

-----------------------------------------------------------------------------
(* Natural numbers.                                                        *)

LEMMA LeastOf ==
    ASSUME NEW S \in SUBSET Nat, S # {}
    PROVE  \E m \in S : \A k \in S : m <= k
<1> DEFINE R == {q \in Nat \X Nat : q[1] < q[2]}
<1>1. R = OpToRel(<, Nat)
  BY DEF OpToRel
<1>2. IsWellFoundedOn(R, Nat)
  BY <1>1, NatLessThanWellFounded
<1>3. \A a, b \in Nat : a < b => <<a, b>> \in R
  OBVIOUS
<1> HIDE DEF R
<1>4. \E m \in S : \A k \in S : ~ (<<k, m>> \in R)
  BY <1>2, WFMin
<1>5. PICK m \in S : \A k \in S : ~ (<<k, m>> \in R)
  BY <1>4
<1>6. ASSUME NEW k \in S PROVE m <= k
  <2>1. ~ (k < m)
    BY <1>3, <1>5
  <2> QED BY <2>1
<1> QED BY <1>6

\* Induction over the natural numbers, for a set of them.
LEMMA NatSet ==
    ASSUME NEW S, 0 \in S, \A n \in Nat : n \in S => n + 1 \in S
    PROVE  \A n \in Nat : n \in S
<1> DEFINE Bad == {n \in Nat : n \notin S}
<1>1. SUFFICES ASSUME Bad # {} PROVE FALSE
  OBVIOUS
<1>2. PICK m \in Bad : \A k \in Bad : m <= k
  BY <1>1, LeastOf
<1>3. m \in Nat /\ m # 0 /\ m \notin S
  BY <1>2
<1>4. m - 1 \in Nat /\ m - 1 \notin Bad
  BY <1>2, <1>3
<1>5. m - 1 \in S
  BY <1>4
<1>6. (m - 1) + 1 \in S
  BY <1>4, <1>5
<1>7. (m - 1) + 1 = m
  BY <1>3
<1> QED BY <1>3, <1>6, <1>7

\* The same up to a bound.
LEMMA UpTo ==
    ASSUME NEW N \in Nat, NEW S, 0 \in S, \A n \in 1..N : n - 1 \in S => n \in S
    PROVE  \A n \in 0..N : n \in S
<1> DEFINE T == {n \in Nat : n <= N => n \in S}
<1>1. 0 \in T
  OBVIOUS
<1>2. ASSUME NEW n \in Nat, n \in T PROVE n + 1 \in T
  <2>1. n + 1 <= N => n + 1 \in 1..N /\ (n + 1) - 1 = n /\ n \in S
    BY <1>2
  <2>2. n + 1 <= N => n + 1 \in S
    BY <2>1
  <2> QED BY <2>2
<1> HIDE DEF T
<1>3. \A n \in Nat : n \in T
  BY <1>1, <1>2, NatSet
<1> QED BY <1>3 DEF T

\* What holds of the first value of a function on 0..N and is kept by every
\* step holds of all.
LEMMA Along ==
    ASSUME NEW N \in Nat, NEW h, NEW A,
           h[0] \in A, \A i \in 1..N : h[i - 1] \in A => h[i] \in A
    PROVE  \A i \in 0..N : h[i] \in A
<1> DEFINE S == {i \in Nat : h[i] \in A}
<1>1. 0 \in S /\ \A n \in 1..N : n - 1 \in S => n \in S
  OBVIOUS
<1> HIDE DEF S
<1>2. \A i \in 0..N : i \in S
  BY <1>1, UpTo
<1> QED BY <1>2 DEF S

-----------------------------------------------------------------------------
(* Sequences.                                                              *)

LEMMA FrontType ==
    ASSUME NEW S, NEW p \in Seq(S), p # <<>>
    PROVE  /\ Front(p) \in Seq(S) /\ Len(Front(p)) = Len(p) - 1
           /\ \A i \in 1..Len(p) - 1 : Front(p)[i] = p[i]
           /\ Last(p) \in S
           /\ Len(p) \in Nat \ {0}
<1>1. Len(p) \in Nat \ {0} /\ \A i \in 1..Len(p) : p[i] \in S
  BY EmptySeq, ElementOfSeq
<1>2. /\ Front(p) \in Seq(S)
      /\ Len(Front(p)) = IF 1 <= Len(p) - 1 THEN (Len(p) - 1) - 1 + 1 ELSE 0
      /\ \A i \in 1..(Len(p) - 1) - 1 + 1 : Front(p)[i] = p[1 + i - 1]
  <2>1. Len(p) - 1 \in Int /\ 1 \in Int /\ \A i \in 1..Len(p) - 1 : p[i] \in S
    BY <1>1
  <2> QED BY <2>1, SubSeqProperties DEF Front
<1>3. Len(p) - 1 = IF 1 <= Len(p) - 1 THEN (Len(p) - 1) - 1 + 1 ELSE 0
  BY <1>1
<1>4. Last(p) \in S
  BY <1>1 DEF Last
<1>5. \A i \in 1..Len(p) - 1 : i \in 1..(Len(p) - 1) - 1 + 1 /\ 1 + i - 1 = i
  BY <1>1
<1> QED BY <1>1, <1>2, <1>3, <1>4, <1>5

LEMMA FrontAndLast ==
    ASSUME NEW S, NEW p \in Seq(S), p # <<>>
    PROVE  p = Append(Front(p), Last(p))
<1>1. Front(p) \in Seq(S) /\ Last(p) \in S /\ Len(Front(p)) = Len(p) - 1
      /\ Len(p) \in Nat \ {0} /\ \A i \in 1..Len(p) - 1 : Front(p)[i] = p[i]
  BY FrontType
<1>2. Append(Front(p), Last(p)) \in Seq(S) /\ Len(Append(Front(p), Last(p))) = Len(p)
      /\ \A i \in 1..Len(p) - 1 : Append(Front(p), Last(p))[i] = Front(p)[i]
      /\ Append(Front(p), Last(p))[Len(p)] = Last(p)
  <2>1. (Len(p) - 1) + 1 = Len(p)
    BY <1>1
  <2> QED BY <1>1, <2>1, AppendProperties
<1>3. \A i \in 1..Len(p) : p[i] = Append(Front(p), Last(p))[i]
  <2>1. \A i \in 1..Len(p) : i \in 1..Len(p) - 1 \/ i = Len(p)
    BY <1>1
  <2> QED BY <1>1, <1>2, <2>1 DEF Last
<1> QED BY <1>1, <1>2, <1>3, SeqEqual

LEMMA ConcatAppend ==
    ASSUME NEW S, NEW p \in Seq(S), NEW q \in Seq(S), NEW e \in S
    PROVE  p \o Append(q, e) = Append(p \o q, e)
<1>1. Append(q, e) = q \o <<e>> /\ <<e>> \in Seq(S) /\ p \o q \in Seq(S)
  BY AppendIsConcat, ConcatProperties
<1>2. Append(p \o q, e) = (p \o q) \o <<e>>
  BY <1>1, AppendIsConcat
<1>3. p \o (q \o <<e>>) = (p \o q) \o <<e>>
  BY <1>1, ConcatAssociative
<1> QED BY <1>1, <1>2, <1>3

LEMMA PrefixIs ==
    ASSUME NEW S, NEW p \in Seq(S), NEW q \in Seq(S)
    PROVE  IsPrefix(p, q) <=> Len(p) <= Len(q) /\ \A i \in 1..Len(p) : p[i] = q[i]
<1>1. Len(p) \in Nat /\ Len(q) \in Nat
      /\ (\A i \in 1..Len(p) : p[i] \in S) /\ \A i \in 1..Len(q) : q[i] \in S
  BY LenProperties, ElementOfSeq
<1>2. SubSeq(p, 1, Len(p)) = p
  BY SubSeqFull
<1>3. SUFFICES ASSUME Len(p) <= Len(q)
               PROVE  SubSeq(p, 1, Len(p)) = SubSeq(q, 1, Len(p))
                      <=> \A i \in 1..Len(p) : p[i] = q[i]
  BY DEF IsPrefix
<1> DEFINE u == SubSeq(q, 1, Len(p))
<1>4. u \in Seq(S) /\ Len(u) = Len(p) /\ \A i \in 1..Len(p) : u[i] = q[i]
  <2>1. \A i \in 1..Len(p) : q[i] \in S
    BY <1>1, <1>3
  <2>2. /\ u \in Seq(S)
        /\ Len(u) = IF 1 <= Len(p) THEN Len(p) - 1 + 1 ELSE 0
        /\ \A i \in 1..Len(p) - 1 + 1 : u[i] = q[1 + i - 1]
    BY <1>1, <2>1, SubSeqProperties
  <2>3. Len(p) = IF 1 <= Len(p) THEN Len(p) - 1 + 1 ELSE 0
    BY <1>1
  <2>4. \A i \in 1..Len(p) : i \in 1..Len(p) - 1 + 1 /\ 1 + i - 1 = i
    BY <1>1
  <2> QED BY <2>2, <2>3, <2>4
<1> HIDE DEF u
<1>5. p = u <=> \A i \in 1..Len(p) : p[i] = u[i]
  BY <1>4, SeqEqual
<1> QED BY <1>2, <1>4, <1>5 DEF u

LEMMA PrefixOfConcat ==
    ASSUME NEW S, NEW p \in Seq(S), NEW q \in Seq(S), q # <<>>
    PROVE  /\ p \o q \in Seq(S) /\ p \o q # <<>>
           /\ IsPrefix(p, p \o q)
           /\ IsPrefix(p, Front(p \o q))
           /\ Len(p \o q) > Len(p) /\ (p \o q)[Len(p) + 1] = Head(q)
<1>1. Len(p) \in Nat /\ Len(q) \in Nat \ {0}
  BY LenProperties, EmptySeq
<1>2. p \o q \in Seq(S) /\ Len(p \o q) = Len(p) + Len(q)
      /\ \A i \in 1..Len(p) + Len(q) :
            (p \o q)[i] = IF i <= Len(p) THEN p[i] ELSE q[i - Len(p)]
  BY ConcatProperties
<1>3. Len(p \o q) > Len(p) /\ (p \o q)[Len(p) + 1] = q[1]
  BY <1>1, <1>2
<1>4. Head(q) = q[1]
  BY <1>1
<1>5. p \o q # <<>>
  BY <1>1, <1>3
<1>6. Front(p \o q) \in Seq(S) /\ Len(Front(p \o q)) = Len(p) + Len(q) - 1
      /\ \A i \in 1..Len(p) + Len(q) - 1 : Front(p \o q)[i] = (p \o q)[i]
  <2>1. Len(Front(p \o q)) = Len(p \o q) - 1 /\ Front(p \o q) \in Seq(S)
        /\ \A i \in 1..Len(p \o q) - 1 : Front(p \o q)[i] = (p \o q)[i]
    BY <1>2, <1>5, FrontType
  <2> QED BY <1>2, <2>1
<1>7. IsPrefix(p, p \o q)
  <2>1. \A i \in 1..Len(p) : p[i] = (p \o q)[i]
    BY <1>1, <1>2
  <2>2. Len(p) <= Len(p \o q)
    BY <1>1, <1>2
  <2> QED BY <1>2, <2>1, <2>2, PrefixIs
<1>8. IsPrefix(p, Front(p \o q))
  <2>1. \A i \in 1..Len(p) : p[i] = Front(p \o q)[i]
    BY <1>1, <1>2, <1>6
  <2>2. Len(p) <= Len(Front(p \o q))
    BY <1>1, <1>6
  <2> QED BY <1>6, <2>1, <2>2, PrefixIs
<1> QED BY <1>2, <1>3, <1>4, <1>5, <1>7, <1>8

LEMMA PrefixTransitive ==
    ASSUME NEW S, NEW p \in Seq(S), NEW q \in Seq(S), NEW r \in Seq(S),
           IsPrefix(p, q), IsPrefix(q, r)
    PROVE  IsPrefix(p, r)
<1>1. Len(p) <= Len(q) /\ \A i \in 1..Len(p) : p[i] = q[i]
  BY PrefixIs
<1>2. Len(q) <= Len(r) /\ \A i \in 1..Len(q) : q[i] = r[i]
  BY PrefixIs
<1>3. Len(p) \in Nat /\ Len(q) \in Nat /\ Len(r) \in Nat
  BY LenProperties
<1>4. Len(p) <= Len(r) /\ \A i \in 1..Len(p) : p[i] = r[i]
  BY <1>1, <1>2, <1>3
<1> QED BY <1>4, PrefixIs

-----------------------------------------------------------------------------
(* Folds.                                                                  *)

LEMMA MaxUpTo ==
    ASSUME NEW n \in Nat, NEW t \in SUBSET (1..n + 1), n + 1 \in t
    PROVE  Max(t) = n + 1
<1>1. \A y \in t : n + 1 >= y
  OBVIOUS
<1>2. \A x \in t : (\A y \in t : x >= y) => x = n + 1
  OBVIOUS
<1> QED BY <1>1, <1>2 DEF Max

LEMMA MaxOf ==
    ASSUME NEW n \in Nat, NEW t \in SUBSET (1..n), t # {}
    PROVE  Max(t) \in t /\ \A y \in t : y <= Max(t)
<1> DEFINE S == {k \in Nat : \A y \in t : y <= k}
<1>1. n \in S
  OBVIOUS
<1>2. PICK k \in S : \A j \in S : k <= j
  BY <1>1, LeastOf
<1>3. k \in t
  <2>1. SUFFICES ASSUME k \notin t PROVE FALSE
    OBVIOUS
  <2>2. k \in Nat /\ \A y \in t : y \in Nat /\ y <= k /\ y # k /\ y > 0
    BY <1>2, <2>1
  <2>3. PICK y \in t : TRUE
    OBVIOUS
  <2>4. k > 0 /\ \A z \in t : z <= k - 1
    BY <2>2, <2>3
  <2>5. k - 1 \in S
    BY <2>2, <2>4
  <2> QED BY <1>2, <2>2, <2>5
<1>4. \E x \in t : \A y \in t : x >= y
  BY <1>2, <1>3
<1> QED BY <1>4 DEF Max

\* it solves the equation of FoldLeft(f, base, s) in A; h runs through that fold.
IsFold(it, f, base, s, A) ==
    /\ it \in [SUBSET DOMAIN s -> A]
    /\ \A t \in SUBSET DOMAIN s :
          it[t] = IF t = {} THEN base ELSE f[<<it[t \ {Max(t)}], s[Max(t)]>>]

\* The same of what is in A only.
IsPartlyFold(it, f, base, s, A) ==
    /\ it[{}] = base
    /\ \A t \in SUBSET DOMAIN s :
          t # {} /\ it[t \ {Max(t)}] \in A
          => it[t] = f[<<it[t \ {Max(t)}], s[Max(t)]>>]

IsRun(h, f, base, s, A) ==
    /\ h \in [0..Len(s) -> A]
    /\ h[0] = base
    /\ \A i \in 1..Len(s) : h[i] = f[<<h[i - 1], s[i]>>]

EndsIn(v, f, base, s, A) == \E h : IsRun(h, f, base, s, A) /\ v = h[Len(s)]

\* The equation has a solution.
LEMMA FoldExists ==
    ASSUME NEW A, NEW B, NEW f \in [A \X B -> A], NEW base \in A, NEW s \in Seq(B)
    PROVE  \E it : IsFold(it, f, base, s, A)
<1> DEFINE Solves(n, it) ==
              /\ it \in [SUBSET (1..n) -> A]
              /\ \A t \in SUBSET (1..n) :
                    it[t] = IF t = {} THEN base ELSE f[<<it[t \ {Max(t)}], s[Max(t)]>>]
           S == {n \in 0..Len(s) : \E it : Solves(n, it)}
<1>1. DOMAIN s = 1..Len(s) /\ Len(s) \in Nat /\ \A i \in 1..Len(s) : s[i] \in B
  BY LenProperties, ElementOfSeq
<1>2. 0 \in S
  <2>1. 1..0 = {} /\ SUBSET (1..0) = {{}}
    OBVIOUS
  <2>2. Solves(0, [t \in SUBSET (1..0) |-> base])
    BY <2>1
  <2> HIDE DEF Solves
  <2> QED BY <1>1, <2>2
<1>3. ASSUME NEW n \in 1..Len(s), n - 1 \in S PROVE n \in S
  <2>1. PICK it : Solves(n - 1, it)
    BY <1>3
  <2> DEFINE jt == [t \in SUBSET (1..n) |->
                       IF n \in t THEN f[<<it[t \ {n}], s[n]>>] ELSE it[t]]
  <2>2. n \in Nat /\ n - 1 \in Nat /\ (n - 1) + 1 = n /\ n # n - 1
    BY <1>1
  <2>3. ASSUME NEW t \in SUBSET (1..n), n \in t
        PROVE  /\ Max(t) = n /\ t \ {n} \in SUBSET (1..n - 1)
               /\ t \ {n} \in SUBSET (1..n)
               /\ jt[t] \in A
               /\ jt[t] = f[<<jt[t \ {Max(t)}], s[Max(t)]>>]
    <3>1. Max(t) = n
      BY <2>2, <2>3, MaxUpTo
    <3>2. t \ {n} \in SUBSET (1..n - 1) /\ t \ {n} \in SUBSET (1..n)
      BY <2>2
    <3>3. it[t \ {n}] \in A /\ s[n] \in B
      BY <1>1, <2>1, <3>2
    <3>4. jt[t] = f[<<it[t \ {n}], s[n]>>] /\ jt[t \ {n}] = it[t \ {n}]
      BY <2>3, <3>2
    <3>5. jt[t] \in A
      BY <3>3, <3>4
    <3> QED BY <3>1, <3>2, <3>4, <3>5
  <2>4. ASSUME NEW t \in SUBSET (1..n), n \notin t
        PROVE  /\ jt[t] \in A
               /\ jt[t] = IF t = {} THEN base ELSE f[<<jt[t \ {Max(t)}], s[Max(t)]>>]
    <3>0. t \in SUBSET (1..n - 1)
      BY <2>2, <2>4
    <3>1. /\ t \ {Max(t)} \in SUBSET (1..n - 1)
          /\ t \ {Max(t)} \in SUBSET (1..n)
          /\ n \notin t \ {Max(t)}
      BY <2>4, <3>0
    <3>2. jt[t] = it[t] /\ jt[t \ {Max(t)}] = it[t \ {Max(t)}]
      BY <2>4, <3>1
    <3> QED BY <2>1, <3>0, <3>1, <3>2
  <2>5. \A t \in SUBSET (1..n) : jt[t] \in A
    BY <2>3, <2>4
  <2>6. jt \in [SUBSET (1..n) -> A]
    BY <2>5
  <2>7. \A t \in SUBSET (1..n) :
           jt[t] = IF t = {} THEN base ELSE f[<<jt[t \ {Max(t)}], s[Max(t)]>>]
    BY <2>3, <2>4
  <2> HIDE DEF jt
  <2>8. Solves(n, jt)
    BY <2>6, <2>7
  <2>9. n \in 0..Len(s)
    BY <1>1
  <2> QED BY <2>8, <2>9
<1> HIDE DEF Solves
<1>4. Len(s) \in S
  <2> HIDE DEF S
  <2>1. \A n \in 0..Len(s) : n \in S
    BY <1>1, <1>2, <1>3, UpTo
  <2> QED BY <1>1, <2>1
<1>5. PICK it : Solves(Len(s), it)
  BY <1>4
<1> QED BY <1>1, <1>5 DEF Solves, IsFold

\* The initial segments of 1..N, along which a solution runs through s.
LEMMA Segments ==
    ASSUME NEW N \in Nat
    PROVE  /\ 1..0 = {}
           /\ \A i \in 0..N : 1..i \in SUBSET (1..N)
           /\ \A i \in 1..N : 1..i # {} /\ Max(1..i) = i /\ (1..i) \ {i} = 1..(i - 1)
<1>1. ASSUME NEW i \in 1..N PROVE Max(1..i) = i
  <2>1. i - 1 \in Nat /\ (i - 1) + 1 = i
        /\ 1..i \in SUBSET (1..(i - 1) + 1) /\ (i - 1) + 1 \in 1..i
    OBVIOUS
  <2>2. Max(1..i) = (i - 1) + 1
    BY <2>1, MaxUpTo
  <2> QED BY <2>1, <2>2
<1>2. \A i \in 1..N : 1..i # {} /\ (1..i) \ {i} = 1..(i - 1)
  OBVIOUS
<1>3. 1..0 = {} /\ \A i \in 0..N : 1..i \in SUBSET (1..N)
  OBVIOUS
<1> QED BY <1>1, <1>2, <1>3

\* A solution runs through s, and what it runs through is of its type.
LEMMA FoldRuns ==
    ASSUME NEW A, NEW B, NEW f \in [A \X B -> A], NEW base \in A, NEW s \in Seq(B), NEW it,
           IsPartlyFold(it, f, base, s, A)
    PROVE  EndsIn(it[DOMAIN s], f, base, s, A)
<1> DEFINE h == [i \in 0..Len(s) |-> it[1..i]]
<1>1. DOMAIN s = 1..Len(s) /\ Len(s) \in Nat /\ \A i \in 1..Len(s) : s[i] \in B
  BY LenProperties, ElementOfSeq
<1>2. h[0] = base
  BY <1>1, Segments DEF IsPartlyFold
<1>3. ASSUME NEW i \in 1..Len(s), h[i - 1] \in A
      PROVE  h[i] = f[<<h[i - 1], s[i]>>] /\ h[i] \in A
  <2>1. 1..i \in SUBSET DOMAIN s /\ 1..i # {} /\ Max(1..i) = i
        /\ (1..i) \ {i} = 1..(i - 1)
    <3>1. i \in 0..Len(s)
      BY <1>1
    <3> QED BY <1>1, <3>1, Segments
  <2>2. i \in 0..Len(s) /\ i - 1 \in 0..Len(s)
    BY <1>1
  <2>3. h[i] = it[1..i] /\ h[i - 1] = it[1..(i - 1)]
    BY <2>2
  <2>4. it[1..i] = f[<<it[1..(i - 1)], s[i]>>]
    BY <1>3, <2>1, <2>3 DEF IsPartlyFold
  <2> QED BY <1>1, <1>3, <2>3, <2>4
<1>4. it[DOMAIN s] = h[Len(s)]
  BY <1>1
<1>5. h = [i \in 0..Len(s) |-> h[i]]
  OBVIOUS
<1> HIDE DEF h
<1>6. \A i \in 0..Len(s) : h[i] \in A
  BY <1>1, <1>2, <1>3, Along
<1>7. h \in [0..Len(s) -> A]
  BY <1>5, <1>6
<1>8. \A i \in 1..Len(s) : i - 1 \in 0..Len(s)
  BY <1>1
<1>9. \A i \in 1..Len(s) : h[i] = f[<<h[i - 1], s[i]>>]
  BY <1>3, <1>6, <1>8
<1> QED BY <1>2, <1>4, <1>7, <1>9 DEF IsRun, EndsIn

\* What runs through s and one more ends one step further.
LEMMA EndsAppend ==
    ASSUME NEW A, NEW B, NEW f, NEW base, NEW s \in Seq(B), NEW e \in B, NEW v, NEW w,
           EndsIn(v, f, base, s, A), EndsIn(w, f, base, Append(s, e), A)
    PROVE  v \in A /\ w \in A /\ w = f[<<v, e>>]
<1> DEFINE q == Append(s, e)
           n == Len(s)
<1>1. n \in Nat /\ Len(q) = n + 1 /\ q[n + 1] = e /\ \A i \in 1..n : q[i] = s[i]
  BY AppendProperties, LenProperties
<1>2. PICK h : IsRun(h, f, base, s, A) /\ v = h[n]
  BY DEF EndsIn
<1>3. PICK g : IsRun(g, f, base, q, A) /\ w = g[Len(q)]
  BY DEF EndsIn
<1> DEFINE T == {i \in Nat : g[i] = h[i]}
<1>4. 0 \in T
  BY <1>2, <1>3 DEF IsRun
<1>5. ASSUME NEW i \in 1..n, i - 1 \in T PROVE i \in T
  <2>1. i \in 1..Len(q) /\ q[i] = s[i] /\ g[i - 1] = h[i - 1] /\ i \in Nat
    BY <1>1, <1>5
  <2>2. g[i] = f[<<g[i - 1], q[i]>>] /\ h[i] = f[<<h[i - 1], s[i]>>]
    BY <1>2, <1>3, <2>1 DEF IsRun
  <2> QED BY <2>1, <2>2
<1> HIDE DEF T
<1>6. \A i \in 0..n : i \in T
  BY <1>1, <1>4, <1>5, UpTo
<1>7. g[n] = h[n]
  BY <1>1, <1>6 DEF T
<1>8. g[n + 1] = f[<<g[n], e>>]
  <2>1. n + 1 \in 1..Len(q) /\ (n + 1) - 1 = n
    BY <1>1
  <2> QED BY <1>1, <1>3, <2>1 DEF IsRun
<1>9. v \in A /\ w \in A
  <2>1. n \in 0..n /\ Len(q) \in 0..Len(q)
    BY <1>1
  <2> QED BY <1>2, <1>3, <2>1 DEF IsRun
<1> QED BY <1>1, <1>2, <1>3, <1>7, <1>8, <1>9

LEMMA EndsEmpty ==
    ASSUME NEW A, NEW f, NEW base, NEW v, EndsIn(v, f, base, <<>>, A)
    PROVE  v = base
BY DEF EndsIn, IsRun

\* Sequences are built up one element at a time.
LEMMA SeqSet ==
    ASSUME NEW B, NEW P, <<>> \in P,
           \A s \in Seq(B) \cap P, e \in B : Append(s, e) \in P
    PROVE  Seq(B) \subseteq P
<1> DEFINE T == {n \in Nat : \A s \in Seq(B) : Len(s) = n => s \in P}
<1>1. 0 \in T
  <2>1. \A s \in Seq(B) : Len(s) = 0 => s = <<>>
    BY EmptySeq
  <2> QED BY <2>1
<1>2. ASSUME NEW n \in Nat, n \in T PROVE n + 1 \in T
  <2>1. SUFFICES ASSUME NEW s \in Seq(B), Len(s) = n + 1 PROVE s \in P
    OBVIOUS
  <2>2. s # <<>>
    BY <2>1, EmptySeq
  <2>3. Front(s) \in Seq(B) /\ Len(Front(s)) = n /\ Last(s) \in B
    BY <2>1, <2>2, FrontType
  <2>4. Front(s) \in P
    BY <1>2, <2>3
  <2>5. s = Append(Front(s), Last(s))
    BY <2>2, FrontAndLast
  <2> QED BY <2>3, <2>4, <2>5
<1> HIDE DEF T
<1>3. \A n \in Nat : n \in T
  BY <1>1, <1>2, NatSet
<1>4. ASSUME NEW s \in Seq(B) PROVE s \in P
  <2>1. Len(s) \in Nat
    BY LenProperties
  <2> QED BY <1>3, <2>1 DEF T
<1> QED BY <1>4

\* FlattenSeq puts the pieces together from left to right.
LEMMA FlattenRuns ==
    ASSUME NEW S, NEW ss \in Seq(Seq(S)), NEW f,
           f = [x \in Seq(S) \X Seq(S) |-> x[1] \o x[2]]
    PROVE  EndsIn(FlattenSeq(ss), f, <<>>, ss, Seq(S))
<1> DEFINE n == Len(ss)
           G(it) == [i \in 1..n |-> IF i = 1 THEN ss[i] ELSE it[i - 1] \o ss[i]]
           c == CHOOSE it : it = G(it)
<1>1. n \in Nat /\ DOMAIN ss = 1..n /\ \A i \in 1..n : ss[i] \in Seq(S)
  BY LenProperties, ElementOfSeq
<1>2. FlattenSeq(ss) = IF n = 0 THEN ss ELSE c[n]
  BY DEF FlattenSeq
<1>3. /\ f \in [Seq(S) \X Seq(S) -> Seq(S)] /\ <<>> \in Seq(S)
      /\ \A x, y \in Seq(S) : f[<<x, y>>] = x \o y
  BY ConcatProperties, EmptySeq
<1>4. PICK h : IsRun(h, f, <<>>, ss, Seq(S))
  <2>1. PICK it : IsFold(it, f, <<>>, ss, Seq(S))
    BY <1>3, FoldExists
  <2>2. IsPartlyFold(it, f, <<>>, ss, Seq(S))
    BY <2>1 DEF IsFold, IsPartlyFold
  <2>3. EndsIn(it[DOMAIN ss], f, <<>>, ss, Seq(S))
    BY <1>3, <2>2, FoldRuns
  <2> QED BY <2>3 DEF EndsIn
<1>5. \A i \in 1..n : h[i] = h[i - 1] \o ss[i]
  <2>1. \A i \in 1..n : i - 1 \in 0..n
    BY <1>1
  <2> QED BY <1>1, <1>3, <1>4, <2>1 DEF IsRun
<1>6. \A x \in Seq(S) : <<>> \o x = x
  BY ConcatEmptySeq
<1>7. c = G(c)
  <2> DEFINE it == [i \in 1..n |-> h[i]]
  <2>1. it = G(it)
    <3>1. ASSUME NEW i \in 1..n PROVE it[i] = G(it)[i]
      <4>1. CASE i = 1
        <5>1. h[0] = <<>> /\ i - 1 = 0
          BY <1>4, <4>1 DEF IsRun
        <5>2. h[i] = <<>> \o ss[i]
          BY <1>5, <5>1
        <5>3. h[i] = ss[i]
          BY <1>1, <1>6, <5>2
        <5> QED BY <4>1, <5>3
      <4>2. CASE i # 1
        <5>1. i - 1 \in 1..n
          BY <1>1, <4>2
        <5> QED BY <1>5, <4>2, <5>1
      <4> QED BY <4>1, <4>2
    <3> QED BY <3>1
  <2> HIDE DEF G, it
  <2> QED BY <2>1
<1> HIDE DEF c
<1> DEFINE g == [i \in 0..n |-> IF i = 0 THEN <<>> ELSE c[i]]
<1>8. ASSUME NEW i \in 1..n, g[i - 1] \in Seq(S)
      PROVE  g[i] = f[<<g[i - 1], ss[i]>>] /\ g[i] \in Seq(S)
  <2>1. i \in 0..n /\ i - 1 \in 0..n /\ i # 0
    BY <1>1
  <2>2. g[i] = G(c)[i]
    BY <1>7, <2>1
  <2>3. g[i] = g[i - 1] \o ss[i]
    <3>1. CASE i = 1
      BY <1>1, <1>6, <2>1, <2>2, <3>1
    <3>2. CASE i # 1
      BY <1>1, <2>1, <2>2, <3>2
    <3> QED BY <3>1, <3>2
  <2>4. ss[i] \in Seq(S)
    BY <1>1
  <2> HIDE DEF g
  <2>5. f[<<g[i - 1], ss[i]>>] = g[i - 1] \o ss[i]
    BY <1>3, <1>8, <2>4
  <2>6. f[<<g[i - 1], ss[i]>>] \in Seq(S)
    BY <1>3, <1>8, <2>4
  <2> QED BY <2>3, <2>5, <2>6
<1>9. g[0] = <<>> /\ g = [i \in 0..n |-> g[i]]
  BY <1>1
<1>10. FlattenSeq(ss) = g[n]
  <2>1. n = 0 => ss = <<>>
    BY EmptySeq
  <2> QED BY <1>1, <1>2, <2>1
<1> HIDE DEF g
<1>11. \A i \in 0..n : g[i] \in Seq(S)
  <2>1. \A i \in 1..n : g[i - 1] \in Seq(S) => g[i] \in Seq(S)
    BY <1>8
  <2>2. n \in Nat /\ g[0] \in Seq(S)
    BY <1>1, <1>3, <1>9
  <2> QED BY <2>1, <2>2, Along
<1>12. IsRun(g, f, <<>>, ss, Seq(S))
  <2>1. g \in [0..n -> Seq(S)]
    BY <1>9, <1>11
  <2>2. \A i \in 1..n : i - 1 \in 0..n
    BY <1>1
  <2> QED BY <1>8, <1>9, <1>11, <2>1, <2>2 DEF IsRun
<1> QED BY <1>10, <1>12 DEF EndsIn

LEMMA FlattenAppend ==
    ASSUME NEW S
    PROVE  /\ FlattenSeq(<<>>) = <<>>
           /\ \A ss \in Seq(Seq(S)), t \in Seq(S) :
                 /\ FlattenSeq(ss) \in Seq(S)
                 /\ FlattenSeq(Append(ss, t)) = FlattenSeq(ss) \o t
<1> DEFINE f == [x \in Seq(S) \X Seq(S) |-> x[1] \o x[2]]
<1>1. FlattenSeq(<<>>) = <<>>
  BY DEF FlattenSeq
<1>2. ASSUME NEW ss \in Seq(Seq(S)), NEW t \in Seq(S)
      PROVE  /\ FlattenSeq(ss) \in Seq(S)
             /\ FlattenSeq(Append(ss, t)) = FlattenSeq(ss) \o t
  <2>1. Append(ss, t) \in Seq(Seq(S))
    BY AppendProperties
  <2>2. EndsIn(FlattenSeq(ss), f, <<>>, ss, Seq(S))
    BY FlattenRuns
  <2>3. EndsIn(FlattenSeq(Append(ss, t)), f, <<>>, Append(ss, t), Seq(S))
    BY <2>1, FlattenRuns
  <2> HIDE DEF f
  <2>4. FlattenSeq(ss) \in Seq(S) /\ FlattenSeq(Append(ss, t)) = f[<<FlattenSeq(ss), t>>]
    BY <2>2, <2>3, EndsAppend
  <2> QED BY <2>4 DEF f
<1> QED BY <1>1, <1>2

\* The elements of a sequence.
LEMMA Elements ==
    ASSUME NEW B
    PROVE  /\ ToSet(<<>>) = {}
           /\ \A s \in Seq(B) : ToSet(s) \subseteq B /\ s \in Seq(ToSet(s))
           /\ \A s \in Seq(B), e \in B : ToSet(Append(s, e)) = ToSet(s) \cup {e}
           /\ \A s \in Seq(B) : \A C : ToSet(s) \subseteq C => s \in Seq(C)
<1>1. ToSet(<<>>) = {}
  BY DEF ToSet
<1>2. ASSUME NEW s \in Seq(B), NEW C, ToSet(s) \subseteq C PROVE s \in Seq(C)
  <2>1. s \in [1..Len(s) -> C] /\ Len(s) \in Nat
    BY <1>2, LenProperties DEF ToSet
  <2> QED BY <2>1
<1>3. ASSUME NEW s \in Seq(B) PROVE ToSet(s) \subseteq B
  BY LenProperties, ElementOfSeq DEF ToSet
<1>4. ASSUME NEW s \in Seq(B), NEW e \in B PROVE ToSet(Append(s, e)) = ToSet(s) \cup {e}
  <2> DEFINE q == Append(s, e)
             n == Len(s)
  <2>1. /\ n \in Nat /\ DOMAIN s = 1..n /\ DOMAIN q = 1..n + 1
        /\ q[n + 1] = e /\ \A i \in 1..n : q[i] = s[i]
    BY AppendProperties, LenProperties
  <2>2. \A i \in 1..n + 1 : i \in 1..n \/ i = n + 1
    BY <2>1
  <2>3. \A i \in 1..n : i \in 1..n + 1
    BY <2>1
  <2>4. n + 1 \in 1..n + 1
    BY <2>1
  <2> HIDE DEF q, n
  <2> QED BY <2>1, <2>2, <2>3, <2>4 DEF ToSet, q
<1> QED BY <1>1, <1>2, <1>3, <1>4

LEMMA ElementsOfConcat ==
    ASSUME NEW B
    PROVE  \A s, t \in Seq(B) : ToSet(s \o t) = ToSet(s) \cup ToSet(t)
<1> SUFFICES ASSUME NEW s \in Seq(B) PROVE \A t \in Seq(B) : ToSet(s \o t) = ToSet(s) \cup ToSet(t)
  OBVIOUS
<1> DEFINE P == {t \in Seq(B) : ToSet(s \o t) = ToSet(s) \cup ToSet(t)}
<1>1. <<>> \in P
  <2>1. s \o <<>> = s /\ <<>> \in Seq(B)
    BY ConcatEmptySeq, EmptySeq
  <2> QED BY <2>1, Elements
<1>2. ASSUME NEW t \in Seq(B) \cap P, NEW e \in B PROVE Append(t, e) \in P
  <2>1. Append(t, e) \in Seq(B) /\ s \o t \in Seq(B)
    BY AppendProperties, ConcatProperties
  <2>2. s \o Append(t, e) = Append(s \o t, e)
    BY ConcatAppend
  <2>3. ToSet(Append(s \o t, e)) = ToSet(s \o t) \cup {e}
    <3>1. \A u \in Seq(B) : ToSet(Append(u, e)) = ToSet(u) \cup {e}
      BY Elements
    <3> QED BY <2>1, <3>1
  <2>4. ToSet(Append(t, e)) = ToSet(t) \cup {e}
    BY Elements
  <2>5. ToSet(s \o t) = ToSet(s) \cup ToSet(t)
    BY <1>2
  <2>6. ToSet(s \o Append(t, e)) = ToSet(s) \cup ToSet(Append(t, e))
    BY <2>2, <2>3, <2>4, <2>5
  <2> QED BY <2>1, <2>6
<1> HIDE DEF P
<1>3. Seq(B) \subseteq P
  BY <1>1, <1>2, SeqSet
<1> QED BY <1>3 DEF P

\* A sequence of which each element becomes some.
FlatMap(g, t) == FlattenSeq([i \in DOMAIN t |-> g[t[i]]])

LEMMA FlatMapAppend ==
    ASSUME NEW K, NEW S, NEW g \in [K -> Seq(S)]
    PROVE  /\ FlatMap(g, <<>>) = <<>>
           /\ \A t \in Seq(K), c \in K :
                 /\ FlatMap(g, t) \in Seq(S)
                 /\ FlatMap(g, Append(t, c)) = FlatMap(g, t) \o g[c]
<1>1. FlatMap(g, <<>>) = <<>>
  <2>1. [i \in DOMAIN <<>> |-> g[<<>>[i]]] = <<>>
    OBVIOUS
  <2> QED BY <2>1, FlattenAppend DEF FlatMap
<1>2. ASSUME NEW t \in Seq(K), NEW c \in K
      PROVE  /\ FlatMap(g, t) \in Seq(S)
             /\ FlatMap(g, Append(t, c)) = FlatMap(g, t) \o g[c]
  <2> DEFINE q == Append(t, c)
             n == Len(t)
             ss == [i \in DOMAIN t |-> g[t[i]]]
             qq == [i \in DOMAIN q |-> g[q[i]]]
  <2>1. /\ n \in Nat /\ DOMAIN t = 1..n /\ DOMAIN q = 1..n + 1
        /\ q[n + 1] = c /\ \A i \in 1..n : q[i] = t[i] /\ t[i] \in K
    BY AppendProperties, LenProperties, ElementOfSeq
  <2>2. g[c] \in Seq(S) /\ \A i \in 1..n : g[t[i]] \in Seq(S)
    BY <2>1
  <2>3. ss \in Seq(Seq(S)) /\ Len(ss) = n
    <3>1. ss \in [1..n -> Seq(S)]
      BY <2>1, <2>2
    <3> QED BY <2>1, <3>1
  <2>4. qq = Append(ss, g[c])
    <3>1. /\ Len(Append(ss, g[c])) = n + 1 /\ DOMAIN Append(ss, g[c]) = 1..n + 1
          /\ Append(ss, g[c])[n + 1] = g[c] /\ \A i \in 1..n : Append(ss, g[c])[i] = ss[i]
          /\ Append(ss, g[c]) \in Seq(Seq(S))
      BY <2>2, <2>3, AppendProperties, LenProperties
    <3>2. \A i \in 1..n + 1 : qq[i] = Append(ss, g[c])[i]
      <4>1. \A i \in 1..n + 1 : i \in 1..n \/ i = n + 1
        BY <2>1
      <4>2. \A i \in 1..n + 1 : qq[i] = g[q[i]]
        BY <2>1
      <4>3. \A i \in 1..n : ss[i] = g[t[i]]
        BY <2>1
      <4> HIDE DEF q, qq, ss
      <4> QED BY <2>1, <3>1, <4>1, <4>2, <4>3
    <3>3. qq = [i \in 1..n + 1 |-> qq[i]]
      BY <2>1
    <3>4. Append(ss, g[c]) = [i \in 1..n + 1 |-> Append(ss, g[c])[i]]
      BY <3>1, LenProperties
    <3> QED BY <3>2, <3>3, <3>4
  <2>5. FlattenSeq(ss) \in Seq(S) /\ FlattenSeq(Append(ss, g[c])) = FlattenSeq(ss) \o g[c]
    BY <2>2, <2>3, FlattenAppend
  <2> QED BY <2>4, <2>5 DEF FlatMap
<1> QED BY <1>1, <1>2

\* Short sequences, and at the end of others.
LEMMA Short ==
    ASSUME NEW S, NEW a \in S, NEW b \in S, NEW c \in S
    PROVE  <<a>> \in Seq(S) /\ <<a, b, c>> \in Seq(S)
OBVIOUS

LEMMA ConcatShort ==
    ASSUME NEW S, NEW s \in Seq(S), NEW a \in S, NEW b \in S, NEW c \in S
    PROVE  /\ s \o <<a>> = Append(s, a)
           /\ s \o <<a, b, c>> = Append(Append(Append(s, a), b), c)
<1>1. s \o <<a>> = Append(s, a)
  BY AppendIsConcat
<1>2. <<a>> \in Seq(S) /\ <<a, b>> \in Seq(S) /\ Append(<<a>>, b) = <<a, b>>
      /\ Append(<<a, b>>, c) = <<a, b, c>>
  <2>1. <<a>> \in Seq(S) /\ <<a, b>> \in Seq(S)
    OBVIOUS
  <2>2. Append(<<a>>, b) = <<a, b>>
    <3>1. Len(<<a>>) = 1 /\ Len(<<a, b>>) = 2
      OBVIOUS
    <3>2. Append(<<a>>, b) \in Seq(S) /\ Len(Append(<<a>>, b)) = 2
          /\ Append(<<a>>, b)[1] = a /\ Append(<<a>>, b)[2] = b
      BY <2>1, <3>1, AppendProperties
    <3>3. \A i \in 1..2 : Append(<<a>>, b)[i] = <<a, b>>[i]
      BY <3>2
    <3> QED BY <2>1, <3>1, <3>2, <3>3, SeqEqual
  <2>3. Append(<<a, b>>, c) = <<a, b, c>>
    <3>1. Len(<<a, b>>) = 2 /\ Len(<<a, b, c>>) = 3 /\ <<a, b, c>> \in Seq(S)
      OBVIOUS
    <3>2. Append(<<a, b>>, c) \in Seq(S) /\ Len(Append(<<a, b>>, c)) = 3
          /\ Append(<<a, b>>, c)[1] = a /\ Append(<<a, b>>, c)[2] = b
          /\ Append(<<a, b>>, c)[3] = c
      BY <2>1, <3>1, AppendProperties
    <3>3. \A i \in 1..3 : Append(<<a, b>>, c)[i] = <<a, b, c>>[i]
      BY <3>2
    <3> QED BY <3>1, <3>2, <3>3, SeqEqual
  <2> QED BY <2>1, <2>2, <2>3
<1>3. s \o <<a, b>> = Append(Append(s, a), b)
  BY <1>1, <1>2, ConcatAppend
<1>4. s \o <<a, b, c>> = Append(s \o <<a, b>>, c)
  BY <1>2, ConcatAppend
<1> QED BY <1>1, <1>3, <1>4
=============================================================================
