----------------------------- MODULE TextProofs -----------------------------
(* What the proofs about texts rest on: induction over numbers, functions      *)
(* defined by recursion, and sequences put together from pieces.               *)
(*                                                                             *)
(* An induction is over a set of numbers, { n \in Nat : ... }.  A recursive    *)
(* function is a CHOOSE: it satisfies its equation once some function does,    *)
(* which RecursionExists gives from the function of a single step.             *)
EXTENDS UriSubst, SequenceTheorems, FiniteSetTheorems, WellFoundedInduction, TLAPS

\* A set of numbers has a least one.
LEMMA LeastElement ==
    ASSUME NEW T \in SUBSET Nat, T # {}
    PROVE  \E m \in T : \A k \in T : m <= k
<1> DEFINE R == OpToRel(<, Nat)
<1>1. PICK m \in T : \A k \in T : <<k, m>> \notin R
  <2> HIDE DEF R
  <2>1. IsWellFoundedOn(R, Nat)
    BY NatLessThanWellFounded DEF R
  <2> QED BY <2>1, WFMin
<1>2. ASSUME NEW k \in T, k < m PROVE FALSE
  <2>1. <<k, m>> \in Nat \X Nat /\ <<k, m>>[1] < <<k, m>>[2]
    BY <1>2
  <2> QED BY <1>1, <2>1 DEF OpToRel
<1> QED BY <1>2

\* The principle of induction, from i up to j.
LEMMA Climb ==
    ASSUME NEW T, NEW i \in Nat, NEW j \in Nat, i \in T,
           \A n \in T : i <= n /\ n < j => n + 1 \in T
    PROVE  \A n \in i..j : n \in T
<1> SUFFICES ASSUME \E n \in i..j : n \notin T PROVE FALSE
  OBVIOUS
<1> DEFINE U == {n \in i..j : n \notin T}
<1>1. PICK m \in U : \A k \in U : m <= k
  <2>1. U \in SUBSET Nat /\ U # {}
    OBVIOUS
  <2> HIDE DEF U
  <2> QED BY <2>1, LeastElement
<1>2. m # i /\ m - 1 \in i..j /\ m - 1 < j /\ (m - 1) + 1 = m
  BY <1>1
<1>3. m - 1 \in T
  BY <1>1, <1>2
<1> QED BY <1>1, <1>2, <1>3

\* And down.
LEMMA Descend ==
    ASSUME NEW T, NEW i \in Nat, NEW j \in Nat, j \in T,
           \A n \in i..j : n < j /\ (\A k \in (n + 1)..j : k \in T) => n \in T
    PROVE  \A n \in i..j : n \in T
<1> DEFINE U == {n \in 0..(j - i) : \A k \in (j - n)..j : k \in T}
<1> SUFFICES ASSUME i <= j PROVE \A n \in i..j : n \in T
  OBVIOUS
<1>0. j - i \in Nat
  OBVIOUS
<1>1. 0 \in U
  OBVIOUS
<1>2. ASSUME NEW n \in U, 0 <= n, n < j - i PROVE n + 1 \in U
  <2>1. j - (n + 1) \in i..j /\ (j - (n + 1)) + 1 = j - n /\ j - (n + 1) < j
    BY <1>0, <1>2
  <2>2. j - (n + 1) \in T
    BY <2>1
  <2> QED BY <1>0, <1>2, <2>1, <2>2
<1>3. \A n \in 0..(j - i) : n \in U
  <2> DEFINE d == j - i
  <2>1. d \in Nat /\ 0 \in Nat /\ \A n \in U : 0 <= n /\ n < d => n + 1 \in U
    BY <1>0, <1>2
  <2> HIDE DEF U, d
  <2>2. \A n \in 0..d : n \in U
    BY <1>1, <2>1, Climb
  <2> QED BY <2>2 DEF d
<1>4. j - i \in U /\ j - (j - i) = i
  BY <1>0, <1>3
<1> QED BY <1>4

\* A recursion whose steps stay in S stays in S.
LEMMA StaysIn ==
    ASSUME NEW S, NEW N \in Nat, NEW f, f[0] \in S,
           \A n \in 1..N : f[n - 1] \in S => f[n] \in S
    PROVE  \A n \in 0..N : f[n] \in S
<1> DEFINE T == {n \in 0..N : f[n] \in S}
<1>1. 0 \in T
  OBVIOUS
<1>2. ASSUME NEW n \in T, n < N PROVE n + 1 \in T
  <2>1. n + 1 \in 1..N /\ (n + 1) - 1 = n
    BY <1>2
  <2> QED BY <2>1
<1>3. \A n \in 0..N : n \in T
  <2> HIDE DEF T
  <2> QED BY <1>1, <1>2, Climb
<1> QED BY <1>3

Regroups(a, b, c) == (a \o b) \o c = a \o (b \o c)

\* Three texts in a row.
LEMMA Associates ==
    ASSUME NEW X, NEW a \in Seq(X), NEW b \in Seq(X), NEW c \in Seq(X)
    PROVE  Regroups(a, b, c)
  BY ConcatAssociative DEF Regroups

Steps(N, S)  == [1..N -> [S -> S]]
Pieces(N, X) == [1..N -> Seq(X)]

\* g is what N steps make of a, one after another.
Unfolds(g, N, S, a, step) ==
    g \in [0..N -> S] /\ g[0] = a /\ \A n \in 1..N : g[n] = step[n][g[n - 1]]

\* A function defined by recursion exists, so CHOOSE finds it.
LEMMA RecursionExists ==
    ASSUME NEW S, NEW N \in Nat, NEW a \in S, NEW step \in Steps(N, S)
    PROVE  \E g : Unfolds(g, N, S, a, step)
<1> DEFINE Until(k) == \E g \in [0..k -> S] :
                          g[0] = a /\ \A n \in 1..k : g[n] = step[n][g[n - 1]]
           T == {k \in 0..N : Until(k)}
<1>1. 0 \in T
  <2> DEFINE g == [n \in 0..0 |-> a]
  <2>1. g \in [0..0 -> S] /\ g[0] = a /\ \A n \in 1..0 : g[n] = step[n][g[n - 1]]
    OBVIOUS
  <2>2. Until(0)
    BY <2>1
  <2> QED BY <2>2
<1>2. ASSUME NEW k \in T, k < N PROVE k + 1 \in T
  <2>1. PICK g \in [0..k -> S] : g[0] = a /\ \A n \in 1..k : g[n] = step[n][g[n - 1]]
    OBVIOUS
  <2> DEFINE h == [n \in 0..(k + 1) |-> IF n = k + 1 THEN step[k + 1][g[k]] ELSE g[n]]
  <2>2. h \in [0..(k + 1) -> S]
    <3>1. step[k + 1][g[k]] \in S
      BY <1>2 DEF Steps
    <3> QED BY <3>1
  <2>3. h[0] = a
    BY <2>1
  <2>4. ASSUME NEW n \in 1..(k + 1) PROVE h[n] = step[n][h[n - 1]]
    <3>1. CASE n = k + 1
      BY <3>1
    <3>2. CASE n # k + 1
      <4>1. n \in 1..k /\ n - 1 \in 0..k /\ n \in 0..(k + 1) /\ n - 1 # k + 1
        BY <3>2
      <4> QED BY <2>1, <3>2, <4>1
    <3> QED BY <3>1, <3>2
  <2>5. Until(k + 1)
    <3> HIDE DEF h
    <3> QED BY <2>2, <2>3, <2>4
  <2> QED BY <1>2, <2>5
<1>3. N \in T
  <2> HIDE DEF T
  <2> QED BY <1>1, <1>2, Climb
<1> QED BY <1>3 DEF Unfolds
-----------------------------------------------------------------------------
(* Cat *)

\* Cat is the function its recursion describes, and stays among the texts.
LEMMA CatNext ==
    ASSUME NEW X, NEW N \in Nat, NEW F \in Pieces(N, X)
    PROVE  /\ Cat(0, F) = <<>>
           /\ \A n \in 1..N : Cat(n, F) = Cat(n - 1, F) \o F[n]
           /\ \A n \in 0..N : Cat(n, F) \in Seq(X)
<1> DEFINE step == [n \in 1..N |-> [t \in Seq(X) |-> t \o F[n]]]
           Is(n, f) == f = [k \in 0..n |-> IF k = 0 THEN <<>> ELSE f[k - 1] \o F[k]]
<1>1. step \in Steps(N, Seq(X))
  <2>1. ASSUME NEW n \in 1..N, NEW t \in Seq(X) PROVE t \o F[n] \in Seq(X)
    BY ConcatProperties DEF Pieces
  <2> QED BY <2>1 DEF Steps
<1>2. <<>> \in Seq(X)
  OBVIOUS
<1>3. PICK g \in [0..N -> Seq(X)] :
          g[0] = <<>> /\ \A n \in 1..N : g[n] = step[n][g[n - 1]]
  <2> DEFINE S == Seq(X)
  <2> HIDE DEF step, S
  <2>1. \E g \in [0..N -> S] : g[0] = <<>> /\ \A n \in 1..N : g[n] = step[n][g[n - 1]]
    <3>1. step \in Steps(N, S) /\ <<>> \in S
      BY <1>1, <1>2 DEF S
    <3>2. \E g : Unfolds(g, N, S, <<>>, step)
      BY <3>1, RecursionExists
    <3> QED BY <3>2 DEF Unfolds
  <2> QED BY <2>1 DEF S
<1>4. \A n \in 1..N : g[n] = g[n - 1] \o F[n]
  <2> SUFFICES ASSUME NEW n \in 1..N PROVE g[n] = g[n - 1] \o F[n]
    OBVIOUS
  <2>1. n - 1 \in 0..N
    OBVIOUS
  <2>2. g[n - 1] \in Seq(X)
    BY <2>1
  <2> QED BY <1>3, <2>2
<1>5. ASSUME NEW n \in 0..N PROVE Cat(n, F) = g[n]
  <2> DEFINE f == CHOOSE f : Is(n, f)
             h == [k \in 0..n |-> g[k]]
  <2>1. Is(n, h)
    <3>1. ASSUME NEW k \in 0..n, k # 0 PROVE h[k] = h[k - 1] \o F[k]
      <4>1. k \in 1..N /\ k - 1 \in 0..n
        BY <3>1
      <4> QED BY <1>4, <4>1
    <3>2. h[0] = <<>>
      BY <1>3
    <3> QED BY <3>1, <3>2
  <2>2. Is(n, f)
    <3> HIDE DEF Is, h
    <3> QED BY <2>1
  <2>3. Cat(n, F) = f[n]
    BY DEF Cat
  <2> HIDE DEF f
  <2> DEFINE T == {k \in 0..n : f[k] = g[k]}
  <2>4. 0 \in T
    BY <1>3, <2>2
  <2>5. ASSUME NEW k \in T, k < n PROVE k + 1 \in T
    <3>1. k + 1 \in 0..n /\ k + 1 \in 1..N /\ k + 1 # 0 /\ (k + 1) - 1 = k
      BY <2>5
    <3>2. f[k + 1] = f[k] \o F[k + 1]
      BY <2>2, <3>1
    <3>3. g[k + 1] = g[k] \o F[k + 1]
      BY <1>4, <3>1
    <3> QED BY <2>5, <3>1, <3>2, <3>3
  <2>6. n \in T
    <3>1. n \in Nat /\ n \in 0..n
      OBVIOUS
    <3> HIDE DEF T
    <3> QED BY <2>4, <2>5, <3>1, Climb
  <2> QED BY <2>3, <2>6
<1>6. 0 \in 0..N /\ \A n \in 1..N : n - 1 \in 0..N /\ n \in 0..N
  OBVIOUS
<1> HIDE DEF step
<1>7. Cat(0, F) = <<>>
  BY <1>3, <1>5, <1>6
<1>8. \A n \in 1..N : Cat(n, F) = Cat(n - 1, F) \o F[n]
  BY <1>4, <1>5, <1>6
<1>9. \A n \in 0..N : Cat(n, F) \in Seq(X)
  BY <1>5
<1> QED BY <1>7, <1>8, <1>9

Grows(N, F) == \A n \in 1..N : Cat(n, F) = Cat(n - 1, F) \o F[n]

\* A step of Cat, under a name that hides its quantifier.
LEMMA CatGrows ==
    ASSUME NEW X, NEW N \in Nat, NEW F \in Pieces(N, X)
    PROVE  Grows(N, F)
  BY CatNext DEF Grows

\* Where every piece is what s has there, a part of s comes out.
LEMMA Kept ==
    ASSUME NEW X, NEW s \in Seq(X), NEW F \in Pieces(Len(s), X),
           NEW i \in 0..Len(s), NEW j \in i..Len(s),
           \A k \in (i + 1)..j : F[k] = <<s[k]>>
    PROVE  Cat(j, F) = Cat(i, F) \o SubSeq(s, i + 1, j)
<1> DEFINE Is(n) == Cat(n, F) = Cat(i, F) \o SubSeq(s, i + 1, n)
           T == {n \in i..j : Is(n)}
<1>0. Len(s) \in Nat /\ i \in Nat /\ j \in Nat
  OBVIOUS
<1>0c. Cat(i, F) \in Seq(X)
  BY <1>0, CatNext
<1>1. i \in T
  <2>1. SubSeq(s, i + 1, i) = <<>>
    BY SubSeqEmpty
  <2>2. Cat(i, F) \o <<>> = Cat(i, F)
    BY <1>0c, ConcatEmptySeq
  <2>3. Is(i)
    BY <2>1, <2>2
  <2> HIDE DEF Is
  <2> QED BY <2>3
<1>2. ASSUME NEW n \in T, i <= n, n < j PROVE n + 1 \in T
  <2> DEFINE k == n + 1
             t == SubSeq(s, i + 1, n)
             e == <<s[k]>>
             c == Cat(i, F)
  <2>1. /\ k \in i..j /\ k \in (i + 1)..j /\ k \in 1..Len(s) /\ k - 1 = n
        /\ i + 1 \in 1..Len(s) /\ k \in (i + 1)..Len(s) /\ F[k] = e
    BY <1>0, <1>2
  <2> HIDE DEF k
  <2>2. Cat(k, F) = Cat(k - 1, F) \o F[k]
    BY <1>0, <2>1, CatNext
  <2>3. SubSeq(s, i + 1, k) = SubSeq(s, i + 1, k - 1) \o <<s[k]>>
    BY <2>1, SubSeqRecursiveSecond
  <2>4. t \in Seq(X) /\ e \in Seq(X)
    <3>1. \A l \in (i + 1)..n : s[l] \in X
      BY <1>0
    <3>2. s[k] \in X
      BY <2>1
    <3> QED BY <3>1, <3>2, SubSeqProperties
  <2>5. Cat(n, F) = c \o t
    OBVIOUS
  <2>6. (c \o t) \o e = c \o (t \o e)
    <3> HIDE DEF c, t, e
    <3>1. c \in Seq(X)
      BY <1>0c DEF c
    <3>2. Regroups(c, t, e)
      BY <2>4, <3>1, Associates
    <3> QED BY <3>2 DEF Regroups
  <2>7. Is(k)
    BY <2>1, <2>2, <2>3, <2>5, <2>6
  <2> HIDE DEF Is
  <2> QED BY <2>1, <2>7 DEF k
<1>3. \A n \in i..j : n \in T
  <2> HIDE DEF T
  <2> QED BY <1>0, <1>1, <1>2, Climb
<1>4. Is(j)
  <2> HIDE DEF Is
  <2> QED BY <1>0, <1>3
<1> QED BY <1>4

\* And where every piece is empty, nothing does.
LEMMA Skipped ==
    ASSUME NEW X, NEW N \in Nat, NEW F \in Pieces(N, X),
           NEW i \in 0..N, NEW j \in i..N,
           \A k \in (i + 1)..j : F[k] = <<>>
    PROVE  Cat(j, F) = Cat(i, F)
<1> DEFINE T == {n \in i..j : Cat(n, F) = Cat(i, F)}
<1>0. i \in Nat /\ j \in Nat
  OBVIOUS
<1>0c. Cat(i, F) \in Seq(X)
  BY CatNext
<1>1. i \in T
  OBVIOUS
<1>2. ASSUME NEW n \in T, i <= n, n < j PROVE n + 1 \in T
  <2> DEFINE k == n + 1
  <2>1. k \in i..j /\ k \in 1..N /\ k - 1 = n /\ F[k] = <<>>
    BY <1>0, <1>2
  <2> HIDE DEF k
  <2>2. Cat(k, F) = Cat(k - 1, F) \o F[k]
    BY <2>1, CatNext
  <2>3. Cat(i, F) \o <<>> = Cat(i, F)
    BY <1>0c, ConcatEmptySeq
  <2>4. Cat(k, F) = Cat(i, F)
    BY <2>1, <2>2, <2>3
  <2> QED BY <2>1, <2>4 DEF k
<1>3. \A n \in i..j : n \in T
  <2> HIDE DEF T
  <2> QED BY <1>0, <1>1, <1>2, Climb
<1> QED BY <1>0, <1>3
-----------------------------------------------------------------------------
(* ReplaceBytes and Replace: what they make of matches from left to right *)

\* ms goes from left to right through s, and P has a piece for every position:
\* nothing within a match but what it resolves to where it ends, and the token
\* of s everywhere else.
Covers(s, ms, P, X) ==
    /\ P \in Pieces(Len(s), X)
    /\ Len(ms) \in Nat
    /\ \A n \in 1..Len(ms) :
          /\ ms[n].start \in 1..Len(s) /\ ms[n].end \in ms[n].start..Len(s)
          /\ P[ms[n].end] = Resolve(ms[n])
          /\ \A k \in ms[n].start..(ms[n].end - 1) : P[k] = <<>>
    /\ \A m, n \in 1..Len(ms) : m < n => ms[m].end < ms[n].start
    /\ \A k \in 1..Len(s) :
          (\A n \in 1..Len(ms) : k < ms[n].start \/ ms[n].end < k)
             => P[k] = <<s[k]>>

Part(s, i, j) == SubSeq(s, i, j)

\* The n-th match and what stands before it, as pieces.
Passed(s, ms, P, X, n) ==
    /\ EndOf(ms, n) = ms[n].end /\ EndOf(ms, n) \in 1..Len(s)
    /\ ms[n].start \in 1..Len(s) /\ ms[n].end \in ms[n].start..Len(s)
    /\ EndOf(ms, n - 1) \in 0..(ms[n].start - 1)
    /\ Resolve(ms[n]) \in Seq(X) /\ Gap(s, ms, n) \in Seq(X)
    /\ Len(Gap(s, ms, n)) = ms[n].start - 1 - EndOf(ms, n - 1)
    /\ Cat(ms[n].start - 1, P) = Cat(EndOf(ms, n - 1), P) \o Gap(s, ms, n)
    /\ Cat(ms[n].end, P) = Cat(ms[n].start - 1, P) \o Resolve(ms[n])

\* The pieces from the end of one match to the end of the next: a gap as it
\* is, and what the match resolves to.
LEMMA OneMatch ==
    ASSUME NEW X, NEW s \in Seq(X), NEW ms, NEW P, Covers(s, ms, P, X),
           NEW n \in 1..Len(ms)
    PROVE  Passed(s, ms, P, X, n)
<1> DEFINE i == EndOf(ms, n - 1)
           h == ms[n].start - 1
           e == ms[n].end
<1>1. /\ Len(s) \in Nat /\ Len(ms) \in Nat /\ P \in Pieces(Len(s), X)
      /\ ms[n].start \in 1..Len(s) /\ e \in ms[n].start..Len(s)
  BY DEF Covers
<1>2. EndOf(ms, n) = e /\ EndOf(ms, n) \in 1..Len(s)
  BY <1>1 DEF EndOf
<1>3. i \in 0..h
  <2>1. CASE n = 1
    BY <1>1, <2>1 DEF EndOf
  <2>2. CASE n # 1
    <3>1. n - 1 \in 1..Len(ms) /\ n - 1 < n /\ n - 1 # 0
      BY <1>1, <2>2
    <3>2. ms[n - 1].end < ms[n].start /\ ms[n - 1].start \in 1..Len(s)
          /\ ms[n - 1].end \in ms[n - 1].start..Len(s)
      BY <3>1 DEF Covers
    <3> DEFINE u == ms[n - 1].start
               v == ms[n - 1].end
               a == ms[n].start
    <3>3. i = v
      BY <3>1 DEF EndOf
    <3>4. v < a /\ u \in 1..Len(s) /\ v \in u..Len(s) /\ a \in 1..Len(s) /\ h = a - 1
      BY <1>1, <3>2
    <3> HIDE DEF u, v, a, h, i
    <3>5. i \in 0..h
      BY <1>1, <3>3, <3>4
    <3> QED BY <3>5
  <2> QED BY <2>1, <2>2
<1>4. \A k \in (i + 1)..h : P[k] = <<s[k]>>
  <2> SUFFICES ASSUME NEW k \in (i + 1)..h PROVE P[k] = <<s[k]>>
    OBVIOUS
  <2>1. k \in 1..Len(s)
    BY <1>1, <1>3
  <2>2. ASSUME NEW l \in 1..Len(ms) PROVE k < ms[l].start \/ ms[l].end < k
    <3> DEFINE x == ms[l].start
               y == ms[l].end
    <3>0. x \in Nat /\ y \in Nat
      <4>1. x \in 1..Len(s) /\ y \in x..Len(s)
        BY DEF Covers
      <4> HIDE DEF x, y
      <4> QED BY <1>1, <4>1
    <3>a. k \in Int /\ i < k /\ k <= h /\ h < e /\ i \in Int /\ h \in Int /\ e \in Int
      <4> DEFINE a == ms[n].start
      <4>1. a \in Int /\ a <= e /\ e \in Int /\ h = a - 1
        BY <1>1
      <4> HIDE DEF a, e, i, h
      <4> QED BY <1>3, <4>1
    <3>1. CASE l < n
      <4>1. CASE l = n - 1
        <5>1. i = ms[l].end
          BY <1>1, <4>1 DEF EndOf
        <5> HIDE DEF i, x, y
        <5>2. y < k
          BY <3>a, <5>1 DEF y
        <5> QED BY <5>2 DEF y
      <4>2. CASE l # n - 1
        <5>1. n - 1 \in 1..Len(ms) /\ l < n - 1 /\ n - 1 # 0
          BY <1>1, <3>1, <4>2
        <5> DEFINE u == ms[n - 1].start
                   v == ms[n - 1].end
        <5>2. y < u /\ u \in 1..Len(s) /\ v \in u..Len(s)
          BY <5>1 DEF Covers
        <5>3. v = i
          BY <5>1 DEF EndOf
        <5> HIDE DEF i, x, y, u, v
        <5>4. y < k
          BY <1>1, <3>0, <3>a, <5>2, <5>3
        <5> QED BY <5>4 DEF y
      <4> QED BY <4>1, <4>2
    <3>2. CASE l = n
      BY <1>1, <1>3, <3>2
    <3>3. CASE n < l
      <4>1. e < x
        BY <3>3 DEF Covers
      <4> HIDE DEF e, h, i, x, y
      <4>2. k < x
        BY <3>0, <3>a, <4>1
      <4> QED BY <4>2 DEF x
    <3> QED BY <1>1, <3>1, <3>2, <3>3
  <2> QED BY <2>1, <2>2 DEF Covers
<1>5. Cat(h, P) = Cat(i, P) \o SubSeq(s, i + 1, h)
  <2>1. i \in 0..Len(s) /\ h \in i..Len(s)
    BY <1>1, <1>3
  <2> HIDE DEF i, h
  <2> QED BY <1>1, <1>4, <2>1, Kept
<1>6. P[e] = Resolve(ms[n]) /\ P[e] \in Seq(X)
  BY <1>1 DEF Covers, Pieces
<1>7. Cat(e, P) = Cat(h, P) \o Resolve(ms[n])
  <2>1. Cat(e, P) = Cat(e - 1, P) \o P[e]
    <3>1. e \in 1..Len(s)
      BY <1>1
    <3> HIDE DEF e
    <3> QED BY <1>1, <3>1, CatNext
  <2>2. Cat(e - 1, P) = Cat(h, P)
    <3> DEFINE j == e - 1
    <3>1. h \in 0..Len(s) /\ j \in h..Len(s)
      BY <1>1
    <3>2. \A k \in (h + 1)..j : P[k] = <<>>
      BY <1>1 DEF Covers
    <3> HIDE DEF h, j
    <3>3. Cat(j, P) = Cat(h, P)
      BY <1>1, <3>1, <3>2, Skipped
    <3> QED BY <3>3 DEF j
  <2> QED BY <1>6, <2>1, <2>2
<1>8. Gap(s, ms, n) \in Seq(X) /\ Len(Gap(s, ms, n)) = ms[n].start - 1 - i
  <2> DEFINE j == i + 1
  <2>0. h \in Int /\ h <= Len(s)
    <3> DEFINE a == ms[n].start
    <3>1. a \in 1..Len(s) /\ h = a - 1
      BY <1>1
    <3> HIDE DEF a, h
    <3> QED BY <1>1, <3>1
  <2>1. j \in Int /\ h \in Int /\ j <= h + 1 /\ \A k \in j..h : s[k] \in X
    <3> HIDE DEF h, i
    <3>1. j \in Int /\ h \in Int /\ j <= h + 1 /\ j > 0
      BY <1>3, <2>0
    <3>2. \A k \in j..h : k \in 1..Len(s)
      <4> HIDE DEF j
      <4> QED BY <1>1, <2>0, <3>1
    <3> QED BY <3>1, <3>2
  <2> HIDE DEF j, h
  <2>2. SubSeq(s, j, h) \in Seq(X) /\ Len(SubSeq(s, j, h)) = IF j <= h THEN h - j + 1 ELSE 0
    BY <2>1, SubSeqProperties
  <2>3. Len(SubSeq(s, j, h)) = h - j + 1
    BY <2>1, <2>2
  <2>4. Gap(s, ms, n) = SubSeq(s, j, h)
    BY DEF j, h, Gap
  <2>5. h - j + 1 = ms[n].start - 1 - i
    <3> DEFINE a == ms[n].start
    <3>1. i \in Int /\ a \in Int
      BY <1>1, <1>3
    <3>2. h = a - 1 /\ j = i + 1
      BY DEF h, j
    <3> HIDE DEF i, a
    <3>3. h - j + 1 = a - 1 - i
      BY <3>1, <3>2
    <3> QED BY <3>3 DEF a
  <2> QED BY <2>2, <2>3, <2>4, <2>5
<1> QED BY <1>1, <1>2, <1>3, <1>5, <1>6, <1>7, <1>8 DEF Gap, Passed

\* And behind the last one.
LEMMA TheRest ==
    ASSUME NEW X, NEW s \in Seq(X), NEW ms, NEW P, Covers(s, ms, P, X)
    PROVE  /\ EndOf(ms, Len(ms)) \in 0..Len(s)
           /\ Cat(Len(s), P) = Cat(EndOf(ms, Len(ms)), P)
                                  \o Part(s, EndOf(ms, Len(ms)) + 1, Len(s))
<1> DEFINE n == Len(ms)
           i == EndOf(ms, n)
           L == Len(s)
<1>1. L \in Nat /\ n \in Nat /\ P \in Pieces(L, X)
  BY DEF Covers
<1>2. i \in 0..L
  <2>1. CASE n = 0
    BY <1>1, <2>1 DEF EndOf
  <2>2. CASE n # 0
    <3>1. n \in 1..Len(ms)
      BY <1>1, <2>2
    <3> QED BY <1>1, <2>2, <3>1 DEF Covers, EndOf
  <2> QED BY <2>1, <2>2
<1>3. ASSUME NEW k \in (i + 1)..L PROVE P[k] = <<s[k]>>
  <2>1. k \in 1..Len(s)
    BY <1>1, <1>2
  <2>2. ASSUME NEW l \in 1..Len(ms) PROVE ms[l].end < k
    <3>a. n # 0 /\ n \in 1..Len(ms)
      BY <1>1
    <3>b. i = ms[n].end
      BY <3>a DEF EndOf
    <3>c. /\ ms[l].start \in 1..L /\ ms[l].end \in ms[l].start..L
          /\ ms[n].start \in 1..L /\ ms[n].end \in ms[n].start..L
      BY <3>a DEF Covers
    <3>0. ms[l].end \in Nat /\ ms[n].start \in Nat /\ ms[n].start <= i
      <4> DEFINE x == ms[l].start
                 y == ms[l].end
                 u == ms[n].start
                 v == ms[n].end
      <4>1. x \in 1..L /\ y \in x..L /\ u \in 1..L /\ v \in u..L /\ i = v
        BY <3>b, <3>c
      <4> HIDE DEF x, y, u, v, i, L
      <4>2. y \in Nat /\ u \in Nat /\ u <= i
        BY <1>1, <4>1
      <4> QED BY <4>2 DEF y, u
    <3>1. CASE l = n
      BY <1>2, <3>0, <3>b, <3>1
    <3>2. CASE l < n
      <4>1. ms[l].end < ms[n].start
        BY <3>a, <3>2 DEF Covers
      <4> QED BY <1>2, <3>0, <4>1
    <3> QED BY <1>1, <3>1, <3>2
  <2> QED BY <2>1, <2>2 DEF Covers
<1>4. Cat(L, P) = Cat(i, P) \o Part(s, i + 1, L)
  <2>1. L \in i..Len(s)
    BY <1>1, <1>2
  <2> HIDE DEF i
  <2> QED BY <1>1, <1>2, <1>3, <2>1, Kept DEF Part
<1> QED BY <1>2, <1>4

Buffers(total, Y) == [1..total -> Y]

\* What copy leaves: buf begins with c, as far as it goes, and then with t too.
BeginsWith(buf, total, c) == \A k \in 1..Len(c) : k <= total => buf[k] = c[k]

\* copy adds to the part of the buffer that is filled.
LEMMA Copied ==
    ASSUME NEW X, NEW Y, NEW total \in Nat, NEW buf \in Buffers(total, Y),
           NEW c \in Seq(X), NEW t \in Seq(X), X \subseteq Y,
           BeginsWith(buf, total, c)
    PROVE  /\ Copy(buf, Len(c), t) \in Buffers(total, Y)
           /\ BeginsWith(Copy(buf, Len(c), t), total, c \o t)
           /\ Len(c \o t) = Len(c) + Len(t)
<1>0. Len(c) \in Nat /\ Len(t) \in Nat /\ DOMAIN buf = 1..total
      /\ buf \in [1..total -> Y]
  BY DEF Buffers
<1>1. Copy(buf, Len(c), t) \in [1..total -> Y]
  <2>1. ASSUME NEW k \in (Len(c) + 1)..(Len(c) + Len(t)) PROVE t[k - Len(c)] \in Y
    <3>1. k - Len(c) \in 1..Len(t)
      BY <1>0
    <3> QED BY <3>1
  <2> QED BY <1>0, <2>1 DEF Copy
<1>2. ASSUME NEW k \in 1..Len(c \o t), k <= total
      PROVE  Copy(buf, Len(c), t)[k] = (c \o t)[k]
  <2>1. k \in 1..(Len(c) + Len(t)) /\ k \in 1..total
    BY <1>2
  <2>2. Copy(buf, Len(c), t)[k]
          = IF k \in (Len(c) + 1)..(Len(c) + Len(t)) THEN t[k - Len(c)] ELSE buf[k]
    BY <1>0, <2>1 DEF Copy
  <2>3. CASE k <= Len(c)
    <3>1. (c \o t)[k] = c[k] /\ k \in 1..Len(c)
      BY <1>0, <2>1, <2>3
    <3> QED BY <1>0, <1>2, <2>2, <2>3, <3>1 DEF BeginsWith
  <2>4. CASE k > Len(c)
    <3>1. (c \o t)[k] = t[k - Len(c)] /\ k \in (Len(c) + 1)..(Len(c) + Len(t))
      BY <1>0, <2>1, <2>4
    <3> QED BY <2>2, <3>1
  <2> QED BY <1>0, <2>1, <2>3, <2>4
<1>3. Len(c \o t) = Len(c) + Len(t)
  OBVIOUS
<1> QED BY <1>1, <1>2, <1>3 DEF BeginsWith, Buffers

\* The first loop counts what the second one writes, and the second one writes
\* the pieces from left to right.
LEMMA Filled ==
    ASSUME NEW X, NEW s \in Seq(X), NEW ms, NEW P, Covers(s, ms, P, X)
    PROVE  FillIn(s, ms) = Cat(Len(s), P)
<1>a. ASSUME NEW n \in 1..Len(ms) PROVE Passed(s, ms, P, X, n)
  BY OneMatch
<1>b. /\ EndOf(ms, Len(ms)) \in 0..Len(s)
      /\ Cat(Len(s), P) = Cat(EndOf(ms, Len(ms)), P)
                              \o Part(s, EndOf(ms, Len(ms)) + 1, Len(s))
  BY TheRest
<1> DEFINE L == Len(s)
           N == Len(ms)
           last(n) == EndOf(ms, n)
           gap(n)  == Gap(s, ms, n)
           Sizes(f) == f = [n \in 0..N |->
               IF n = 0 THEN 0
               ELSE f[n - 1] + (ms[n].start - 1 - last(n - 1)) + Len(Resolve(ms[n]))]
           size == CHOOSE f : Sizes(f)
           total == size[N] + (L - last(N))
           put(acc, t) == [buf |-> Copy(acc.buf, acc.n, t), n |-> acc.n + Len(t)]
           Fills(f) == f = [n \in 0..N |->
               IF n = 0 THEN [buf |-> [k \in 1..total |-> 0], n |-> 0]
               ELSE put(put(f[n - 1], gap(n)), Resolve(ms[n]))]
           fill == CHOOSE f : Fills(f)
           rest == SubSeq(s, last(N) + 1, L)
           C(n) == Cat(last(n), P)
<1>1. FillIn(s, ms) = put(fill[N], rest).buf
  BY DEF FillIn
<1>2. L \in Nat /\ N \in Nat /\ P \in Pieces(L, X)
  BY DEF Covers
<1>3. ASSUME NEW n \in 0..N PROVE last(n) \in 0..L /\ C(n) \in Seq(X)
  <2>1. last(n) \in 0..L
    BY <1>2 DEF Covers, EndOf
  <2> HIDE DEF last
  <2> QED BY <1>2, <2>1, CatNext
<1>4. ASSUME NEW n \in 1..N
      PROVE  /\ last(n - 1) \in 0..(ms[n].start - 1) /\ ms[n].start \in 1..L
             /\ gap(n) \in Seq(X) /\ Len(gap(n)) = ms[n].start - 1 - last(n - 1)
             /\ Resolve(ms[n]) \in Seq(X)
             /\ C(n) = (C(n - 1) \o gap(n)) \o Resolve(ms[n])
  BY <1>a DEF Passed
<1>5. last(N) \in 0..L /\ Cat(L, P) = C(N) \o rest
  BY <1>b DEF Part
<1>6. rest \in Seq(X) /\ Len(rest) = L - last(N)
  <2> DEFINE i == last(N) + 1
  <2>1. i \in Int /\ L \in Int /\ i <= L + 1 /\ \A k \in i..L : s[k] \in X
    BY <1>2, <1>5
  <2> HIDE DEF i, L
  <2>2. SubSeq(s, i, L) \in Seq(X) /\ Len(SubSeq(s, i, L)) = IF i <= L THEN L - i + 1 ELSE 0
    BY <2>1, SubSeqProperties
  <2>3. Len(SubSeq(s, i, L)) = L - i + 1
    BY <2>1, <2>2
  <2>4. rest = SubSeq(s, i, L)
    BY DEF i
  <2>5. L - i + 1 = L - last(N)
    BY <1>5, <2>1 DEF i
  <2> QED BY <2>2, <2>3, <2>4, <2>5
<1>7. Sizes(size) /\ size[0] = 0 /\ \A n \in 1..N : size[n - 1] \in Int =>
          size[n] = size[n - 1] + (ms[n].start - 1 - last(n - 1)) + Len(Resolve(ms[n]))
  <2> DEFINE step == [n \in 1..N |-> [z \in Int |->
                 z + (ms[n].start - 1 - last(n - 1)) + Len(Resolve(ms[n]))]]
  <2>1. step \in Steps(N, Int)
    <3>1. ASSUME NEW n \in 1..N, NEW z \in Int
          PROVE  z + (ms[n].start - 1 - last(n - 1)) + Len(Resolve(ms[n])) \in Int
      <4>1. ms[n].start - 1 - last(n - 1) \in Int
        BY <1>2, <1>4
      <4>2. Len(Resolve(ms[n])) \in Int
        BY <1>4
      <4> HIDE DEF last
      <4> QED BY <4>1, <4>2
    <3> HIDE DEF last
    <3> QED BY <3>1 DEF Steps
  <2>2. PICK g \in [0..N -> Int] : g[0] = 0 /\ \A n \in 1..N : g[n] = step[n][g[n - 1]]
    <3> DEFINE S == Int
    <3>1. 0 \in S /\ step \in Steps(N, S)
      BY <2>1
    <3> HIDE DEF step, N, S
    <3>2. \E g : Unfolds(g, N, S, 0, step)
      BY <1>2, <3>1, RecursionExists
    <3> QED BY <3>2 DEF S, Unfolds
  <2> HIDE DEF last
  <2>3. ASSUME NEW n \in 0..N, n # 0
        PROVE  g[n] = g[n - 1] + (ms[n].start - 1 - last(n - 1)) + Len(Resolve(ms[n]))
    <3>1. n \in 1..N /\ n - 1 \in 0..N
      BY <1>2, <2>3
    <3>2. g[n - 1] \in Int
      BY <3>1
    <3> QED BY <2>2, <3>1, <3>2
  <2>4. Sizes(g)
    BY <2>2, <2>3
  <2>5. Sizes(size)
    <3> HIDE DEF Sizes
    <3> QED BY <2>4
  <2> HIDE DEF size
  <2>6. size[0] = 0
    BY <1>2, <2>5
  <2>7. ASSUME NEW n \in 1..N
        PROVE  size[n] = size[n - 1] + (ms[n].start - 1 - last(n - 1)) + Len(Resolve(ms[n]))
    <3>1. n \in 0..N /\ n # 0
      BY <1>2
    <3> QED BY <2>5, <3>1
  <2> QED BY <2>5, <2>6, <2>7
<1> HIDE DEF size, last
<1>8. \A n \in 0..N : size[n] = Len(C(n))
  <2> DEFINE T == {n \in 0..N : size[n] = Len(C(n))}
  <2>1. 0 \in T
    <3>1. C(0) = <<>>
      BY <1>2, CatNext DEF last, EndOf
    <3> QED BY <1>2, <1>7, <3>1
  <2>2. ASSUME NEW n \in T, 0 <= n, n < N PROVE n + 1 \in T
    <3> DEFINE k == n + 1
    <3>1. k \in 1..N /\ k - 1 = n /\ k \in 0..N /\ n \in 0..N
      BY <1>2, <2>2
    <3> HIDE DEF k
    <3>2. Len(C(n)) \in Nat /\ size[n] = Len(C(n))
      BY <1>3, <3>1
    <3>3. C(k) = (C(k - 1) \o gap(k)) \o Resolve(ms[k]) /\ gap(k) \in Seq(X)
          /\ Resolve(ms[k]) \in Seq(X) /\ C(k - 1) \in Seq(X)
          /\ Len(gap(k)) = ms[k].start - 1 - last(k - 1)
      BY <1>3, <1>4, <3>1
    <3>4. Len(C(k)) = (Len(C(k - 1)) + Len(gap(k))) + Len(Resolve(ms[k]))
      <4> DEFINE c == C(k - 1)
                 d == gap(k)
                 r == Resolve(ms[k])
      <4>1. c \in Seq(X) /\ d \in Seq(X) /\ r \in Seq(X) /\ C(k) = (c \o d) \o r
        BY <3>3
      <4> HIDE DEF c, d, r, C
      <4>2. Len(C(k)) = (Len(c) + Len(d)) + Len(r)
        BY <4>1
      <4> QED BY <4>2 DEF c, d, r
    <3>5. size[k] = size[k - 1] + (ms[k].start - 1 - last(k - 1)) + Len(Resolve(ms[k]))
      BY <1>7, <3>1, <3>2
    <3>6. size[k] = Len(C(k))
      <4> HIDE DEF C, gap
      <4> QED BY <3>1, <3>2, <3>3, <3>4, <3>5
    <3>7. k \in T
      BY <3>1, <3>6
    <3> QED BY <3>7 DEF k
  <2>3. \A n \in 0..N : n \in T
    <3> HIDE DEF T, N
    <3> QED BY <1>2, <2>1, <2>2, Climb
  <2> QED BY <2>3
<1>9. total \in Nat /\ total = Len(Cat(L, P))
  <2>1. N \in 0..N /\ C(N) \in Seq(X)
    BY <1>2, <1>3
  <2>2. size[N] = Len(C(N))
    BY <1>8, <2>1
  <2>3. Len(Cat(L, P)) = Len(C(N)) + Len(rest)
    <3> DEFINE c == C(N)
               d == rest
    <3>1. c \in Seq(X) /\ d \in Seq(X) /\ Cat(L, P) = c \o d
      BY <1>5, <1>6, <2>1
    <3> HIDE DEF c, d, C, rest, L
    <3>2. Len(Cat(L, P)) = Len(c) + Len(d)
      BY <3>1
    <3> QED BY <3>2 DEF c, d
  <2>4. Len(C(N)) \in Nat /\ Len(rest) \in Nat
    <3> DEFINE c == C(N)
               d == rest
    <3>1. c \in Seq(X) /\ d \in Seq(X)
      BY <1>5, <2>1
    <3> HIDE DEF c, d
    <3>2. Len(c) \in Nat /\ Len(d) \in Nat
      BY <3>1
    <3> QED BY <3>2 DEF c, d
  <2>5. total = size[N] + Len(rest)
    BY <1>5
  <2> HIDE DEF C, rest, L, total
  <2> QED BY <2>2, <2>3, <2>4, <2>5
<1> HIDE DEF total
<1> DEFINE Y == X \cup {0}
           S == [buf : [1..total -> Y], n : Nat]
           Good(acc, c) == acc.n = Len(c) /\ BeginsWith(acc.buf, total, c)
<1>10. ASSUME NEW acc \in S, NEW t \in Seq(X) PROVE put(acc, t) \in S
  <2> HIDE DEF Y
  <2>1. \A k \in (acc.n + 1)..(acc.n + Len(t)) : t[k - acc.n] \in Y
    <3>1. ASSUME NEW k \in (acc.n + 1)..(acc.n + Len(t)) PROVE k - acc.n \in 1..Len(t)
      OBVIOUS
    <3> QED BY <3>1 DEF Y
  <2>2. Copy(acc.buf, acc.n, t) \in [1..total -> Y]
    BY <2>1 DEF Copy
  <2>3. acc.n + Len(t) \in Nat
    OBVIOUS
  <2> QED BY <2>2, <2>3
<1>11. ASSUME NEW acc \in S, NEW c \in Seq(X), NEW t \in Seq(X), Good(acc, c)
       PROVE  Good(put(acc, t), c \o t)
  <2>1. acc.buf \in Buffers(total, Y) /\ acc.n = Len(c) /\ X \subseteq Y
        /\ BeginsWith(acc.buf, total, c)
    BY <1>11 DEF Buffers
  <2>2. /\ BeginsWith(Copy(acc.buf, Len(c), t), total, c \o t)
        /\ Len(c \o t) = Len(c) + Len(t)
    <3> DEFINE buf == acc.buf
    <3>1. total \in Nat /\ buf \in Buffers(total, Y) /\ BeginsWith(buf, total, c)
      BY <1>9, <2>1
    <3> HIDE DEF Y, S, Good, buf
    <3>2. /\ BeginsWith(Copy(buf, Len(c), t), total, c \o t)
          /\ Len(c \o t) = Len(c) + Len(t)
      BY <2>1, <3>1, Copied
    <3> QED BY <3>2 DEF buf
  <2> QED BY <2>1, <2>2
<1>12. Fills(fill) /\ fill[0] = [buf |-> [k \in 1..total |-> 0], n |-> 0]
       /\ \A n \in 1..N : fill[n - 1] \in S =>
              fill[n] = put(put(fill[n - 1], gap(n)), Resolve(ms[n]))
  <2> DEFINE a == [buf |-> [k \in 1..total |-> 0], n |-> 0]
             step == [n \in 1..N |-> [acc \in S |->
                          put(put(acc, gap(n)), Resolve(ms[n]))]]
  <2>1. step \in Steps(N, S)
    <3>1. ASSUME NEW n \in 1..N, NEW acc \in S
          PROVE  put(put(acc, gap(n)), Resolve(ms[n])) \in S
      <4> HIDE DEF put, S, gap
      <4> QED BY <1>4, <1>10
    <3> HIDE DEF put, S, gap
    <3> QED BY <3>1 DEF Steps
  <2>2. a \in S
    OBVIOUS
  <2>3. PICK g \in [0..N -> S] : g[0] = a /\ \A n \in 1..N : g[n] = step[n][g[n - 1]]
    <3> HIDE DEF step, N, S, a
    <3>1. \E g : Unfolds(g, N, S, a, step)
      BY <1>2, <2>1, <2>2, RecursionExists
    <3> QED BY <3>1 DEF Unfolds
  <2> HIDE DEF put, S, gap
  <2>4. ASSUME NEW n \in 0..N, n # 0
        PROVE  g[n] = put(put(g[n - 1], gap(n)), Resolve(ms[n]))
    <3>1. n \in 1..N /\ n - 1 \in 0..N
      BY <1>2, <2>4
    <3>2. g[n - 1] \in S
      BY <3>1
    <3> QED BY <2>3, <3>1, <3>2
  <2>5. Fills(g)
    BY <2>3, <2>4
  <2>6. Fills(fill)
    <3> HIDE DEF Fills
    <3> QED BY <2>5
  <2> HIDE DEF fill
  <2>7. fill[0] = a
    BY <1>2, <2>6
  <2>8. ASSUME NEW n \in 1..N
        PROVE  fill[n] = put(put(fill[n - 1], gap(n)), Resolve(ms[n]))
    <3>1. n \in 0..N /\ n # 0
      BY <1>2
    <3> QED BY <2>6, <3>1
  <2> QED BY <2>6, <2>7, <2>8
<1> HIDE DEF fill
<1>13. \A n \in 0..N : fill[n] \in S /\ Good(fill[n], C(n))
  <2> DEFINE Ok(n) == fill[n] \in S /\ Good(fill[n], C(n))
             T == {n \in 0..N : Ok(n)}
  <2>1. 0 \in T
    <3>1. C(0) = <<>>
      BY <1>2, CatNext DEF last, EndOf
    <3> DEFINE a == [buf |-> [k \in 1..total |-> 0], n |-> 0]
    <3>a. fill[0] = a
      <4> HIDE DEF S, Fills, put
      <4> QED BY <1>12
    <3>2. fill[0] \in S
      <4>1. a \in S
        OBVIOUS
      <4> HIDE DEF a, S
      <4> QED BY <3>a, <4>1
    <3>3. Good(fill[0], <<>>)
      <4>1. Good(a, <<>>)
        BY DEF BeginsWith
      <4> HIDE DEF a, Good
      <4> QED BY <3>a, <4>1
    <3>4. Ok(0)
      <4> HIDE DEF S, Good, C
      <4> QED BY <3>1, <3>2, <3>3
    <3> HIDE DEF Ok
    <3> QED BY <1>2, <3>4
  <2>2. ASSUME NEW n \in T, 0 <= n, n < N PROVE n + 1 \in T
    <3> DEFINE k == n + 1
    <3>1. k \in 1..N /\ k - 1 = n /\ k \in 0..N /\ n \in 0..N
      BY <1>2, <2>2
    <3>2. fill[n] \in S /\ Good(fill[n], C(n))
      BY <2>2
    <3> HIDE DEF k, S, Good, put, C, gap
    <3>3. C(k) = (C(n) \o gap(k)) \o Resolve(ms[k]) /\ gap(k) \in Seq(X)
          /\ Resolve(ms[k]) \in Seq(X) /\ C(n) \in Seq(X)
      BY <1>3, <1>4, <3>1
    <3>4. C(n) \o gap(k) \in Seq(X)
      BY <3>3, ConcatProperties
    <3>5. put(fill[n], gap(k)) \in S /\ Good(put(fill[n], gap(k)), C(n) \o gap(k))
      BY <1>10, <1>11, <3>2, <3>3
    <3>6. put(put(fill[n], gap(k)), Resolve(ms[k])) \in S
          /\ Good(put(put(fill[n], gap(k)), Resolve(ms[k])), C(k))
      BY <1>10, <1>11, <3>3, <3>4, <3>5
    <3>7. fill[k] = put(put(fill[n], gap(k)), Resolve(ms[k]))
      BY <1>12, <3>1, <3>2
    <3>8. Ok(k)
      BY <3>6, <3>7
    <3> HIDE DEF Ok
    <3> QED BY <3>1, <3>8 DEF k
  <2>3. \A n \in 0..N : n \in T
    <3> HIDE DEF T, N
    <3> QED BY <1>2, <2>1, <2>2, Climb
  <2> HIDE DEF S, Good
  <2> QED BY <2>3
<1>14. /\ put(fill[N], rest) \in S /\ Good(put(fill[N], rest), Cat(L, P))
  <2>1. N \in 0..N
    BY <1>2
  <2> HIDE DEF S, Good, put, C, rest
  <2>2. C(N) \in Seq(X) /\ fill[N] \in S /\ Good(fill[N], C(N))
    BY <1>3, <1>13, <2>1
  <2> QED BY <1>5, <1>6, <1>10, <1>11, <2>2
<1>15. put(fill[N], rest).buf = Cat(L, P)
  <2> DEFINE buf == put(fill[N], rest).buf
             c == Cat(L, P)
  <2>1. buf \in [1..total -> Y] /\ BeginsWith(buf, total, c)
    <3> HIDE DEF put, rest
    <3> QED BY <1>14
  <2>2. c \in Seq(X) /\ total = Len(c)
    <3> HIDE DEF L
    <3>1. L \in 0..L
      BY <1>2
    <3> QED BY <1>2, <1>9, <3>1, CatNext
  <2> HIDE DEF buf, c, Y, S, Good
  <2>3. c \in [1..total -> X]
    BY <2>2
  <2>4. \A k \in 1..total : buf[k] = c[k]
    BY <2>1, <2>2 DEF BeginsWith
  <2>5. buf = c
    <3> DEFINE D == 1..total
    <3>1. buf \in [D -> Y] /\ c \in [D -> X] /\ \A k \in D : buf[k] = c[k]
      BY <2>1, <2>3, <2>4
    <3> HIDE DEF D
    <3> QED BY <3>1
  <2> QED BY <2>5 DEF buf, c
<1> QED BY <1>1, <1>15

\* Two texts in a row, token by token.
LEMMA Joined ==
    ASSUME NEW X, NEW u \in Seq(X), NEW v \in Seq(X)
    PROVE  /\ u \o v \in Seq(X) /\ Len(u \o v) = Len(u) + Len(v)
           /\ \A k \in 1..(Len(u) + Len(v)) :
                 (u \o v)[k] = IF k <= Len(u) THEN u[k] ELSE v[k - Len(u)]
  BY ConcatProperties

\* One splice: the text before the match stays, what was made behind it too.
SplicedAt(s, c, R, m) ==
    Splice(Part(s, 1, c) \o R, m)
        = Part(s, 1, m.start - 1) \o (Resolve(m) \o (Part(s, m.end + 1, c) \o R))

\* A splice changes nothing behind the match.
LEMMA OneSplice ==
    ASSUME NEW X, NEW s \in Seq(X), NEW c \in 0..Len(s), NEW R \in Seq(X),
           NEW m, m.start \in 1..c, m.end \in m.start..c, Resolve(m) \in Seq(X)
    PROVE  Part(s, m.end + 1, c) \in Seq(X) /\ SplicedAt(s, c, R, m)
<1> DEFINE t == SubSeq(s, 1, c) \o R
           h == m.start - 1
           e == m.end
           r == Resolve(m)
           a == SubSeq(s, 1, h)
           b == SubSeq(s, e + 1, c)
<1>1. /\ c \in Nat /\ Len(s) \in Nat /\ c <= Len(s) /\ h \in Nat /\ e \in Nat
      /\ h < e /\ e <= c /\ Len(R) \in Nat
  OBVIOUS
<1> HIDE DEF h, e, r
<1>2. /\ SubSeq(s, 1, c) \in Seq(X) /\ Len(SubSeq(s, 1, c)) = c
      /\ \A k \in 1..c : SubSeq(s, 1, c)[k] = s[k]
  BY <1>1
<1>3. a \in Seq(X) /\ Len(a) = h /\ \A k \in 1..h : a[k] = s[k]
  BY <1>1
<1>4. b \in Seq(X) /\ Len(b) = c - e /\ \A k \in 1..(c - e) : b[k] = s[e + k]
  BY <1>1
<1>5. /\ t \in Seq(X) /\ Len(t) = c + Len(R)
      /\ \A k \in 1..(c + Len(R)) : t[k] = IF k <= c THEN s[k] ELSE R[k - c]
  <2> DEFINE d == SubSeq(s, 1, c)
  <2>1. d \in Seq(X) /\ Len(d) = c /\ \A k \in 1..c : d[k] = s[k]
    BY <1>2
  <2> HIDE DEF d
  <2>2. /\ d \o R \in Seq(X) /\ Len(d \o R) = c + Len(R)
        /\ \A k \in 1..(c + Len(R)) : (d \o R)[k] = IF k <= c THEN d[k] ELSE R[k - c]
    BY <2>1, Joined
  <2>3. \A k \in 1..(c + Len(R)) : k <= c => d[k] = s[k]
    BY <1>1, <2>1
  <2> QED BY <2>2, <2>3 DEF d
<1> HIDE DEF t
<1>6. SubSeq(t, 1, h) = a
  <2>1. SubSeq(t, 1, h) \in Seq(X) /\ Len(SubSeq(t, 1, h)) = h
        /\ \A k \in 1..h : SubSeq(t, 1, h)[k] = s[k]
    BY <1>1, <1>5
  <2> DEFINE d == SubSeq(t, 1, h)
  <2> HIDE DEF a, d
  <2> QED BY <1>3, <2>1, SeqEqual DEF d
<1>7. SubSeq(t, e + 1, Len(t)) = b \o R
  <2> DEFINE d == SubSeq(t, e + 1, Len(t))
  <2>1. /\ d \in Seq(X) /\ Len(d) = c - e + Len(R)
        /\ \A k \in 1..(c - e + Len(R)) : d[k] = t[e + k]
    <3> DEFINE i == e + 1
               j == Len(t)
    <3>1. i \in Int /\ j \in Int /\ i <= j + 1 /\ \A k \in i..j : t[k] \in X
      BY <1>1, <1>5
    <3>2. j - i + 1 = c - e + Len(R) /\ \A k \in Int : i + k - 1 = e + k
      BY <1>1, <1>5
    <3> HIDE DEF i, j
    <3>3. /\ SubSeq(t, i, j) \in Seq(X)
          /\ Len(SubSeq(t, i, j)) = IF i <= j THEN j - i + 1 ELSE 0
          /\ \A k \in 1..(j - i + 1) : SubSeq(t, i, j)[k] = t[i + k - 1]
      BY <3>1, SubSeqProperties
    <3>4. Len(SubSeq(t, i, j)) = j - i + 1
      BY <3>1, <3>3
    <3>5. d = SubSeq(t, i, j)
      BY DEF i, j
    <3> HIDE DEF d
    <3>6. ASSUME NEW k \in 1..(c - e + Len(R)) PROVE d[k] = t[e + k]
      <4>1. k \in 1..(j - i + 1) /\ i + k - 1 = e + k
        BY <3>2
      <4>2. d[k] = t[i + k - 1]
        BY <3>3, <3>5, <4>1
      <4> QED BY <4>1, <4>2
    <3> QED BY <3>2, <3>3, <3>4, <3>5, <3>6
  <2> HIDE DEF b, d
  <2>2. /\ b \o R \in Seq(X) /\ Len(b \o R) = c - e + Len(R)
        /\ \A k \in 1..(c - e + Len(R)) :
              (b \o R)[k] = IF k <= c - e THEN b[k] ELSE R[k - (c - e)]
    <3> DEFINE l == c - e
    <3>1. b \in Seq(X) /\ Len(b) = l
      BY <1>4
    <3> HIDE DEF l
    <3>2. /\ b \o R \in Seq(X) /\ Len(b \o R) = l + Len(R)
          /\ \A k \in 1..(l + Len(R)) : (b \o R)[k] = IF k <= l THEN b[k] ELSE R[k - l]
      BY <3>1, Joined
    <3> QED BY <3>2 DEF l
  <2>3. ASSUME NEW k \in 1..(c - e + Len(R)) PROVE d[k] = (b \o R)[k]
    <3>1. e + k \in 1..(c + Len(R)) /\ (e + k <= c <=> k <= c - e)
          /\ (e + k) - c = k - (c - e)
      BY <1>1
    <3>2. d[k] = IF k <= c - e THEN s[e + k] ELSE R[k - (c - e)]
      BY <1>5, <2>1, <3>1
    <3>3. k <= c - e => b[k] = s[e + k]
      BY <1>1, <1>4
    <3> QED BY <2>2, <3>2, <3>3
  <2>4. d = b \o R
    <3> DEFINE f == b \o R
    <3> HIDE DEF f
    <3>1. f \in Seq(X) /\ Len(d) = Len(f) /\ \A k \in 1..Len(d) : d[k] = f[k]
      BY <2>1, <2>2, <2>3 DEF f
    <3>2. d = f
      BY <2>1, <3>1, SeqEqual
    <3> QED BY <3>2 DEF f
  <2> QED BY <2>4 DEF d
<1>8. Splice(t, m) = a \o r \o (b \o R)
  BY <1>6, <1>7 DEF Splice, h, e, r
<1>9. a \o r \o (b \o R) = a \o (r \o (b \o R))
  <2> DEFINE f == b \o R
  <2> HIDE DEF a, b
  <2>1. f \in Seq(X) /\ r \in Seq(X) /\ a \in Seq(X)
    BY <1>3, <1>4 DEF r
  <2> HIDE DEF f
  <2>2. (a \o r) \o f = a \o (r \o f)
    <3>1. Regroups(a, r, f)
      BY <2>1, Associates
    <3> QED BY <3>1 DEF Regroups
  <2> QED BY <2>2 DEF f
<1> QED BY <1>4, <1>8, <1>9 DEF t, h, e, r, Part, SplicedAt

\* From the last match to the first, if they were found from left to right.
LEMMA Spliced ==
    ASSUME NEW X, NEW s \in Seq(X), NEW ms, NEW P, Covers(s, ms, P, X)
    PROVE  SpliceFrom(s, Reverse(ms)) = Cat(Len(s), P)
<1>a. ASSUME NEW n \in 1..Len(ms)
      PROVE  /\ Cat(ms[n].start - 1, P) = Cat(EndOf(ms, n - 1), P) \o Gap(s, ms, n)
             /\ Cat(ms[n].end, P) = Cat(ms[n].start - 1, P) \o Resolve(ms[n])
             /\ EndOf(ms, n) = ms[n].end /\ EndOf(ms, n - 1) \in 0..(ms[n].start - 1)
             /\ Resolve(ms[n]) \in Seq(X) /\ ms[n].start \in 1..Len(s)
             /\ ms[n].end \in ms[n].start..Len(s)
  <2>1. Passed(s, ms, P, X, n)
    BY OneMatch
  <2> QED BY <2>1 DEF Passed
<1>b. /\ EndOf(ms, Len(ms)) \in 0..Len(s)
      /\ Cat(Len(s), P) = Cat(EndOf(ms, Len(ms)), P)
                              \o Part(s, EndOf(ms, Len(ms)) + 1, Len(s))
  BY TheRest
<1> DEFINE L == Len(s)
           N == Len(ms)
           rs == Reverse(ms)
           Turns(f) == f = [n \in 0..Len(rs) |->
                               IF n = 0 THEN s ELSE Splice(f[n - 1], rs[n])]
           turn == CHOOSE f : Turns(f)
           cut(n) == IF n = 0 THEN L ELSE ms[N - n + 1].start - 1
           Inv(n, t) == \E R \in Seq(X) : /\ t = Part(s, 1, cut(n)) \o R
                                          /\ Cat(L, P) = Cat(cut(n), P) \o R
<1>1. L \in Nat /\ N \in Nat /\ P \in Pieces(L, X)
  BY DEF Covers
<1>2. SpliceFrom(s, rs) = turn[Len(rs)]
  BY DEF SpliceFrom
<1>3. Len(rs) = N /\ \A n \in 1..N : rs[n] = ms[N - n + 1]
  <2>1. rs = [n \in 1..N |-> ms[N - n + 1]]
    BY DEF Reverse
  <2> HIDE DEF rs
  <2> QED BY <1>1, <2>1
<1> HIDE DEF rs
<1>4. Inv(0, s)
  <2>1. Part(s, 1, L) = s
    BY SubSeqFull DEF Part
  <2>2. s \o <<>> = s
    BY ConcatEmptySeq
  <2>3. L \in 0..L
    BY <1>1
  <2>4. Cat(L, P) \in Seq(X)
    BY <1>1, <2>3, CatNext
  <2>5. Cat(L, P) \o <<>> = Cat(L, P)
    BY <2>4, ConcatEmptySeq
  <2>6. <<>> \in Seq(X)
    OBVIOUS
  <2> QED BY <2>1, <2>2, <2>5, <2>6
\* What lies before the cut ends with a match and what stands behind that.
<1>5. ASSUME NEW n \in 1..N
      PROVE  /\ cut(n - 1) \in 0..L /\ rs[n].end \in 0..cut(n - 1)
             /\ Cat(cut(n - 1), P) = Cat(rs[n].end, P)
                                        \o Part(s, rs[n].end + 1, cut(n - 1))
  <2> DEFINE k == N - n + 1
  <2>1. k \in 1..N /\ rs[n] = ms[k] /\ n - 1 \in Int
    BY <1>1, <1>3
  <2>2. CASE n = 1
    <3>1. k = N /\ cut(n - 1) = L
      BY <1>1, <2>2
    <3>2. EndOf(ms, N) = ms[N].end
      BY <1>a, <2>1, <3>1
    <3>3. rs[n].end = EndOf(ms, N)
      BY <2>1, <3>1, <3>2
    <3>4. rs[n].end = EndOf(ms, Len(ms))
      BY <3>3
    <3> DEFINE c == cut(n - 1)
               x == rs[n].end
    <3>5. /\ x \in 0..L
          /\ Cat(L, P) = Cat(x, P) \o Part(s, x + 1, L)
      BY <1>b, <3>4
    <3>6. c = L /\ L \in 0..L
      BY <1>1, <3>1
    <3> HIDE DEF c, x, L
    <3>7. /\ c \in 0..L /\ x \in 0..c
          /\ Cat(c, P) = Cat(x, P) \o Part(s, x + 1, c)
      BY <3>5, <3>6
    <3> QED BY <3>7 DEF c, x
  <2>3. CASE n # 1
    <3> DEFINE l == k + 1
    <3>1. l \in 1..N /\ l - 1 = k /\ cut(n - 1) = ms[l].start - 1
      BY <1>1, <2>1, <2>3
    <3> HIDE DEF l, k
    <3>2. EndOf(ms, k) = ms[k].end
      BY <1>a, <2>1
    <3>3. /\ Cat(ms[l].start - 1, P) = Cat(EndOf(ms, l - 1), P) \o Gap(s, ms, l)
          /\ EndOf(ms, l - 1) \in 0..(ms[l].start - 1) /\ ms[l].start \in 1..L
      BY <1>a, <3>1
    <3>4. Gap(s, ms, l) = Part(s, ms[k].end + 1, ms[l].start - 1)
      BY <3>1, <3>2 DEF Gap, Part
    <3>5. rs[n].end = EndOf(ms, l - 1) /\ rs[n].end = ms[k].end
      BY <2>1, <3>1, <3>2
    <3>6. cut(n - 1) \in 0..L /\ rs[n].end \in 0..cut(n - 1)
      <4> DEFINE c == cut(n - 1)
                 x == rs[n].end
                 b == ms[l].start
      <4>1. c = b - 1 /\ x \in 0..(b - 1) /\ b \in 1..L
        BY <3>1, <3>3, <3>5
      <4> HIDE DEF c, x, b, L
      <4>2. c \in 0..L /\ x \in 0..c
        BY <1>1, <4>1
      <4> QED BY <4>2 DEF c, x
    <3> HIDE DEF cut
    <3>7. Cat(cut(n - 1), P) = Cat(rs[n].end, P) \o Part(s, rs[n].end + 1, cut(n - 1))
      BY <3>1, <3>3, <3>4, <3>5
    <3> QED BY <3>6, <3>7
  <2> QED BY <2>2, <2>3
<1>6. ASSUME NEW n \in 1..N, NEW t, Inv(n - 1, t)
      PROVE  Inv(n, Splice(t, rs[n])) /\ t \in Seq(X)
  <2> DEFINE c == cut(n - 1)
             m == rs[n]
             h == m.start - 1
             b == Part(s, m.end + 1, c)
             r == Resolve(m)
  <2>1. PICK R \in Seq(X) : t = Part(s, 1, c) \o R /\ Cat(L, P) = Cat(c, P) \o R
    BY <1>6
  <2>2. /\ c \in 0..L /\ m.end \in 0..c /\ Cat(c, P) = Cat(m.end, P) \o b
    BY <1>5
  <2>3. /\ N - n + 1 \in 1..N /\ m = ms[N - n + 1] /\ cut(n) = h
    <3> DEFINE j == N - n + 1
    <3>1. j \in 1..N /\ n # 0
      BY <1>1
    <3>2. m = ms[j]
      BY <1>3
    <3>3. cut(n) = ms[j].start - 1
      BY <3>1
    <3> HIDE DEF cut, j, m
    <3>4. m.start - 1 = ms[j].start - 1
      BY <3>2
    <3> QED BY <3>1, <3>2, <3>3, <3>4 DEF j
  <2>4. /\ m.start \in 1..L /\ m.end \in m.start..L /\ r \in Seq(X)
        /\ Cat(m.end, P) = Cat(h, P) \o r
    BY <1>a, <2>3
  <2> HIDE DEF cut
  <2>5. m.start \in 1..c /\ m.end \in m.start..c /\ h \in 0..L /\ c \in 0..Len(s)
    <3> DEFINE a == m.start
               e == m.end
    <3>1. c \in 0..L /\ e \in 0..c /\ a \in 1..L /\ e \in a..L /\ h = a - 1
      BY <2>2, <2>4
    <3> HIDE DEF a, c, e, h, m, b, r, L
    <3>2. a \in 1..c /\ e \in a..c /\ h \in 0..L /\ c \in 0..L
      BY <1>1, <3>1
    <3> QED BY <3>2 DEF a, e, L
  <2>6. b \in Seq(X) /\ Splice(t, m) = Part(s, 1, h) \o (r \o (b \o R))
    <3>1. Resolve(m) \in Seq(X)
      BY <2>4
    <3> HIDE DEF c, m
    <3>2. Part(s, m.end + 1, c) \in Seq(X)
      BY <2>1, <2>5, <3>1, OneSplice
    <3>3. SplicedAt(s, c, R, m)
      BY <2>1, <2>5, <3>1, OneSplice
    <3> QED BY <2>1, <3>2, <3>3 DEF SplicedAt
  <2>7. Cat(L, P) = Cat(h, P) \o (r \o (b \o R))
    <3> DEFINE d == Cat(h, P)
    <3>1. d \in Seq(X)
      BY <1>1, <2>5, CatNext
    <3>2. Cat(L, P) = ((d \o r) \o b) \o R
      BY <2>1, <2>2, <2>4
    <3>3. b \in Seq(X) /\ r \in Seq(X) /\ R \in Seq(X)
      BY <2>4, <2>6
    <3> HIDE DEF b, r, d
    <3>4. ((d \o r) \o b) \o R = d \o (r \o (b \o R))
      <4>1. d \o r \in Seq(X) /\ b \o R \in Seq(X)
        BY <3>1, <3>3, ConcatProperties
      <4>2. Regroups(d \o r, b, R) /\ Regroups(d, r, b \o R)
        BY <3>1, <3>3, <4>1, Associates
      <4> QED BY <4>2 DEF Regroups
    <3> QED BY <3>2, <3>4 DEF d
  <2>8. r \o (b \o R) \in Seq(X)
    <3> HIDE DEF b, r
    <3> QED BY <2>4, <2>6, ConcatProperties
  <2>9. t \in Seq(X)
    <3>1. Part(s, 1, c) \in Seq(X)
      <4> HIDE DEF c
      <4> QED BY <2>5 DEF Part
    <3> QED BY <2>1, <3>1, ConcatProperties
  <2>10. Inv(n, Splice(t, m))
    <3> DEFINE w == r \o (b \o R)
    <3>1. w \in Seq(X) /\ Splice(t, m) = Part(s, 1, cut(n)) \o w
          /\ Cat(L, P) = Cat(cut(n), P) \o w
      BY <2>3, <2>6, <2>7, <2>8
    <3> HIDE DEF w
    <3> QED BY <3>1
  <2> QED BY <2>9, <2>10
<1> HIDE DEF Inv, cut
<1>7. PICK g : Turns(g) /\ g[0] = s /\ \A n \in 0..N : Inv(n, g[n])
  <2> DEFINE S == Seq(X)
             next(n, t) == IF Splice(t, rs[n]) \in S THEN Splice(t, rs[n]) ELSE t
             step == [n \in 1..N |-> [t \in S |-> next(n, t)]]
  <2>1. step \in Steps(N, S) /\ s \in S
    BY DEF Steps
  <2>2. PICK g \in [0..N -> S] : g[0] = s /\ \A n \in 1..N : g[n] = step[n][g[n - 1]]
    <3> HIDE DEF step, S, N
    <3>1. \E g : Unfolds(g, N, S, s, step)
      BY <1>1, <2>1, RecursionExists
    <3> QED BY <3>1 DEF Unfolds
  <2>3. \A n \in 1..N : g[n] = next(n, g[n - 1]) /\ g[n - 1] \in S
    <3> SUFFICES ASSUME NEW n \in 1..N
                 PROVE  g[n] = next(n, g[n - 1]) /\ g[n - 1] \in S
      OBVIOUS
    <3>1. n - 1 \in 0..N
      BY <1>1
    <3>2. g[n - 1] \in S
      BY <3>1
    <3> HIDE DEF S, next
    <3> QED BY <2>2, <3>2
  <2> DEFINE T == {n \in 0..N : Inv(n, g[n])}
  <2>4. 0 \in T
    BY <1>1, <1>4, <2>2
  <2>5. ASSUME NEW n \in 1..N, Inv(n - 1, g[n - 1])
        PROVE  Inv(n, g[n]) /\ g[n] = Splice(g[n - 1], rs[n])
    <3>1. Inv(n, Splice(g[n - 1], rs[n]))
      BY <1>6, <2>5
    <3>2. Splice(g[n - 1], rs[n]) \in S
      <4>1. PICK R \in Seq(X) : Splice(g[n - 1], rs[n]) = Part(s, 1, cut(n)) \o R
        BY <3>1 DEF Inv
      <4>2. cut(n) \in 0..L
        <5> DEFINE k == N - n + 1
        <5>1. k \in 1..N /\ cut(n) = ms[k].start - 1
          BY <1>1 DEF cut
        <5>2. ms[k].start \in 1..L
          <6> HIDE DEF k
          <6> QED BY <1>a, <5>1
        <5> QED BY <1>1, <5>1, <5>2
      <4>3. Part(s, 1, cut(n)) \in Seq(X)
        BY <1>1, <4>2 DEF Part
      <4> QED BY <4>1, <4>3, ConcatProperties
    <3>3. g[n] = Splice(g[n - 1], rs[n])
      BY <2>3, <3>2
    <3> QED BY <3>1, <3>3
  <2>6. ASSUME NEW n \in T, 0 <= n, n < N PROVE n + 1 \in T
    <3> DEFINE k == n + 1
    <3>1. k \in 1..N /\ k \in 0..N /\ k - 1 = n
      BY <1>1, <2>6
    <3> HIDE DEF k
    <3>2. Inv(k, g[k])
      BY <2>5, <3>1
    <3> QED BY <3>1, <3>2 DEF k
  <2>7. \A n \in 0..N : n \in T
    <3> HIDE DEF T, N
    <3> QED BY <1>1, <2>4, <2>6, Climb
  <2>8. ASSUME NEW n \in 0..Len(rs), n # 0 PROVE g[n] = Splice(g[n - 1], rs[n])
    <3>1. n \in 1..N /\ n - 1 \in 0..N
      BY <1>1, <1>3, <2>8
    <3>2. Inv(n - 1, g[n - 1])
      BY <2>7, <3>1
    <3> QED BY <2>5, <3>1, <3>2
  <2>9. Turns(g)
    <3>1. g \in [0..Len(rs) -> S]
      BY <1>3
    <3> HIDE DEF S
    <3> QED BY <2>2, <2>8, <3>1
  <2> QED BY <2>2, <2>7, <2>9
<1>8. Turns(turn)
  <2> HIDE DEF Turns
  <2> QED BY <1>7
<1> HIDE DEF turn
<1>9. \A n \in 0..N : turn[n] = g[n]
  <2> DEFINE T == {n \in 0..N : turn[n] = g[n]}
  <2>1. 0 \in T
    BY <1>1, <1>3, <1>7, <1>8
  <2>2. ASSUME NEW n \in T, 0 <= n, n < N PROVE n + 1 \in T
    <3> DEFINE k == n + 1
    <3>1. k \in 0..Len(rs) /\ k \in 0..N /\ k # 0 /\ k - 1 = n
      BY <1>1, <1>3, <2>2
    <3> HIDE DEF k
    <3>2. turn[k] = Splice(turn[k - 1], rs[k]) /\ g[k] = Splice(g[k - 1], rs[k])
      BY <1>7, <1>8, <3>1
    <3>3. turn[k] = g[k]
      BY <3>1, <3>2
    <3> QED BY <3>1, <3>3 DEF k
  <2>3. \A n \in 0..N : n \in T
    <3> HIDE DEF T, N
    <3> QED BY <1>1, <2>1, <2>2, Climb
  <2> QED BY <2>3
<1>10. PICK R \in Seq(X) : /\ turn[N] = Part(s, 1, cut(N)) \o R
                           /\ Cat(L, P) = Cat(cut(N), P) \o R
  <2>1. N \in 0..N
    BY <1>1
  <2> QED BY <1>7, <1>9, <2>1 DEF Inv
<1>11. Cat(cut(N), P) = Part(s, 1, cut(N))
  <2>0. Cat(0, P) = <<>>
    BY <1>1, CatNext
  <2>1. CASE N = 0
    <3>1. cut(N) = L /\ EndOf(ms, N) = 0 /\ 0 + 1 = 1
      BY <2>1 DEF cut, EndOf
    <3>2. Cat(L, P) = <<>> \o Part(s, 1, L)
      BY <1>b, <2>0, <3>1 DEF Part
    <3>3. Part(s, 1, L) = s
      BY SubSeqFull DEF Part
    <3> QED BY <3>1, <3>2, <3>3, ConcatEmptySeq
  <2>2. CASE N # 0
    <3>1. N - N + 1 = 1 /\ 1 \in 1..N /\ 1 - 1 = 0 /\ 0 + 1 = 1
      BY <1>1, <2>2
    <3>2. cut(N) = ms[1].start - 1 /\ EndOf(ms, 0) = 0
      BY <2>2, <3>1 DEF cut, EndOf
    <3>3. Cat(ms[1].start - 1, P) = Cat(EndOf(ms, 1 - 1), P) \o Gap(s, ms, 1)
          /\ ms[1].start \in 1..L
      BY <1>a, <3>1
    <3>4. Gap(s, ms, 1) = Part(s, 1, cut(N))
      BY <3>1, <3>2 DEF Gap, Part
    <3>5. Part(s, 1, cut(N)) \in Seq(X)
      BY <1>1, <3>2, <3>3 DEF Part
    <3>6. Cat(cut(N), P) = <<>> \o Part(s, 1, cut(N))
      BY <2>0, <3>1, <3>2, <3>3, <3>4
    <3> QED BY <3>5, <3>6, ConcatEmptySeq
  <2> QED BY <2>1, <2>2
<1>12. SpliceFrom(s, rs) = Cat(L, P)
  BY <1>2, <1>3, <1>10, <1>11
<1> QED BY <1>12 DEF rs
-----------------------------------------------------------------------------
(* FindAll: which matches there are, and in which order *)

\* The sets that InOrder takes from have one match at most.
LEMMA SeqOfSet ==
    /\ SetToSeq({}) = <<>>
    /\ \A m : SetToSeq({m}) = <<m>>
<1>1. SetToSeq({}) = <<>>
  <2> DEFINE Is(f) == f \in [1..Cardinality({}) -> {}] /\ IsInjective(f)
             f == CHOOSE f : Is(f)
  <2>1. Cardinality({}) = 0
    BY FS_EmptySet
  <2>2. Is(<<>>)
    BY <2>1 DEF IsInjective
  <2>3. Is(f)
    <3> HIDE DEF Is
    <3> QED BY <2>2
  <2>4. SetToSeq({}) = f
    BY DEF SetToSeq
  <2> HIDE DEF f
  <2>5. f \in [1..0 -> {}]
    BY <2>1, <2>3
  <2>6. f = <<>>
    BY <2>5
  <2> QED BY <2>4, <2>6
<1>2. ASSUME NEW m PROVE SetToSeq({m}) = <<m>>
  <2> DEFINE Is(f) == f \in [1..Cardinality({m}) -> {m}] /\ IsInjective(f)
             f == CHOOSE f : Is(f)
  <2>1. Cardinality({m}) = 1
    BY FS_Singleton
  <2>2. Is(<<m>>)
    BY <2>1 DEF IsInjective
  <2>3. Is(f)
    <3> HIDE DEF Is
    <3> QED BY <2>2
  <2>4. SetToSeq({m}) = f
    BY DEF SetToSeq
  <2> HIDE DEF f
  <2>5. f \in [1..1 -> {m}]
    BY <2>1, <2>3
  <2>6. f = <<m>>
    BY <2>5
  <2> QED BY <2>4, <2>6
<1> QED BY <1>1, <1>2

\* ms goes through M in the order in which its members start.
Lists(ms, M) ==
    /\ ms \in Seq(M)
    /\ \A m \in M : \E i \in 1..Len(ms) : ms[i] = m
    /\ \A i, j \in 1..Len(ms) : i < j => ms[i].start < ms[j].start

\* As far as those that start at n or before.
ListsUpTo(ms, M, n) ==
    /\ ms \in Seq(M)
    /\ \A i \in 1..Len(ms) : ms[i].start <= n
    /\ \A m \in M : m.start <= n => \E i \in 1..Len(ms) : ms[i] = m
    /\ \A i, j \in 1..Len(ms) : i < j => ms[i].start < ms[j].start

\* A step of InOrder where no match starts.
LEMMA NoneMore ==
    ASSUME NEW M, NEW N \in Nat, \A m \in M : m.start \in 1..N,
           NEW n \in 0..N, NEW ms, ListsUpTo(ms, M, n), \A m \in M : m.start # n + 1
    PROVE  ListsUpTo(ms, M, n + 1)
<1>1. \A i \in 1..Len(ms) : ms[i] \in M
  BY DEF ListsUpTo
<1>2. \A i \in 1..Len(ms) : ms[i].start <= n + 1
  BY <1>1 DEF ListsUpTo
<1>3. \A m \in M : m.start <= n + 1 => m.start <= n
  OBVIOUS
<1> QED BY <1>2, <1>3 DEF ListsUpTo

\* And one where a match starts.
LEMMA OneMore ==
    ASSUME NEW M, NEW N \in Nat, \A m \in M : m.start \in 1..N,
           \A m, l \in M : m.start = l.start => m = l,
           NEW n \in 0..N, NEW ms, ListsUpTo(ms, M, n), NEW m \in M, m.start = n + 1
    PROVE  ListsUpTo(ms \o <<m>>, M, n + 1)
<1> DEFINE ns == ms \o <<m>>
<1>1. /\ ms \in Seq(M) /\ Len(ms) \in Nat
      /\ \A i \in 1..Len(ms) : ms[i].start <= n /\ ms[i] \in M
      /\ \A l \in M : l.start <= n => \E i \in 1..Len(ms) : ms[i] = l
      /\ \A i, j \in 1..Len(ms) : i < j => ms[i].start < ms[j].start
  BY DEF ListsUpTo
<1>2. /\ ns \in Seq(M) /\ Len(ns) = Len(ms) + 1
      /\ \A i \in 1..Len(ms) : ns[i] = ms[i]
      /\ ns[Len(ms) + 1] = m
  BY <1>1
<1> HIDE DEF ns
<1>3. \A i \in 1..Len(ns) : ns[i].start <= n + 1
  <2> SUFFICES ASSUME NEW i \in 1..Len(ns) PROVE ns[i].start <= n + 1
    OBVIOUS
  <2>1. CASE i = Len(ms) + 1
    BY <1>2, <2>1
  <2>2. CASE i \in 1..Len(ms)
    <3>1. ns[i] = ms[i] /\ ms[i].start <= n /\ ms[i].start \in 1..N
      BY <1>1, <1>2, <2>2
    <3> QED BY <3>1
  <2> QED BY <1>1, <1>2, <2>1, <2>2
<1>4. \A l \in M : l.start <= n + 1 => \E i \in 1..Len(ns) : ns[i] = l
  <2> SUFFICES ASSUME NEW l \in M, l.start <= n + 1
               PROVE  \E i \in 1..Len(ns) : ns[i] = l
    OBVIOUS
  <2>1. CASE l.start = n + 1
    <3>1. l = m /\ Len(ms) + 1 \in 1..Len(ns)
      BY <1>1, <1>2, <2>1
    <3> QED BY <1>2, <3>1
  <2>2. CASE l.start # n + 1
    <3>1. l.start <= n
      BY <2>2
    <3>2. PICK i \in 1..Len(ms) : ms[i] = l
      BY <1>1, <3>1
    <3>3. i \in 1..Len(ns) /\ ns[i] = l
      BY <1>1, <1>2, <3>2
    <3> QED BY <3>3
  <2> QED BY <2>1, <2>2
<1>5. \A i, j \in 1..Len(ns) : i < j => ns[i].start < ns[j].start
  <2> SUFFICES ASSUME NEW i \in 1..Len(ns), NEW j \in 1..Len(ns), i < j
               PROVE  ns[i].start < ns[j].start
    OBVIOUS
  <2>1. i \in 1..Len(ms)
    BY <1>1, <1>2
  <2>2. ns[i] = ms[i] /\ ms[i].start <= n /\ ms[i].start \in 1..N
    BY <1>1, <1>2, <2>1
  <2>3. CASE j = Len(ms) + 1
    <3>1. ns[j].start = n + 1
      BY <1>2, <2>3
    <3> QED BY <2>2, <3>1
  <2>4. CASE j # Len(ms) + 1
    <3>1. j \in 1..Len(ms)
      BY <1>1, <1>2, <2>4
    <3>2. ns[j] = ms[j]
      BY <1>2, <3>1
    <3> QED BY <1>1, <2>1, <2>2, <3>1, <3>2
  <2> QED BY <2>3, <2>4
<1>6. ns \in Seq(M)
  BY <1>2
<1>7. ListsUpTo(ns, M, n + 1)
  BY <1>3, <1>4, <1>5, <1>6 DEF ListsUpTo
<1> QED BY <1>7 DEF ns

\* InOrder lists each match once, from left to right.
LEMMA InOrderLists ==
    ASSUME NEW M, NEW N \in Nat, \A m \in M : m.start \in 1..N,
           \A m, l \in M : m.start = l.start => m = l
    PROVE  Lists(InOrder(M, N), M)
<1> DEFINE F == [k \in 1..N |-> SetToSeq({m \in M : m.start = k})]
           C(n) == Cat(n, F)
           Is(n) == ListsUpTo(C(n), M, n)
<1>1. InOrder(M, N) = C(N)
  BY DEF InOrder
<1>2. ASSUME NEW k \in 1..N
      PROVE  \/ F[k] = <<>> /\ \A m \in M : m.start # k
             \/ \E m \in M : F[k] = <<m>> /\ m.start = k
  <2>1. CASE \E m \in M : m.start = k
    <3>1. PICK m \in M : m.start = k
      BY <2>1
    <3>2. {l \in M : l.start = k} = {m}
      BY <3>1
    <3>3. F[k] = SetToSeq({l \in M : l.start = k})
      OBVIOUS
    <3> HIDE DEF F
    <3> QED BY <3>1, <3>2, <3>3, SeqOfSet
  <2>2. CASE ~\E m \in M : m.start = k
    <3>1. {l \in M : l.start = k} = {}
      BY <2>2
    <3>2. F[k] = SetToSeq({l \in M : l.start = k})
      OBVIOUS
    <3> HIDE DEF F
    <3> QED BY <2>2, <3>1, <3>2, SeqOfSet
  <2> QED BY <2>1, <2>2
<1>3. F \in Pieces(N, M)
  <2>1. DOMAIN F = 1..N /\ F = [k \in 1..N |-> F[k]]
    OBVIOUS
  <2> HIDE DEF F
  <2>2. ASSUME NEW k \in 1..N PROVE F[k] \in Seq(M)
    <3>1. CASE F[k] = <<>>
      BY <3>1
    <3>2. CASE \E m \in M : F[k] = <<m>>
      BY <3>2
    <3> QED BY <1>2, <3>1, <3>2
  <2>3. F \in [1..N -> Seq(M)]
    BY <2>1, <2>2
  <2> QED BY <2>3 DEF Pieces
<1> HIDE DEF F
<1>3n. \A k \in 1..N : Cat(k, F) = Cat(k - 1, F) \o F[k]
  BY <1>3, CatGrows DEF Grows
<1>4. Is(0)
  <2>1. C(0) = <<>>
    BY <1>3, CatNext
  <2>2. \A m \in M : ~(m.start <= 0)
    OBVIOUS
  <2>3. ListsUpTo(<<>>, M, 0)
    BY <2>2 DEF ListsUpTo
  <2> QED BY <2>1, <2>3
<1>5. ASSUME NEW n \in 0..N, n < N, Is(n) PROVE Is(n + 1)
  <2>1. n + 1 \in 1..N /\ (n + 1) - 1 = n
    BY <1>5
  <2>2. C(n + 1) = C(n) \o F[n + 1]
    BY <1>3n, <2>1
  <2>3. C(n) \in Seq(M)
    BY <1>5 DEF ListsUpTo
  <2> HIDE DEF C
  <2>4. CASE F[n + 1] = <<>> /\ \A m \in M : m.start # n + 1
    <3>1. C(n + 1) = C(n)
      BY <2>2, <2>3, <2>4, ConcatEmptySeq
    <3>2. ListsUpTo(C(n), M, n + 1)
      BY <1>5, <2>4, NoneMore
    <3> QED BY <3>1, <3>2
  <2>5. CASE \E m \in M : F[n + 1] = <<m>> /\ m.start = n + 1
    <3>1. PICK m \in M : F[n + 1] = <<m>> /\ m.start = n + 1
      BY <2>5
    <3>2. ListsUpTo(C(n) \o <<m>>, M, n + 1)
      BY <1>5, <3>1, OneMore
    <3> QED BY <2>2, <3>1, <3>2
  <2> QED BY <1>2, <2>1, <2>4, <2>5
<1>6. Is(N)
  <2> HIDE DEF Is
  <2> DEFINE T == {n \in 0..N : Is(n)}
  <2>1. 0 \in T
    BY <1>4
  <2>2. ASSUME NEW n \in T, 0 <= n, n < N PROVE n + 1 \in T
    BY <1>5, <2>2
  <2>3. \A n \in 0..N : n \in T
    <3> HIDE DEF T
    <3> QED BY <2>1, <2>2, Climb
  <2> QED BY <2>3
<1>7. \A m \in M : m.start <= N
  OBVIOUS
<1> HIDE DEF C
<1>8. Lists(C(N), M)
  BY <1>6, <1>7 DEF Lists, ListsUpTo
<1> QED BY <1>1, <1>8

\* The matches of the first expression, of the second, and of both.
WithURI(s) ==
    {m \in {EnclosedMatch(p[1], p[2], Inner(s, p[1], p[2])) : p \in Enclosed(s)} :
        HasURI(m)}
Outside(s) ==
    {UriMatch(s, k) : k \in
        {k \in DOMAIN s : s[k] \in KeyURI
            /\ \A m \in WithURI(s) : k < m.start \/ m.end < k}}
Matches(s) == WithURI(s) \cup Outside(s)

\* Where a match is in s, and that no two overlap.
Placed(M, N) ==
    /\ \A m \in M : m.start \in 1..N /\ m.end \in m.start..N
    /\ \A m, l \in M : m = l \/ m.end < l.start \/ l.end < m.start

\* Two ranges in braces do not overlap.
LEMMA EnclosedApart ==
    ASSUME NEW s \in Seq(Token), NEW p \in Enclosed(s), NEW q \in Enclosed(s)
    PROVE  /\ p[1] \in 1..Len(s) /\ p[2] \in p[1]..Len(s)
           /\ p = q \/ p[2] < q[1] \/ q[2] < p[1]
<1>1. /\ p \in (1..Len(s)) \X (1..Len(s)) /\ q \in (1..Len(s)) \X (1..Len(s))
      /\ Spans(s, p[1], p[2]) /\ Spans(s, q[1], q[2])
      /\ \A h \in 1..(p[1] - 1) : ~Spans(s, h, p[2])
      /\ \A h \in 1..(q[1] - 1) : ~Spans(s, h, q[2])
  BY DEF Enclosed
<1> DEFINE i == p[1]
           j == p[2]
           k == q[1]
           l == q[2]
<1>2. /\ i \in 1..Len(s) /\ j \in 1..Len(s) /\ k \in 1..Len(s) /\ l \in 1..Len(s)
      /\ p = <<i, j>> /\ q = <<k, l>>
  BY <1>1
<1>3. /\ i < j /\ k < l /\ s[i] = Open /\ s[j] = Close /\ s[k] = Open /\ s[l] = Close
      /\ \A n \in Between(i, j) : s[n] # Close
      /\ \A n \in Between(k, l) : s[n] # Close
  BY <1>1 DEF Spans
<1>4. Open # Close
  <2>1. IsInjective(<<Open, Close, Call, Paren, Quote, NewLine>>)
    BY UriAssumption
  <2> DEFINE e == <<Open, Close, Call, Paren, Quote, NewLine>>
  <2>2. \A a, b \in DOMAIN e : e[a] = e[b] => a = b
    BY <2>1 DEF IsInjective
  <2> QED BY <2>2
<1>5. \A h \in 1..(i - 1) : ~Spans(s, h, j)
  BY <1>1
<1>6. \A h \in 1..(k - 1) : ~Spans(s, h, l)
  BY <1>1
<1>7. Spans(s, i, j) /\ Spans(s, k, l)
  BY <1>1
<1> HIDE DEF i, j, k, l
<1>8. CASE j = l
  <2>1. ~(k < i) /\ ~(i < k)
    BY <1>2, <1>5, <1>6, <1>7, <1>8
  <2> QED BY <1>2, <1>3, <1>8, <2>1 DEF i, j
<1>9. CASE j < l
  <2>1. j \notin Between(k, l) /\ j # k
    BY <1>3, <1>4
  <2>2. j < k
    BY <1>2, <1>9, <2>1 DEF Between
  <2> QED BY <1>2, <1>3, <2>2 DEF i, j, k
<1>10. CASE l < j
  <2>1. l \notin Between(i, j) /\ l # i
    BY <1>3, <1>4
  <2>2. l < i
    BY <1>2, <1>10, <2>1 DEF Between
  <2> QED BY <1>2, <1>3, <2>2 DEF i, j, l
<1> QED BY <1>2, <1>8, <1>9, <1>10

\* Nor do the matches made of them,
LEMMA EnclosedPlaced ==
    ASSUME NEW s \in Seq(Token)
    PROVE  Placed(WithURI(s), Len(s))
<1> DEFINE at(p) == EnclosedMatch(p[1], p[2], Inner(s, p[1], p[2]))
<1>1. ASSUME NEW p PROVE at(p).start = p[1] /\ at(p).end = p[2]
  BY DEF EnclosedMatch, Match
<1>2. \A m \in WithURI(s) : \E p \in Enclosed(s) : m = at(p)
  BY DEF WithURI
<1> HIDE DEF at
<1>3. ASSUME NEW m \in WithURI(s) PROVE m.start \in 1..Len(s) /\ m.end \in m.start..Len(s)
  <2>1. PICK p \in Enclosed(s) : m = at(p)
    BY <1>2
  <2> QED BY <1>1, <2>1, EnclosedApart
<1>4. ASSUME NEW m \in WithURI(s), NEW l \in WithURI(s)
      PROVE  m = l \/ m.end < l.start \/ l.end < m.start
  <2>1. PICK p \in Enclosed(s) : m = at(p)
    BY <1>2
  <2>2. PICK q \in Enclosed(s) : l = at(q)
    BY <1>2
  <2>3. p = q \/ p[2] < q[1] \/ q[2] < p[1]
    BY EnclosedApart
  <2> QED BY <1>1, <2>1, <2>2, <2>3
<1> QED BY <1>3, <1>4 DEF Placed

\* nor do all matches of a text.
LEMMA MatchesPlaced ==
    ASSUME NEW s \in Seq(Token)
    PROVE  Placed(Matches(s), Len(s))
<1>1. Placed(WithURI(s), Len(s))
  BY EnclosedPlaced
<1>2. ASSUME NEW m \in Outside(s)
      PROVE  /\ m.start \in 1..Len(s) /\ m.end = m.start /\ m = UriMatch(s, m.start)
             /\ \A l \in WithURI(s) : m.start < l.start \/ l.end < m.start
  <2>1. PICK k \in {k \in DOMAIN s : s[k] \in KeyURI
                       /\ \A l \in WithURI(s) : k < l.start \/ l.end < k} :
           m = UriMatch(s, k)
    BY DEF Outside
  <2>2. m.start = k /\ m.end = k
    BY <2>1 DEF UriMatch, Match
  <2> QED BY <2>1, <2>2
<1>3. \A m \in Matches(s) : m \in WithURI(s) \/ m \in Outside(s)
  BY DEF Matches
<1>4. ASSUME NEW m \in Matches(s) PROVE m.start \in 1..Len(s) /\ m.end \in m.start..Len(s)
  BY <1>1, <1>2, <1>3 DEF Placed
<1>5. ASSUME NEW m \in Matches(s), NEW l \in Matches(s)
      PROVE  m = l \/ m.end < l.start \/ l.end < m.start
  <2>1. CASE m \in WithURI(s) /\ l \in WithURI(s)
    BY <1>1, <2>1 DEF Placed
  <2>2. CASE m \in Outside(s) /\ l \in Outside(s)
    BY <1>2, <1>4, <2>2
  <2>3. CASE m \in WithURI(s) /\ l \in Outside(s)
    BY <1>2, <1>4, <2>3
  <2>4. CASE m \in Outside(s) /\ l \in WithURI(s)
    BY <1>2, <1>4, <2>4
  <2> QED BY <1>3, <2>1, <2>2, <2>3, <2>4
<1> QED BY <1>4, <1>5 DEF Placed

\* A set of matches that do not overlap, in order.
LEMMA PlacedLists ==
    ASSUME NEW M, NEW N \in Nat, Placed(M, N)
    PROVE  Lists(InOrder(M, N), M)
<1>1. \A m \in M : m.start \in 1..N
  BY DEF Placed
<1>2. ASSUME NEW m \in M, NEW l \in M, m.start = l.start PROVE m = l
  <2>1. m.start \in 1..N /\ m.end \in m.start..N /\ l.end \in l.start..N
    BY DEF Placed
  <2>2. m = l \/ m.end < l.start \/ l.end < m.start
    BY DEF Placed
  <2> QED BY <1>2, <2>1, <2>2
<1> QED BY <1>1, <1>2, InOrderLists

\* The first search finds the matches in braces.
LEMMA EnclosedListed ==
    ASSUME NEW s \in Seq(Token)
    PROVE  Lists(EnclosedMatches(s), WithURI(s))
<1>1. EnclosedMatches(s) = InOrder(WithURI(s), Len(s))
  BY DEF EnclosedMatches, WithURI
<1>2. Len(s) \in Nat
  OBVIOUS
<1> QED BY <1>1, <1>2, EnclosedPlaced, PlacedLists

\* The second search finds the others.
LEMMA OutsideListed ==
    ASSUME NEW s \in Seq(Token)
    PROVE  Lists(UnenclosedMatches(s, EnclosedMatches(s)), Outside(s))
<1> DEFINE ms == EnclosedMatches(s)
           free(k) == \A n \in DOMAIN ms : k < ms[n].start \/ ms[n].end < k
           at  == {k \in DOMAIN s : s[k] \in KeyURI /\ free(k)}
<1>1. /\ ms \in Seq(WithURI(s)) /\ DOMAIN ms = 1..Len(ms)
      /\ \A m \in WithURI(s) : \E i \in 1..Len(ms) : ms[i] = m
  BY EnclosedListed DEF Lists
<1>2. UnenclosedMatches(s, ms) = InOrder({UriMatch(s, k) : k \in at}, Len(s))
  BY DEF UnenclosedMatches
<1> HIDE DEF ms
<1>3. \A k : free(k) <=> \A m \in WithURI(s) : k < m.start \/ m.end < k
  <2>1. \A n \in DOMAIN ms : ms[n] \in WithURI(s)
    BY <1>1
  <2> QED BY <1>1, <2>1
<1>4. {UriMatch(s, k) : k \in at} = Outside(s)
  <2>1. at = {k \in DOMAIN s : s[k] \in KeyURI
                 /\ \A m \in WithURI(s) : k < m.start \/ m.end < k}
    BY <1>3
  <2> HIDE DEF at
  <2> QED BY <2>1 DEF Outside
<1>5. Placed(Outside(s), Len(s))
  <2>1. Outside(s) \subseteq Matches(s)
    BY DEF Matches
  <2> QED BY <2>1, MatchesPlaced DEF Placed
<1>6. Lists(InOrder(Outside(s), Len(s)), Outside(s))
  <2>1. Len(s) \in Nat
    OBVIOUS
  <2> QED BY <1>5, <2>1, PlacedLists
<1> QED BY <1>2, <1>4, <1>6 DEF ms

\* FindAll finds all matches.
LEMMA AllFound ==
    ASSUME NEW s \in Seq(Token)
    PROVE  FindAll(s) \in Seq(Matches(s)) /\ Range(FindAll(s)) = Matches(s)
<1> DEFINE e == EnclosedMatches(s)
           o == UnenclosedMatches(s, e)
<1>1. /\ e \in Seq(WithURI(s))
      /\ \A m \in WithURI(s) : \E i \in 1..Len(e) : e[i] = m
  BY EnclosedListed DEF Lists
<1>2. /\ o \in Seq(Outside(s))
      /\ \A m \in Outside(s) : \E i \in 1..Len(o) : o[i] = m
  BY OutsideListed DEF Lists
<1>3. FindAll(s) = e \o o
  BY DEF FindAll
<1> HIDE DEF e, o
<1> DEFINE M == Matches(s)
<1>4. e \in Seq(M) /\ o \in Seq(M)
  <2>1. WithURI(s) \subseteq M /\ Outside(s) \subseteq M
    BY DEF Matches
  <2> HIDE DEF M
  <2> QED BY <1>1, <1>2, <2>1
<1>5. \A m \in M : m \in WithURI(s) \/ m \in Outside(s)
  BY DEF Matches
<1> HIDE DEF M
<1>6. /\ e \o o \in Seq(M) /\ Len(e \o o) = Len(e) + Len(o)
      /\ Len(e) \in Nat /\ Len(o) \in Nat
      /\ \A k \in 1..(Len(e) + Len(o)) :
            (e \o o)[k] = IF k <= Len(e) THEN e[k] ELSE o[k - Len(e)]
  BY <1>4, Joined
<1>7. ASSUME NEW m \in M PROVE \E k \in 1..Len(e \o o) : (e \o o)[k] = m
  <2>1. CASE m \in WithURI(s)
    <3>1. PICK i \in 1..Len(e) : e[i] = m
      BY <1>1, <2>1
    <3>2. i \in 1..(Len(e) + Len(o)) /\ (e \o o)[i] = m
      BY <1>6, <3>1
    <3> QED BY <1>6, <3>2
  <2>2. CASE m \in Outside(s)
    <3>1. PICK i \in 1..Len(o) : o[i] = m
      BY <1>2, <2>2
    <3>2. Len(e) + i \in 1..(Len(e) + Len(o)) /\ ~(Len(e) + i <= Len(e))
          /\ (Len(e) + i) - Len(e) = i
      BY <1>6, <3>1
    <3>3. (e \o o)[Len(e) + i] = m
      BY <1>6, <3>1, <3>2
    <3> QED BY <1>6, <3>2, <3>3
  <2> QED BY <1>5, <2>1, <2>2
<1>8. Range(e \o o) = M
  <2> DEFINE w == e \o o
  <2>1. w \in Seq(M) /\ \A m \in M : \E k \in 1..Len(w) : w[k] = m
    BY <1>6, <1>7
  <2> HIDE DEF w
  <2>2. DOMAIN w = 1..Len(w) /\ \A k \in 1..Len(w) : w[k] \in M
    BY <2>1
  <2>3. Range(w) = {w[x] : x \in DOMAIN w}
    BY DEF Range
  <2>4. Range(w) = M
    BY <2>1, <2>2, <2>3
  <2> QED BY <2>4 DEF w
<1> QED BY <1>3, <1>6, <1>8 DEF M

\* Sorted, they are listed from left to right.
LEMMA SortedListed ==
    ASSUME NEW s \in Seq(Token)
    PROVE  Lists(SortedMatches(s), Matches(s))
<1>1. SortedMatches(s) = InOrder(Matches(s), Len(s)) /\ Len(s) \in Nat
  BY AllFound DEF SortedMatches
<1> QED BY <1>1, MatchesPlaced, PlacedLists

\* When they were found from left to right, sorting changes nothing.
LEMMA FoundListed ==
    ASSUME NEW s \in Seq(Token),
           \A n \in 1..(Len(FindAll(s)) - 1) :
              FindAll(s)[n].start < FindAll(s)[n + 1].start
    PROVE  Lists(FindAll(s), Matches(s))
<1> DEFINE ms == FindAll(s)
           M  == Matches(s)
           N  == Len(s)
<1>1. /\ ms \in Seq(M) /\ Len(ms) \in Nat /\ N \in Nat
      /\ \A n \in 1..(Len(ms) - 1) : ms[n].start < ms[n + 1].start
      /\ Range(ms) = M
  BY AllFound
<1>2. \A m \in M : m.start \in 1..N
  BY MatchesPlaced DEF Placed
<1> HIDE DEF ms, M, N
<1>3. \A m \in M : \E i \in 1..Len(ms) : ms[i] = m
  <2>1. Range(ms) = {ms[x] : x \in DOMAIN ms}
    BY DEF Range
  <2> QED BY <1>1, <2>1
<1>4. ASSUME NEW i \in 1..Len(ms), NEW j \in 1..Len(ms), i < j
      PROVE  ms[i].start < ms[j].start
  <2> DEFINE Is(n) == ms[i].start < ms[n].start
             T == {n \in (i + 1)..Len(ms) : Is(n)}
  <2>1. \A n \in 1..Len(ms) : ms[n].start \in 1..N
    BY <1>1, <1>2
  <2>2. Is(i + 1)
    BY <1>1, <1>4
  <2>3. ASSUME NEW n \in (i + 1)..Len(ms), n < Len(ms), Is(n) PROVE Is(n + 1)
    <3>1. n \in 1..(Len(ms) - 1) /\ n \in 1..Len(ms) /\ n + 1 \in 1..Len(ms)
      BY <1>1, <2>3
    <3>2. ms[n].start < ms[n + 1].start
      BY <1>1, <3>1
    <3> DEFINE x == ms[i].start
               y == ms[n].start
               z == ms[n + 1].start
    <3>3. x \in 1..N /\ y \in 1..N /\ z \in 1..N
      BY <2>1, <3>1
    <3>4. x < y /\ y < z
      BY <2>3, <3>2
    <3> HIDE DEF x, y, z
    <3>5. x < z
      BY <1>1, <3>3, <3>4
    <3> QED BY <3>5 DEF x, z
  <2> HIDE DEF Is
  <2>4. i + 1 \in Nat /\ Len(ms) \in Nat /\ i + 1 \in T /\ j \in (i + 1)..Len(ms)
    BY <1>1, <1>4, <2>2
  <2>5. ASSUME NEW n \in T, i + 1 <= n, n < Len(ms) PROVE n + 1 \in T
    BY <1>1, <2>3, <2>5
  <2>6. \A n \in (i + 1)..Len(ms) : n \in T
    <3> DEFINE i1 == i + 1
               L  == Len(ms)
    <3>1. i1 \in Nat /\ L \in Nat /\ i1 \in T
          /\ \A n \in T : i1 <= n /\ n < L => n + 1 \in T
      BY <2>4, <2>5
    <3> HIDE DEF T, i1, L
    <3>2. \A n \in i1..L : n \in T
      BY <3>1, Climb
    <3> QED BY <3>2 DEF i1, L
  <2>7. Is(j)
    BY <2>4, <2>6
  <2> QED BY <2>7 DEF Is
<1>5. Lists(ms, M)
  BY <1>1, <1>3, <1>4 DEF Lists
<1> QED BY <1>5 DEF ms, M
-----------------------------------------------------------------------------
(* What a match resolves to *)

Args == {Arg(TRUE, <<u>>) : u \in KeyURI} \cup {Arg(FALSE, w) : w \in Seq(Token)}

\* What stands in braces is a text.
LEMMA InnerIsText ==
    ASSUME NEW s \in Seq(Token), NEW i \in 1..Len(s), NEW j \in 1..Len(s), i < j
    PROVE  Inner(s, i, j) \in Seq(Token)
<1> DEFINE n == j - i - 1
           F == [k \in 1..n |-> IF s[i + k] = NewLine THEN <<>> ELSE <<s[i + k]>>]
<1>1. n \in Nat /\ \A k \in 1..n : i + k \in 1..Len(s)
  OBVIOUS
<1>2. F \in [1..n -> Seq(Token)]
  <2>1. ASSUME NEW k \in 1..n PROVE F[k] \in Seq(Token)
    <3>1. s[i + k] \in Token
      BY <1>1
    <3> QED BY <3>1
  <2>2. F = [k \in 1..n |-> F[k]]
    OBVIOUS
  <2> HIDE DEF F
  <2> QED BY <2>1, <2>2
<1>3. Inner(s, i, j) = Cat(n, F)
  BY DEF Inner
<1> HIDE DEF n, F
<1>4. F \in Pieces(n, Token) /\ n \in 0..n
  BY <1>1, <1>2 DEF Pieces
<1>5. Cat(n, F) \in Seq(Token)
  <2>1. \A k \in 0..n : Cat(k, F) \in Seq(Token)
    BY <1>1, <1>4, CatNext
  <2> QED BY <1>4, <2>1
<1> QED BY <1>3, <1>5

\* What parseArgs returns are arguments.
LEMMA ParsedArgs ==
    ASSUME NEW t \in Seq(Token)
    PROVE  ParseArgs(t) \in Seq(Args)
<1> DEFINE closing(k) == {m \in (k + 1)..Len(t) : t[m] = Quote}
           next(p) ==
               IF p.at > Len(t) THEN p
               ELSE IF t[p.at] \in KeyURI
               THEN [at |-> p.at + 1, args |-> Append(p.args, Arg(TRUE, <<t[p.at]>>))]
               ELSE IF t[p.at] = Quote /\ closing(p.at) # {}
               THEN LET m == CHOOSE m \in closing(p.at) : \A l \in closing(p.at) : m <= l
                    IN [at   |-> m + 1,
                        args |-> Append(p.args, Arg(FALSE, SubSeq(t, p.at + 1, m - 1)))]
               ELSE p
           a == [at |-> 1, args |-> <<>>]
           L == Len(t)
           S == [at : 1..(L + 1), args : Seq(Args)]
           Is(f) == f = [n \in 0..L |-> IF n = 0 THEN a ELSE next(f[n - 1])]
           f == CHOOSE f : Is(f)
<1>1. L \in Nat /\ a \in S
  OBVIOUS
<1>2. ASSUME NEW p \in S PROVE next(p) \in S
  <2>1. p.at \in 1..(L + 1) /\ p.args \in Seq(Args)
    OBVIOUS
  <2>2. CASE p.at > L
    BY <2>2
  <2>3. CASE p.at <= L /\ t[p.at] \in KeyURI
    <3>1. next(p) = [at |-> p.at + 1, args |-> Append(p.args, Arg(TRUE, <<t[p.at]>>))]
      BY <2>1, <2>3
    <3>2. Arg(TRUE, <<t[p.at]>>) \in Args
      BY <2>3 DEF Args
    <3>3. p.at + 1 \in 1..(L + 1)
      BY <1>1, <2>1, <2>3
    <3>4. Append(p.args, Arg(TRUE, <<t[p.at]>>)) \in Seq(Args)
      <4> DEFINE b == Arg(TRUE, <<t[p.at]>>)
                 q == p.args
      <4>1. b \in Args /\ q \in Seq(Args)
        BY <2>1, <3>2
      <4> HIDE DEF b, q
      <4>2. Append(q, b) \in Seq(Args)
        BY <4>1
      <4> QED BY <4>2 DEF b, q
    <3> QED BY <3>1, <3>3, <3>4
  <2>4. CASE p.at <= L /\ t[p.at] \notin KeyURI /\ t[p.at] = Quote /\ closing(p.at) # {}
    <3> DEFINE C == closing(p.at)
               m == CHOOSE m \in C : \A l \in C : m <= l
    <3>1. C \in SUBSET Nat /\ C # {}
      BY <1>1, <2>1, <2>4
    <3>2. \E k \in C : \A l \in C : k <= l
      <4> HIDE DEF C
      <4> QED BY <3>1, LeastElement
    <3>3. m \in C
      <4> HIDE DEF C
      <4> QED BY <3>2
    <3>4. next(p) = [at |-> m + 1,
                     args |-> Append(p.args, Arg(FALSE, SubSeq(t, p.at + 1, m - 1)))]
      BY <2>1, <2>4
    <3>5. m \in (p.at + 1)..L
      BY <3>3
    <3> HIDE DEF m, C
    <3>6. SubSeq(t, p.at + 1, m - 1) \in Seq(Token)
      BY <2>1, <3>5
    <3>7. Arg(FALSE, SubSeq(t, p.at + 1, m - 1)) \in Args
      BY <3>6 DEF Args
    <3>8. m + 1 \in 1..(L + 1)
      BY <1>1, <2>1, <3>5
    <3>9. Append(p.args, Arg(FALSE, SubSeq(t, p.at + 1, m - 1))) \in Seq(Args)
      <4> DEFINE b == Arg(FALSE, SubSeq(t, p.at + 1, m - 1))
                 q == p.args
      <4>1. b \in Args /\ q \in Seq(Args)
        BY <2>1, <3>7
      <4> HIDE DEF b, q
      <4>2. Append(q, b) \in Seq(Args)
        BY <4>1
      <4> QED BY <4>2 DEF b, q
    <3> QED BY <3>4, <3>8, <3>9
  <2>5. CASE /\ p.at <= L /\ t[p.at] \notin KeyURI
             /\ ~(t[p.at] = Quote /\ closing(p.at) # {})
    <3>1. next(p) = p
      BY <2>1, <2>5
    <3> QED BY <3>1
  <2> HIDE DEF next, S, closing
  <2> QED BY <1>1, <2>1, <2>2, <2>3, <2>4, <2>5
<1>3. ParseArgs(t) = f[L].args
  BY DEF ParseArgs
<1> HIDE DEF a, next, S
<1> DEFINE step == [n \in 1..L |-> [p \in S |-> next(p)]]
<1>4. step \in Steps(L, S)
  BY <1>2 DEF Steps
<1>5. PICK g \in [0..L -> S] : g[0] = a /\ \A n \in 1..L : g[n] = step[n][g[n - 1]]
  <2> HIDE DEF step, L
  <2>1. \E g : Unfolds(g, L, S, a, step)
    BY <1>1, <1>4, RecursionExists
  <2> QED BY <2>1 DEF Unfolds
<1>6. Is(g)
  <2>1. ASSUME NEW n \in 0..L, n # 0 PROVE g[n] = next(g[n - 1])
    <3>1. n \in 1..L /\ n - 1 \in 0..L
      BY <1>1, <2>1
    <3>2. g[n - 1] \in S
      BY <3>1
    <3> QED BY <1>5, <3>1, <3>2
  <2>2. g = [n \in 0..L |-> g[n]]
    OBVIOUS
  <2> HIDE DEF step, L
  <2> QED BY <1>5, <2>1, <2>2
<1>7. Is(f)
  <2> HIDE DEF Is
  <2> QED BY <1>6
<1> HIDE DEF f
<1>8. f[0] \in S
  <2>1. 0 \in 0..L
    BY <1>1
  <2> QED BY <1>1, <1>7, <2>1
<1>9. ASSUME NEW n \in 1..L, f[n - 1] \in S PROVE f[n] \in S
  <2>1. n \in 0..L /\ n # 0
    BY <1>1
  <2>2. f[n] = next(f[n - 1])
    BY <1>7, <2>1
  <2> QED BY <1>2, <1>9, <2>2
<1>10. f[L] \in S
  <2> HIDE DEF L, Is
  <2>1. \A n \in 0..L : f[n] \in S
    BY <1>1, <1>8, <1>9, StaysIn
  <2> QED BY <1>1, <2>1
<1> QED BY <1>3, <1>10 DEF S

\* The tokens of the values, and those in base64.
InValues == {t \in Token : \E u \in KeyURI : \E n \in DOMAIN ValueOf[u] : ValueOf[u][n] = t}
Coded    == {Code(t) : t \in Token}

\* A match is a call with parsed arguments or stands for one uri.
LEMMA MatchKinds ==
    ASSUME NEW s \in Seq(Token), NEW m \in Matches(s)
    PROVE  \/ m.call = TRUE /\ m.args \in Seq(Args)
           \/ m.call = FALSE /\ \E u \in KeyURI : m.args = <<Arg(TRUE, <<u>>)>>
<1>1. CASE m \in WithURI(s)
  <2>1. PICK p \in Enclosed(s) :
           m = EnclosedMatch(p[1], p[2], Inner(s, p[1], p[2])) /\ HasURI(m)
    BY <1>1 DEF WithURI
  <2>2. p[1] \in 1..Len(s) /\ p[2] \in 1..Len(s) /\ p[1] < p[2]
    BY DEF Enclosed, Spans
  <2> DEFINE t  == Inner(s, p[1], p[2])
             at == {k \in DOMAIN t : t[k] \in KeyURI}
             k  == CHOOSE k \in at : \A l \in at : k <= l
             i  == p[1]
             j  == p[2]
  <2>3. t \in Seq(Token)
    BY <2>2, InnerIsText
  <2>4. m = EnclosedMatch(i, j, t)
    BY <2>1
  <2> HIDE DEF t, i, j
  <2>5. CASE IsCall(t)
    <3>1. m = Match(i, j, TRUE, ParseArgs(SubSeq(t, 2, Len(t) - 1)))
      BY <2>4, <2>5 DEF EnclosedMatch
    <3>2. SubSeq(t, 2, Len(t) - 1) \in Seq(Token)
      BY <2>3, <2>5 DEF IsCall
    <3>3. ParseArgs(SubSeq(t, 2, Len(t) - 1)) \in Seq(Args)
      BY <3>2, ParsedArgs
    <3> QED BY <3>1, <3>3 DEF Match
  <2>6. CASE ~IsCall(t)
    <3>1. m = Match(i, j, FALSE, IF at = {} THEN <<>> ELSE <<Arg(TRUE, <<t[k]>>)>>)
      BY <2>4, <2>6 DEF EnclosedMatch
    <3>2. at # {}
      <4>1. CASE at = {}
        <5>1. m.args = <<>>
          BY <3>1, <4>1 DEF Match
        <5> QED BY <2>1, <5>1 DEF HasURI
      <4> QED BY <4>1
    <3>3. at \in SUBSET Nat
      BY <2>3
    <3>4. k \in at
      <4> HIDE DEF at
      <4>1. \E n \in at : \A l \in at : n <= l
        BY <3>2, <3>3, LeastElement
      <4> QED BY <4>1
    <3>5. t[k] \in KeyURI
      BY <3>4
    <3> HIDE DEF k, at
    <3>6. m.call = FALSE /\ m.args = <<Arg(TRUE, <<t[k]>>)>>
      BY <3>1, <3>2 DEF Match
    <3> QED BY <3>5, <3>6
  <2> QED BY <2>5, <2>6
<1>2. CASE m \in Outside(s)
  <2>1. PICK k \in DOMAIN s : s[k] \in KeyURI /\ m = UriMatch(s, k)
    BY <1>2 DEF Outside
  <2> QED BY <2>1 DEF UriMatch, Match
<1> QED BY <1>1, <1>2 DEF Matches

\* What a match resolves to: an encoding, or the value of its uri.
LEMMA Resolved ==
    ASSUME NEW s \in Seq(Token), NEW m \in Matches(s)
    PROVE  /\ m.call => Resolve(m) \in Seq(Coded)
           /\ ~m.call => \E u \in KeyURI :
                            m.args = <<Arg(TRUE, <<u>>)>> /\ Resolve(m) = ValueOf[u]
<1> DEFINE value(a) == IF a.isURI THEN ValueOf[a.value[1]] ELSE a.value
           F == [n \in DOMAIN m.args |-> value(m.args[n])]
           N == Len(m.args)
           joined == Cat(N, F)
<1>0. Resolve(m) = IF m.call THEN Encoded(joined) ELSE joined
  BY DEF Resolve
<1>1. ASSUME NEW a \in Args PROVE value(a) \in Seq(Token)
  <2>1. CASE \E u \in KeyURI : a = Arg(TRUE, <<u>>)
    <3>1. PICK u \in KeyURI : a = Arg(TRUE, <<u>>)
      BY <2>1
    <3>2. value(a) = ValueOf[u]
      BY <3>1 DEF Arg
    <3> QED BY <3>2, UriAssumption
  <2>2. CASE \E w \in Seq(Token) : a = Arg(FALSE, w)
    <3>1. PICK w \in Seq(Token) : a = Arg(FALSE, w)
      BY <2>2
    <3>2. value(a) = w
      BY <3>1 DEF Arg
    <3> QED BY <3>2
  <2> QED BY <2>1, <2>2 DEF Args
<1>2. m.args \in Seq(Args)
  <2>1. \A u \in KeyURI : Arg(TRUE, <<u>>) \in Args
    BY DEF Args
  <2>2. ASSUME NEW a \in Args PROVE <<a>> \in Seq(Args)
    OBVIOUS
  <2>3. CASE \E u \in KeyURI : m.args = <<Arg(TRUE, <<u>>)>>
    BY <2>1, <2>2, <2>3
  <2> QED BY <2>3, MatchKinds
<1>3. F \in [1..N -> Seq(Token)] /\ N \in Nat
  <2>1. N \in Nat /\ DOMAIN m.args = 1..N /\ \A n \in 1..N : m.args[n] \in Args
    BY <1>2
  <2> HIDE DEF value, N
  <2> QED BY <1>1, <2>1
<1> HIDE DEF value
<1>4. joined \in Seq(Token) /\ (N = 1 => joined = F[1])
  <2> HIDE DEF F, N, joined
  <2>1. F \in Pieces(N, Token) /\ N \in 0..N
    BY <1>3 DEF Pieces
  <2>2. /\ Cat(0, F) = <<>>
        /\ \A n \in 1..N : Cat(n, F) = Cat(n - 1, F) \o F[n]
        /\ \A n \in 0..N : Cat(n, F) \in Seq(Token)
    BY <1>3, <2>1, CatNext
  <2>3. ASSUME N = 1 PROVE joined = F[1]
    <3>1. Cat(1, F) = Cat(0, F) \o F[1] /\ F[1] \in Seq(Token)
      BY <1>3, <2>2, <2>3
    <3>2. Cat(1, F) = F[1]
      BY <2>2, <3>1, ConcatEmptySeq
    <3> QED BY <2>3, <3>2 DEF joined
  <2> QED BY <2>1, <2>2, <2>3 DEF joined
<1>5. CASE m.call = TRUE /\ m.args \in Seq(Args)
  <2>1. Resolve(m) = Encoded(joined)
    BY <1>0, <1>5
  <2> HIDE DEF joined
  <2>2. Encoded(joined) = [k \in 1..Len(joined) |-> Code(joined[k])]
    BY <1>4 DEF Encoded
  <2>3. \A k \in 1..Len(joined) : Code(joined[k]) \in Coded
    BY <1>4 DEF Coded
  <2>4. Encoded(joined) \in Seq(Coded)
    BY <1>4, <2>2, <2>3
  <2> QED BY <1>5, <2>1, <2>4
<1>6. CASE m.call = FALSE /\ \E u \in KeyURI : m.args = <<Arg(TRUE, <<u>>)>>
  <2>1. PICK u \in KeyURI : m.args = <<Arg(TRUE, <<u>>)>>
    BY <1>6
  <2>2. N = 1 /\ F[1] = value(Arg(TRUE, <<u>>))
    <3> DEFINE a == Arg(TRUE, <<u>>)
    <3>1. m.args = <<a>>
      BY <2>1
    <3> HIDE DEF a
    <3>2. Len(m.args) = 1 /\ DOMAIN m.args = {1} /\ m.args[1] = a
      BY <3>1
    <3>3. F[1] = value(a)
      BY <3>2
    <3> QED BY <3>2, <3>3 DEF a
  <2>3. value(Arg(TRUE, <<u>>)) = ValueOf[u]
    BY DEF value, Arg
  <2>4. Resolve(m) = joined
    BY <1>0, <1>6
  <2> HIDE DEF joined, F, N
  <2>5. Resolve(m) = ValueOf[u]
    BY <1>4, <2>2, <2>3, <2>4
  <2> QED BY <1>6, <2>1, <2>5
<1> QED BY <1>5, <1>6, MatchKinds

\* No match brings a uri that is not a token of a value.
LEMMA ResolvedIn ==
    ASSUME NEW s \in Seq(Token), NEW m \in Matches(s)
    PROVE  Resolve(m) \in Seq(InValues \cup Coded)
<1> DEFINE X == InValues \cup Coded
<1>1. CASE m.call
  <2>1. Resolve(m) \in Seq(Coded)
    BY <1>1, Resolved
  <2> QED BY <2>1
<1>2. CASE ~m.call
  <2>1. PICK u \in KeyURI : Resolve(m) = ValueOf[u]
    BY <1>2, Resolved
  <2> DEFINE v == ValueOf[u]
  <2>2. v \in Seq(Token)
    BY UriAssumption
  <2>3. \A n \in 1..Len(v) : v[n] \in InValues
    BY <2>2 DEF InValues
  <2> HIDE DEF v
  <2>4. v \in Seq(InValues \cup Coded)
    BY <2>2, <2>3
  <2> QED BY <2>1, <2>4 DEF v
<1> QED BY <1>1, <1>2
=============================================================================
