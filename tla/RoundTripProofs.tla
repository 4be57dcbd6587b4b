-------------------------- MODULE RoundTripProofs --------------------------
(* That an echo comes back as the field it came from, whatever the keys, their *)
(* values and the field are.                                                   *)
(*                                                                             *)
(* A text put together from pieces, of which some are replaced one after the   *)
(* other, is replaced piece by piece: what strings.ReplaceAll looks for stands *)
(* nowhere but at a piece that is to be replaced.                              *)
EXTENDS EchoProofs

-----------------------------------------------------------------------------
(* Where a piece lies in the text *)

Upto(n, F)    == Len(Cat(n, F))
Lies(p, n, F) == Upto(n - 1, F) < p /\ p <= Upto(n, F)

\* The text up to n: what is before that piece, and its own tokens.
Joins(X, n, F) ==
    /\ Cat(n, F) \in Seq(X) /\ Cat(n - 1, F) \in Seq(X) /\ F[n] \in Seq(X)
    /\ Cat(n, F) = Cat(n - 1, F) \o F[n]
    /\ Upto(n, F) = Upto(n - 1, F) + Len(F[n])
    /\ Upto(n, F) \in Nat /\ Upto(n - 1, F) \in Nat /\ Len(F[n]) \in Nat
    /\ \A p \in 1..Upto(n - 1, F) : Cat(n, F)[p] = Cat(n - 1, F)[p]
    /\ \A i \in 1..Len(F[n]) : Cat(n, F)[Upto(n - 1, F) + i] = F[n][i]

\* A step of Cat, token by token.
LEMMA PieceGrows ==
    ASSUME NEW X, NEW N \in Nat, NEW F \in Pieces(N, X), NEW n \in 1..N
    PROVE  Joins(X, n, F)
<1> DEFINE c == Cat(n - 1, F)
           d == F[n]
           e == Cat(n, F)
<1>1. n - 1 \in 0..N /\ n \in 0..N
  OBVIOUS
<1>2. e \in Seq(X) /\ c \in Seq(X) /\ e = c \o d
  BY <1>1, CatNext
<1>3. d \in Seq(X)
  BY DEF Pieces
<1> HIDE DEF c, d, e
<1>4. /\ Len(e) = Len(c) + Len(d) /\ Len(e) \in Nat /\ Len(c) \in Nat /\ Len(d) \in Nat
      /\ \A p \in 1..Len(c) : e[p] = c[p]
      /\ \A i \in 1..Len(d) : e[Len(c) + i] = d[i]
  BY <1>2, <1>3
<1> QED BY <1>2, <1>3, <1>4 DEF c, d, e, Upto, Joins

\* The text up to a piece is how the whole text begins.
LEMMA CatBegins ==
    ASSUME NEW X, NEW N \in Nat, NEW F \in Pieces(N, X), NEW m \in 0..N, NEW n \in m..N
    PROVE  /\ Upto(m, F) \in Nat /\ Upto(n, F) \in Nat /\ Upto(m, F) <= Upto(n, F)
           /\ \A p \in 1..Upto(m, F) : Cat(n, F)[p] = Cat(m, F)[p]
<1> DEFINE Is(k) == /\ Upto(m, F) <= Upto(k, F)
                    /\ \A p \in 1..Upto(m, F) : Cat(k, F)[p] = Cat(m, F)[p]
           T == {k \in m..N : Is(k)}
<1>1. \A k \in 0..N : Upto(k, F) \in Nat
  <2>1. \A k \in 0..N : Cat(k, F) \in Seq(X)
    BY CatNext
  <2> QED BY <2>1 DEF Upto
<1>2. m \in T
  BY <1>1
<1>3. ASSUME NEW k \in T, m <= k, k < N PROVE k + 1 \in T
  <2>1. k + 1 \in 1..N /\ (k + 1) - 1 = k /\ k + 1 \in m..N /\ k \in 0..N /\ m \in Nat
    BY <1>3
  <2>2. /\ Upto(k + 1, F) = Upto(k, F) + Len(F[k + 1]) /\ Len(F[k + 1]) \in Nat
        /\ \A p \in 1..Upto(k, F) : Cat(k + 1, F)[p] = Cat(k, F)[p]
    <3>1. Joins(X, k + 1, F)
      BY <2>1, PieceGrows
    <3> QED BY <2>1, <3>1 DEF Joins
  <2>3. Upto(m, F) \in Nat /\ Upto(k, F) \in Nat /\ Is(k)
    BY <1>1, <2>1
  <2>4. Upto(m, F) <= Upto(k + 1, F)
    BY <2>2, <2>3
  <2>5. ASSUME NEW p \in 1..Upto(m, F) PROVE Cat(k + 1, F)[p] = Cat(m, F)[p]
    <3>1. p \in 1..Upto(k, F)
      BY <2>3
    <3> QED BY <2>2, <2>3, <3>1
  <2> QED BY <2>1, <2>4, <2>5
<1>4. n \in T
  <2>1. m \in Nat /\ n \in m..N
    OBVIOUS
  <2> HIDE DEF T
  <2> QED BY <1>2, <1>3, <2>1, Climb
<1> QED BY <1>1, <1>4

\* Every token of a piece is one of the text.
LEMMA PieceInText ==
    ASSUME NEW X, NEW N \in Nat, NEW F \in Pieces(N, X), NEW n \in 1..N,
           NEW i \in 1..Len(F[n])
    PROVE  /\ Upto(n - 1, F) + i \in 1..Upto(N, F) /\ Lies(Upto(n - 1, F) + i, n, F)
           /\ Cat(N, F)[Upto(n - 1, F) + i] = F[n][i]
<1>1. n \in 0..N /\ N \in n..N
  OBVIOUS
<1>2. /\ Upto(n, F) <= Upto(N, F) /\ Upto(N, F) \in Nat
      /\ \A p \in 1..Upto(n, F) : Cat(N, F)[p] = Cat(n, F)[p]
  BY <1>1, CatBegins
<1>3. /\ Upto(n, F) = Upto(n - 1, F) + Len(F[n])
      /\ Upto(n, F) \in Nat /\ Upto(n - 1, F) \in Nat /\ Len(F[n]) \in Nat
      /\ Cat(n, F)[Upto(n - 1, F) + i] = F[n][i]
  <2>1. Joins(X, n, F)
    BY PieceGrows
  <2> QED BY <2>1 DEF Joins
<1>4. Upto(n - 1, F) + i \in 1..Upto(n, F)
  BY <1>3
<1> DEFINE a == Upto(n - 1, F)
           b == Upto(n, F)
           c == Upto(N, F)
<1>5. a + i \in 1..b /\ b <= c /\ a \in Nat /\ b \in Nat /\ c \in Nat
  BY <1>2, <1>3, <1>4
<1>6. Cat(N, F)[a + i] = F[n][i]
  BY <1>2, <1>3, <1>4
<1> HIDE DEF a, b, c
<1>7. a + i \in 1..c /\ a < a + i /\ a + i <= b
  BY <1>5
<1> QED BY <1>6, <1>7 DEF Lies, a, b, c

\* Every token of the text lies in a piece.
LEMMA TextInPieces ==
    ASSUME NEW X, NEW N \in Nat, NEW F \in Pieces(N, X), NEW p \in 1..Upto(N, F)
    PROVE  \E n \in 1..N : Lies(p, n, F)
<1> DEFINE U == {n \in 0..N : p <= Upto(n, F)}
<1>1. \A k \in 0..N : Cat(k, F) \in Seq(X)
  BY CatNext
<1>2. \A k \in 0..N : Upto(k, F) \in Nat
  BY <1>1 DEF Upto
<1>3. Upto(0, F) = 0
  <2>1. Cat(0, F) = <<>>
    BY CatNext
  <2> QED BY <2>1 DEF Upto
<1>4. N \in U /\ U \in SUBSET Nat
  BY <1>2
<1>5. PICK n \in U : \A k \in U : n <= k
  <2> HIDE DEF U
  <2> QED BY <1>4, LeastElement
<1>6. n # 0
  BY <1>3, <1>5
<1>7. n \in 1..N /\ n - 1 \in 0..N /\ n - 1 \notin U
  BY <1>5, <1>6
<1>8. Upto(n - 1, F) < p
  BY <1>2, <1>7
<1> QED BY <1>5, <1>7, <1>8 DEF Lies

\* In only one.
LEMMA OnePiece ==
    ASSUME NEW X, NEW N \in Nat, NEW F \in Pieces(N, X), NEW p \in Nat,
           NEW m \in 1..N, NEW n \in 1..N, Lies(p, m, F), Lies(p, n, F)
    PROVE  m = n
<1>1. ASSUME NEW k \in 1..N, NEW l \in 1..N, k < l, Lies(p, k, F), Lies(p, l, F)
      PROVE  FALSE
  <2>1. k \in 0..N /\ l - 1 \in k..N
    BY <1>1
  <2>2. /\ Upto(k, F) <= Upto(l - 1, F) /\ Upto(k, F) \in Nat /\ Upto(l - 1, F) \in Nat
    BY <2>1, CatBegins
  <2> QED BY <1>1, <2>2 DEF Lies
<1> QED BY <1>1

\* G is F with some pieces changed, to such as have no token of w.
Apart(w, F, G, N) ==
    \A n \in 1..N : G[n] = F[n] \/ (G[n] # <<>> /\ Foreign(w, G[n]))

\* Where w stands in the changed text, it stood in the text, from the same token of
\* the same piece on, and that piece is unchanged.
LEMMA SamePlace ==
    ASSUME NEW X, NEW N \in Nat, NEW F \in Pieces(N, X), NEW G \in Pieces(N, X),
           NEW w \in Seq(X), w # <<>>, Apart(w, F, G, N),
           NEW n \in 1..N, NEW p \in 1..Upto(N, G), Lies(p, n, G),
           StandsAt(Cat(N, G), p, w)
    PROVE  /\ G[n] = F[n] /\ Upto(n - 1, F) + (p - Upto(n - 1, G)) \in 1..Upto(N, F)
           /\ Lies(Upto(n - 1, F) + (p - Upto(n - 1, G)), n, F)
           /\ StandsAt(Cat(N, F), Upto(n - 1, F) + (p - Upto(n - 1, G)), w)
<1> DEFINE g(m) == Upto(m, G)
           f(m) == Upto(m, F)
           L == Len(w)
           e == p + L - 1
           Is(m) == g(m - 1) < e => G[m] = F[m] /\ f(m - 1) - g(m - 1) = f(n - 1) - g(n - 1)
           T == {m \in n..N : Is(m)}
<1>1. L \in Nat /\ L > 0 /\ DOMAIN w = 1..L /\ p \in Nat /\ p > 0
  OBVIOUS
<1>2. ASSUME NEW m \in 1..N
      PROVE  /\ g(m) = g(m - 1) + Len(G[m]) /\ f(m) = f(m - 1) + Len(F[m])
             /\ g(m) \in Nat /\ g(m - 1) \in Nat /\ f(m) \in Nat /\ f(m - 1) \in Nat
             /\ Len(G[m]) \in Nat /\ Len(F[m]) \in Nat /\ G[m] \in Seq(X)
  <2>1. Joins(X, m, G) /\ Joins(X, m, F)
    BY PieceGrows
  <2> QED BY <2>1 DEF Joins
<1>3. /\ e <= g(N) /\ g(N) \in Nat
      /\ \A j \in 1..L : Cat(N, G)[p + j - 1] = w[j]
  <2>1. p + Len(w) - 1 <= Len(Cat(N, G)) /\ \A j \in DOMAIN w : Cat(N, G)[p + j - 1] = w[j]
    BY DEF StandsAt
  <2>2. N \in 1..N
    OBVIOUS
  <2> QED BY <1>1, <1>2, <2>1, <2>2 DEF Upto
<1> HIDE DEF g, f
<1>4. ASSUME NEW m \in 1..N, NEW j \in 1..L, g(m - 1) < p + j - 1, p + j - 1 <= g(m)
      PROVE  /\ (p + j - 1) - g(m - 1) \in 1..Len(G[m])
             /\ G[m][(p + j - 1) - g(m - 1)] = w[j] /\ G[m] = F[m]
  <2> DEFINE i == (p + j - 1) - g(m - 1)
  <2>1. i \in 1..Len(G[m]) /\ g(m - 1) + i = p + j - 1
    <3> DEFINE a == g(m - 1)
               b == Len(G[m])
               h == p + j - 1
    <3>1. g(m) = a + b /\ a \in Nat /\ b \in Nat
      BY <1>2
    <3>2. h \in Int /\ a < h /\ h <= a + b
      BY <1>1, <1>4, <3>1
    <3>3. i = h - a
      OBVIOUS
    <3> HIDE DEF a, b, h, i
    <3>4. i \in 1..b /\ a + i = h
      BY <3>1, <3>2, <3>3
    <3> QED BY <3>4 DEF a, b, h
  <2> HIDE DEF i
  <2>2. Cat(N, G)[g(m - 1) + i] = G[m][i]
    BY <2>1, PieceInText DEF g
  <2>3. G[m][i] = w[j]
    BY <1>3, <2>1, <2>2
  <2>4. ~Foreign(w, G[m])
    BY <2>1, <2>3 DEF Foreign
  <2>5. G[m] = F[m]
    BY <2>4 DEF Apart
  <2> QED BY <2>1, <2>3, <2>5 DEF i
<1>5. g(n - 1) < p /\ p <= g(n)
  BY DEF Lies, g
<1>6. n \in T
  <2>1. G[n] = F[n]
    <3>1. 1 \in 1..L /\ p + 1 - 1 = p
      BY <1>1
    <3> QED BY <1>4, <1>5, <3>1
  <2> QED BY <2>1
<1>7. ASSUME NEW m \in T, n <= m, m < N PROVE m + 1 \in T
  <2>1. m \in 1..N /\ m + 1 \in 1..N /\ (m + 1) - 1 = m /\ m + 1 \in n..N
    BY <1>7
  <2>2. SUFFICES ASSUME g(m) < e
                 PROVE  G[m + 1] = F[m + 1] /\ f(m) - g(m) = f(n - 1) - g(n - 1)
    BY <2>1
  <2>3. g(n) <= g(m) /\ g(n) \in Nat
    <3>1. n \in 0..N /\ m \in n..N
      BY <2>1
    <3> QED BY <3>1, CatBegins DEF g
  <2>4. /\ g(m) = g(m - 1) + Len(G[m]) /\ f(m) = f(m - 1) + Len(F[m])
        /\ g(m) \in Nat /\ g(m - 1) \in Nat /\ f(m) \in Nat /\ f(m - 1) \in Nat
        /\ Len(G[m]) \in Nat
    BY <1>2, <2>1
  <2>5. g(m - 1) < e
    <3> HIDE DEF e
    <3>1. e \in Int
      BY <1>1 DEF e
    <3> DEFINE a == g(m - 1)
               b == Len(G[m])
               h == g(m)
    <3>2. h < e /\ h = a + b /\ a \in Nat /\ b \in Nat
      BY <2>2, <2>4
    <3> HIDE DEF a, b, h
    <3>3. a < e
      BY <3>1, <3>2
    <3> QED BY <3>3 DEF a
  <2>6. G[m] = F[m] /\ f(m - 1) - g(m - 1) = f(n - 1) - g(n - 1)
    BY <1>7, <2>5
  <2>7. f(m) - g(m) = f(n - 1) - g(n - 1)
    <3> DEFINE a == g(m - 1)
               b == Len(G[m])
               c == f(m - 1)
               d == f(n - 1)
               h == g(n - 1)
    <3>1. a \in Nat /\ b \in Nat /\ c \in Nat
      BY <1>2, <2>1
    <3>2. d \in Nat /\ h \in Nat
      BY <1>2
    <3>3. Len(F[m]) = b
      BY <2>6
    <3>4. g(m) = a + b /\ f(m) = c + b
      BY <2>4, <3>3
    <3>5. c - a = d - h
      BY <2>6
    <3> HIDE DEF a, b, c, d, h
    <3>6. (c + b) - (a + b) = d - h
      BY <3>1, <3>2, <3>5
    <3> QED BY <3>4, <3>6 DEF d, h
  <2>8. G[m + 1] = F[m + 1]
    <3>1. CASE G[m + 1] = <<>>
      BY <2>1, <3>1 DEF Apart
    <3>2. CASE G[m + 1] # <<>>
      <4> DEFINE j == g(m) + 2 - p
      <4>1. Len(G[m + 1]) > 0 /\ g(m + 1) = g(m) + Len(G[m + 1]) /\ Len(G[m + 1]) \in Nat
            /\ g(m + 1) \in Nat
        <5> DEFINE k == m + 1
        <5>1. k \in 1..N /\ k - 1 = m
          BY <2>1
        <5> HIDE DEF k
        <5>2. g(k) = g(k - 1) + Len(G[k]) /\ Len(G[k]) \in Nat /\ G[k] \in Seq(X)
              /\ g(k) \in Nat
          BY <1>2, <5>1
        <5>3. G[k] # <<>>
          BY <3>2 DEF k
        <5> QED BY <5>1, <5>2, <5>3 DEF k
      <4>2. j \in 1..L /\ p + j - 1 = g(m) + 1
        <5> DEFINE a == g(m)
        <5> DEFINE b == g(n)
        <5>a. a \in Nat /\ p <= b /\ b <= a /\ b \in Nat /\ a < e
          BY <1>5, <2>2, <2>3, <2>4
        <5>b. e = p + L - 1
          OBVIOUS
        <5> HIDE DEF a, b, e, L
        <5>1. a \in Nat /\ p <= a /\ a < p + L - 1
          BY <1>1, <5>a, <5>b
        <5> HIDE DEF a, L
        <5>2. a + 2 - p \in 1..L /\ p + (a + 2 - p) - 1 = a + 1
          BY <1>1, <5>1
        <5> QED BY <5>2 DEF a
      <4> HIDE DEF j
      <4>3. g(m) < p + j - 1 /\ p + j - 1 <= g(m + 1)
        <5> DEFINE a == g(m)
                   b == g(m + 1)
                   h == p + j - 1
                   c == Len(G[m + 1])
        <5>1. a \in Nat /\ h = a + 1 /\ b = a + c /\ c \in Nat /\ c > 0
          BY <2>4, <4>1, <4>2
        <5> HIDE DEF a, b, c, h
        <5>2. a < h /\ h <= b
          BY <5>1
        <5> QED BY <5>2 DEF a, b, h
      <4> QED BY <1>4, <2>1, <4>2, <4>3
    <3> QED BY <3>1, <3>2
  <2> QED BY <2>7, <2>8
<1>8. \A m \in n..N : Is(m)
  <2>1. n \in Nat
    OBVIOUS
  <2> HIDE DEF Is
  <2>2. \A m \in T : n <= m /\ m < N => m + 1 \in T
    BY <1>7
  <2>3. \A m \in n..N : m \in T
    <3> HIDE DEF T
    <3> QED BY <1>6, <2>1, <2>2, Climb
  <2> QED BY <2>3
<1> DEFINE q == f(n - 1) + (p - g(n - 1))
<1>9. ASSUME NEW j \in 1..L
      PROVE  q + j - 1 \in 1..f(N) /\ Cat(N, F)[q + j - 1] = w[j]
  <2>1. p + j - 1 \in 1..g(N)
    BY <1>1, <1>3
  <2>2. PICK m \in 1..N : Lies(p + j - 1, m, G)
    <3> DEFINE h == p + j - 1
    <3>1. h \in 1..Upto(N, G)
      BY <2>1 DEF g
    <3> HIDE DEF h
    <3>2. \E m \in 1..N : Lies(h, m, G)
      BY <3>1, TextInPieces
    <3> QED BY <3>2 DEF h
  <2>3. g(m - 1) < p + j - 1 /\ p + j - 1 <= g(m)
    BY <2>2 DEF Lies, g
  <2>4. /\ (p + j - 1) - g(m - 1) \in 1..Len(G[m])
        /\ G[m][(p + j - 1) - g(m - 1)] = w[j] /\ G[m] = F[m]
    BY <1>4, <2>3
  <2>5. n <= m
    <3> SUFFICES ASSUME m < n PROVE FALSE
      OBVIOUS
    <3>1. m \in 0..N /\ n - 1 \in m..N
      OBVIOUS
    <3>2. g(m) <= g(n - 1) /\ g(m) \in Nat /\ g(n - 1) \in Nat
      BY <3>1, CatBegins DEF g
    <3> QED BY <1>1, <1>5, <2>3, <3>2
  <2>6. f(m - 1) - g(m - 1) = f(n - 1) - g(n - 1)
    <3>1. g(m - 1) < e /\ m \in n..N
      <4>1. g(m - 1) \in Nat
        BY <1>2
      <4> QED BY <1>1, <2>3, <2>5, <4>1
    <3> HIDE DEF e
    <3> QED BY <1>8, <3>1
  <2> DEFINE i == (p + j - 1) - g(m - 1)
  <2>7. f(m - 1) + i = q + j - 1
    <3>1. f(m - 1) \in Nat /\ g(m - 1) \in Nat /\ f(n - 1) \in Nat /\ g(n - 1) \in Nat
      BY <1>2
    <3> DEFINE a == f(m - 1)
               b == g(m - 1)
               c == f(n - 1)
               d == g(n - 1)
    <3>2. a \in Nat /\ b \in Nat /\ c \in Nat /\ d \in Nat /\ a - b = c - d
      BY <2>6, <3>1
    <3> HIDE DEF a, b, c, d
    <3>3. a + ((p + j - 1) - b) = c + (p - d) + j - 1
      BY <1>1, <3>2
    <3> QED BY <3>3 DEF a, b, c, d
  <2>8. i \in 1..Len(F[m]) /\ F[m][i] = w[j]
    BY <2>4
  <2> HIDE DEF i, q
  <2>9. f(m - 1) + i \in 1..f(N) /\ Cat(N, F)[f(m - 1) + i] = F[m][i]
    BY <2>8, PieceInText DEF f
  <2> QED BY <2>7, <2>8, <2>9
<1>10. f(N) \in Nat /\ q \in Int /\ f(n - 1) \in Nat /\ g(n - 1) \in Nat
  <2>1. N \in 1..N
    OBVIOUS
  <2>2. f(N) \in Nat
    BY <1>2, <2>1
  <2> DEFINE a == f(n - 1)
             b == g(n - 1)
  <2>3. a \in Nat /\ b \in Nat
    BY <1>2
  <2> HIDE DEF a, b
  <2>4. a + (p - b) \in Int
    BY <1>1, <2>3
  <2> QED BY <2>2, <2>3, <2>4 DEF a, b
<1> HIDE DEF q
<1>11. q \in 1..f(N)
  <2>1. 1 \in 1..L /\ q + 1 - 1 = q
    BY <1>1, <1>10
  <2> QED BY <1>9, <2>1
<1>12. StandsAt(Cat(N, F), q, w)
  <2>1. q + L - 1 <= f(N)
    <3>1. L \in 1..L
      BY <1>1
    <3>2. q + L - 1 \in 1..f(N)
      BY <1>9, <3>1
    <3> QED BY <1>10, <3>2
  <2>2. q + Len(w) - 1 <= Len(Cat(N, F))
    BY <2>1 DEF f, Upto
  <2> QED BY <1>1, <1>9, <2>2 DEF StandsAt
<1>13. G[n] = F[n] /\ Lies(q, n, F)
  <2>1. G[n] = F[n]
    <3>1. g(n - 1) < e
      BY <1>1, <1>5, <1>10
    <3> HIDE DEF e
    <3> QED BY <1>8, <3>1
  <2>2. f(n - 1) < q /\ q <= f(n)
    <3>1. g(n) = g(n - 1) + Len(G[n]) /\ f(n) = f(n - 1) + Len(F[n])
          /\ Len(G[n]) \in Nat /\ g(n) \in Nat /\ f(n) \in Nat
      BY <1>2
    <3> DEFINE a == g(n - 1)
               b == Len(G[n])
               c == f(n - 1)
               h == g(n)
               i == f(n)
    <3>2. h = a + b /\ a < p /\ p <= h /\ a \in Nat /\ b \in Nat /\ c \in Nat
      BY <1>5, <1>10, <3>1
    <3>3. i = c + b
      BY <2>1, <3>1
    <3>4. q = c + (p - a)
      BY DEF q
    <3> HIDE DEF a, b, c, h, i
    <3>5. c < q /\ q <= i
      BY <1>1, <3>2, <3>3, <3>4
    <3> QED BY <3>5 DEF c, i
  <2> QED BY <2>1, <2>2 DEF Lies, f
<1> QED BY <1>11, <1>12, <1>13 DEF q, f, g

\* F with new in the place of the pieces in T.
Swapped(F, N, T, new) == [n \in 1..N |-> IF n \in T THEN new ELSE F[n]]

\* In the text of these N pieces, w does not start in the n-th.
StartsNot(w, n, F, N) ==
    \A p \in 1..Upto(N, F) : Lies(p, n, F) => ~StandsAt(Cat(N, F), p, w)

\* What becomes of the text from the n-th piece on.
Goes(f, v, n, F) == f[Upto(n - 1, F) + 1] = v \o f[Upto(n, F) + 1]

\* A scan passes over a piece in which nothing that is looked for starts.
LEMMA PieceKept ==
    ASSUME NEW X, NEW N \in Nat, NEW F \in Pieces(N, X),
           NEW old \in Seq(X), old # <<>>, NEW new \in Seq(X),
           NEW f, Scans(X, Cat(N, F), old, new, f), NEW n \in 1..N,
           StartsNot(old, n, F, N)
    PROVE  Goes(f, F[n], n, F)
<1> DEFINE s == Cat(N, F)
           v == F[n]
           q == Upto(n - 1, F)
           Is(i) == f[q + 1] = SubSeq(v, 1, i) \o f[q + i + 1]
           T == {i \in 0..Len(v) : Is(i)}
<1>1. s \in Seq(X) /\ Len(s) \in Nat /\ Len(s) = Upto(N, F)
  <2>1. s \in Seq(X)
    <3>1. N \in 0..N
      OBVIOUS
    <3> QED BY <3>1, CatNext
  <2> QED BY <2>1 DEF Upto
<1>2. /\ v \in Seq(X) /\ q \in Nat /\ Len(v) \in Nat /\ Upto(n, F) = q + Len(v)
  <2>1. Joins(X, n, F)
    BY PieceGrows
  <2> QED BY <2>1 DEF Joins
<1>3. q + Len(v) <= Len(s)
  <2>1. n \in 0..N /\ N \in n..N
    OBVIOUS
  <2> QED BY <1>1, <1>2, <2>1, CatBegins
<1>4. \A p \in 1..(Len(s) + 1) : f[p] \in Seq(X)
  BY DEF Scans
<1>5. ASSUME NEW i \in 1..Len(v)
      PROVE  /\ q + i \in 1..Len(s) /\ s[q + i] = v[i] /\ v[i] \in X
             /\ f[q + i] = <<v[i]>> \o f[q + i + 1]
  <2>1. q + i \in 1..Upto(N, F) /\ Lies(q + i, n, F) /\ s[q + i] = v[i]
    BY PieceInText
  <2> DEFINE k == q + i
  <2> HIDE DEF q, v, s
  <2>2. k \in 1..Len(s) /\ ~StandsAt(s, k, old)
    BY <1>1, <2>1 DEF s, StartsNot
  <2> HIDE DEF k
  <2>3. Keeps(X, s, f, k)
    BY <1>1, <2>2, ScanStep DEF s
  <2> QED BY <1>1, <2>1, <2>2, <2>3 DEF Keeps, k
<1> HIDE DEF s, v, q
<1>6. 0 \in T
  <2>1. SubSeq(v, 1, 0) = <<>> /\ q + 0 + 1 = q + 1
    BY <1>2
  <2>2. f[q + 1] \in Seq(X)
    BY <1>1, <1>2, <1>3, <1>4
  <2>3. <<>> \o f[q + 1] = f[q + 1]
    BY <2>2, ConcatEmptySeq
  <2>4. Is(0)
    BY <2>1, <2>3
  <2> HIDE DEF Is
  <2> QED BY <1>2, <2>4
<1>7. ASSUME NEW i \in T, 0 <= i, i < Len(v) PROVE i + 1 \in T
  <2> DEFINE j == i + 1
             a == SubSeq(v, 1, i)
             b == <<v[j]>>
             c == f[q + j + 1]
  <2>1. j \in 1..Len(v) /\ j - 1 = i /\ q + i + 1 = q + j /\ j \in 0..Len(v)
    BY <1>2, <1>7
  <2> HIDE DEF j
  <2>2. f[q + j] = b \o c /\ v[j] \in X /\ q + j \in 1..Len(s)
    BY <1>5, <2>1
  <2>3. c \in Seq(X)
    <3>1. q + j + 1 \in 1..(Len(s) + 1)
      BY <1>1, <1>2, <2>1, <2>2
    <3> QED BY <1>4, <3>1
  <2>4. a \in Seq(X) /\ b \in Seq(X)
    <3>1. i \in Nat /\ i <= Len(v)
      BY <1>2, <1>7
    <3>2. \A l \in 1..i : v[l] \in X
      BY <1>2, <3>1
    <3> QED BY <2>2, <3>1, <3>2, SubSeqProperties
  <2>5. SubSeq(v, 1, j) = a \o b
    <3>1. SubSeq(v, 1, j) = SubSeq(v, 1, j - 1) \o <<v[j]>>
      <4>1. 1 \in 1..Len(v) /\ j \in 1..Len(v)
        BY <1>2, <2>1
      <4> QED BY <1>2, <4>1, SubSeqRecursiveSecond
    <3> QED BY <2>1, <3>1
  <2>6. f[q + 1] = a \o f[q + j]
    BY <1>7, <2>1
  <2> HIDE DEF a, b, c
  <2>7. Regroups(a, b, c)
    BY <2>3, <2>4, Associates
  <2>8. f[q + 1] = SubSeq(v, 1, j) \o c
    BY <2>2, <2>5, <2>6, <2>7 DEF Regroups
  <2> QED BY <2>1, <2>8 DEF c, j
<1>8. Len(v) \in T
  <2> DEFINE L == Len(v)
  <2>1. L \in Nat /\ 0 \in Nat /\ L \in 0..L
    BY <1>2
  <2>2. \A i \in T : 0 <= i /\ i < L => i + 1 \in T
    BY <1>7
  <2> HIDE DEF T, L
  <2>3. L \in T
    BY <1>6, <2>1, <2>2, Climb
  <2> QED BY <2>3 DEF L
<1>9. SubSeq(v, 1, Len(v)) = v
  BY <1>2
<1>10. f[q + 1] = v \o f[q + Len(v) + 1]
  BY <1>8, <1>9
<1> QED BY <1>2, <1>10 DEF q, v, Goes

\* Where old stands at the pieces in T and starts in no other, all of these and
\* nothing else is replaced.
LEMMA PiecesReplaced ==
    ASSUME NEW X, NEW N \in Nat, NEW F \in Pieces(N, X),
           NEW old \in Seq(X), old # <<>>, NEW new \in Seq(X),
           NEW T, \A n \in T : n \in 1..N => F[n] = old,
           \A n \in 1..N : n \notin T => StartsNot(old, n, F, N)
    PROVE  ReplaceEach(Cat(N, F), old, new) = Cat(N, Swapped(F, N, T, new))
<1> DEFINE s == Cat(N, F)
           G == Swapped(F, N, T, new)
<1>1. s \in Seq(X) /\ Len(s) \in Nat /\ Len(s) = Upto(N, F)
  <2>1. s \in Seq(X)
    <3>1. N \in 0..N
      OBVIOUS
    <3> QED BY <3>1, CatNext
  <2> QED BY <2>1 DEF Upto
<1>2. PICK f : ReplaceEach(s, old, new) = f[1] /\ Scans(X, s, old, new, f)
  <2> HIDE DEF s
  <2> QED BY <1>1, ReplaceScans
<1>3. \A p \in 1..(Len(s) + 1) : f[p] \in Seq(X)
  BY <1>2 DEF Scans
<1>4. G \in Pieces(N, X) /\ \A n \in 1..N : G[n] = IF n \in T THEN new ELSE F[n]
  <2>1. F \in [1..N -> Seq(X)]
    BY DEF Pieces
  <2> QED BY <2>1 DEF Swapped, Pieces
<1> HIDE DEF G
<1>5. ASSUME NEW n \in 1..N
      PROVE  f[Upto(n - 1, F) + 1] = G[n] \o f[Upto(n, F) + 1]
  <2>1. CASE n \notin T
    <3>1. StartsNot(old, n, F, N)
      BY <2>1
    <3>2. Scans(X, Cat(N, F), old, new, f)
      BY <1>2
    <3>3. Goes(f, F[n], n, F)
      BY <3>1, <3>2, PieceKept
    <3> QED BY <1>4, <2>1, <3>3 DEF Goes
  <2>2. CASE n \in T
    <3> DEFINE k == Upto(n - 1, F) + 1
    <3>1. F[n] = old /\ G[n] = new
      BY <1>4, <2>2
    <3>2. /\ Upto(n, F) = Upto(n - 1, F) + Len(F[n]) /\ Upto(n - 1, F) \in Nat
          /\ Upto(n, F) \in Nat
      <4>1. Joins(X, n, F)
        BY PieceGrows
      <4> QED BY <4>1 DEF Joins
    <3>3. Upto(n, F) <= Len(s)
      <4>1. n \in 0..N /\ N \in n..N
        OBVIOUS
      <4> QED BY <1>1, <4>1, CatBegins
    <3>4. Len(old) \in Nat /\ Len(old) > 0 /\ DOMAIN old = 1..Len(old)
      OBVIOUS
    <3>5. k \in 1..Len(s) /\ k + Len(old) = Upto(n, F) + 1
      <4> DEFINE a == Upto(n - 1, F)
                 b == Upto(n, F)
                 c == Len(s)
                 d == Len(old)
      <4>1. b = a + d /\ a \in Nat /\ b \in Nat /\ d \in Nat /\ d > 0 /\ b <= c /\ k = a + 1
        BY <3>1, <3>2, <3>3, <3>4
      <4>2. c \in Nat
        BY <1>1
      <4> HIDE DEF a, b, c, d, k
      <4>3. k \in 1..c /\ k + d = b + 1
        BY <4>1, <4>2
      <4> QED BY <4>3 DEF b, c, d
    <3>6. ASSUME NEW i \in 1..Len(old) PROVE s[k + i - 1] = old[i]
      <4>1. s[Upto(n - 1, F) + i] = F[n][i]
        BY <3>1, PieceInText
      <4>2. k + i - 1 = Upto(n - 1, F) + i
        BY <3>2
      <4> QED BY <3>1, <4>1, <4>2
    <3>7. StandsAt(s, k, old)
      <4>1. k + Len(old) - 1 <= Len(s)
        <5> DEFINE b == Upto(n, F)
                   c == Len(s)
                   d == Len(old)
        <5>1. k \in 1..c /\ k + d = b + 1 /\ b <= c
          BY <3>3, <3>5
        <5>2. b \in Nat /\ c \in Nat /\ d \in Nat
          BY <1>1, <3>2, <3>4
        <5> HIDE DEF b, c, d, k
        <5>3. k + d - 1 <= c
          BY <5>1, <5>2
        <5> QED BY <5>3 DEF c, d
      <4> HIDE DEF s, k
      <4> QED BY <3>4, <3>6, <4>1 DEF StandsAt
    <3>8. Replaces(X, s, old, new, f, k)
      <4> HIDE DEF s, k
      <4> QED BY <1>1, <1>2, <3>5, <3>7, ScanStep
    <3> QED BY <3>1, <3>5, <3>8 DEF Replaces
  <2> QED BY <2>1, <2>2
<1> DEFINE Is(n) == f[1] = Cat(n, G) \o f[Upto(n, F) + 1]
           U == {n \in 0..N : Is(n)}
<1>6. 0 \in U
  <2>1. Cat(0, G) = <<>> /\ Cat(0, F) = <<>>
    BY <1>4, CatNext
  <2>2. Upto(0, F) + 1 = 1
    BY <2>1 DEF Upto
  <2>3. f[1] \in Seq(X)
    BY <1>1, <1>3
  <2>4. <<>> \o f[1] = f[1]
    BY <2>3, ConcatEmptySeq
  <2>5. Is(0)
    BY <2>1, <2>2, <2>4
  <2> HIDE DEF Is
  <2> QED BY <2>5
<1> HIDE DEF s
<1>7. ASSUME NEW n \in U, 0 <= n, n < N PROVE n + 1 \in U
  <2> DEFINE j == n + 1
             a == Cat(n, G)
             b == G[j]
             c == f[Upto(j, F) + 1]
  <2>1. j \in 1..N /\ j - 1 = n /\ j \in 0..N /\ n \in 0..N
    BY <1>7
  <2> HIDE DEF j
  <2>2. f[Upto(n, F) + 1] = b \o c
    BY <1>5, <2>1
  <2>3. a \in Seq(X) /\ b \in Seq(X) /\ Cat(j, G) = a \o b
    <3>1. Joins(X, j, G)
      BY <1>4, <2>1, PieceGrows
    <3> QED BY <2>1, <3>1 DEF Joins
  <2>4. c \in Seq(X)
    <3>1. N \in j..N
      BY <2>1
    <3>2. Upto(j, F) <= Len(s) /\ Upto(j, F) \in Nat
      BY <1>1, <2>1, <3>1, CatBegins
    <3> QED BY <1>1, <1>3, <3>2
  <2>5. f[1] = a \o f[Upto(n, F) + 1]
    BY <1>7
  <2> HIDE DEF a, b, c
  <2>6. Regroups(a, b, c)
    BY <2>3, <2>4, Associates
  <2>7. f[1] = Cat(j, G) \o c
    BY <2>2, <2>3, <2>5, <2>6 DEF Regroups
  <2> QED BY <2>1, <2>7 DEF c, j
<1>8. N \in U
  <2>1. N \in Nat /\ 0 \in Nat /\ N \in 0..N
    OBVIOUS
  <2> HIDE DEF U
  <2> QED BY <1>6, <1>7, <2>1, Climb
<1>9. f[Len(s) + 1] = <<>>
  BY <1>2 DEF Scans
<1>10. Cat(N, G) \in Seq(X)
  <2>1. N \in 0..N
    OBVIOUS
  <2> QED BY <1>4, <2>1, CatNext
<1>11. Cat(N, G) \o <<>> = Cat(N, G)
  BY <1>10, ConcatEmptySeq
<1>12. f[1] = Cat(N, G) \o f[Len(s) + 1]
  BY <1>1, <1>8
<1> QED BY <1>2, <1>9, <1>11, <1>12 DEF s, G

\* In the text of these N pieces, w stands only from within the pieces in S.
StandsOnlyAt(w, F, N, S) ==
    \A p \in 1..Upto(N, F) : StandsAt(Cat(N, F), p, w) =>
        \E n \in S : n \in 1..N /\ Lies(p, n, F)

\* Some pieces of a text were changed already.  Where w starts in a piece, that piece
\* is one of those that are w and are to be replaced, or was changed.
LEMMA NextReplaced ==
    ASSUME NEW X, NEW N \in Nat, NEW F \in Pieces(N, X), NEW G \in Pieces(N, X),
           NEW w \in Seq(X), w # <<>>, NEW new \in Seq(X), Apart(w, F, G, N),
           NEW T, \A n \in T : n \in 1..N => G[n] = w,
           NEW S, StandsOnlyAt(w, F, N, S), \A n \in S : n \in T \/ G[n] # F[n]
    PROVE  ReplaceEach(Cat(N, G), w, new) = Cat(N, Swapped(G, N, T, new))
<1>1. ASSUME NEW n \in 1..N, n \notin T PROVE StartsNot(w, n, G, N)
  <2> SUFFICES ASSUME NEW p \in 1..Upto(N, G), Lies(p, n, G), StandsAt(Cat(N, G), p, w)
               PROVE  FALSE
    BY DEF StartsNot
  <2> DEFINE q == Upto(n - 1, F) + (p - Upto(n - 1, G))
  <2>1. /\ G[n] = F[n] /\ q \in 1..Upto(N, F) /\ Lies(q, n, F)
        /\ StandsAt(Cat(N, F), q, w)
    BY SamePlace
  <2> HIDE DEF q
  <2>2. PICK k \in S : k \in 1..N /\ Lies(q, k, F)
    BY <2>1 DEF StandsOnlyAt
  <2>3. q \in Nat
    <3>1. Upto(N, F) \in Nat
      <4>1. N \in 0..N /\ N \in N..N
        OBVIOUS
      <4> QED BY <4>1, CatBegins
    <3> QED BY <2>1, <3>1
  <2>4. k = n
    BY <2>1, <2>2, <2>3, OnePiece
  <2> QED BY <1>1, <2>1, <2>2, <2>4
<1>2. \A n \in 1..N : n \notin T => StartsNot(w, n, G, N)
  BY <1>1
<1> QED BY <1>2, PiecesReplaced
-----------------------------------------------------------------------------
(* The pieces of one pass over the field *)

Puts(put)   == \A m \in Found : put[m] \in Seq(Plain)
Holds(keep) == \A t \in Token : keep[t] \in Seq(Plain)

\* Where the matches of the field end.
LEMMA FoundEnds ==
    ASSUME field \in Seq(Token)
    PROVE  /\ Found = Matches(field)
           /\ \A m \in Found : m.start \in 1..Len(field) /\ m.end \in m.start..Len(field)
           /\ \A m, l \in Found : m.end = l.end => m = l
<1>1. Found = Matches(field)
  BY AllFound DEF Found
<1>2. \A m \in Found : m.start \in 1..Len(field) /\ m.end \in m.start..Len(field)
  BY <1>1, MatchesPlaced DEF Placed
<1>3. ASSUME NEW m \in Found, NEW l \in Found, m.end = l.end PROVE m = l
  <2>1. m = l \/ m.end < l.start \/ l.end < m.start
    BY <1>1, MatchesPlaced DEF Placed
  <2> QED BY <1>2, <1>3, <2>1
<1> QED BY <1>1, <1>2, <1>3

\* What is put down for a match stands where it ends.
LEMMA PieceAtEnd ==
    ASSUME field \in Seq(Token), NEW put, NEW keep, NEW m \in Found
    PROVE  m.end \in 1..Len(field) /\ PassPieces(field, put, keep)[m.end] = put[m]
<1>1. m \in Matches(field) /\ m.start \in 1..Len(field) /\ m.end \in m.start..Len(field)
  BY FoundEnds
<1> DEFINE k == m.end
<1>2. k \in 1..Len(field) /\ m.start <= k /\ k <= m.end
  BY <1>1
<1> HIDE DEF k
<1>3. PassPieces(field, put, keep)[k] = IF k = m.end THEN put[m] ELSE <<>>
  BY <1>1, <1>2, PieceAt
<1> QED BY <1>2, <1>3 DEF k

\* All other pieces are the same, whatever is put down for the matches.
LEMMA PieceElsewhere ==
    ASSUME field \in Seq(Token), NEW put, NEW put2, NEW keep, NEW k \in 1..Len(field),
           \A m \in Found : m.end # k
    PROVE  PassPieces(field, put, keep)[k] = PassPieces(field, put2, keep)[k]
<1>1. \A m \in Found : m.start \in 1..Len(field) /\ m.end \in m.start..Len(field)
  BY FoundEnds
<1>2. CASE \E m \in Found : m.start <= k /\ k <= m.end
  <2>1. PICK m \in Found : m.start <= k /\ k <= m.end
    BY <1>2
  <2>2. m \in Matches(field) /\ k # m.end
    BY <2>1, FoundEnds
  <2>3. PassPieces(field, put, keep)[k] = IF k = m.end THEN put[m] ELSE <<>>
    BY <2>1, <2>2, PieceAt
  <2>4. PassPieces(field, put2, keep)[k] = IF k = m.end THEN put2[m] ELSE <<>>
    BY <2>1, <2>2, PieceAt
  <2> QED BY <2>2, <2>3, <2>4
<1>3. CASE ~\E m \in Found : m.start <= k /\ k <= m.end
  <2>1. \A m \in Matches(field) : k < m.start \/ m.end < k
    BY <1>1, <1>3, FoundEnds
  <2>2. PassPieces(field, put, keep)[k] = keep[field[k]]
    BY <2>1, PieceAt
  <2>3. PassPieces(field, put2, keep)[k] = keep[field[k]]
    BY <2>1, PieceAt
  <2> QED BY <2>2, <2>3
<1> QED BY <1>2, <1>3

\* They are texts.
LEMMA FieldPieces ==
    ASSUME field \in Seq(Token), NEW put, NEW keep, Puts(put), Holds(keep)
    PROVE  PassPieces(field, put, keep) \in Pieces(Len(field), Plain)
<1>1. \A m \in Matches(field) : put[m] \in Seq(Plain)
  BY FoundEnds DEF Puts
<1>2. \A t \in Token : t \notin KeyURI => keep[t] \in Seq(Plain)
  BY DEF Holds
<1> QED BY <1>1, <1>2, PiecesIn

\* ref is what is put down for the matches at first, and put what is there by now.
Changed(w, ref, put) ==
    \A m \in Found : put[m] = ref[m] \/ (put[m] # <<>> /\ Foreign(w, put[m]))

\* w is put down for the matches in T, where new is put next, and what is put down for
\* the others in ms was changed already.
Turns(w, new, T, ms, ref, put, put2) ==
    /\ Changed(w, ref, put)
    /\ \A m \in Found : m \in T => put[m] = w
    /\ \A m \in Found : put2[m] = IF m \in T THEN new ELSE put[m]
    /\ \A m \in ms : m \in Found /\ (m \in T \/ put[m] # ref[m])

\* Replacing w, which stands only from within the pieces of ms.
LEMMA PassReplaced ==
    ASSUME field \in Seq(Token), NEW ref, NEW put, NEW put2, NEW keep,
           Puts(ref), Puts(put), Holds(keep),
           NEW w \in Seq(Plain), w # <<>>, NEW new \in Seq(Plain), NEW T, NEW ms,
           Turns(w, new, T, ms, ref, put, put2),
           StandsOnlyIn(w, PassPieces(field, ref, keep), ms)
    PROVE  ReplaceEach(OnePass(put, keep), w, new) = OnePass(put2, keep)
<1> DEFINE N  == Len(field)
           F  == PassPieces(field, ref, keep)
           G  == PassPieces(field, put, keep)
           G2 == PassPieces(field, put2, keep)
           TE == {n \in 1..N : \E m \in Found : m \in T /\ m.end = n}
           S  == {n \in 1..N : \E m \in ms : m.end = n}
<1>1. N \in Nat /\ F \in Pieces(N, Plain) /\ G \in Pieces(N, Plain)
  BY FieldPieces
<1>2. OnePass(put, keep) = Cat(N, G) /\ OnePass(put2, keep) = Cat(N, G2)
  BY DEF OnePass
<1>3. ASSUME NEW m \in Found
      PROVE  m.end \in 1..N /\ F[m.end] = ref[m] /\ G[m.end] = put[m] /\ G2[m.end] = put2[m]
  BY PieceAtEnd
<1>4. ASSUME NEW k \in 1..N, \A m \in Found : m.end # k
      PROVE  F[k] = G[k] /\ G2[k] = G[k]
  BY <1>4, PieceElsewhere
<1>5. DOMAIN F = 1..N /\ Len(F) = N /\ G2 = [k \in 1..N |-> G2[k]]
  <2>1. DOMAIN F = 1..N
    BY DEF PassPieces
  <2>2. F \in Seq(Seq(Plain))
    <3> HIDE DEF F, N
    <3> QED BY <1>1 DEF Pieces
  <2>3. Len(F) = N
    <3> HIDE DEF F, N
    <3> QED BY <1>1, <2>1, <2>2
  <2>4. G2 = [k \in 1..N |-> G2[k]]
    BY DEF PassPieces
  <2> QED BY <2>1, <2>3, <2>4
<1> HIDE DEF F, G, G2, N
<1>6. Apart(w, F, G, N)
  <2> SUFFICES ASSUME NEW k \in 1..N
               PROVE  G[k] = F[k] \/ (G[k] # <<>> /\ Foreign(w, G[k]))
    BY DEF Apart
  <2>1. CASE \E m \in Found : m.end = k
    <3>1. PICK m \in Found : m.end = k
      BY <2>1
    <3>2. F[k] = ref[m] /\ G[k] = put[m]
      BY <1>3, <3>1
    <3> QED BY <3>2 DEF Turns, Changed
  <2>2. CASE \A m \in Found : m.end # k
    BY <1>4, <2>2
  <2> QED BY <2>1, <2>2
<1>7. \A n \in TE : G[n] = w
  BY <1>3 DEF Turns
<1>8. \A n \in S : n \in TE \/ G[n] # F[n]
  <2> SUFFICES ASSUME NEW n \in S PROVE n \in TE \/ G[n] # F[n]
    OBVIOUS
  <2>1. PICK m \in ms : m.end = n
    OBVIOUS
  <2> QED BY <1>3, <2>1 DEF Turns
<1>9. StandsOnlyAt(w, F, N, S)
  <2> SUFFICES ASSUME NEW p \in 1..Upto(N, F), StandsAt(Cat(N, F), p, w)
               PROVE  \E n \in S : n \in 1..N /\ Lies(p, n, F)
    BY DEF StandsOnlyAt
  <2>1. Cat(N, F) \in Seq(Plain)
    <3>1. N \in 0..N
      BY <1>1
    <3> QED BY <1>1, <3>1, CatNext
  <2>2. p \in DOMAIN Cat(N, F)
    BY <2>1 DEF Upto
  <2>3. PICK m \in ms : Len(Cat(m.end - 1, F)) < p /\ p <= Len(Cat(m.end, F))
    BY <1>5, <2>2 DEF StandsOnlyIn, F
  <2>4. m.end \in S /\ m.end \in 1..N
    BY <1>3 DEF Turns
  <2> QED BY <2>3, <2>4 DEF Lies, Upto
<1>10. ReplaceEach(Cat(N, G), w, new) = Cat(N, Swapped(G, N, TE, new))
  <2> HIDE DEF TE, S
  <2>1. \A n \in TE : n \in 1..N => G[n] = w
    BY <1>7
  <2> QED BY <1>1, <1>6, <1>8, <1>9, <2>1, NextReplaced
<1>11. G2 = Swapped(G, N, TE, new)
  <2>1. ASSUME NEW k \in 1..N PROVE G2[k] = IF k \in TE THEN new ELSE G[k]
    <3>1. CASE \E m \in Found : m.end = k
      <4>1. PICK m \in Found : m.end = k
        BY <3>1
      <4>2. k \in TE <=> m \in T
        BY <4>1, FoundEnds
      <4>3. G2[k] = put2[m] /\ G[k] = put[m]
        BY <1>3, <4>1
      <4> QED BY <4>2, <4>3 DEF Turns
    <3>2. CASE \A m \in Found : m.end # k
      BY <1>4, <3>2
    <3> QED BY <3>1, <3>2
  <2> HIDE DEF TE
  <2> QED BY <1>5, <2>1 DEF Swapped
<1> QED BY <1>2, <1>10, <1>11
-----------------------------------------------------------------------------
(* The outputs of the transforms *)

\* Every transform has an output in the map, and every output one template.
LEMMA OutputOfCall ==
    ASSUME field \in Seq(Token)
    PROVE  /\ \A m \in Found : m.call => \E o \in Outputs(field) : o[1] = Resolve(m)
           /\ \A o, p \in Outputs(field) : o[1] = p[1] => o = p
<1> DEFINE ms == FindAll(field)
           calls == {n \in DOMAIN ms : ms[n].call}
           last == {n \in calls : \A k \in calls : k > n => Resolve(ms[k]) # Resolve(ms[n])}
           out(n) == <<Resolve(ms[n]), SubSeq(field, ms[n].start, ms[n].end)>>
<1>1. ms \in Seq(Matches(field)) /\ Range(ms) = Found
  BY AllFound DEF Found
<1>2. Outputs(field) = {out(n) : n \in last}
  BY DEF Outputs, OutputsOf
<1> HIDE DEF ms
<1>3. DOMAIN ms = 1..Len(ms) /\ Len(ms) \in Nat
  BY <1>1
<1>4. ASSUME NEW m \in Found, m.call PROVE \E o \in Outputs(field) : o[1] = Resolve(m)
  <2> DEFINE K == {n \in calls : Resolve(ms[n]) = Resolve(m)}
             U == {Len(ms) - n : n \in K}
  <2>1. PICK i \in DOMAIN ms : ms[i] = m
    BY <1>1 DEF Range
  <2>2. i \in K
    BY <1>4, <2>1
  <2>3. U \in SUBSET Nat /\ U # {}
    BY <1>3, <2>2
  <2>4. PICK j \in U : \A k \in U : j <= k
    <3> HIDE DEF U
    <3> QED BY <2>3, LeastElement
  <2>5. PICK n \in K : j = Len(ms) - n
    OBVIOUS
  <2>6. n \in calls /\ Resolve(ms[n]) = Resolve(m)
    OBVIOUS
  <2>7. ASSUME NEW k \in calls, k > n, Resolve(ms[k]) = Resolve(ms[n]) PROVE FALSE
    <3>1. k \in K
      BY <2>6, <2>7
    <3>2. Len(ms) - k \in U
      BY <3>1
    <3>3. Len(ms) - n <= Len(ms) - k
      BY <2>4, <2>5, <3>2
    <3>4. k \in Nat /\ n \in Nat
      BY <1>3
    <3> QED BY <1>3, <2>7, <3>3, <3>4
  <2>8. n \in last
    BY <2>6, <2>7
  <2>9. out(n) \in Outputs(field) /\ out(n)[1] = Resolve(m)
    BY <1>2, <2>6, <2>8
  <2> QED BY <2>9
<1>5. ASSUME NEW o \in Outputs(field), NEW p \in Outputs(field), o[1] = p[1] PROVE o = p
  <2>1. PICK n \in last : o = out(n)
    BY <1>2
  <2>2. PICK k \in last : p = out(k)
    BY <1>2
  <2>3. Resolve(ms[n]) = Resolve(ms[k])
    BY <1>5, <2>1, <2>2
  <2>4. n \in calls /\ k \in calls /\ ~(k > n) /\ ~(n > k)
    BY <2>3
  <2>5. n = k
    BY <1>3, <2>4
  <2> QED BY <2>1, <2>2, <2>5
<1> QED BY <1>4, <1>5

\* The template of a call is that of its output.
LEMMA TemplateIs ==
    ASSUME field \in Seq(Token), NEW m \in Found, m.call
    PROVE  /\ \E o \in Outputs(field) : o[1] = Resolve(m)
           /\ \A o \in Outputs(field) : o[1] = Resolve(m) => o[2] = Template(m)
           /\ Template(m) \in Seq(Token) /\ Template(m) # <<>>
           /\ Resolve(m) \in Seq(Coded) /\ Resolve(m) # <<>>
<1> DEFINE x == CHOOSE o \in Outputs(field) : o[1] = Resolve(m)
<1>1. \E o \in Outputs(field) : o[1] = Resolve(m)
  BY OutputOfCall
<1>2. x \in Outputs(field) /\ x[1] = Resolve(m)
  BY <1>1
<1>3. Template(m) = x[2]
  BY DEF Template
<1> HIDE DEF x
<1>4. \A o \in Outputs(field) : o[1] = Resolve(m) => o = x
  BY <1>2, OutputOfCall
<1>5. x[1] \in Seq(Coded) /\ x[1] # <<>> /\ x[2] \in Seq(Token) /\ x[2] # <<>>
  BY <1>2, OutputsAre
<1> QED BY <1>1, <1>2, <1>3, <1>4, <1>5

\* A match that is no call stands for one uri.
LEMMA UriOfMatch ==
    ASSUME field \in Seq(Token), NEW m \in Found, ~m.call
    PROVE  Uri(m) \in KeyURI /\ Resolve(m) = ValueOf[Uri(m)]
<1>1. m \in Matches(field)
  BY FoundEnds
<1>2. PICK u \in KeyURI : m.args = <<Arg(TRUE, <<u>>)>> /\ Resolve(m) = ValueOf[u]
  BY <1>1, Resolved
<1>3. Uri(m) = u
  <2> DEFINE a == Arg(TRUE, <<u>>)
  <2>1. a.value = <<u>>
    BY DEF Arg
  <2> HIDE DEF a
  <2>2. m.args[1] = a
    BY <1>2 DEF a
  <2> QED BY <2>1, <2>2 DEF Uri
<1> QED BY <1>2, <1>3

\* Tokens of a text are none of base64.
LEMMA CodedForeign ==
    ASSUME NEW w \in Seq(Coded), NEW t \in Seq(Token)
    PROVE  Foreign(w, t)
<1>1. \A i \in 1..Len(w) : w[i] \in Coded
  OBVIOUS
<1>2. \A j \in 1..Len(t) : t[j] \in Token
  OBVIOUS
<1>3. Coded \cap Token = {}
  BY UriAssumption DEF Coded
<1> QED BY <1>1, <1>2, <1>3 DEF Foreign

Forms(form) == \A u \in KeyURI : form[u] \in Seq(Token)

\* An echo is made of texts, also where the outputs are masked.
LEMMA EchoPuts ==
    ASSUME field \in Seq(Token), NEW form, Forms(form)
    PROVE  Puts(EchoOf(form)) /\ Puts(Shown(form)) /\ Puts(PutBack)
<1>1. Token \subseteq Plain /\ Coded \subseteq Plain /\ KeyURI \subseteq Plain
  BY DEF Plain, Coded, Token
<1>2. ASSUME NEW m \in Found
      PROVE  /\ EchoOf(form)[m] \in Seq(Plain) /\ Shown(form)[m] \in Seq(Plain)
             /\ PutBack[m] \in Seq(Plain)
  <2>1. CASE m.call
    <3>1. Resolve(m) \in Seq(Plain) /\ Template(m) \in Seq(Plain)
      <4>1. Resolve(m) \in Seq(Coded) /\ Template(m) \in Seq(Token)
        BY <2>1, TemplateIs
      <4> QED BY <1>1, <4>1
    <3> QED BY <2>1, <3>1 DEF EchoOf, Shown, PutBack
  <2>2. CASE ~m.call
    <3>1. Uri(m) \in KeyURI
      BY <2>2, UriOfMatch
    <3>2. form[Uri(m)] \in Seq(Plain) /\ <<Uri(m)>> \in Seq(Plain)
      <4>1. form[Uri(m)] \in Seq(Token) /\ Uri(m) \in Plain
        BY <1>1, <3>1 DEF Forms
      <4> QED BY <1>1, <4>1
    <3> QED BY <2>2, <3>2 DEF EchoOf, Shown, PutBack
  <2> QED BY <2>1, <2>2
<1> QED BY <1>2 DEF Puts

\* maskTransformOutputs turns every output into its template, whatever the order.
LEMMA OutputsBack ==
    ASSUME field \in Seq(Token), NEW form, Forms(form), NEW keep, Holds(keep),
           NEW order \in SetToSeqs(Outputs(field)),
           \A o \in Outputs(field) :
              StandsOnlyIn(o[1], PassPieces(field, EchoOf(form), keep), CallsOf(o[1]))
    PROVE  MaskOutputs(OnePass(EchoOf(form), keep), order) = OnePass(Shown(form), keep)
<1> DEFINE O == Outputs(field)
           L == Len(order)
           s == OnePass(EchoOf(form), keep)
           done(n, m) == \E i \in 1..n : order[i][1] = Resolve(m)
           put(n) == [m \in Found |-> IF m.call /\ done(n, m) THEN Template(m)
                                      ELSE EchoOf(form)[m]]
<1>1. order \in Seq(O) /\ \A o \in O : \E n \in 1..L : order[n] = o
  BY OutputsAre, OrderIsOnto
<1>2. L \in Nat /\ \A n \in 1..L : order[n] \in O
  BY <1>1
<1>3. \A i, j \in 1..L : i # j => order[i] # order[j]
  BY OutputsAre, OrderIsOnto
<1>4. s \in Seq(Plain)
  <2>1. PassPieces(field, EchoOf(form), keep) \in Pieces(Len(field), Plain)
    BY EchoPuts, FieldPieces
  <2>2. Len(field) \in Nat /\ Len(field) \in 0..Len(field)
    OBVIOUS
  <2> QED BY <2>1, <2>2, CatNext DEF OnePass
<1>5. PICK f : MaskOutputs(s, order) = f[L] /\ OutputTurns(Plain, s, order, f)
  <2> HIDE DEF s
  <2> QED BY <1>4, OutputsTurn
<1> HIDE DEF O, s, L
<1>6. f[0] = s /\ \A n \in 1..L : f[n] = ReplaceEach(f[n - 1], order[n][1], order[n][2])
  BY <1>5 DEF OutputTurns, L
<1>7. ASSUME NEW n \in 0..L PROVE Puts(put(n))
  <2> SUFFICES ASSUME NEW m \in Found PROVE put(n)[m] \in Seq(Plain)
    BY DEF Puts
  <2>1. EchoOf(form)[m] \in Seq(Plain) /\ Shown(form)[m] \in Seq(Plain)
    BY EchoPuts DEF Puts
  <2>2. m.call => Shown(form)[m] = Template(m)
    BY DEF Shown
  <2> QED BY <2>1, <2>2
<1>8. ASSUME NEW n \in 1..L, f[n - 1] = OnePass(put(n - 1), keep)
      PROVE  f[n] = OnePass(put(n), keep)
  <2> DEFINE w == order[n][1]
             new == order[n][2]
             T == CallsOf(w)
             ref == EchoOf(form)
             p == put(n - 1)
             p2 == put(n)
  <2>1. order[n] \in O /\ n - 1 \in 0..L /\ n \in 0..L
    BY <1>2
  <2>2. w \in Seq(Coded) /\ w # <<>> /\ new \in Seq(Token) /\ new # <<>>
    BY <2>1, OutputsAre DEF O
  <2>3. w \in Seq(Plain) /\ new \in Seq(Plain)
    <3>1. Coded \subseteq Plain /\ Token \subseteq Plain
      BY DEF Plain, Coded
    <3> QED BY <2>2, <3>1
  <2>4. Puts(ref) /\ Puts(p)
    BY <1>7, <2>1, EchoPuts
  <2>5. \A m \in Found : m \in T <=> m.call /\ Resolve(m) = w
    BY DEF CallsOf
  <2>6. Changed(w, ref, p)
    <3> SUFFICES ASSUME NEW m \in Found, p[m] # ref[m]
                 PROVE  p[m] # <<>> /\ Foreign(w, p[m])
      BY DEF Changed
    <3>1. m.call /\ p[m] = Template(m)
      OBVIOUS
    <3> QED BY <2>2, <3>1, TemplateIs, CodedForeign
  <2>7. ASSUME NEW m \in Found, m \in T PROVE p[m] = w
    <3>1. m.call /\ Resolve(m) = w
      BY <2>5, <2>7
    <3>2. ~done(n - 1, m)
      <4> SUFFICES ASSUME NEW i \in 1..(n - 1), order[i][1] = Resolve(m) PROVE FALSE
        OBVIOUS
      <4>1. i \in 1..L /\ i # n /\ order[i] \in O
        BY <1>2
      <4>2. order[i] = order[n]
        BY <2>1, <3>1, <4>1, OutputOfCall DEF O
      <4> QED BY <1>3, <4>1, <4>2
    <3> QED BY <3>1, <3>2 DEF EchoOf
  <2>8. ASSUME NEW m \in Found PROVE p2[m] = IF m \in T THEN new ELSE p[m]
    <3>1. CASE m \in T
      <4>1. m.call /\ Resolve(m) = w
        BY <2>5, <3>1
      <4>2. new = Template(m)
        BY <2>1, <4>1, TemplateIs DEF O
      <4>3. done(n, m)
        BY <4>1
      <4> QED BY <3>1, <4>1, <4>2, <4>3
    <3>2. CASE m \notin T
      <4>1. m.call => (done(n, m) <=> done(n - 1, m))
        <5> SUFFICES ASSUME m.call, NEW i \in 1..n, order[i][1] = Resolve(m)
                     PROVE  i \in 1..(n - 1)
          BY <1>2
        <5>1. i # n
          BY <2>5, <3>2
        <5> QED BY <5>1
      <4> HIDE DEF done
      <4> QED BY <3>2, <4>1
    <3> QED BY <3>1, <3>2
  <2>9. StandsOnlyIn(w, PassPieces(field, ref, keep), T)
    BY <2>1 DEF O
  <2>10. Turns(w, new, T, T, ref, p, p2)
    <3>1. T \subseteq Found
      BY DEF CallsOf
    <3> HIDE DEF w, new, T, ref, p, p2
    <3> QED BY <2>6, <2>7, <2>8, <3>1 DEF Turns
  <2>11. f[n] = ReplaceEach(OnePass(p, keep), w, new)
    BY <1>6, <1>8
  <2> HIDE DEF w, new, T, ref, p, p2
  <2>12. ReplaceEach(OnePass(p, keep), w, new) = OnePass(p2, keep)
    BY <2>2, <2>3, <2>4, <2>9, <2>10, PassReplaced
  <2> QED BY <2>11, <2>12 DEF p2
<1>9. f[0] = OnePass(put(0), keep)
  <2>1. put(0) = EchoOf(form)
    BY DEF EchoOf
  <2> HIDE DEF put
  <2> QED BY <1>6, <2>1 DEF s
<1>10. f[L] = OnePass(put(L), keep)
  <2> DEFINE T == {n \in 0..L : f[n] = OnePass(put(n), keep)}
  <2> HIDE DEF put
  <2>1. 0 \in T /\ 0 \in Nat /\ L \in 0..L
    BY <1>2, <1>9
  <2>2. ASSUME NEW n \in T, 0 <= n, n < L PROVE n + 1 \in T
    <3>1. n + 1 \in 1..L /\ (n + 1) - 1 = n /\ n + 1 \in 0..L
      BY <1>2, <2>2
    <3> QED BY <1>8, <3>1
  <2> HIDE DEF T
  <2>3. L \in T
    BY <1>2, <2>1, <2>2, Climb
  <2> QED BY <2>3 DEF T
<1>11. put(L) = Shown(form)
  <2>1. ASSUME NEW m \in Found, m.call PROVE done(L, m)
    <3>1. PICK o \in O : o[1] = Resolve(m)
      BY <2>1, OutputOfCall DEF O
    <3> QED BY <1>1, <3>1
  <2> HIDE DEF done
  <2> QED BY <2>1 DEF Shown, EchoOf
<1> HIDE DEF put
<1> QED BY <1>5, <1>10, <1>11 DEF s
-----------------------------------------------------------------------------
(* The credentials *)

\* What JSON makes of a text is longer, if it is not the text itself.
LEMMA EscapedLonger ==
    ASSUME NEW v \in Seq(Token)
    PROVE  Escaped(v) = v \/ Len(Escaped(v)) > Len(v)
<1> DEFINE N == Len(v)
           F == [n \in 1..N |-> IF v[n] \in NeedsEscape THEN <<Backslash, v[n]>>
                                ELSE <<v[n]>>]
           Is(n) == Upto(n, F) > n \/ (Upto(n, F) = n /\ \A k \in 1..n : F[k] = <<v[k]>>)
           T == {n \in 0..N : Is(n)}
<1>1. N \in Nat /\ DOMAIN v = 1..N
  OBVIOUS
<1>2. Escaped(v) = Cat(N, F)
  BY <1>1 DEF Escaped
<1>3. ASSUME NEW n \in 1..N
      PROVE  F[n] \in Seq(Token) /\ (Len(F[n]) = 2 \/ (Len(F[n]) = 1 /\ F[n] = <<v[n]>>))
  <2>1. v[n] \in Token /\ Backslash \in Token
    BY MaskingAssumption DEF Token
  <2>2. <<Backslash, v[n]>> \in Seq(Token) /\ <<v[n]>> \in Seq(Token)
    BY <2>1
  <2>3. Len(<<Backslash, v[n]>>) = 2 /\ Len(<<v[n]>>) = 1
    OBVIOUS
  <2> QED BY <2>2, <2>3
<1>4. F = [n \in 1..N |-> F[n]]
  OBVIOUS
<1> HIDE DEF F, N
<1>5. F \in Pieces(N, Token)
  BY <1>3, <1>4 DEF Pieces
<1>6. 0 \in T
  <2>1. Cat(0, F) = <<>>
    BY <1>1, <1>5, CatNext
  <2>2. Upto(0, F) = 0
    BY <2>1 DEF Upto
  <2> QED BY <1>1, <2>2
<1>7. ASSUME NEW n \in T, 0 <= n, n < N PROVE n + 1 \in T
  <2> DEFINE j == n + 1
  <2>1. j \in 1..N /\ j - 1 = n /\ j \in 0..N /\ n \in Nat
    BY <1>1, <1>7
  <2>2. \A k \in 1..j : k = j \/ k \in 1..n
    BY <2>1
  <2> HIDE DEF j
  <2>3. Upto(j, F) = Upto(n, F) + Len(F[j]) /\ Upto(n, F) \in Nat
    <3>1. Joins(Token, j, F)
      BY <1>1, <1>5, <2>1, PieceGrows
    <3> QED BY <2>1, <3>1 DEF Joins
  <2>4. Len(F[j]) = 2 \/ (Len(F[j]) = 1 /\ F[j] = <<v[j]>>)
    BY <1>3, <2>1
  <2>5. Is(n)
    BY <1>7
  <2>6. Is(j)
    <3> DEFINE a == Upto(n, F)
               b == Upto(j, F)
               l == Len(F[j])
    <3>1. b = a + l /\ a \in Nat /\ (l = 2 \/ (l = 1 /\ F[j] = <<v[j]>>)) /\ j = n + 1
          /\ (a > n \/ (a = n /\ \A k \in 1..n : F[k] = <<v[k]>>))
      BY <2>3, <2>4, <2>5 DEF j
    <3> HIDE DEF a, b, l
    <3>2. b > j \/ (b = j /\ a = n /\ F[j] = <<v[j]>>)
      BY <2>1, <3>1
    <3>3. b = j /\ a = n => \A k \in 1..n : F[k] = <<v[k]>>
      BY <2>1, <3>1
    <3>4. b = j => \A k \in 1..j : F[k] = <<v[k]>>
      BY <2>1, <2>2, <3>2, <3>3
    <3> QED BY <3>2, <3>4 DEF b
  <2> HIDE DEF Is
  <2>7. j \in T
    BY <2>1, <2>6
  <2> QED BY <2>7 DEF j
<1>8. N \in T
  <2>1. 0 \in Nat /\ N \in 0..N
    BY <1>1
  <2> HIDE DEF T
  <2> QED BY <1>1, <1>6, <1>7, <2>1, Climb
<1>9. Is(N)
  BY <1>8
<1>10. CASE \A k \in 1..N : F[k] = <<v[k]>>
  <2>1. Cat(N, F) = Cat(0, F) \o SubSeq(v, 0 + 1, N)
    <3>1. 0 \in 0..Len(v) /\ N \in 0..Len(v) /\ F \in Pieces(Len(v), Token)
      BY <1>1, <1>5 DEF N
    <3>2. \A k \in (0 + 1)..N : F[k] = <<v[k]>>
      BY <1>10
    <3> QED BY <3>1, <3>2, Kept
  <2>2. Cat(0, F) = <<>>
    BY <1>1, <1>5, CatNext
  <2>3. SubSeq(v, 0 + 1, N) = v
    BY DEF N
  <2>4. <<>> \o v = v
    BY ConcatEmptySeq
  <2> QED BY <1>2, <2>1, <2>2, <2>3, <2>4
<1>11. CASE Upto(N, F) > N
  BY <1>2, <1>11 DEF Upto, N
<1> QED BY <1>9, <1>10, <1>11

\* No value holds a uri.
NoUriInside == \A u \in KeyURI : \A n \in DOMAIN ValueOf[u] : ValueOf[u][n] \notin KeyURI

\* Each value stands in the echo as it is or as JSON escapes it.
OfValues(form) ==
    \A u \in KeyURI : form[u] = ValueOf[u] \/ form[u] = Escaped(ValueOf[u])

\* Values and what JSON makes of them are texts without a uri.
LEMMA ValuesFree ==
    ASSUME NoUriInside, NEW u \in KeyURI
    PROVE  /\ ValueOf[u] \in Seq(Free) /\ ValueOf[u] # <<>>
           /\ Escaped(ValueOf[u]) \in Seq(Free) /\ Escaped(ValueOf[u]) # <<>>
<1> DEFINE val == ValueOf[u]
<1>1. val \in Seq(Token) /\ val # <<>> /\ \A n \in DOMAIN val : val[n] \notin KeyURI
  BY UriAssumption DEF NoUriInside
<1> HIDE DEF val
<1>2. \A n \in 1..Len(val) : val[n] \in Free
  BY <1>1 DEF Free
<1>3. val \in Seq(Free)
  BY <1>1, <1>2
<1>4. Backslash \in Free
  BY MaskingAssumption, UriAssumption DEF Free, Token
<1>5. Escaped(val) \in Seq(Free) /\ Escaped(val) # <<>>
  BY <1>1, <1>3, <1>4, EscapedIn
<1> QED BY <1>1, <1>3, <1>5 DEF val

\* What stands for the matches once the values of the uris in U are masked.
ShownAfter(form, U) ==
    [m \in Found |-> IF m.call THEN Template(m)
                     ELSE IF Uri(m) \in U THEN <<Uri(m)>> ELSE form[Uri(m)]]

\* A uri is in no such text.
LEMMA UriForeign ==
    ASSUME NEW w \in Seq(Free), NEW u \in KeyURI
    PROVE  Foreign(w, <<u>>) /\ w # <<u>>
<1>1. \A i \in 1..Len(w) : w[i] \in Free
  OBVIOUS
<1>2. u \notin Free
  BY DEF Free
<1>3. Len(<<u>>) = 1 /\ <<u>>[1] = u
  OBVIOUS
<1>4. Foreign(w, <<u>>)
  BY <1>1, <1>2, <1>3 DEF Foreign
<1>5. w # <<u>>
  <2> SUFFICES ASSUME w = <<u>> PROVE FALSE
    OBVIOUS
  <2>1. Len(w) = 1 /\ w[1] = u
    BY <1>3
  <2> QED BY <1>1, <1>2, <2>1
<1> QED BY <1>4, <1>5
\* The texts that stand for the matches, before and after.
LEMMA ShownPuts ==
    ASSUME field \in Seq(Token), NEW form, Forms(form), NEW U
    PROVE  Puts(ShownAfter(form, U))
<1>1. Puts(Shown(form)) /\ Puts(PutBack)
  BY EchoPuts
<1>2. \A m \in Found :
         ShownAfter(form, U)[m] = Shown(form)[m] \/ ShownAfter(form, U)[m] = PutBack[m]
  BY DEF ShownAfter, Shown, PutBack
<1> QED BY <1>1, <1>2 DEF Puts

\* u and the uris of the longer values, which are all in U.
Comes(u, U) ==
    \A v \in KeyURI : Len(ValueOf[v]) > Len(ValueOf[u]) => v \in U

\* What Legible says of the credentials.
ValuesLegible(form, keep) ==
    \A u \in KeyURI : \A w \in {ValueOf[u], Escaped(ValueOf[u])} :
        StandsOnlyIn(w, PassPieces(field, Shown(form), keep), Holding(w, u, form))

Longer(w, v) == Len(w) > Len(v)

\* The form in which a value stands becomes the uri, another form is not found.
ValueTurns(w, u, U, form, keep) ==
    /\ w = form[u] /\ u \notin U
         => ReplaceEach(OnePass(ShownAfter(form, U), keep), w, <<u>>)
               = OnePass(ShownAfter(form, U \cup {u}), keep)
    /\ u \in U \/ Longer(w, form[u])
         => ReplaceEach(OnePass(ShownAfter(form, U), keep), w, <<u>>)
               = OnePass(ShownAfter(form, U), keep)

\* So goes each replacement of a turn of maskCredentials.
LEMMA ValueTurn ==
    ASSUME field \in Seq(Token), NoUriInside, NEW form, Forms(form), OfValues(form),
           NEW keep, Holds(keep), ValuesLegible(form, keep),
           NEW U, NEW u \in KeyURI, Comes(u, U),
           NEW w \in {ValueOf[u], Escaped(ValueOf[u])}
    PROVE  ValueTurns(w, u, U, form, keep)
<1> DEFINE ref == Shown(form)
           p == ShownAfter(form, U)
           p2 == ShownAfter(form, U \cup {u})
           ms == Holding(w, u, form)
           new == <<u>>
           mine == {m \in Found : ~m.call /\ Uri(m) = u}
<1>1. Free \subseteq Plain /\ Token \subseteq Plain /\ u \in Token
  BY DEF Plain, Free, Token
<1>2. w \in Seq(Free) /\ w # <<>> /\ w \in Seq(Plain) /\ new \in Seq(Plain)
  <2>1. w \in Seq(Free) /\ w # <<>>
    BY ValuesFree
  <2> QED BY <1>1, <2>1
<1>3. Puts(ref) /\ Puts(p)
  BY EchoPuts, ShownPuts
<1>4. StandsOnlyIn(w, PassPieces(field, ref, keep), ms)
  BY DEF ValuesLegible
<1>5. ASSUME NEW m \in Found, ~m.call
      PROVE  /\ Uri(m) \in KeyURI /\ ref[m] = form[Uri(m)]
             /\ p[m] = IF Uri(m) \in U THEN <<Uri(m)>> ELSE form[Uri(m)]
             /\ p2[m] = IF Uri(m) \in U \cup {u} THEN <<Uri(m)>> ELSE form[Uri(m)]
  BY <1>5, UriOfMatch DEF Shown, ShownAfter
<1>6. ASSUME NEW m \in Found, m.call PROVE ref[m] = p[m] /\ p2[m] = p[m]
  BY <1>6 DEF Shown, ShownAfter
<1>7. ASSUME NEW v \in KeyURI PROVE form[v] \in Seq(Free) /\ form[v] # <<v>>
  <2>1. form[v] \in Seq(Free)
    BY ValuesFree DEF OfValues
  <2> QED BY <2>1, UriForeign
<1>8. ms \subseteq Found /\ \A m \in ms : ~m.call
         /\ (Len(ValueOf[Uri(m)]) > Len(ValueOf[u]) \/ (Uri(m) = u /\ Len(w) <= Len(form[u])))
  BY DEF Holding
<1> HIDE DEF ms, ref, p, p2
<1>9. Changed(w, ref, p)
  <2> SUFFICES ASSUME NEW m \in Found, p[m] # ref[m]
               PROVE  p[m] # <<>> /\ Foreign(w, p[m])
    BY DEF Changed
  <2>1. ~m.call
    BY <1>6
  <2>2. Uri(m) \in KeyURI /\ p[m] = <<Uri(m)>>
    BY <1>5, <2>1
  <2> QED BY <1>2, <2>2, UriForeign
<1>10. ASSUME NEW m \in ms, Uri(m) \in U PROVE p[m] # ref[m]
  BY <1>5, <1>7, <1>8, <1>10
<1>11. ASSUME NEW m \in ms, Uri(m) # u PROVE p[m] # ref[m]
  <2>1. Uri(m) \in KeyURI /\ Len(ValueOf[Uri(m)]) > Len(ValueOf[u])
    BY <1>5, <1>8, <1>11
  <2> QED BY <1>10, <2>1 DEF Comes
<1>12. ASSUME w = form[u], u \notin U
       PROVE  ReplaceEach(OnePass(p, keep), w, new) = OnePass(p2, keep)
  <2>1. ASSUME NEW m \in Found, m \in mine PROVE p[m] = w
    BY <1>5, <1>12, <2>1
  <2>2. ASSUME NEW m \in Found PROVE p2[m] = IF m \in mine THEN new ELSE p[m]
    BY <1>5, <1>6
  <2>3. \A m \in ms : m \in Found /\ (m \in mine \/ p[m] # ref[m])
    BY <1>8, <1>11
  <2> HIDE DEF mine, new
  <2>4. Turns(w, new, mine, ms, ref, p, p2)
    BY <1>9, <2>1, <2>2, <2>3 DEF Turns
  <2> QED BY <1>2, <1>3, <1>4, <2>4, PassReplaced
<1>13. ASSUME u \in U \/ Longer(w, form[u])
       PROVE  ReplaceEach(OnePass(p, keep), w, new) = OnePass(p, keep)
  <2>1. \A m \in ms : m \in Found /\ (m \in {} \/ p[m] # ref[m])
    <3> SUFFICES ASSUME NEW m \in ms PROVE p[m] # ref[m]
      BY <1>8
    <3>1. CASE Uri(m) # u
      BY <1>11, <3>1
    <3>2. CASE Uri(m) = u
      <4>1. ~(Len(ValueOf[u]) > Len(ValueOf[u]))
        <5>1. Len(ValueOf[u]) \in Nat
          BY UriAssumption
        <5> QED BY <5>1
      <4>2. Len(w) <= Len(form[u])
        BY <1>8, <3>2, <4>1
      <4>3. Len(w) \in Nat /\ Len(form[u]) \in Nat
        BY <1>2, <1>7
      <4>4. u \in U
        BY <1>13, <4>2, <4>3 DEF Longer
      <4> QED BY <1>10, <3>2, <4>4
    <3> QED BY <3>1, <3>2
  <2> HIDE DEF new
  <2>2. Turns(w, new, {}, ms, ref, p, p)
    BY <1>9, <2>1 DEF Turns
  <2> QED BY <1>2, <1>3, <1>4, <2>2, PassReplaced
<1> QED BY <1>12, <1>13 DEF p, p2, ValueTurns

\* A turn of maskCredentials turns the value of this uri, in the form in which it
\* stands, into the uri.
LEMMA OneTurn ==
    ASSUME field \in Seq(Token), NoUriInside, NEW form, Forms(form), OfValues(form),
           NEW keep, Holds(keep), ValuesLegible(form, keep),
           NEW U, NEW u \in KeyURI, u \notin U, Comes(u, U)
    PROVE  MaskOne(OnePass(ShownAfter(form, U), keep), u)
              = OnePass(ShownAfter(form, U \cup {u}), keep)
<1> DEFINE val == ValueOf[u]
           esc == Escaped(val)
           s == OnePass(ShownAfter(form, U), keep)
           e == OnePass(ShownAfter(form, U \cup {u}), keep)
<1>1. MaskOne(s, u) = ReplaceEach(IF esc = val THEN s ELSE ReplaceEach(s, esc, <<u>>),
                                  val, <<u>>)
  BY DEF MaskOne
<1>2. ASSUME NEW w \in {val, esc}
      PROVE  /\ w = form[u] => ReplaceEach(s, w, <<u>>) = e
             /\ Longer(w, form[u]) => ReplaceEach(s, w, <<u>>) = s
  <2>1. w \in {ValueOf[u], Escaped(ValueOf[u])}
    OBVIOUS
  <2> HIDE DEF val, esc
  <2>2. ValueTurns(w, u, U, form, keep)
    BY <2>1, ValueTurn
  <2> QED BY <2>2 DEF ValueTurns
<1>3. ASSUME NEW w \in {val, esc} PROVE ReplaceEach(e, w, <<u>>) = e
  <2>1. Comes(u, U \cup {u}) /\ u \in U \cup {u}
    BY DEF Comes
  <2> DEFINE V == U \cup {u}
  <2> HIDE DEF V
  <2>2. ValueTurns(w, u, V, form, keep)
    BY <2>1, ValueTurn DEF V
  <2> QED BY <2>1, <2>2 DEF V, ValueTurns
<1>4. esc = val \/ Longer(esc, val)
  BY UriAssumption, EscapedLonger DEF Longer
<1>5. form[u] = val \/ form[u] = esc
  BY DEF OfValues
<1> SUFFICES MaskOne(s, u) = e
  OBVIOUS
<1> HIDE DEF s, e, val, esc
<1>6. CASE esc = val
  BY <1>1, <1>2, <1>5, <1>6
<1>7. CASE esc # val /\ form[u] = val
  BY <1>1, <1>2, <1>4, <1>7
<1>8. CASE esc # val /\ form[u] = esc
  BY <1>1, <1>2, <1>3, <1>8
<1> QED BY <1>5, <1>6, <1>7, <1>8

\* maskCredentials turns every value into its uri.
LEMMA CredentialsBack ==
    ASSUME field \in Seq(Token), NoUriInside, NEW form, Forms(form), OfValues(form),
           NEW keep, Holds(keep), ValuesLegible(form, keep), NEW order \in MaskOrders
    PROVE  MaskCredentials(OnePass(Shown(form), keep), order) = OnePass(PutBack, keep)
<1> DEFINE L == Len(order)
           s == OnePass(Shown(form), keep)
           U(n) == {order[i] : i \in 1..n}
<1>1. /\ order \in Seq(KeyURI) /\ \A u \in KeyURI : \E n \in 1..L : order[n] = u
      /\ \A i, j \in 1..L : i # j => order[i] # order[j]
  <2>1. order \in SetToSeqs(KeyURI) /\ IsFiniteSet(KeyURI)
    BY UriAssumption DEF MaskOrders
  <2> QED BY <2>1, OrderIsOnto
<1>2. \A m, n \in DOMAIN order :
         m < n => Len(ValueOf[order[m]]) >= Len(ValueOf[order[n]])
  BY DEF MaskOrders
<1>3. s \in Seq(Plain)
  <2>1. PassPieces(field, Shown(form), keep) \in Pieces(Len(field), Plain)
    BY EchoPuts, FieldPieces
  <2>2. Len(field) \in Nat /\ Len(field) \in 0..Len(field)
    OBVIOUS
  <2> QED BY <2>1, <2>2, CatNext DEF OnePass
<1>4. PICK f : MaskCredentials(s, order) = f[L] /\ CredentialTurns(Plain, s, order, f)
  <2>1. Token \subseteq Plain
    BY DEF Plain
  <2> HIDE DEF s
  <2> QED BY <1>3, <2>1, CredentialsTurn
<1>5. L \in Nat /\ DOMAIN order = 1..L /\ \A n \in 1..L : order[n] \in KeyURI
  BY <1>1
<1> HIDE DEF L, s
<1>6. f[0] = s /\ \A n \in 1..L : f[n] = MaskOne(f[n - 1], order[n])
  BY <1>4 DEF CredentialTurns, L
<1>7. ASSUME NEW n \in 1..L, f[n - 1] = OnePass(ShownAfter(form, U(n - 1)), keep)
      PROVE  f[n] = OnePass(ShownAfter(form, U(n)), keep)
  <2> DEFINE u == order[n]
             V == U(n - 1)
  <2>1. u \in KeyURI
    BY <1>5
  <2>2. u \notin V
    BY <1>1, <1>5 DEF L
  <2>3. Comes(u, V)
    <3> SUFFICES ASSUME NEW v \in KeyURI, Len(ValueOf[v]) > Len(ValueOf[u])
                 PROVE  v \in V
      BY DEF Comes
    <3>1. PICK k \in 1..L : order[k] = v
      BY <1>1 DEF L
    <3>2. Len(ValueOf[v]) \in Nat /\ Len(ValueOf[u]) \in Nat
      BY <2>1, UriAssumption
    <3>3. ~(n < k) /\ k # n
      BY <1>2, <1>5, <3>1, <3>2
    <3>4. k \in 1..(n - 1)
      BY <1>5, <3>3
    <3> QED BY <3>1, <3>4
  <2>4. U(n) = V \cup {u}
    <3>1. \A i : i \in 1..n <=> i \in 1..(n - 1) \/ i = n
      BY <1>5
    <3> QED BY <3>1
  <2> HIDE DEF V, u, U
  <2>5. MaskOne(OnePass(ShownAfter(form, V), keep), u)
           = OnePass(ShownAfter(form, V \cup {u}), keep)
    BY <2>1, <2>2, <2>3, OneTurn
  <2> QED BY <1>6, <1>7, <2>4, <2>5 DEF V, u
<1>8. ShownAfter(form, U(0)) = Shown(form)
  <2>1. U(0) = {}
    OBVIOUS
  <2> HIDE DEF U
  <2> QED BY <2>1 DEF ShownAfter, Shown
<1>9. ShownAfter(form, U(L)) = PutBack
  <2>1. \A u \in KeyURI : u \in U(L)
    BY <1>1 DEF L
  <2> HIDE DEF U
  <2>2. \A m \in Found : ~m.call => Uri(m) \in U(L)
    BY <2>1, UriOfMatch
  <2> QED BY <2>2 DEF ShownAfter, PutBack
<1> HIDE DEF U
<1> DEFINE Is(n) == f[n] = OnePass(ShownAfter(form, U(n)), keep)
           T == {n \in 0..L : Is(n)}
<1>10. 0 \in T /\ L \in 0..L /\ 0 \in Nat
  BY <1>5, <1>6, <1>8 DEF s
<1>11. ASSUME NEW n \in T, 0 <= n, n < L PROVE n + 1 \in T
  <2>1. n + 1 \in 1..L /\ (n + 1) - 1 = n /\ n + 1 \in 0..L
    BY <1>5, <1>11
  <2> QED BY <1>7, <2>1
<1>12. L \in T
  <2> HIDE DEF T
  <2> QED BY <1>5, <1>10, <1>11, Climb
<1> QED BY <1>4, <1>9, <1>12 DEF s
-----------------------------------------------------------------------------
(* What encoding/json makes of a text put together from pieces *)

\* The same pieces make the same text.
LEMMA CatSame ==
    ASSUME NEW X, NEW N \in Nat, NEW F \in Pieces(N, X), NEW M \in Nat, NEW G \in Pieces(M, X),
           NEW n \in Nat, n <= N, n <= M, \A k \in 1..n : F[k] = G[k]
    PROVE  Cat(n, F) = Cat(n, G)
<1> DEFINE T == {k \in 0..n : Cat(k, F) = Cat(k, G)}
<1>1. 0 \in T
  <2>1. Cat(0, F) = <<>>
    BY CatNext
  <2>2. Cat(0, G) = <<>>
    BY CatNext
  <2> QED BY <2>1, <2>2
<1>2. ASSUME NEW k \in T, 0 <= k, k < n PROVE k + 1 \in T
  <2> DEFINE j == k + 1
  <2>1. j \in 1..N /\ j \in 1..M /\ j \in 1..n /\ j - 1 = k /\ j \in 0..n
    BY <1>2
  <2> HIDE DEF j
  <2>2. Cat(j, F) = Cat(j - 1, F) \o F[j] /\ Cat(j, G) = Cat(j - 1, G) \o G[j]
    BY <2>1, CatNext
  <2>3. Cat(k, F) = Cat(k, G) /\ F[j] = G[j]
    BY <1>2, <2>1
  <2>4. j \in T
    BY <2>1, <2>2, <2>3
  <2> QED BY <2>4 DEF j
<1>3. n \in T
  <2>1. n \in 0..n /\ 0 \in Nat
    OBVIOUS
  <2> HIDE DEF T
  <2> QED BY <1>1, <1>2, <2>1, Climb
<1> QED BY <1>3

\* The pieces of G are those of F from the n-th on.
Behind(G, M, F, n) == \A k \in 1..M : G[k] = F[n + k]

\* A text in two parts.
LEMMA CatSplit ==
    ASSUME NEW X, NEW N \in Nat, NEW F \in Pieces(N, X), NEW M \in Nat, NEW G \in Pieces(M, X),
           NEW n \in Nat, n + M <= N, Behind(G, M, F, n)
    PROVE  Cat(n + M, F) = Cat(n, F) \o Cat(M, G)
<1> DEFINE T == {k \in 0..M : Cat(n + k, F) = Cat(n, F) \o Cat(k, G)}
<1>1. Cat(n, F) \in Seq(X) /\ Cat(0, G) = <<>>
  <2>1. n \in 0..N
    OBVIOUS
  <2> QED BY <2>1, CatNext
<1>2. 0 \in T
  <2>1. n + 0 = n /\ Cat(n, F) \o <<>> = Cat(n, F)
    BY <1>1, ConcatEmptySeq
  <2> QED BY <1>1, <2>1
<1>3. ASSUME NEW k \in T, 0 <= k, k < M PROVE k + 1 \in T
  <2> DEFINE j == k + 1
             i == n + j
             a == Cat(n, F)
             b == Cat(k, G)
             c == G[j]
  <2>1. /\ j \in 1..M /\ j - 1 = k /\ j \in 0..M /\ k \in 0..M
        /\ i \in 1..N /\ i - 1 = n + k
    BY <1>3
  <2>2. G[j] = F[i]
    BY <2>1 DEF Behind
  <2>3. Cat(n + k, F) = a \o b
    BY <1>3
  <2> HIDE DEF j, i
  <2>4. Cat(i, F) = Cat(i - 1, F) \o F[i] /\ Cat(j, G) = Cat(j - 1, G) \o G[j]
    BY <2>1, CatNext
  <2>5. a \in Seq(X) /\ b \in Seq(X) /\ c \in Seq(X)
    <3>1. Cat(k, G) \in Seq(X)
      BY <2>1, CatNext
    <3>2. G[j] \in Seq(X)
      BY <2>1 DEF Pieces
    <3> QED BY <1>1, <3>1, <3>2
  <2> HIDE DEF a, b, c
  <2>6. Regroups(a, b, c)
    BY <2>5, Associates
  <2>7. Cat(i, F) = a \o Cat(j, G)
    BY <2>1, <2>2, <2>3, <2>4, <2>6 DEF Regroups, b, c
  <2>8. j \in T
    BY <2>1, <2>7 DEF i, a
  <2> QED BY <2>8 DEF j
<1>4. M \in T
  <2>1. M \in 0..M /\ 0 \in Nat
    OBVIOUS
  <2> HIDE DEF T
  <2> QED BY <1>2, <1>3, <2>1, Climb
<1> QED BY <1>4

\* What encoding/json makes of each token.
EscapedPieces(t) ==
    [n \in 1..Len(t) |-> IF t[n] \in NeedsEscape THEN <<Backslash, t[n]>> ELSE <<t[n]>>]

\* Escaped puts these together.
LEMMA EscapedIs ==
    ASSUME NEW t \in Seq(Plain)
    PROVE  /\ Escaped(t) = Cat(Len(t), EscapedPieces(t))
           /\ EscapedPieces(t) \in Pieces(Len(t), Plain) /\ Escaped(t) \in Seq(Plain)
<1>1. DOMAIN t = 1..Len(t) /\ Len(t) \in Nat /\ Len(t) \in 0..Len(t)
  OBVIOUS
<1>2. Escaped(t) = Cat(Len(t), EscapedPieces(t))
  BY <1>1 DEF Escaped, EscapedPieces
<1>3. Backslash \in Plain
  BY MaskingAssumption DEF Plain, Token
<1>4. ASSUME NEW n \in 1..Len(t)
      PROVE  (IF t[n] \in NeedsEscape THEN <<Backslash, t[n]>> ELSE <<t[n]>>) \in Seq(Plain)
  <2>1. t[n] \in Plain
    OBVIOUS
  <2>2. <<Backslash, t[n]>> \in Seq(Plain) /\ <<t[n]>> \in Seq(Plain)
    BY <1>3, <2>1
  <2> QED BY <2>2
<1>5. EscapedPieces(t) \in Pieces(Len(t), Plain)
  BY <1>4 DEF EscapedPieces, Pieces
<1> QED BY <1>1, <1>2, <1>5, CatNext

\* Two texts, one behind the other.
LEMMA EscapedJoins ==
    ASSUME NEW a \in Seq(Plain), NEW b \in Seq(Plain)
    PROVE  Escaped(a \o b) = Escaped(a) \o Escaped(b)
<1> DEFINE t == a \o b
           A == EscapedPieces(a)
           B == EscapedPieces(b)
           F == EscapedPieces(t)
           n == Len(a)
           M == Len(b)
<1>1. /\ t \in Seq(Plain) /\ Len(t) = n + M /\ n \in Nat /\ M \in Nat
      /\ \A k \in 1..n : t[k] = a[k]
      /\ \A k \in 1..M : t[n + k] = b[k]
  OBVIOUS
<1>a. n \in Nat /\ M \in Nat
  OBVIOUS
<1>2. /\ Escaped(t) = Cat(n + M, F) /\ F \in Pieces(n + M, Plain)
      /\ Escaped(a) = Cat(n, A) /\ A \in Pieces(n, Plain)
      /\ Escaped(b) = Cat(M, B) /\ B \in Pieces(M, Plain)
  BY <1>1, EscapedIs
<1> HIDE DEF t, n, M
<1>3. \A k \in 1..n : F[k] = A[k]
  <2>1. \A k \in 1..n : k \in 1..(n + M)
    BY <1>1
  <2> QED BY <1>1, <2>1 DEF EscapedPieces, n
<1>4. Behind(B, M, F, n)
  <2>1. \A k \in 1..M : n + k \in 1..(n + M)
    BY <1>1
  <2> QED BY <1>1, <2>1 DEF EscapedPieces, M, Behind
<1> HIDE DEF F, A, B
<1>5. Cat(n + M, F) = Cat(n, F) \o Cat(M, B)
  <2> DEFINE l == n + M
  <2>1. l \in Nat /\ n + M <= l /\ n \in Nat /\ M \in Nat /\ F \in Pieces(l, Plain)
    BY <1>a, <1>2
  <2>2. B \in Pieces(M, Plain) /\ Behind(B, M, F, n)
    BY <1>2, <1>4
  <2> HIDE DEF l
  <2> QED BY <2>1, <2>2, CatSplit
<1>6. Cat(n, F) = Cat(n, A)
  <2>1. n + M \in Nat /\ n <= n + M /\ n <= n
    BY <1>a
  <2> QED BY <1>a, <1>2, <1>3, <2>1, CatSame
<1> QED BY <1>2, <1>5, <1>6 DEF t

\* A text without tokens that are escaped stays as it is.
LEMMA EscapedKept ==
    ASSUME NEW t \in Seq(Plain), \A n \in 1..Len(t) : t[n] \notin NeedsEscape
    PROVE  Escaped(t) = t
<1> DEFINE N == Len(t)
           F == EscapedPieces(t)
<1>1. Escaped(t) = Cat(N, F) /\ F \in Pieces(N, Plain)
  BY EscapedIs
<1>2. \A k \in (0 + 1)..N : F[k] = <<t[k]>>
  BY DEF EscapedPieces
<1>3. 0 \in 0..N /\ N \in 0..N /\ N \in Nat
  OBVIOUS
<1> HIDE DEF F
<1>4. Cat(N, F) = Cat(0, F) \o SubSeq(t, 0 + 1, N)
  BY <1>1, <1>2, <1>3, Kept
<1>5. Cat(0, F) = <<>>
  BY <1>1, <1>3, CatNext
<1>6. SubSeq(t, 0 + 1, N) = t /\ <<>> \o t = t
  <2>1. SubSeq(t, 1, Len(t)) = t
    BY SubSeqFull
  <2>2. <<>> \o t = t
    BY ConcatEmptySeq
  <2>3. 0 + 1 = 1
    OBVIOUS
  <2> QED BY <2>1, <2>2, <2>3, Zenon
<1> QED BY <1>1, <1>4, <1>5, <1>6, Zenon

\* A text put together from pieces is escaped piece by piece.
LEMMA EscapedCat ==
    ASSUME NEW N \in Nat, NEW F \in Pieces(N, Plain),
           NEW G \in Pieces(N, Plain), \A k \in 1..N : G[k] = Escaped(F[k])
    PROVE  Escaped(Cat(N, F)) = Cat(N, G)
<1> DEFINE T == {n \in 0..N : Escaped(Cat(n, F)) = Cat(n, G)}
<1>1. 0 \in T
  <2>1. Cat(0, F) = <<>> /\ Cat(0, G) = <<>>
    BY CatNext
  <2>2. Escaped(<<>>) = <<>>
    <3>1. <<>> \in Seq(Plain) /\ \A n \in 1..Len(<<>>) : <<>>[n] \notin NeedsEscape
      OBVIOUS
    <3> QED BY <3>1, EscapedKept
  <2> QED BY <2>1, <2>2
<1>2. ASSUME NEW n \in T, 0 <= n, n < N PROVE n + 1 \in T
  <2> DEFINE j == n + 1
  <2>1. j \in 1..N /\ j - 1 = n /\ j \in 0..N /\ n \in 0..N
    BY <1>2
  <2>2. Escaped(Cat(n, F)) = Cat(n, G)
    BY <1>2
  <2> HIDE DEF j
  <2>3. Cat(j, F) = Cat(j - 1, F) \o F[j] /\ Cat(j, G) = Cat(j - 1, G) \o G[j]
        /\ Cat(n, F) \in Seq(Plain)
    BY <2>1, CatNext
  <2>4. F[j] \in Seq(Plain)
    BY <2>1 DEF Pieces
  <2>5. Escaped(Cat(n, F) \o F[j]) = Escaped(Cat(n, F)) \o Escaped(F[j])
    BY <2>3, <2>4, EscapedJoins
  <2>6. j \in T
    BY <2>1, <2>2, <2>3, <2>5
  <2> QED BY <2>6 DEF j
<1>3. N \in T
  <2>1. N \in 0..N /\ 0 \in Nat
    OBVIOUS
  <2> HIDE DEF T
  <2> QED BY <1>1, <1>2, <2>1, Climb
<1> QED BY <1>3
-----------------------------------------------------------------------------
(* The echoes *)

\* A match is sent as its value or as the output of its transform.
LEMMA ResolvedAs ==
    ASSUME field \in Seq(Token), NEW m \in Found
    PROVE  EchoOf(ValueOf)[m] = Resolve(m) /\ Resolve(m) \in Seq(Plain)
<1>1. CASE m.call
  <2>1. Resolve(m) \in Seq(Coded)
    BY <1>1, TemplateIs
  <2>2. Coded \subseteq Plain
    BY DEF Coded, Plain
  <2> QED BY <1>1, <2>1, <2>2 DEF EchoOf
<1>2. CASE ~m.call
  <2>1. Uri(m) \in KeyURI /\ Resolve(m) = ValueOf[Uri(m)]
    BY <1>2, UriOfMatch
  <2>2. ValueOf[Uri(m)] \in Seq(Token)
    BY <2>1, UriAssumption
  <2>3. Token \subseteq Plain
    BY DEF Plain
  <2> QED BY <1>2, <2>1, <2>2, <2>3 DEF EchoOf
<1> QED BY <1>1, <1>2

\* Tokens are kept as texts.
LEMMA KeepHolds ==
    Holds(Self) /\ Holds(EscapedSelf) /\ Forms(ValueOf) /\ Forms(EscapedValues)
<1>1. Holds(Self)
  <2> SUFFICES ASSUME NEW t \in Token PROVE Self[t] \in Seq(Plain)
    BY DEF Holds
  <2>1. Self[t] = <<t>> /\ t \in Plain
    BY DEF Self, Plain
  <2> QED BY <2>1
<1>2. Holds(EscapedSelf)
  <2> SUFFICES ASSUME NEW t \in Token PROVE EscapedSelf[t] \in Seq(Plain)
    BY DEF Holds
  <2>1. t \in Plain
    BY DEF Plain
  <2>2. <<t>> \in Seq(Plain)
    BY <2>1
  <2>3. EscapedSelf[t] = Escaped(<<t>>)
    BY DEF EscapedSelf
  <2> QED BY <2>2, <2>3, EscapedIs
<1>3. Forms(ValueOf)
  BY UriAssumption DEF Forms
<1>4. Forms(EscapedValues)
  <2> SUFFICES ASSUME NEW u \in KeyURI PROVE EscapedValues[u] \in Seq(Token)
    BY DEF Forms
  <2>1. EscapedValues[u] = Escaped(ValueOf[u])
    BY DEF EscapedValues
  <2>2. Backslash \in Token
    BY MaskingAssumption DEF Token
  <2>3. ValueOf[u] \in Seq(Token)
    BY UriAssumption
  <2> QED BY <2>1, <2>2, <2>3, EscapedIn
<1> QED BY <1>1, <1>2, <1>3, <1>4

\* What is sent, in these terms.
LEMMA SentIs ==
    ASSUME field \in Seq(Token)
    PROVE  /\ Sent = OnePass(EchoOf(ValueOf), Self)
           /\ Sent \in Seq(Plain)
<1> DEFINE N == Len(field)
           P == SentPieces(field)
           Q == PassPieces(field, EchoOf(ValueOf), Self)
<1>1. N \in Nat /\ N \in 0..N
  OBVIOUS
<1>2. P = [k \in 1..N |-> P[k]] /\ Q = [k \in 1..N |-> Q[k]]
  BY DEF SentPieces, PassPieces
<1>3. Sent = Cat(N, P)
  BY BytesReplaced DEF Sent
<1>4. OnePass(EchoOf(ValueOf), Self) = Cat(N, Q)
  BY DEF OnePass
<1>5. Q \in Pieces(N, Plain)
  BY KeepHolds, EchoPuts, FieldPieces
<1>6. ASSUME NEW k \in 1..N PROVE P[k] = Q[k]
  <2>1. CASE \E m \in Matches(field) : m.start <= k /\ k <= m.end
    <3>1. PICK m \in Matches(field) : m.start <= k /\ k <= m.end
      BY <2>1
    <3>2. P[k] = IF k = m.end THEN Resolve(m) ELSE <<>>
      BY <3>1, SentPieceAt
    <3>3. Q[k] = IF k = m.end THEN EchoOf(ValueOf)[m] ELSE <<>>
      BY <3>1, PieceAt
    <3>4. EchoOf(ValueOf)[m] = Resolve(m)
      BY FoundEnds, ResolvedAs
    <3> QED BY <3>2, <3>3, <3>4
  <2>2. CASE ~\E m \in Matches(field) : m.start <= k /\ k <= m.end
    <3>1. \A m \in Matches(field) : m.start \in 1..Len(field) /\ m.end \in m.start..Len(field)
      BY MatchesPlaced DEF Placed
    <3>2. \A m \in Matches(field) : k < m.start \/ m.end < k
      BY <2>2, <3>1
    <3>3. P[k] = <<field[k]>>
      BY <3>2, SentPieceAt
    <3>4. Q[k] = Self[field[k]] /\ field[k] \in Token
      BY <3>2, PieceAt
    <3> QED BY <3>3, <3>4 DEF Self
  <2> QED BY <2>1, <2>2
<1> HIDE DEF P, Q, N
<1>7. P = Q
  BY <1>2, <1>6
<1>8. Cat(N, Q) \in Seq(Plain)
  BY <1>1, <1>5, CatNext
<1> QED BY <1>3, <1>4, <1>7, <1>8

\* And as a JSON string has it.
LEMMA EscapedSentIs ==
    ASSUME field \in Seq(Token)
    PROVE  Escaped(Sent) = OnePass(EchoOf(EscapedValues), EscapedSelf)
<1> DEFINE N == Len(field)
           P == PassPieces(field, EchoOf(ValueOf), Self)
           Q == PassPieces(field, EchoOf(EscapedValues), EscapedSelf)
<1>1. N \in Nat
  OBVIOUS
<1>2. P \in Pieces(N, Plain) /\ Q \in Pieces(N, Plain)
  BY KeepHolds, EchoPuts, FieldPieces
<1>3. Sent = Cat(N, P) /\ OnePass(EchoOf(EscapedValues), EscapedSelf) = Cat(N, Q)
  BY SentIs DEF OnePass
<1>4. Escaped(<<>>) = <<>>
  <2>1. <<>> \in Seq(Plain) /\ \A n \in 1..Len(<<>>) : <<>>[n] \notin NeedsEscape
    OBVIOUS
  <2> QED BY <2>1, EscapedKept
<1>5. ASSUME NEW m \in Found
      PROVE  EchoOf(EscapedValues)[m] = Escaped(EchoOf(ValueOf)[m])
  <2>1. CASE m.call
    <3>1. EchoOf(EscapedValues)[m] = Resolve(m) /\ EchoOf(ValueOf)[m] = Resolve(m)
      BY <2>1 DEF EchoOf
    <3> DEFINE r == Resolve(m)
    <3>2. r \in Seq(Coded) /\ r \in Seq(Plain)
      BY <2>1, TemplateIs, ResolvedAs
    <3> HIDE DEF r
    <3>3. Coded \cap NeedsEscape = {}
      BY UriAssumption, MaskingAssumption DEF Coded
    <3>4. \A n \in 1..Len(r) : r[n] \notin NeedsEscape
      BY <3>2, <3>3
    <3>5. Escaped(r) = r
      BY <3>2, <3>4, EscapedKept
    <3> QED BY <3>1, <3>5 DEF r
  <2>2. CASE ~m.call
    <3>1. Uri(m) \in KeyURI
      BY <2>2, UriOfMatch
    <3> QED BY <2>2, <3>1 DEF EchoOf, EscapedValues
  <2> QED BY <2>1, <2>2
<1>6. ASSUME NEW k \in 1..N PROVE Q[k] = Escaped(P[k])
  <2>1. CASE \E m \in Matches(field) : m.start <= k /\ k <= m.end
    <3>1. PICK m \in Matches(field) : m.start <= k /\ k <= m.end
      BY <2>1
    <3>2. P[k] = IF k = m.end THEN EchoOf(ValueOf)[m] ELSE <<>>
      BY <3>1, PieceAt
    <3>3. Q[k] = IF k = m.end THEN EchoOf(EscapedValues)[m] ELSE <<>>
      BY <3>1, PieceAt
    <3>4. EchoOf(EscapedValues)[m] = Escaped(EchoOf(ValueOf)[m])
      BY <1>5, FoundEnds
    <3> HIDE DEF P, Q
    <3> QED BY <1>4, <3>2, <3>3, <3>4
  <2>2. CASE ~\E m \in Matches(field) : m.start <= k /\ k <= m.end
    <3>1. \A m \in Matches(field) : m.start \in 1..Len(field) /\ m.end \in m.start..Len(field)
      BY MatchesPlaced DEF Placed
    <3>2. \A m \in Matches(field) : k < m.start \/ m.end < k
      BY <2>2, <3>1
    <3>3. P[k] = Self[field[k]] /\ Q[k] = EscapedSelf[field[k]] /\ field[k] \in Token
      BY <3>2, PieceAt
    <3> HIDE DEF P, Q
    <3> QED BY <3>3 DEF Self, EscapedSelf
  <2> QED BY <2>1, <2>2
<1> HIDE DEF P, Q, N
<1>7. Escaped(Cat(N, P)) = Cat(N, Q)
  BY <1>1, <1>2, <1>6, EscapedCat
<1> QED BY <1>3, <1>7

\* One round turns a legible echo into the field, in any order.
LEMMA RoundBack ==
    ASSUME field \in Seq(Token), NEW form, Forms(form), OfValues(form),
           NEW keep, Holds(keep), Legible(form, keep),
           NEW o \in SetToSeqs(Outputs(field)), NEW c \in MaskOrders
    PROVE  MaskCredentials(MaskOutputs(OnePass(EchoOf(form), keep), o), c)
              = OnePass(PutBack, keep)
<1>1. /\ NoUriInside /\ ValuesLegible(form, keep)
      /\ \A p \in Outputs(field) :
            StandsOnlyIn(p[1], PassPieces(field, EchoOf(form), keep), CallsOf(p[1]))
  BY DEF Legible, NoUriInside, ValuesLegible
<1>2. MaskOutputs(OnePass(EchoOf(form), keep), o) = OnePass(Shown(form), keep)
  BY <1>1, OutputsBack
<1>3. MaskCredentials(OnePass(Shown(form), keep), c) = OnePass(PutBack, keep)
  BY <1>1, CredentialsBack
<1> QED BY <1>2, <1>3
-----------------------------------------------------------------------------
(* The orders *)

\* A finite set can be gone through.
LEMMA SomeOrder ==
    ASSUME NEW S, IsFiniteSet(S)
    PROVE  SetToSeqs(S) # {}
<1>1. PICK n \in Nat : ExistsBijection(1..n, S)
  BY FS_NatBijection
<1>2. Cardinality(S) = n
  BY <1>1, FS_CountingElements
<1>3. PICK f : f \in Bijection(1..n, S)
  BY <1>1 DEF ExistsBijection
<1>4. f \in [1..n -> S] /\ \A i, j \in 1..n : i # j => f[i] # f[j]
  BY <1>3 DEF Bijection, Injection, IsInjective
<1>5. f \in SetToSeqs(S)
  BY <1>2, <1>4 DEF SetToSeqs
<1> QED BY <1>5

\* f goes through S, n uris, with the longer values first.
LongestFirst(f, n, S) ==
    /\ f \in [1..n -> S] /\ \A i, j \in 1..n : i # j => f[i] # f[j]
    /\ \A i, j \in 1..n : i < j => Len(ValueOf[f[i]]) >= Len(ValueOf[f[j]])

\* The keys can be sorted.
LEMMA SomeMaskOrder == MaskOrders # {}
<1> DEFINE len(u) == Len(ValueOf[u])
           Is(n) == \A S \in SUBSET KeyURI : IsFiniteSet(S) /\ Cardinality(S) = n
                       => \E f : LongestFirst(f, n, S)
           N == Cardinality(KeyURI)
           T == {n \in 0..N : Is(n)}
<1>1. N \in Nat /\ IsFiniteSet(KeyURI)
  BY UriAssumption, FS_CardinalityType
<1>2. \A u \in KeyURI : len(u) \in Nat
  BY UriAssumption
<1>3. Is(0)
  <2> SUFFICES ASSUME NEW S \in SUBSET KeyURI, IsFiniteSet(S), Cardinality(S) = 0
               PROVE  \E f : LongestFirst(f, 0, S)
    OBVIOUS
  <2>1. [i \in 1..0 |-> i] \in [1..0 -> S]
    OBVIOUS
  <2>2. LongestFirst([i \in 1..0 |-> i], 0, S)
    BY <2>1 DEF LongestFirst
  <2> QED BY <2>2
<1> HIDE DEF len, N
<1>4. ASSUME NEW n \in Nat, Is(n) PROVE Is(n + 1)
  <2> SUFFICES ASSUME NEW S \in SUBSET KeyURI, IsFiniteSet(S), Cardinality(S) = n + 1
               PROVE  \E f : LongestFirst(f, n + 1, S)
    OBVIOUS
  <2> DEFINE W == {len(u) : u \in S}
  <2>1. S # {}
    <3>1. Cardinality({}) = 0
      BY FS_EmptySet
    <3> QED BY <3>1
  <2>2. W \in SUBSET Nat /\ W # {}
    BY <1>2, <2>1
  <2>3. PICK l \in W : \A k \in W : l <= k
    <3> HIDE DEF W
    <3> QED BY <2>2, LeastElement
  <2>4. PICK x \in S : l = len(x)
    OBVIOUS
  <2>5. \A u \in S : len(u) >= len(x)
    <3> SUFFICES ASSUME NEW u \in S PROVE len(u) >= len(x)
      OBVIOUS
    <3>1. len(u) \in W /\ len(u) \in Nat /\ len(x) \in Nat
      BY <1>2
    <3> QED BY <2>3, <2>4, <3>1
  <2> DEFINE R == S \ {x}
  <2>6. R \in SUBSET KeyURI /\ IsFiniteSet(R) /\ Cardinality(R) = n
    <3>1. IsFiniteSet(R) /\ Cardinality(R) = Cardinality(S) - 1
      BY FS_RemoveElement
    <3> QED BY <3>1
  <2>7. PICK g : LongestFirst(g, n, R)
    <3> HIDE DEF R
    <3> QED BY <1>4, <2>6
  <2> DEFINE f == [i \in 1..(n + 1) |-> IF i = n + 1 THEN x ELSE g[i]]
  <2>8. /\ \A i \in 1..n : f[i] = g[i] /\ g[i] \in S /\ g[i] # x
        /\ f[n + 1] = x /\ \A i \in 1..(n + 1) : i = n + 1 \/ i \in 1..n
    BY <2>7 DEF LongestFirst
  <2>9. f \in [1..(n + 1) -> S]
    BY <2>8
  <2> HIDE DEF f, R
  <2>10. \A i, j \in 1..(n + 1) : i # j => f[i] # f[j]
    <3>1. \A i, j \in 1..n : i # j => g[i] # g[j]
      BY <2>7 DEF LongestFirst
    <3> QED BY <2>8, <3>1
  <2>11. ASSUME NEW i \in 1..(n + 1), NEW j \in 1..(n + 1), i < j
         PROVE  Len(ValueOf[f[i]]) >= Len(ValueOf[f[j]])
    <3>1. i \in 1..n
      BY <2>11
    <3>2. CASE j = n + 1
      <4>1. f[j] = x /\ f[i] \in S
        BY <2>8, <3>1, <3>2
      <4>2. len(f[i]) >= len(f[j])
        BY <2>5, <4>1
      <4> QED BY <4>2 DEF len
    <3>3. CASE j \in 1..n
      <4>1. f[i] = g[i] /\ f[j] = g[j]
        BY <2>8, <3>1, <3>3
      <4>2. Len(ValueOf[g[i]]) >= Len(ValueOf[g[j]])
        BY <2>7, <2>11, <3>1, <3>3 DEF LongestFirst
      <4> QED BY <4>1, <4>2
    <3> QED BY <2>8, <3>2, <3>3
  <2>12. LongestFirst(f, n + 1, S)
    BY <2>9, <2>10, <2>11 DEF LongestFirst
  <2> QED BY <2>12
<1>5. Is(N)
  <2> HIDE DEF Is
  <2>1. 0 \in T
    BY <1>1, <1>3
  <2>2. ASSUME NEW n \in T, 0 <= n, n < N PROVE n + 1 \in T
    <3>1. n \in Nat /\ Is(n) /\ n + 1 \in 0..N
      BY <1>1, <2>2
    <3> QED BY <1>4, <3>1
  <2>3. N \in T
    <3>1. N \in 0..N /\ 0 \in Nat
      BY <1>1
    <3> HIDE DEF T
    <3> QED BY <1>1, <2>1, <2>2, <3>1, Climb
  <2> QED BY <2>3
<1>6. PICK f : LongestFirst(f, N, KeyURI)
  BY <1>1, <1>5 DEF N
<1>7. f \in SetToSeqs(KeyURI)
  BY <1>6 DEF SetToSeqs, LongestFirst, N
<1>8. DOMAIN f = 1..N
  BY <1>6 DEF LongestFirst
<1>9. f \in MaskOrders
  <2>1. \A m, n \in DOMAIN f : m < n => Len(ValueOf[f[m]]) >= Len(ValueOf[f[n]])
    BY <1>6, <1>8 DEF LongestFirst
  <2> QED BY <1>7, <2>1 DEF MaskOrders
<1> QED BY <1>9
-----------------------------------------------------------------------------
(* What comes back *)

\* The field with each match put back is a text again.
LEMMA BackIsPlain ==
    ASSUME field \in Seq(Token), NEW keep, Holds(keep)
    PROVE  OnePass(PutBack, keep) \in Seq(Plain)
<1>1. PassPieces(field, PutBack, keep) \in Pieces(Len(field), Plain)
  BY KeepHolds, EchoPuts, FieldPieces
<1>2. Len(field) \in Nat /\ Len(field) \in 0..Len(field)
  OBVIOUS
<1> QED BY <1>1, <1>2, CatNext DEF OnePass

\* A legible echo comes back as the field, whatever the orders of the maps.
LEMMA MaskedBack ==
    ASSUME field \in Seq(Token), NEW form, Forms(form), OfValues(form),
           NEW keep, Holds(keep), Legible(form, keep)
    PROVE  Maskings(OnePass(EchoOf(form), keep), Outputs(field)) = {OnePass(PutBack, keep)}
<1> DEFINE s == OnePass(EchoOf(form), keep)
           w == OnePass(PutBack, keep)
           O == Outputs(field)
<1>1. ASSUME NEW o \in SetToSeqs(O), NEW c \in MaskOrders
      PROVE  MaskCredentials(MaskOutputs(s, o), c) = w
  BY RoundBack
<1>2. Decoded(w) = w
  <2>1. w \in Seq(Plain)
    BY BackIsPlain
  <2> HIDE DEF w
  <2> QED BY <2>1, DecodedIs
<1>3. SetToSeqs(O) # {} /\ MaskOrders # {}
  BY OutputsAre, SomeOrder, SomeMaskOrder
<1> HIDE DEF s, w, O
<1>4. ASSUME NEW o \in SetToSeqs(O), NEW c \in MaskOrders PROVE MaskPercent(w, o, c) = w
  BY <1>2 DEF MaskPercent
<1>5. Maskings(s, O) = {w}
  BY <1>1, <1>3, <1>4 DEF Maskings
<1> QED BY <1>5 DEF s, w, O

\* What stands nowhere is not replaced.
LEMMA NotThere ==
    ASSUME NEW X, NEW s \in Seq(X), NEW old \in Seq(X), old # <<>>, NEW new \in Seq(X),
           ~Occurs(old, s)
    PROVE  ReplaceEach(s, old, new) = s
<1> DEFINE N == Len(s)
           F == [k \in 1..N |-> <<s[k]>>]
<1>1. N \in Nat /\ 0 \in 0..N /\ N \in 0..N /\ DOMAIN s = 1..N
  OBVIOUS
<1>2. F \in Pieces(N, X)
  <2>1. \A k \in 1..N : <<s[k]>> \in Seq(X)
    OBVIOUS
  <2> QED BY <2>1 DEF Pieces
<1>3. \A k \in (0 + 1)..N : F[k] = <<s[k]>>
  OBVIOUS
<1>4. Swapped(F, N, {}, new) = F
  <2>1. F = [k \in 1..N |-> F[k]]
    OBVIOUS
  <2> HIDE DEF F, N
  <2>2. Swapped(F, N, {}, new) = [k \in 1..N |-> F[k]]
    BY DEF Swapped
  <2> QED BY <2>1, <2>2
<1> HIDE DEF F
<1>5. Cat(N, F) = s
  <2>1. Cat(N, F) = Cat(0, F) \o SubSeq(s, 0 + 1, N)
    BY <1>1, <1>2, <1>3, Kept
  <2>2. Cat(0, F) = <<>>
    BY <1>1, <1>2, CatNext
  <2>3. SubSeq(s, 1, Len(s)) = s
    BY SubSeqFull
  <2>4. <<>> \o s = s
    BY ConcatEmptySeq
  <2>5. 0 + 1 = 1
    OBVIOUS
  <2> QED BY <2>1, <2>2, <2>3, <2>4, <2>5, Zenon
<1>6. \A n \in 1..N : n \notin {} => StartsNot(old, n, F, N)
  <2>1. \A p \in 1..Upto(N, F) : ~StandsAt(Cat(N, F), p, old)
    <3>1. \A p \in 1..N : ~StandsAt(s, p, old)
      BY <1>1 DEF Occurs
    <3> QED BY <1>5, <3>1 DEF Upto
  <2> QED BY <2>1 DEF StartsNot
<1> HIDE DEF N
<1>7. ReplaceEach(Cat(N, F), old, new) = Cat(N, Swapped(F, N, {}, new))
  <2>1. \A n \in {} : n \in 1..N => F[n] = old
    OBVIOUS
  <2> QED BY <1>1, <1>2, <1>6, <2>1, PiecesReplaced
<1> QED BY <1>4, <1>5, <1>7

\* Tokens in percent-encoding
PercentCoded == {<<"percent", t>> : t \in Plain}

\* No text stands in a text that is percent-encoded.
LEMMA NotInPercent ==
    ASSUME NEW s \in Seq(PercentCoded), NEW w \in Seq(Plain), w # <<>>
    PROVE  ~Occurs(w, s)
<1>1. PercentCoded \cap Plain = {}
  <2> SUFFICES ASSUME NEW t \in Plain, <<"percent", t>> \in Plain PROVE FALSE
    BY DEF PercentCoded
  <2>1. <<"percent", t>> \notin Token
    BY MaskingAssumption
  <2>2. PICK x \in Token : <<"percent", t>> = Code(x)
    BY <2>1 DEF Plain
  <2>3. "percent" = "base64"
    BY <2>2 DEF Code
  <2> QED BY <2>3
<1>2. SUFFICES ASSUME NEW k \in 1..Len(s), StandsAt(s, k, w) PROVE FALSE
  BY DEF Occurs
<1>3. 1 \in DOMAIN w /\ w[1] \in Plain
  OBVIOUS
<1>4. s[k + 1 - 1] = w[1]
  BY <1>2, <1>3 DEF StandsAt
<1>5. s[k] \in PercentCoded /\ k + 1 - 1 = k
  OBVIOUS
<1> QED BY <1>1, <1>3, <1>4, <1>5

\* So a round changes nothing in it.
LEMMA RoundLeaves ==
    ASSUME field \in Seq(Token), NEW s \in Seq(PercentCoded),
           NEW o \in SetToSeqs(Outputs(field)), NEW c \in MaskOrders
    PROVE  MaskCredentials(MaskOutputs(s, o), c) = s
<1>1. PercentCoded \subseteq Wire /\ Plain \subseteq Wire /\ Token \subseteq Wire
      /\ Coded \subseteq Plain /\ Token \subseteq Plain
  BY DEF PercentCoded, Wire, Plain, Coded
<1>2. s \in Seq(Wire)
  BY <1>1
<1>3. ASSUME NEW w \in Seq(Plain), w # <<>>, NEW new \in Seq(Plain)
      PROVE  ReplaceEach(s, w, new) = s
  <2>1. ~Occurs(w, s)
    BY <1>3, NotInPercent
  <2>2. w \in Seq(Wire) /\ new \in Seq(Wire)
    BY <1>1
  <2> QED BY <1>2, <1>3, <2>1, <2>2, NotThere
<1>4. MaskOutputs(s, o) = s
  <2>1. o \in Seq(Outputs(field))
    BY OutputsAre, OrderIsOnto
  <2>2. PICK f : MaskOutputs(s, o) = f[Len(o)] /\ OutputTurns(Wire, s, o, f)
    BY <1>1, <1>2, OutputsTurn
  <2>3. ASSUME NEW n \in 1..Len(o) PROVE ReplaceEach(s, o[n][1], o[n][2]) = s
    <3> DEFINE p == o[n]
    <3>1. p \in Outputs(field)
      BY <2>1
    <3> HIDE DEF p
    <3>2. p[1] \in Seq(Coded) /\ p[1] # <<>> /\ p[2] \in Seq(Token)
      BY <3>1, OutputsAre
    <3>3. p[1] \in Seq(Plain) /\ p[2] \in Seq(Plain)
      BY <1>1, <3>2
    <3>4. ReplaceEach(s, p[1], p[2]) = s
      BY <1>3, <3>2, <3>3
    <3> QED BY <3>4 DEF p
  <2>4. f[0] \in {s} /\ \A n \in 1..Len(o) : f[n - 1] \in {s} => f[n] \in {s}
    BY <2>2, <2>3 DEF OutputTurns
  <2>5. Len(o) \in Nat /\ Len(o) \in 0..Len(o)
    BY <2>1
  <2>6. \A n \in 0..Len(o) : f[n] \in {s}
    <3> DEFINE S == {s}
               L == Len(o)
    <3>1. L \in Nat /\ f[0] \in S /\ \A n \in 1..L : f[n - 1] \in S => f[n] \in S
      BY <2>4, <2>5
    <3> HIDE DEF S, L
    <3>2. \A n \in 0..L : f[n] \in S
      BY <3>1, StaysIn
    <3> QED BY <3>2 DEF S, L
  <2> QED BY <2>2, <2>5, <2>6
<1>5. MaskCredentials(s, c) = s
  <2>1. ASSUME NEW u \in KeyURI PROVE MaskOne(s, u) = s
    <3>1. ValueOf[u] \in Seq(Token) /\ ValueOf[u] # <<>> /\ Backslash \in Token /\ u \in Token
      BY UriAssumption, MaskingAssumption DEF Token
    <3>2. Escaped(ValueOf[u]) \in Seq(Token) /\ Escaped(ValueOf[u]) # <<>>
      BY <3>1, EscapedIn
    <3>3. <<u>> \in Seq(Plain) /\ ValueOf[u] \in Seq(Plain)
          /\ Escaped(ValueOf[u]) \in Seq(Plain)
      BY <1>1, <3>1, <3>2
    <3>4. ReplaceEach(s, ValueOf[u], <<u>>) = s
      BY <1>3, <3>1, <3>3
    <3>5. ReplaceEach(s, Escaped(ValueOf[u]), <<u>>) = s
      BY <1>3, <3>2, <3>3
    <3> QED BY <3>4, <3>5 DEF MaskOne
  <2>2. PICK f : MaskCredentials(s, c) = f[Len(c)] /\ CredentialTurns(Wire, s, c, f)
    BY <1>1, <1>2, CredentialsTurn
  <2>3. f[0] \in {s} /\ \A n \in 1..Len(c) : f[n - 1] \in {s} => f[n] \in {s}
    BY <2>1, <2>2 DEF CredentialTurns
  <2>4. Len(c) \in Nat /\ Len(c) \in 0..Len(c)
    BY <2>2 DEF CredentialTurns
  <2>5. \A n \in 0..Len(c) : f[n] \in {s}
    <3> DEFINE S == {s}
               L == Len(c)
    <3>1. L \in Nat /\ f[0] \in S /\ \A n \in 1..L : f[n - 1] \in S => f[n] \in S
      BY <2>3, <2>4
    <3> HIDE DEF S, L
    <3>2. \A n \in 0..L : f[n] \in S
      BY <3>1, StaysIn
    <3> QED BY <3>2 DEF S, L
  <2> QED BY <2>2, <2>4, <2>5
<1> QED BY <1>4, <1>5
\* What is put down for a match begins somewhere in the text.
LEMMA PassHas ==
    ASSUME field \in Seq(Token), NEW m \in Found, NEW put, NEW keep, Puts(put), Holds(keep),
           put[m] # <<>>
    PROVE  \E k \in 1..Len(OnePass(put, keep)) : OnePass(put, keep)[k] = put[m][1]
<1> DEFINE N == Len(field)
           F == PassPieces(field, put, keep)
           n == m.end
<1>1. N \in Nat /\ F \in Pieces(N, Plain)
  BY FieldPieces
<1>2. n \in 1..N /\ F[n] = put[m]
  BY PieceAtEnd
<1>3. OnePass(put, keep) = Cat(N, F)
  BY DEF OnePass
<1>4. put[m] \in Seq(Plain)
  BY DEF Puts
<1> HIDE DEF N, F, n
<1>5. 1 \in 1..Len(F[n])
  BY <1>2, <1>4
<1>6. Upto(n - 1, F) + 1 \in 1..Upto(N, F) /\ Cat(N, F)[Upto(n - 1, F) + 1] = F[n][1]
  BY <1>1, <1>2, <1>5, PieceInText
<1> QED BY <1>2, <1>3, <1>6 DEF Upto

\* What is sent is not what comes back, if there is a match: base64 is in the one and
\* not in the other, or a uri in the other and not in the one.
LEMMA SentIsNotBack ==
    ASSUME field \in Seq(Token), NoUriInside, Found # {}
    PROVE  Sent # OnePass(PutBack, Self) /\ Sent # <<>>
<1>1. PICK m \in Found : TRUE
  OBVIOUS
<1>2. Sent = OnePass(EchoOf(ValueOf), Self) /\ Sent \in Seq(Plain)
  BY SentIs
<1>3. Puts(EchoOf(ValueOf)) /\ Puts(PutBack) /\ Holds(Self)
  BY KeepHolds, EchoPuts
<1>4. EchoOf(ValueOf)[m] = Resolve(m)
  BY ResolvedAs
<1>5. Resolve(m) # <<>>
  <2>1. CASE m.call
    BY <2>1, TemplateIs
  <2>2. CASE ~m.call
    BY <2>2, UriOfMatch, UriAssumption
  <2> QED BY <2>1, <2>2
<1>6. PICK k \in 1..Len(Sent) : Sent[k] = Resolve(m)[1]
  BY <1>2, <1>3, <1>4, <1>5, PassHas
<1>7. Sent # <<>>
  BY <1>6
<1>8. Len(field) \in Nat /\ Len(field) \in 0..Len(field)
  OBVIOUS
<1>9. CASE m.call
  <2>1. Resolve(m) \in Seq(Coded) /\ Resolve(m) # <<>>
    BY <1>9, TemplateIs
  <2>2. Sent[k] \in Coded
    BY <1>6, <2>1
  <2>3. OnePass(PutBack, Self) \in Seq(Token)
    <3>1. ASSUME NEW l \in Matches(field) PROVE PutBack[l] \in Seq(Token)
      <4>1. l \in Found
        BY FoundEnds
      <4>2. CASE l.call
        BY <4>1, <4>2, TemplateIs DEF PutBack
      <4>3. CASE ~l.call
        <5>1. Uri(l) \in Token
          BY <4>1, <4>3, UriOfMatch DEF Token
        <5>2. PutBack[l] = <<Uri(l)>>
          BY <4>1, <4>3 DEF PutBack
        <5> QED BY <5>1, <5>2
      <4> QED BY <4>2, <4>3
    <3>2. ASSUME NEW t \in Token PROVE Self[t] \in Seq(Token)
      <4>1. Self[t] = <<t>>
        BY DEF Self
      <4> QED BY <4>1
    <3>3. PassPieces(field, PutBack, Self) \in Pieces(Len(field), Token)
      BY <3>1, <3>2, PiecesIn
    <3> QED BY <1>8, <3>3, CatNext DEF OnePass
  <2> DEFINE w == OnePass(PutBack, Self)
  <2> SUFFICES ASSUME Sent = w PROVE FALSE
    BY <1>7
  <2> HIDE DEF w
  <2>4. Sent[k] \in Token
    BY <1>6, <2>3 DEF w
  <2> QED BY <2>2, <2>4, UriAssumption DEF Coded
<1>10. CASE ~m.call
  <2> DEFINE X == Plain \ KeyURI
  <2>1. PutBack[m] = <<Uri(m)>> /\ Uri(m) \in KeyURI
    BY <1>10, UriOfMatch DEF PutBack
  <2>2. PutBack[m] # <<>> /\ PutBack[m][1] = Uri(m)
    BY <2>1
  <2>3. PICK l \in 1..Len(OnePass(PutBack, Self)) : OnePass(PutBack, Self)[l] = Uri(m)
    BY <1>3, <2>2, PassHas
  <2>4. Coded \subseteq X /\ Free \subseteq X
    BY UriAssumption DEF Coded, Free, Plain, Token
  <2>5. ASSUME NEW h \in Matches(field) PROVE EchoOf(ValueOf)[h] \in Seq(X)
    <3>1. h \in Found
      BY FoundEnds
    <3>2. CASE h.call
      <4>1. EchoOf(ValueOf)[h] \in Seq(Coded)
        BY <3>1, <3>2, TemplateIs DEF EchoOf
      <4> QED BY <2>4, <4>1
    <3>3. CASE ~h.call
      <4>1. EchoOf(ValueOf)[h] = ValueOf[Uri(h)] /\ Uri(h) \in KeyURI
        BY <3>1, <3>3, UriOfMatch DEF EchoOf
      <4>2. ValueOf[Uri(h)] \in Seq(Free)
        BY <4>1, ValuesFree
      <4> QED BY <2>4, <4>1, <4>2
    <3> QED BY <3>2, <3>3
  <2>6. ASSUME NEW t \in Token, t \notin KeyURI PROVE Self[t] \in Seq(X)
    <3>1. Self[t] = <<t>> /\ t \in X
      BY <2>6 DEF Self, Plain
    <3> QED BY <3>1
  <2> HIDE DEF X
  <2>7. PassPieces(field, EchoOf(ValueOf), Self) \in Pieces(Len(field), X)
    BY <2>5, <2>6, PiecesIn
  <2>8. OnePass(EchoOf(ValueOf), Self) \in Seq(X)
    BY <1>8, <2>7, CatNext DEF OnePass
  <2> DEFINE w == OnePass(PutBack, Self)
  <2> SUFFICES ASSUME Sent = w PROVE FALSE
    BY <1>7
  <2>9. l \in 1..Len(Sent) /\ Sent[l] = Uri(m)
    BY <2>3
  <2>10. Sent \in Seq(X)
    BY <1>2, <2>8
  <2>11. Uri(m) \in X
    BY <2>9, <2>10
  <2> QED BY <2>1, <2>11 DEF X
<1> QED BY <1>7, <1>9, <1>10

\* A legible echo in percent-encoding comes back, if there is anything to mask in it.
LEMMA PercentBack ==
    ASSUME field \in Seq(Token), Found # {}, Legible(ValueOf, Self)
    PROVE  Maskings(Percent(Sent), Outputs(field)) = {OnePass(PutBack, Self)}
<1> DEFINE t == Sent
           s == Percent(t)
           w == OnePass(PutBack, Self)
           O == Outputs(field)
<1>1. NoUriInside /\ OfValues(ValueOf)
  BY DEF Legible, NoUriInside, OfValues
<1>2. t = OnePass(EchoOf(ValueOf), Self) /\ t \in Seq(Plain) /\ t # w /\ t # <<>>
  BY <1>1, SentIs, SentIsNotBack
<1>3. ASSUME NEW o \in SetToSeqs(O), NEW c \in MaskOrders
      PROVE  MaskCredentials(MaskOutputs(t, o), c) = w
  BY <1>1, <1>2, KeepHolds, RoundBack
<1>4. SetToSeqs(O) # {} /\ MaskOrders # {}
  BY OutputsAre, SomeOrder, SomeMaskOrder
<1> HIDE DEF t, w
<1>5. s \in Seq(PercentCoded) /\ Len(s) = Len(t) /\ \A k \in 1..Len(t) : s[k] = <<"percent", t[k]>>
  <2>1. s = [k \in 1..Len(t) |-> <<"percent", t[k]>>]
    BY <1>2 DEF Percent
  <2>2. \A k \in 1..Len(t) : <<"percent", t[k]>> \in PercentCoded
    BY <1>2 DEF PercentCoded
  <2>3. Len(t) \in Nat
    BY <1>2
  <2> HIDE DEF s
  <2> QED BY <2>1, <2>2, <2>3
<1>6. \A x \in PercentCoded : x \notin Plain
  <2> SUFFICES ASSUME NEW x \in PercentCoded, x \in Plain PROVE FALSE
    OBVIOUS
  <2>1. <<x>> \in Seq(PercentCoded) /\ <<x>> \in Seq(Plain) /\ <<x>> # <<>>
    OBVIOUS
  <2>2. ~Occurs(<<x>>, <<x>>)
    BY <2>1, NotInPercent
  <2>3. StandsAt(<<x>>, 1, <<x>>)
    BY DEF StandsAt
  <2> QED BY <2>2, <2>3 DEF Occurs
<1>7. Decoded(s) = t
  <2>1. Decoded(s) = [k \in 1..Len(t) |-> IF s[k] \in Plain THEN s[k] ELSE s[k][2]]
    <3>1. DOMAIN s = 1..Len(t)
      BY <1>5
    <3> HIDE DEF s
    <3> QED BY <3>1 DEF Decoded
  <2>2. ASSUME NEW k \in 1..Len(t) PROVE (IF s[k] \in Plain THEN s[k] ELSE s[k][2]) = t[k]
    <3>1. s[k] = <<"percent", t[k]>> /\ s[k] \in PercentCoded
      BY <1>5
    <3> HIDE DEF s
    <3>2. s[k] \notin Plain
      BY <1>6, <3>1
    <3> QED BY <3>1, <3>2
  <2>3. t = [k \in 1..Len(t) |-> t[k]]
    BY <1>2
  <2> HIDE DEF s
  <2> QED BY <2>1, <2>2, <2>3
<1>8. s # t
  <2>1. 1 \in 1..Len(t) /\ t[1] \in Plain
    BY <1>2
  <2>2. s[1] \in PercentCoded
    BY <1>5, <2>1
  <2> HIDE DEF s
  <2> QED BY <1>6, <2>1, <2>2
<1> HIDE DEF s
<1>9. ASSUME NEW o \in SetToSeqs(O), NEW c \in MaskOrders
      PROVE  MaskCredentials(MaskOutputs(s, o), c) = s /\ MaskPercent(s, o, c) = w
  <2>1. MaskCredentials(MaskOutputs(s, o), c) = s
    BY <1>5, RoundLeaves
  <2>2. MaskPercent(s, o, c) = w
    BY <1>2, <1>3, <1>7, <1>8 DEF MaskPercent
  <2> QED BY <2>1, <2>2
<1> HIDE DEF O
<1>10. Maskings(s, O) = {w}
  BY <1>4, <1>9 DEF Maskings
<1> QED BY <1>10 DEF s, t, w, O
-----------------------------------------------------------------------------
(* The theorems *)

\* A response in which the field is echoed as it was sent gives the field back, with
\* every value as its uri and every transform as it was written, if it is legible.
THEOREM EchoBack == EchoSpec => []EchoComesBack
<1>1. EchoTypeOK => EchoComesBack
  <2> SUFFICES ASSUME EchoTypeOK, Legible(ValueOf, Self)
               PROVE  Maskings(Sent, Outputs(field)) = {OnePass(PutBack, Self)}
    BY DEF EchoComesBack, ComesBack
  <2>1. field \in Seq(Token)
    BY DEF EchoTypeOK
  <2>2. Sent = OnePass(EchoOf(ValueOf), Self)
    BY <2>1, SentIs
  <2>3. OfValues(ValueOf)
    BY DEF OfValues
  <2> QED BY <2>1, <2>2, <2>3, KeepHolds, MaskedBack
<1> QED BY <1>1, EchoType, PTL

\* So does one in which it is echoed in a JSON string.
THEOREM EchoEscapedBack == EchoSpec => []EscapedComesBack
<1>1. EchoTypeOK => EscapedComesBack
  <2> SUFFICES ASSUME EchoTypeOK, Legible(EscapedValues, EscapedSelf)
               PROVE  Maskings(Escaped(Sent), Outputs(field))
                         = {OnePass(PutBack, EscapedSelf)}
    BY DEF EscapedComesBack, ComesBack
  <2>1. field \in Seq(Token)
    BY DEF EchoTypeOK
  <2>2. Escaped(Sent) = OnePass(EchoOf(EscapedValues), EscapedSelf)
    BY <2>1, EscapedSentIs
  <2>3. OfValues(EscapedValues)
    BY DEF OfValues, EscapedValues
  <2> QED BY <2>1, <2>2, <2>3, KeepHolds, MaskedBack
<1> QED BY <1>1, EchoType, PTL

\* And one in which it is percent-encoded, if the field has a placeholder.
THEOREM EchoPercentBack == EchoSpec => []PercentComesBack
<1>1. EchoTypeOK => PercentComesBack
  <2> SUFFICES ASSUME EchoTypeOK, FindAll(field) # <<>>, Legible(ValueOf, Self)
               PROVE  Maskings(Percent(Sent), Outputs(field)) = {OnePass(PutBack, Self)}
    BY DEF PercentComesBack, ComesBack
  <2>1. field \in Seq(Token)
    BY DEF EchoTypeOK
  <2>2. Found # {}
    <3>1. FindAll(field) \in Seq(Matches(field)) /\ Found = Range(FindAll(field))
      BY <2>1, AllFound DEF Found
    <3> DEFINE ms == FindAll(field)
    <3> HIDE DEF ms
    <3>2. ms \in Seq(Matches(field)) /\ ms # <<>> /\ Found = Range(ms)
      BY <3>1 DEF ms
    <3>3. 1 \in DOMAIN ms
      BY <3>2
    <3> QED BY <3>2, <3>3 DEF Range
  <2> QED BY <2>1, <2>2, PercentBack
<1> QED BY <1>1, EchoType, PTL
-----------------------------------------------------------------------------
(* Which fields are legible: with keys as they usually are, all with one transform. *)

\* Keys that JSON leaves as they are, and each of which starts as no other one goes on.
OwnStart ==
    \A u \in KeyURI :
        /\ \A n \in DOMAIN ValueOf[u] :
              ValueOf[u][n] \notin KeyURI /\ ValueOf[u][n] \notin NeedsEscape
        /\ \A v \in KeyURI : \A n \in DOMAIN ValueOf[v] :
              ValueOf[v][n] = ValueOf[u][1] => v = u

\* The agent has written nothing that a key starts with.
Unwritten == \A u \in KeyURI : \A k \in DOMAIN field : field[k] # ValueOf[u][1]

OneOutput == \A o, p \in Outputs(field) : o = p

\* Where a token of the text is from: a match that lies there, or another token.
FromMatch(p, put, keep) ==
    \E m \in Found : /\ m.end \in 1..Len(field)
                     /\ Lies(p, m.end, PassPieces(field, put, keep))
                     /\ \E i \in 1..Len(put[m]) : OnePass(put, keep)[p] = put[m][i]
FromToken(p, put, keep) ==
    \E k \in 1..Len(field) :
        \E i \in 1..Len(keep[field[k]]) : OnePass(put, keep)[p] = keep[field[k]][i]

\* It is from one of these.
LEMMA PassToken ==
    ASSUME field \in Seq(Token), NEW put, NEW keep, Puts(put), Holds(keep),
           NEW p \in 1..Len(OnePass(put, keep))
    PROVE  FromMatch(p, put, keep) \/ FromToken(p, put, keep)
<1> DEFINE N == Len(field)
           F == PassPieces(field, put, keep)
<1>1. N \in Nat /\ F \in Pieces(N, Plain) /\ OnePass(put, keep) = Cat(N, F)
  BY FieldPieces DEF OnePass
<1> HIDE DEF F
<1>2. p \in 1..Upto(N, F)
  BY <1>1 DEF Upto
<1>3. PICK n \in 1..N : Lies(p, n, F)
  BY <1>1, <1>2, TextInPieces
<1> DEFINE i == p - Upto(n - 1, F)
<1>4. i \in 1..Len(F[n]) /\ Upto(n - 1, F) + i = p
  <2>1. Joins(Plain, n, F)
    BY <1>1, PieceGrows
  <2>2. /\ Upto(n, F) = Upto(n - 1, F) + Len(F[n]) /\ Upto(n - 1, F) \in Nat
        /\ Len(F[n]) \in Nat /\ Upto(n - 1, F) < p /\ p <= Upto(n, F) /\ p \in Nat
    BY <1>3, <2>1 DEF Joins, Lies
  <2> QED BY <2>2
<1> HIDE DEF i
<1>5. Cat(N, F)[p] = F[n][i]
  <2>1. Cat(N, F)[Upto(n - 1, F) + i] = F[n][i]
    BY <1>1, <1>4, PieceInText
  <2> QED BY <1>4, <2>1
<1>6. CASE \E m \in Matches(field) : m.start <= n /\ n <= m.end
  <2>1. PICK m \in Matches(field) : m.start <= n /\ n <= m.end
    BY <1>6
  <2>2. F[n] = IF n = m.end THEN put[m] ELSE <<>>
    BY <2>1, PieceAt DEF F
  <2>3. n = m.end /\ F[n] = put[m]
    BY <1>4, <2>2
  <2>4. m \in Found
    BY <2>1, FoundEnds
  <2>5. FromMatch(p, put, keep)
    BY <1>1, <1>3, <1>4, <1>5, <2>3, <2>4 DEF FromMatch, F
  <2> QED BY <2>5
<1>7. CASE ~\E m \in Matches(field) : m.start <= n /\ n <= m.end
  <2>1. \A m \in Matches(field) : m.start \in 1..Len(field) /\ m.end \in m.start..Len(field)
    BY MatchesPlaced DEF Placed
  <2>2. \A m \in Matches(field) : n < m.start \/ m.end < n
    BY <1>7, <2>1
  <2>3. F[n] = keep[field[n]]
    BY <2>2, PieceAt DEF F
  <2>4. FromToken(p, put, keep)
    BY <1>1, <1>4, <1>5, <2>3 DEF FromToken
  <2> QED BY <2>4
<1> QED BY <1>6, <1>7

\* The template of a transform is as the agent wrote it.
LEMMA TemplateWritten ==
    ASSUME field \in Seq(Token), NEW m \in Found, m.call, NEW i \in 1..Len(Template(m))
    PROVE  \E k \in DOMAIN field : Template(m)[i] = field[k]
<1>1. PICK o \in Outputs(field) : o[2] = Template(m)
  BY TemplateIs
<1> DEFINE ms == FindAll(field)
<1>2. PICK n \in DOMAIN ms : o[2] = SubSeq(field, ms[n].start, ms[n].end)
  BY <1>1 DEF Outputs, OutputsOf
<1> DEFINE l == ms[n]
<1>3. l \in Matches(field)
  <2>1. ms \in Seq(Matches(field))
    BY AllFound
  <2> HIDE DEF ms
  <2> QED BY <2>1
<1> HIDE DEF ms, l
<1>4. l.start \in 1..Len(field) /\ l.end \in l.start..Len(field)
  BY <1>3, MatchesPlaced DEF Placed
<1>5. o[2] = SubSeq(field, l.start, l.end)
  BY <1>2 DEF l
<1> DEFINE a == l.start
           b == l.end
<1>6. a \in 1..Len(field) /\ b \in a..Len(field) /\ Template(m) = SubSeq(field, a, b)
  BY <1>1, <1>4, <1>5
<1> HIDE DEF a, b
<1>7. Len(SubSeq(field, a, b)) = b - a + 1
      /\ \A j \in 1..(b - a + 1) : SubSeq(field, a, b)[j] = field[a + j - 1]
  BY <1>6
<1>8. i \in 1..(b - a + 1) /\ a + i - 1 \in 1..Len(field)
  BY <1>6, <1>7
<1>9. Template(m)[i] = field[a + i - 1]
  BY <1>6, <1>7, <1>8
<1>10. a + i - 1 \in DOMAIN field
  BY <1>8
<1> QED BY <1>9, <1>10

\* Where a text stands only in matches.
LEMMA OnlyIn ==
    ASSUME field \in Seq(Token), NEW put, NEW keep, Puts(put), Holds(keep), NEW w, NEW ms,
           \A p \in 1..Len(OnePass(put, keep)) : StandsAt(OnePass(put, keep), p, w) =>
              \E m \in ms : Lies(p, m.end, PassPieces(field, put, keep))
    PROVE  StandsOnlyIn(w, PassPieces(field, put, keep), ms)
<1> DEFINE N == Len(field)
           F == PassPieces(field, put, keep)
<1>1. N \in Nat /\ F \in Pieces(N, Plain) /\ OnePass(put, keep) = Cat(N, F)
  BY FieldPieces DEF OnePass
<1>2. DOMAIN F = 1..N
  BY DEF PassPieces
<1> HIDE DEF F, N
<1>3. F \in Seq(Seq(Plain)) /\ Len(F) = N
  BY <1>1, <1>2 DEF Pieces
<1>4. Cat(N, F) \in Seq(Plain)
  <2>1. N \in 0..N
    BY <1>1
  <2> QED BY <1>1, <2>1, CatNext
<1>5. DOMAIN Cat(N, F) = 1..Len(Cat(N, F))
  BY <1>4
<1>6. ASSUME NEW p \in DOMAIN Cat(N, F), StandsAt(Cat(N, F), p, w)
      PROVE  \E m \in ms : Len(Cat(m.end - 1, F)) < p /\ p <= Len(Cat(m.end, F))
  <2>1. PICK m \in ms : Lies(p, m.end, F)
    BY <1>1, <1>5, <1>6 DEF F
  <2> QED BY <2>1 DEF Lies, Upto
<1>7. StandsOnlyIn(w, F, ms)
  BY <1>3, <1>6 DEF StandsOnlyIn
<1> QED BY <1>7 DEF F

\* With such keys, and one transform at most, a field is legible.
LEMMA OwnKeysLegible ==
    ASSUME field \in Seq(Token), OwnStart, Unwritten, OneOutput
    PROVE  Legible(ValueOf, Self)
<1> DEFINE ev == EchoOf(ValueOf)
           sh == Shown(ValueOf)
<1>1. Puts(ev) /\ Puts(sh) /\ Holds(Self)
  BY KeepHolds, EchoPuts
<1>2. \A t \in Token : Len(Self[t]) = 1 /\ Self[t][1] = t
  <2> SUFFICES ASSUME NEW t \in Token PROVE Len(Self[t]) = 1 /\ Self[t][1] = t
    OBVIOUS
  <2>1. Self[t] = <<t>>
    BY DEF Self
  <2> QED BY <2>1
<1>3. \A k \in 1..Len(field) : field[k] \in Token
  OBVIOUS
<1>4. ASSUME NEW put, NEW p, FromToken(p, put, Self)
      PROVE  \E k \in 1..Len(field) : OnePass(put, Self)[p] = field[k]
  <2>1. PICK k \in 1..Len(field) :
           \E i \in 1..Len(Self[field[k]]) : OnePass(put, Self)[p] = Self[field[k]][i]
    BY <1>4 DEF FromToken
  <2>2. field[k] \in Token
    BY <1>3
  <2>3. Len(Self[field[k]]) = 1 /\ Self[field[k]][1] = field[k]
    BY <1>2, <2>2
  <2> QED BY <2>1, <2>3
<1>5. Coded \cap Token = {}
  BY UriAssumption DEF Coded
<1>6. \A w, s, p : StandsAt(s, p, w) /\ 1 \in DOMAIN w => s[p + 1 - 1] = w[1]
  BY DEF StandsAt
<1>7. ASSUME NEW o \in Outputs(field)
      PROVE  StandsOnlyIn(o[1], PassPieces(field, ev, Self), CallsOf(o[1]))
  <2>1. o[1] \in Seq(Coded) /\ o[1] # <<>>
    BY OutputsAre
  <2>2. 1 \in DOMAIN o[1] /\ o[1][1] \in Coded
    BY <2>1
  <2>3. ASSUME NEW p \in 1..Len(OnePass(ev, Self)), StandsAt(OnePass(ev, Self), p, o[1])
        PROVE  \E m \in CallsOf(o[1]) : Lies(p, m.end, PassPieces(field, ev, Self))
    <3>1. OnePass(ev, Self)[p] = o[1][1]
      <4>1. p + 1 - 1 = p
        OBVIOUS
      <4> QED BY <1>6, <2>2, <2>3, <4>1
    <3>2. ~FromToken(p, ev, Self)
      BY <1>3, <1>4, <1>5, <2>2, <3>1
    <3>3. FromMatch(p, ev, Self)
      BY <1>1, <3>2, PassToken
    <3>4. PICK m \in Found : /\ Lies(p, m.end, PassPieces(field, ev, Self))
                             /\ \E i \in 1..Len(ev[m]) : OnePass(ev, Self)[p] = ev[m][i]
      BY <3>3 DEF FromMatch
    <3>5. m.call
      <4> SUFFICES ASSUME ~m.call PROVE FALSE
        OBVIOUS
      <4>1. ev[m] = ValueOf[Uri(m)] /\ Uri(m) \in KeyURI
        BY UriOfMatch DEF EchoOf
      <4>2. ev[m] \in Seq(Token)
        BY <4>1, UriAssumption
      <4> HIDE DEF ev
      <4>3. OnePass(ev, Self)[p] \in Token
        BY <3>4, <4>2
      <4> QED BY <1>5, <2>2, <3>1, <4>3
    <3>6. Resolve(m) = o[1]
      <4>1. PICK q \in Outputs(field) : q[1] = Resolve(m)
        BY <3>5, OutputOfCall
      <4> QED BY <4>1 DEF OneOutput
    <3> QED BY <3>4, <3>5, <3>6 DEF CallsOf
  <2> HIDE DEF ev
  <2> QED BY <1>1, <2>3, OnlyIn
<1>8. ASSUME NEW u \in KeyURI, NEW w \in {ValueOf[u], Escaped(ValueOf[u])}
      PROVE  StandsOnlyIn(w, PassPieces(field, sh, Self), Holding(w, u, ValueOf))
  <2>1. ValueOf[u] \in Seq(Token) /\ ValueOf[u] # <<>>
    BY UriAssumption
  <2>2. Escaped(ValueOf[u]) = ValueOf[u]
    <3>1. \A n \in 1..Len(ValueOf[u]) : ValueOf[u][n] \notin NeedsEscape
      BY <2>1 DEF OwnStart
    <3>2. ValueOf[u] \in Seq(Plain)
      BY <2>1, TextIsPlain
    <3> QED BY <3>1, <3>2, EscapedKept
  <2>3. w = ValueOf[u] /\ 1 \in DOMAIN w
    BY <2>1, <2>2
  <2>4. ASSUME NEW p \in 1..Len(OnePass(sh, Self)), StandsAt(OnePass(sh, Self), p, w)
        PROVE  \E m \in Holding(w, u, ValueOf) : Lies(p, m.end, PassPieces(field, sh, Self))
    <3>1. OnePass(sh, Self)[p] = ValueOf[u][1]
      <4>1. p + 1 - 1 = p
        OBVIOUS
      <4> QED BY <1>6, <2>3, <2>4, <4>1
    <3>2. ~FromToken(p, sh, Self)
      BY <1>4, <3>1 DEF Unwritten
    <3>3. FromMatch(p, sh, Self)
      BY <1>1, <3>2, PassToken
    <3>4. PICK m \in Found : /\ Lies(p, m.end, PassPieces(field, sh, Self))
                             /\ \E i \in 1..Len(sh[m]) : OnePass(sh, Self)[p] = sh[m][i]
      BY <3>3 DEF FromMatch
    <3>5. PICK i \in 1..Len(sh[m]) : sh[m][i] = ValueOf[u][1]
      BY <3>1, <3>4
    <3>6. ~m.call
      <4> SUFFICES ASSUME m.call PROVE FALSE
        OBVIOUS
      <4>1. sh[m] = Template(m)
        BY DEF Shown
      <4>2. PICK k \in DOMAIN field : Template(m)[i] = field[k]
        BY <3>5, <4>1, TemplateWritten
      <4> QED BY <3>5, <4>1, <4>2 DEF Unwritten
    <3>7. sh[m] = ValueOf[Uri(m)] /\ Uri(m) \in KeyURI
      BY <3>6, UriOfMatch DEF Shown
    <3>8. Uri(m) = u
      <4>1. ValueOf[Uri(m)] \in Seq(Token)
        BY <3>7, UriAssumption
      <4>2. i \in DOMAIN ValueOf[Uri(m)] /\ ValueOf[Uri(m)][i] = ValueOf[u][1]
        BY <3>5, <3>7, <4>1
      <4> QED BY <3>7, <4>2 DEF OwnStart
    <3>9. Len(w) <= Len(ValueOf[u])
      BY <2>1, <2>3
    <3> QED BY <3>4, <3>6, <3>8, <3>9 DEF Holding
  <2> HIDE DEF sh
  <2> QED BY <1>1, <2>4, OnlyIn
<1>9. \A u \in KeyURI : \A n \in DOMAIN ValueOf[u] : ValueOf[u][n] \notin KeyURI
  BY DEF OwnStart
<1> QED BY <1>7, <1>8, <1>9 DEF Legible

\* What an agent writes with such keys, and with one transform at most, comes back as
\* it was, wherever braces, uris and line breaks stand, in whatever order the maps
\* are gone through.
THEOREM EchoOwnKeys ==
    EchoSpec => [](OwnStart /\ Unwritten /\ OneOutput
                      => Maskings(Sent, Outputs(field)) = {OnePass(PutBack, Self)})
<1>1. EchoTypeOK /\ EchoComesBack /\ OwnStart /\ Unwritten /\ OneOutput
         => Maskings(Sent, Outputs(field)) = {OnePass(PutBack, Self)}
  BY OwnKeysLegible DEF EchoTypeOK, EchoComesBack, ComesBack
<1> QED BY <1>1, EchoType, EchoBack, PTL
=============================================================================
