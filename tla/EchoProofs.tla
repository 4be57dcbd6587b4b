----------------------------- MODULE EchoProofs -----------------------------
(* What ReplaceBytes and Replace make of a field, and what masking leaves of   *)
(* a response, whatever the keys, their values and the texts are.              *)
(*                                                                             *)
(* The reference, one pass over the field, and the two functions are put       *)
(* together from the same pieces.  For the masking, a text that holds no token *)
(* of what is put in stands in the result only where it stood before.          *)
EXTENDS Echo, TextProofs

\* What one pass puts down at k.
LEMMA PieceAt ==
    ASSUME NEW s \in Seq(Token), NEW k \in 1..Len(s), NEW put, NEW keep
    PROVE  /\ \A m \in Matches(s) : m.start <= k /\ k <= m.end
                 => PassPieces(s, put, keep)[k] = IF k = m.end THEN put[m] ELSE <<>>
           /\ (\A m \in Matches(s) : k < m.start \/ m.end < k)
                 => s[k] \notin KeyURI /\ PassPieces(s, put, keep)[k] = keep[s[k]]
<1> DEFINE e == EnclosedMatches(s)
           around == {n \in DOMAIN e : e[n].start <= k /\ k <= e[n].end}
           c == CHOOSE n \in around : TRUE
<1>1. PassPieces(s, put, keep)[k] =
          IF around # {} THEN IF k = e[c].end THEN put[e[c]] ELSE <<>>
          ELSE IF s[k] \in KeyURI THEN put[UriMatch(s, k)]
          ELSE keep[s[k]]
  BY DEF PassPieces
<1>2. /\ DOMAIN e = 1..Len(e) /\ \A n \in DOMAIN e : e[n] \in WithURI(s)
      /\ \A m \in WithURI(s) : \E i \in DOMAIN e : e[i] = m
  <2>1. Lists(e, WithURI(s))
    BY EnclosedListed
  <2> DEFINE M == WithURI(s)
  <2> HIDE DEF e, M
  <2>2. e \in Seq(M) /\ \A m \in M : \E i \in 1..Len(e) : e[i] = m
    BY <2>1 DEF Lists, M
  <2>3. DOMAIN e = 1..Len(e) /\ \A n \in 1..Len(e) : e[n] \in M
    BY <2>2
  <2> QED BY <2>2, <2>3 DEF M
<1>3. around # {} => c \in around
  OBVIOUS
<1> HIDE DEF e, c
<1>4. \A m \in Matches(s) : m.start \in 1..Len(s) /\ m.end \in m.start..Len(s)
  BY MatchesPlaced DEF Placed
<1>5. WithURI(s) \subseteq Matches(s) /\ Outside(s) \subseteq Matches(s)
  BY DEF Matches
<1>6. ASSUME NEW m \in Matches(s), m.start <= k, k <= m.end,
             NEW l \in Matches(s), l.start <= k, k <= l.end
      PROVE  l = m
  <2>1. m = l \/ m.end < l.start \/ l.end < m.start
    BY MatchesPlaced DEF Placed
  <2> QED BY <1>4, <1>6, <2>1
<1>7. ASSUME NEW m \in Matches(s), m.start <= k, k <= m.end
      PROVE  PassPieces(s, put, keep)[k] = IF k = m.end THEN put[m] ELSE <<>>
  <2>1. CASE m \in WithURI(s)
    <3>1. PICK i \in DOMAIN e : e[i] = m
      BY <1>2, <2>1
    <3>2. i \in around
      BY <1>7, <3>1
    <3>3. c \in around /\ e[c] \in Matches(s)
      BY <1>2, <1>3, <1>5, <3>2
    <3>4. e[c].start <= k /\ k <= e[c].end
      BY <3>3
    <3>5. e[c] = m
      BY <1>6, <1>7, <3>3, <3>4
    <3> QED BY <1>1, <3>2, <3>5
  <2>2. CASE m \in Outside(s)
    <3>1. PICK j \in DOMAIN s : s[j] \in KeyURI /\ m = UriMatch(s, j)
      BY <2>2 DEF Outside
    <3>2. m.start = j /\ m.end = j
      BY <3>1 DEF UriMatch, Match
    <3>3. j = k
      BY <1>7, <3>1, <3>2
    <3>4. ASSUME NEW n \in around PROVE FALSE
      <4>1. e[n] \in WithURI(s) /\ e[n] \in Matches(s)
        BY <1>2, <1>5
      <4>2. e[n] = m
        BY <1>6, <1>7, <4>1
      <4>3. k < e[n].start \/ e[n].end < k
        <5>1. \A l \in WithURI(s) : m.start < l.start \/ l.end < m.start
          <6>1. PICK h \in {h \in DOMAIN s : s[h] \in KeyURI
                     /\ \A l \in WithURI(s) : h < l.start \/ l.end < h} :
                         m = UriMatch(s, h)
            BY <2>2 DEF Outside
          <6>2. m.start = h
            BY <6>1 DEF UriMatch, Match
          <6> QED BY <6>1, <6>2
        <5> QED BY <3>2, <3>3, <4>1, <5>1
      <4> QED BY <1>4, <4>1, <4>3
    <3> QED BY <1>1, <3>1, <3>2, <3>3, <3>4
  <2> QED BY <2>1, <2>2 DEF Matches
<1>8. ASSUME \A m \in Matches(s) : k < m.start \/ m.end < k
      PROVE  s[k] \notin KeyURI /\ PassPieces(s, put, keep)[k] = keep[s[k]]
  <2>1. around = {}
    <3> SUFFICES ASSUME NEW n \in around PROVE FALSE
      OBVIOUS
    <3>1. e[n] \in Matches(s) /\ e[n].start <= k /\ k <= e[n].end
      BY <1>2, <1>5
    <3>2. e[n].start \in 1..Len(s) /\ e[n].end \in e[n].start..Len(s)
      BY <1>4, <3>1
    <3> QED BY <1>8, <3>1, <3>2
  <2>2. s[k] \notin KeyURI
    <3> SUFFICES ASSUME s[k] \in KeyURI PROVE FALSE
      OBVIOUS
    <3>1. UriMatch(s, k) \in Outside(s)
      BY <1>5, <1>8 DEF Outside
    <3>2. UriMatch(s, k).start = k /\ UriMatch(s, k).end = k
      BY DEF UriMatch, Match
    <3>3. UriMatch(s, k) \in Matches(s)
      BY <1>5, <3>1
    <3>4. k < UriMatch(s, k).start \/ UriMatch(s, k).end < k
      BY <1>8, <3>3
    <3> QED BY <3>2, <3>4
  <2> QED BY <1>1, <2>1, <2>2
<1> QED BY <1>7, <1>8

\* What is put down for matches and kept of other tokens, the pieces are made of.
LEMMA PiecesIn ==
    ASSUME NEW s \in Seq(Token), NEW X, NEW put, NEW keep,
           \A m \in Matches(s) : put[m] \in Seq(X),
           \A t \in Token : t \notin KeyURI => keep[t] \in Seq(X)
    PROVE  PassPieces(s, put, keep) \in Pieces(Len(s), X)
<1>1. PassPieces(s, put, keep) = [k \in 1..Len(s) |-> PassPieces(s, put, keep)[k]]
  BY DEF PassPieces
<1>2. ASSUME NEW k \in 1..Len(s) PROVE PassPieces(s, put, keep)[k] \in Seq(X)
  <2>1. CASE \E m \in Matches(s) : m.start <= k /\ k <= m.end
    <3>1. PICK m \in Matches(s) : m.start <= k /\ k <= m.end
      BY <2>1
    <3>2. PassPieces(s, put, keep)[k] = IF k = m.end THEN put[m] ELSE <<>>
      BY <3>1, PieceAt
    <3>3. put[m] \in Seq(X) /\ <<>> \in Seq(X)
      OBVIOUS
    <3> QED BY <3>2, <3>3
  <2>2. CASE ~\E m \in Matches(s) : m.start <= k /\ k <= m.end
    <3>1. \A m \in Matches(s) : m.start \in 1..Len(s) /\ m.end \in m.start..Len(s)
      BY MatchesPlaced DEF Placed
    <3>2. \A m \in Matches(s) : k < m.start \/ m.end < k
      BY <2>2, <3>1
    <3>3. s[k] \notin KeyURI /\ PassPieces(s, put, keep)[k] = keep[s[k]] /\ s[k] \in Token
      BY <3>2, PieceAt
    <3> QED BY <3>3
  <2> QED BY <2>1, <2>2
<1> HIDE DEF PassPieces
<1> QED BY <1>1, <1>2 DEF Pieces

\* Each match resolved, and all else as it is.
SentPieces(s) == PassPieces(s, [m \in Matches(s) |-> Resolve(m)], Self)

\* What the pieces of a text with its matches resolved are made of.
LEMMA SentPiecesIn ==
    ASSUME NEW s \in Seq(Token), NEW X,
           \A m \in Matches(s) : Resolve(m) \in Seq(X),
           \A t \in Token : t \notin KeyURI => t \in X
    PROVE  SentPieces(s) \in Pieces(Len(s), X)
<1> DEFINE put == [m \in Matches(s) |-> Resolve(m)]
<1>1. \A m \in Matches(s) : put[m] \in Seq(X)
  OBVIOUS
<1>2. ASSUME NEW t \in Token, t \notin KeyURI PROVE Self[t] \in Seq(X)
  <2>1. Self[t] = <<t>> /\ t \in X
    BY <1>2 DEF Self
  <2> QED BY <2>1
<1> HIDE DEF put
<1>3. PassPieces(s, put, Self) \in Pieces(Len(s), X)
  BY <1>1, <1>2, PiecesIn
<1> QED BY <1>3 DEF SentPieces, put

\* What they are at k.
LEMMA SentPieceAt ==
    ASSUME NEW s \in Seq(Token), NEW k \in 1..Len(s)
    PROVE  /\ \A m \in Matches(s) : m.start <= k /\ k <= m.end
                 => SentPieces(s)[k] = IF k = m.end THEN Resolve(m) ELSE <<>>
           /\ (\A m \in Matches(s) : k < m.start \/ m.end < k)
                 => s[k] \notin KeyURI /\ SentPieces(s)[k] = <<s[k]>>
<1> DEFINE put == [m \in Matches(s) |-> Resolve(m)]
<1>1. SentPieces(s)[k] = PassPieces(s, put, Self)[k]
  BY DEF SentPieces
<1>2. \A m \in Matches(s) : put[m] = Resolve(m)
  OBVIOUS
<1>3. Self[s[k]] = <<s[k]>>
  BY DEF Self
<1> HIDE DEF put
<1>4. /\ \A m \in Matches(s) : m.start <= k /\ k <= m.end
            => PassPieces(s, put, Self)[k] = IF k = m.end THEN put[m] ELSE <<>>
      /\ (\A m \in Matches(s) : k < m.start \/ m.end < k)
            => s[k] \notin KeyURI /\ PassPieces(s, put, Self)[k] = Self[s[k]]
  BY PieceAt
<1> QED BY <1>1, <1>2, <1>3, <1>4

\* Any list of the matches from left to right accounts for the pieces.
LEMMA PassCovers ==
    ASSUME NEW s \in Seq(Token), NEW ms, Lists(ms, Matches(s))
    PROVE  Covers(s, ms, SentPieces(s), Plain)
<1> DEFINE P == SentPieces(s)
<1>1. P \in Pieces(Len(s), Plain)
  <2>1. InValues \cup Coded \subseteq Plain
    BY DEF InValues, Coded, Plain
  <2>2. ASSUME NEW m \in Matches(s) PROVE Resolve(m) \in Seq(Plain)
    <3>1. Resolve(m) \in Seq(InValues \cup Coded)
      BY ResolvedIn
    <3> QED BY <2>1, <3>1
  <2>3. \A t \in Token : t \in Plain
    BY DEF Plain
  <2> QED BY <2>2, <2>3, SentPiecesIn
<1>2. /\ Len(ms) \in Nat /\ \A n \in 1..Len(ms) : ms[n] \in Matches(s)
      /\ \A m \in Matches(s) : \E i \in 1..Len(ms) : ms[i] = m
      /\ \A i, j \in 1..Len(ms) : i < j => ms[i].start < ms[j].start
  BY DEF Lists
<1>3. \A m \in Matches(s) : m.start \in 1..Len(s) /\ m.end \in m.start..Len(s)
  BY MatchesPlaced DEF Placed
<1> HIDE DEF P
<1>4. ASSUME NEW n \in 1..Len(ms)
      PROVE  /\ ms[n].start \in 1..Len(s) /\ ms[n].end \in ms[n].start..Len(s)
             /\ P[ms[n].end] = Resolve(ms[n])
             /\ \A k \in ms[n].start..(ms[n].end - 1) : P[k] = <<>>
  <2> DEFINE m == ms[n]
  <2>1. m \in Matches(s)
    BY <1>2
  <2> HIDE DEF m
  <2>2. m.start \in 1..Len(s) /\ m.end \in m.start..Len(s)
    BY <1>3, <2>1
  <2>3. ASSUME NEW k \in m.start..m.end
        PROVE  P[k] = IF k = m.end THEN Resolve(m) ELSE <<>>
    <3>1. k \in 1..Len(s) /\ m.start <= k /\ k <= m.end
      BY <2>2
    <3> QED BY <2>1, <3>1, SentPieceAt DEF P
  <2>4. P[m.end] = Resolve(m)
    BY <2>2, <2>3
  <2>5. \A k \in m.start..(m.end - 1) : P[k] = <<>>
    BY <2>2, <2>3
  <2> QED BY <2>2, <2>4, <2>5 DEF m
<1>5. ASSUME NEW m \in 1..Len(ms), NEW n \in 1..Len(ms), m < n
      PROVE  ms[m].end < ms[n].start
  <2>1. ms[m].start < ms[n].start /\ ms[m] \in Matches(s) /\ ms[n] \in Matches(s)
    BY <1>2, <1>5
  <2>2. ms[m] = ms[n] \/ ms[m].end < ms[n].start \/ ms[n].end < ms[m].start
    BY <2>1, MatchesPlaced DEF Placed
  <2> QED BY <1>3, <2>1, <2>2
<1>6. ASSUME NEW k \in 1..Len(s),
             \A n \in 1..Len(ms) : k < ms[n].start \/ ms[n].end < k
      PROVE  P[k] = <<s[k]>>
  <2>1. \A m \in Matches(s) : k < m.start \/ m.end < k
    BY <1>2, <1>6
  <2> QED BY <2>1, SentPieceAt DEF P
<1>7. Covers(s, ms, P, Plain)
  BY <1>1, <1>2, <1>4, <1>5, <1>6 DEF Covers
<1> QED BY <1>7 DEF P

\* A text is one without percent-encoding.
LEMMA TextIsPlain ==
    ASSUME NEW s \in Seq(Token)
    PROVE  s \in Seq(Plain)
<1>1. Token \subseteq Plain
  BY DEF Plain
<1> QED BY <1>1

\* ReplaceBytes puts the pieces together.
LEMMA BytesReplaced ==
    ASSUME NEW s \in Seq(Token)
    PROVE  ReplaceBytes(s) = Cat(Len(s), SentPieces(s))
<1>1. Covers(s, SortedMatches(s), SentPieces(s), Plain)
  BY SortedListed, PassCovers
<1>2. s \in Seq(Plain)
  BY TextIsPlain
<1> QED BY <1>1, <1>2, Filled DEF ReplaceBytes

\* So does Replace, if the matches were found from left to right.
LEMMA StringReplaced ==
    ASSUME NEW s \in Seq(Token),
           \A n \in 1..(Len(FindAll(s)) - 1) :
              FindAll(s)[n].start < FindAll(s)[n + 1].start
    PROVE  Replace(s) = Cat(Len(s), SentPieces(s))
<1>1. Lists(FindAll(s), Matches(s))
  BY FoundListed
<1>2. Covers(s, FindAll(s), SentPieces(s), Plain)
  BY <1>1, PassCovers
<1>3. s \in Seq(Plain)
  BY TextIsPlain
<1> QED BY <1>2, <1>3, Spliced DEF Replace
-----------------------------------------------------------------------------
(* strings.ReplaceAll: what is left of a text after old was replaced by new *)

\* f[k] is what becomes of s from k on.
Scans(X, s, old, new, f) ==
    /\ \A k \in 1..(Len(s) + 1) : f[k] \in Seq(X)
    /\ f[Len(s) + 1] = <<>>
    /\ \A k \in 1..Len(s) :
          f[k] = IF StandsAt(s, k, old) THEN new \o f[k + Len(old)]
                 ELSE <<s[k]>> \o f[k + 1]

\* strings.ReplaceAll scans from left to right.
LEMMA ReplaceScans ==
    ASSUME NEW X, NEW s \in Seq(X), NEW old \in Seq(X), old # <<>>, NEW new \in Seq(X)
    PROVE  \E f : ReplaceEach(s, old, new) = f[1] /\ Scans(X, s, old, new, f)
<1> DEFINE L == Len(s)
           N == Len(old)
           M == Len(s) + Len(old)
           Stands(k) == StandsAt(s, k, old)
           body(k, g) ==
               IF k > Len(s) THEN <<>>
               ELSE IF StandsAt(s, k, old) THEN new \o g[k + Len(old)]
               ELSE <<s[k]>> \o g[k + 1]
           Is(f) == f = [k \in 1..M |-> body(k, f)]
           f == CHOOSE f : Is(f)
           Until(n) == \E g \in [n..M -> Seq(X)] : \A k \in n..M : g[k] = body(k, g)
<1>1. L \in Nat /\ N \in Nat /\ N > 0 /\ M = L + N /\ M \in Nat /\ M > L
  OBVIOUS
<1>2. ASSUME NEW k \in 1..M, NEW g,
             k <= L => g[k + 1] \in Seq(X),
             k <= L => g[k + N] \in Seq(X)
      PROVE  body(k, g) \in Seq(X)
  <2>1. CASE k > L
    BY <2>1
  <2>2. CASE k <= L
    <3>1. s[k] \in X
      BY <1>1, <2>2
    <3>2. <<s[k]>> \in Seq(X)
      BY <3>1
    <3>3. body(k, g) = IF Stands(k) THEN new \o g[k + N] ELSE <<s[k]>> \o g[k + 1]
      BY <1>1, <2>2
    <3>4. new \o g[k + N] \in Seq(X)
      BY <1>2, <2>2, ConcatProperties
    <3>5. <<s[k]>> \o g[k + 1] \in Seq(X)
      BY <1>2, <2>2, <3>2, ConcatProperties
    <3> HIDE DEF body, Stands
    <3> QED BY <3>3, <3>4, <3>5
  <2> QED BY <1>1, <2>1, <2>2
<1>3. Until(M)
  <2> DEFINE g == [k \in M..M |-> <<>>]
  <2>1. g \in [M..M -> Seq(X)]
    OBVIOUS
  <2>2. ASSUME NEW k \in M..M PROVE g[k] = body(k, g)
    BY <1>1
  <2> HIDE DEF g, body, M
  <2> QED BY <2>1, <2>2
<1>4. ASSUME NEW n \in 1..M, n < M, Until(n + 1) PROVE Until(n)
  <2>1. PICK g \in [(n + 1)..M -> Seq(X)] : \A k \in (n + 1)..M : g[k] = body(k, g)
    BY <1>4
  <2> DEFINE h == [k \in n..M |-> IF k = n THEN body(n, g) ELSE g[k]]
  <2>2. ASSUME NEW k \in n..M, k <= L
        PROVE  k + 1 \in (n + 1)..M /\ k + N \in (n + 1)..M
    BY <1>1, <2>2
  <2>3. body(n, g) \in Seq(X)
    <3> HIDE DEF body
    <3>1. n \in n..M
      BY <1>1
    <3>2. n <= L => g[n + 1] \in Seq(X)
      BY <2>2, <3>1
    <3>3. n <= L => g[n + N] \in Seq(X)
      BY <2>2, <3>1
    <3> QED BY <1>2, <3>2, <3>3
  <2>4. h \in [n..M -> Seq(X)]
    <3> HIDE DEF body
    <3>1. ASSUME NEW k \in n..M, k # n PROVE g[k] \in Seq(X)
      <4>1. k \in (n + 1)..M
        BY <1>1, <3>1
      <4> QED BY <4>1
    <3> QED BY <2>3, <3>1
  <2>5. ASSUME NEW k \in (n + 1)..M PROVE h[k] = g[k]
    <3> HIDE DEF body
    <3>1. k \in n..M /\ k # n
      BY <1>1
    <3> QED BY <3>1
  <2>6. ASSUME NEW k \in n..M PROVE body(k, h) = body(k, g)
    <3>1. k <= L => h[k + 1] = g[k + 1] /\ h[k + N] = g[k + N]
      BY <2>2, <2>5
    <3> HIDE DEF h
    <3>2. CASE k > L
      BY <3>2
    <3>3. CASE k <= L
      BY <1>1, <3>1, <3>3
    <3> QED BY <1>1, <3>2, <3>3
  <2>7. ASSUME NEW k \in n..M PROVE h[k] = body(k, h)
    <3> HIDE DEF body
    <3>1. CASE k = n
      <4>1. h[k] = body(n, g)
        BY <3>1
      <4> QED BY <2>6, <3>1, <4>1
    <3>2. CASE k # n
      <4>1. k \in (n + 1)..M
        BY <1>1, <3>2
      <4> QED BY <2>1, <2>5, <2>6, <4>1
    <3> QED BY <3>1, <3>2
  <2> HIDE DEF h, body
  <2> QED BY <2>4, <2>7
<1>5. Until(1)
  <2> HIDE DEF Until, M
  <2> DEFINE T == {n \in 1..M : Until(n)}
  <2>1. M \in T
    BY <1>1, <1>3
  <2>2. ASSUME NEW n \in 1..M, n < M, \A k \in (n + 1)..M : k \in T PROVE n \in T
    <3>1. n + 1 \in (n + 1)..M
      BY <1>1, <2>2
    <3>2. Until(n + 1)
      BY <2>2, <3>1
    <3> QED BY <1>4, <2>2, <3>2
  <2>3. \A n \in 1..M : n \in T
    <3> HIDE DEF T
    <3> QED BY <1>1, <2>1, <2>2, Descend
  <2>4. 1 \in 1..M
    BY <1>1
  <2> QED BY <2>3, <2>4
<1>6. Is(f)
  <2>1. PICK g \in [1..M -> Seq(X)] : \A k \in 1..M : g[k] = body(k, g)
    BY <1>5
  <2>2. Is(g)
    <3>1. g = [k \in 1..M |-> g[k]]
      OBVIOUS
    <3> HIDE DEF body
    <3> QED BY <2>1, <3>1
  <2> HIDE DEF Is
  <2> QED BY <2>2
<1>7. ReplaceEach(s, old, new) = f[1]
  BY DEF ReplaceEach
<1> HIDE DEF f
<1>8. ASSUME NEW k \in 1..M PROVE f[k] = body(k, f)
  <2> HIDE DEF body
  <2> QED BY <1>6
<1>9. \A k \in 1..(L + 1) : f[k] \in Seq(X)
  <2> DEFINE T == {k \in 1..M : f[k] \in Seq(X)}
  <2>1. M \in T
    <3>1. M \in 1..M /\ M > Len(s)
      BY <1>1
    <3>2. f[M] = body(M, f)
      <4> HIDE DEF body, M
      <4> QED BY <1>8, <3>1
    <3>3. f[M] = <<>>
      BY <3>1, <3>2
    <3>4. f[M] \in Seq(X)
      BY <3>3
    <3> HIDE DEF M, body
    <3> QED BY <3>1, <3>4
  <2>2. ASSUME NEW n \in 1..M, n < M, \A k \in (n + 1)..M : k \in T PROVE n \in T
    <3>1. n <= L => n + 1 \in (n + 1)..M /\ n + N \in (n + 1)..M
      BY <1>1, <2>2
    <3>2. n <= L => f[n + 1] \in Seq(X) /\ f[n + N] \in Seq(X)
      BY <2>2, <3>1
    <3> HIDE DEF body
    <3>3. body(n, f) \in Seq(X)
      BY <1>2, <3>2
    <3> QED BY <1>8, <3>3
  <2>3. \A k \in 1..M : k \in T
    <3> HIDE DEF T, M
    <3> QED BY <1>1, <2>1, <2>2, Descend
  <2>4. \A k \in 1..(L + 1) : k \in 1..M
    BY <1>1
  <2> QED BY <2>3, <2>4
<1>10. f[L + 1] = <<>>
  <2>1. L + 1 \in 1..M /\ L + 1 > Len(s)
    BY <1>1
  <2>2. f[L + 1] = body(L + 1, f)
    <3> HIDE DEF body
    <3> QED BY <1>8, <2>1
  <2> QED BY <2>1, <2>2
<1>11. \A k \in 1..L : f[k] = IF StandsAt(s, k, old) THEN new \o f[k + Len(old)]
                              ELSE <<s[k]>> \o f[k + 1]
  <2> SUFFICES ASSUME NEW k \in 1..L
               PROVE  f[k] = IF StandsAt(s, k, old) THEN new \o f[k + Len(old)]
                             ELSE <<s[k]>> \o f[k + 1]
    OBVIOUS
  <2>1. k \in 1..M /\ ~(k > Len(s))
    BY <1>1
  <2>2. f[k] = body(k, f)
    <3> HIDE DEF body
    <3> QED BY <1>8, <2>1
  <2> QED BY <2>1, <2>2
<1> QED BY <1>7, <1>9, <1>10, <1>11 DEF Scans

\* One step of it: where old stands, and where it does not.
Replaces(X, s, old, new, f, k) ==
    /\ k + Len(old) \in (k + 1)..(Len(s) + 1)
    /\ f[k + Len(old)] \in Seq(X)
    /\ f[k] = new \o f[k + Len(old)]
Keeps(X, s, f, k) ==
    s[k] \in X /\ f[k + 1] \in Seq(X) /\ f[k] = <<s[k]>> \o f[k + 1]

\* One step of the scan.
LEMMA ScanStep ==
    ASSUME NEW X, NEW s \in Seq(X), NEW old \in Seq(X), old # <<>>, NEW new \in Seq(X),
           NEW f, Scans(X, s, old, new, f), NEW k \in 1..Len(s)
    PROVE  /\ StandsAt(s, k, old) => Replaces(X, s, old, new, f, k)
           /\ ~StandsAt(s, k, old) => Keeps(X, s, f, k)
<1>1. Len(s) \in Nat /\ Len(old) \in Nat /\ Len(old) > 0 /\ s[k] \in X
  OBVIOUS
<1>2. \A n \in 1..(Len(s) + 1) : f[n] \in Seq(X)
  BY DEF Scans
<1>3. f[k] = IF StandsAt(s, k, old) THEN new \o f[k + Len(old)] ELSE <<s[k]>> \o f[k + 1]
  BY DEF Scans
<1>4. k + 1 \in 1..(Len(s) + 1)
  BY <1>1
<1>5. StandsAt(s, k, old) => k + Len(old) \in (k + 1)..(Len(s) + 1)
  BY <1>1 DEF StandsAt
<1>6. \A n \in (k + 1)..(Len(s) + 1) : n \in 1..(Len(s) + 1)
  BY <1>1
<1>7. CASE StandsAt(s, k, old)
  <2>1. f[k] = new \o f[k + Len(old)]
    BY <1>3, <1>7
  <2> QED BY <1>2, <1>5, <1>6, <1>7, <2>1 DEF Replaces
<1>8. CASE ~StandsAt(s, k, old)
  <2>1. f[k] = <<s[k]>> \o f[k + 1]
    BY <1>3, <1>8
  <2> QED BY <1>1, <1>2, <1>4, <1>8, <2>1 DEF Keeps
<1> QED BY <1>7, <1>8

\* w from its m-th token on stands in t from k on.
Continues(t, k, w, m) ==
    k + Len(w) - m <= Len(t) /\ \A n \in m..Len(w) : t[k + n - m] = w[n]

\* No token of w is one of t.
Foreign(w, t) == \A i \in 1..Len(w), j \in 1..Len(t) : w[i] # t[j]

\* A text stands where all of it continues.
LEMMA StandsContinues ==
    ASSUME NEW X, NEW s \in Seq(X), NEW w \in Seq(X), NEW k \in Nat
    PROVE  StandsAt(s, k, w) <=> Continues(s, k, w, 1)
<1>1. DOMAIN w = 1..Len(w) /\ Len(w) \in Nat /\ Len(s) \in Nat
  OBVIOUS
<1>2. k + Len(w) - 1 <= Len(s) <=> k + Len(w) - 1 <= Len(s)
  OBVIOUS
<1> QED BY <1>1 DEF StandsAt, Continues

\* What starts with the rest of w, none of it new, was copied from s.
LEMMA FrontCopied ==
    ASSUME NEW X, NEW s \in Seq(X), NEW old \in Seq(X), old # <<>>,
           NEW new \in Seq(X), new # <<>>, NEW f, Scans(X, s, old, new, f),
           NEW w \in Seq(X), Foreign(w, new)
    PROVE  \A k \in 1..(Len(s) + 1) : \A m \in 1..(Len(w) + 1) :
              Continues(f[k], 1, w, m) => Continues(s, k, w, m)
<1> DEFINE L == Len(s)
           Is(k) == \A m \in 1..(Len(w) + 1) :
                       Continues(f[k], 1, w, m) => Continues(s, k, w, m)
<1>1. L \in Nat /\ Len(w) \in Nat /\ Len(new) \in Nat /\ Len(new) > 0
  OBVIOUS
<1>2. Is(L + 1)
  <2> SUFFICES ASSUME NEW m \in 1..(Len(w) + 1), Continues(f[L + 1], 1, w, m)
               PROVE  Continues(s, L + 1, w, m)
    OBVIOUS
  <2>1. f[L + 1] = <<>>
    BY DEF Scans
  <2>2. 1 + Len(w) - m <= 0
    BY <2>1 DEF Continues
  <2>3. m = Len(w) + 1
    BY <1>1, <2>2
  <2> QED BY <1>1, <2>3 DEF Continues
<1>3. ASSUME NEW k \in 1..L, Is(k + 1) PROVE Is(k)
  <2> SUFFICES ASSUME NEW m \in 1..(Len(w) + 1), Continues(f[k], 1, w, m)
               PROVE  Continues(s, k, w, m)
    OBVIOUS
  <2>1. CASE m = Len(w) + 1
    BY <1>1, <2>1 DEF Continues
  <2>2. CASE m \in 1..Len(w)
    <3>1. f[k][1] = w[m]
      <4>1. m \in m..Len(w) /\ 1 + m - m = 1
        BY <1>1, <2>2
      <4> QED BY <4>1 DEF Continues
    <3>2. ~StandsAt(s, k, old)
      <4> SUFFICES ASSUME StandsAt(s, k, old) PROVE FALSE
        OBVIOUS
      <4>0. Replaces(X, s, old, new, f, k)
        BY ScanStep
      <4>1. f[k] = new \o f[k + Len(old)] /\ f[k + Len(old)] \in Seq(X)
        BY <4>0 DEF Replaces
      <4>2. f[k][1] = new[1] /\ 1 \in 1..Len(new)
        BY <1>1, <4>1
      <4>3. w[m] # new[1]
        BY <2>2, <4>2 DEF Foreign
      <4> QED BY <3>1, <4>2, <4>3
    <3> DEFINE g == f[k + 1]
    <3>3. f[k] = <<s[k]>> \o g /\ g \in Seq(X) /\ s[k] \in X
      <4>1. Keeps(X, s, f, k)
        BY <3>2, ScanStep
      <4> QED BY <4>1 DEF Keeps
    <3> HIDE DEF g
    <3>4. /\ Len(f[k]) = Len(g) + 1 /\ f[k][1] = s[k]
          /\ \A i \in 1..Len(g) : f[k][i + 1] = g[i]
      BY <3>3
    <3>5. Continues(g, 1, w, m + 1)
      <4>1. 1 + Len(w) - (m + 1) <= Len(g)
        BY <1>1, <3>3, <3>4 DEF Continues
      <4>2. ASSUME NEW n \in (m + 1)..Len(w) PROVE g[1 + n - (m + 1)] = w[n]
        <5>1. n \in m..Len(w) /\ n - m \in 1..Len(g) /\ 1 + n - m = (n - m) + 1
              /\ 1 + n - (m + 1) = n - m
          BY <1>1, <3>3, <4>1
        <5>2. f[k][1 + n - m] = w[n]
          BY <5>1 DEF Continues
        <5> QED BY <3>4, <5>1, <5>2
      <4> QED BY <4>1, <4>2 DEF Continues
    <3>6. Continues(s, k + 1, w, m + 1)
      <4>1. m + 1 \in 1..(Len(w) + 1)
        BY <1>1, <2>2
      <4> QED BY <1>3, <3>5, <4>1 DEF g
    <3>7. ASSUME NEW n \in m..Len(w) PROVE s[k + n - m] = w[n]
      <4>1. CASE n = m
        <5>1. k + n - m = k
          BY <4>1
        <5> QED BY <3>1, <3>4, <4>1, <5>1
      <4>2. CASE n # m
        <5>1. n \in (m + 1)..Len(w) /\ (k + 1) + n - (m + 1) = k + n - m
          BY <1>1, <4>2
        <5>2. s[(k + 1) + n - (m + 1)] = w[n]
          BY <3>6, <5>1 DEF Continues
        <5> QED BY <5>1, <5>2
      <4> QED BY <4>1, <4>2
    <3>8. k + Len(w) - m <= Len(s)
      <4> DEFINE a == Len(w)
                 b == Len(s)
      <4>1. (k + 1) + a - (m + 1) <= b
        BY <3>6 DEF Continues
      <4>2. a \in Nat /\ b \in Nat /\ k \in Int /\ m \in Int
        BY <1>1
      <4> HIDE DEF a, b
      <4>3. k + a - m <= b
        BY <4>1, <4>2
      <4> QED BY <4>3 DEF a, b
    <3> QED BY <3>7, <3>8 DEF Continues
  <2> QED BY <1>1, <2>1, <2>2
<1>4. \A k \in 1..(L + 1) : Is(k)
  <2> HIDE DEF Is
  <2> DEFINE M == L + 1
             T == {k \in 1..M : Is(k)}
  <2>1. M \in Nat /\ M \in T
    BY <1>1, <1>2
  <2>2. ASSUME NEW n \in 1..M, n < M, \A k \in (n + 1)..M : k \in T PROVE n \in T
    <3>1. n + 1 \in (n + 1)..M /\ n \in 1..L
      BY <1>1, <2>2
    <3> QED BY <1>3, <2>2, <3>1
  <2>3. \A n \in 1..M : n \in T
    <3> HIDE DEF T, M
    <3> QED BY <2>1, <2>2, Descend
  <2> QED BY <2>3
<1> QED BY <1>4

\* What stands in the result, none of it new, stood in s, and not as old.
LEMMA ScanFinds ==
    ASSUME NEW X, NEW s \in Seq(X), NEW old \in Seq(X), old # <<>>,
           NEW new \in Seq(X), new # <<>>, NEW f, Scans(X, s, old, new, f),
           NEW w \in Seq(X), w # <<>>, Foreign(w, new)
    PROVE  \A k \in 1..(Len(s) + 1) : \A i \in 1..Len(f[k]) :
              Continues(f[k], i, w, 1) =>
                  \E j \in 1..Len(s) : Continues(s, j, w, 1) /\ ~StandsAt(s, j, old)
<1> DEFINE L == Len(s)
           found == \E j \in 1..L : Continues(s, j, w, 1) /\ ~StandsAt(s, j, old)
           Is(k) == \A i \in 1..Len(f[k]) : Continues(f[k], i, w, 1) => found
<1>1. L \in Nat /\ Len(w) \in Nat /\ Len(w) > 0 /\ Len(new) \in Nat
      /\ Len(old) \in Nat /\ Len(old) > 0
  OBVIOUS
<1>2. Is(L + 1)
  <2>1. f[L + 1] = <<>>
    BY DEF Scans
  <2>2. 1..Len(f[L + 1]) = {}
    BY <2>1
  <2> QED BY <2>2
<1>3. ASSUME NEW k \in 1..L, \A n \in (k + 1)..(L + 1) : Is(n) PROVE Is(k)
  <2> SUFFICES ASSUME NEW i \in 1..Len(f[k]), Continues(f[k], i, w, 1) PROVE found
    OBVIOUS
  <2>1. f[k][i] = w[1]
    <3>1. 1 \in 1..Len(w) /\ i + 1 - 1 = i
      BY <1>1
    <3> QED BY <3>1 DEF Continues
  <2>2. i + Len(w) - 1 <= Len(f[k]) /\ \A n \in 1..Len(w) : f[k][i + n - 1] = w[n]
    BY DEF Continues
  <2> HIDE DEF found
  <2>3. CASE StandsAt(s, k, old)
    <3> DEFINE n == k + Len(old)
               g == f[n]
    <3>0. Replaces(X, s, old, new, f, k)
      BY <2>3, ScanStep
    <3>1. n \in (k + 1)..(L + 1)
      BY <3>0 DEF Replaces
    <3>2. f[k] = new \o g /\ g \in Seq(X)
      BY <3>0 DEF Replaces
    <3>3. Is(n)
      BY <1>3, <3>1
    <3> HIDE DEF n
    <3>4. \A h \in 1..Len(g) : Continues(g, h, w, 1) => found
      BY <3>3
    <3> HIDE DEF g
    <3>5. /\ Len(f[k]) = Len(new) + Len(g) /\ Len(g) \in Nat
          /\ \A h \in 1..Len(new) : f[k][h] = new[h]
          /\ \A h \in 1..Len(g) : f[k][Len(new) + h] = g[h]
      BY <3>2
    <3>6. ~(i <= Len(new))
      <4>1. CASE i <= Len(new)
        <5>1. i \in 1..Len(new) /\ 1 \in 1..Len(w)
          BY <1>1, <3>5, <4>1
        <5> QED BY <2>1, <3>5, <5>1 DEF Foreign
      <4> QED BY <4>1
    <3> DEFINE h == i - Len(new)
    <3>7. h \in 1..Len(g) /\ h + Len(w) - 1 <= Len(g)
      BY <1>1, <2>2, <3>5, <3>6
    <3>8. ASSUME NEW m \in 1..Len(w) PROVE g[h + m - 1] = w[m]
      <4>1. h + m - 1 \in 1..Len(g) /\ Len(new) + (h + m - 1) = i + m - 1
        BY <1>1, <3>5, <3>7
      <4>2. f[k][i + m - 1] = g[h + m - 1]
        BY <3>5, <4>1
      <4> QED BY <2>2, <4>2
    <3>9. Continues(g, h, w, 1)
      BY <3>7, <3>8 DEF Continues
    <3> QED BY <3>4, <3>7, <3>9
  <2>4. CASE ~StandsAt(s, k, old)
    <3>1. CASE i = 1
      <4>1. Continues(f[k], 1, w, 1) /\ k \in 1..(L + 1) /\ 1 \in 1..(Len(w) + 1)
        BY <1>1, <3>1
      <4>2. Continues(s, k, w, 1)
        BY <4>1, FrontCopied
      <4> QED BY <2>4, <4>2 DEF found
    <3>2. CASE i # 1
      <4> DEFINE g == f[k + 1]
                 h == i - 1
      <4>1. k + 1 \in (k + 1)..(L + 1) /\ k + 1 \in 1..(L + 1)
        BY <1>1
      <4>2. f[k] = <<s[k]>> \o g /\ g \in Seq(X) /\ s[k] \in X
        <5>1. Keeps(X, s, f, k)
          BY <2>4, ScanStep
        <5> QED BY <5>1 DEF Keeps
      <4>3. \A j \in 1..Len(g) : Continues(g, j, w, 1) => found
        BY <1>3, <4>1
      <4> HIDE DEF g
      <4>4. /\ Len(f[k]) = Len(g) + 1 /\ Len(g) \in Nat
            /\ \A j \in 1..Len(g) : f[k][j + 1] = g[j]
        BY <4>2
      <4>5. h \in 1..Len(g) /\ h + Len(w) - 1 <= Len(g)
        BY <1>1, <2>2, <3>2, <4>4
      <4>6. ASSUME NEW m \in 1..Len(w) PROVE g[h + m - 1] = w[m]
        <5>1. h + m - 1 \in 1..Len(g) /\ (h + m - 1) + 1 = i + m - 1
          BY <1>1, <4>4, <4>5
        <5>2. f[k][i + m - 1] = g[h + m - 1]
          BY <4>4, <5>1
        <5> QED BY <2>2, <5>2
      <4>7. Continues(g, h, w, 1)
        BY <4>5, <4>6 DEF Continues
      <4> QED BY <4>3, <4>5, <4>7
    <3> QED BY <3>1, <3>2
  <2> QED BY <2>3, <2>4
<1>4. \A k \in 1..(L + 1) : Is(k)
  <2> HIDE DEF Is
  <2> DEFINE M == L + 1
             T == {k \in 1..M : Is(k)}
  <2>1. M \in Nat /\ M \in T
    BY <1>1, <1>2
  <2>2. ASSUME NEW n \in 1..M, n < M, \A k \in (n + 1)..M : k \in T PROVE n \in T
    <3>1. n \in 1..L
      BY <1>1, <2>2
    <3> QED BY <1>3, <2>2, <3>1
  <2>3. \A n \in 1..M : n \in T
    <3> HIDE DEF T, M
    <3> QED BY <2>1, <2>2, Descend
  <2> QED BY <2>3
<1> QED BY <1>4

\* What was replaced is gone, and what was not there does not come about.
LEMMA Replaced ==
    ASSUME NEW X, NEW s \in Seq(X), NEW old \in Seq(X), old # <<>>,
           NEW new \in Seq(X), new # <<>>
    PROVE  /\ ReplaceEach(s, old, new) \in Seq(X)
           /\ Foreign(old, new) => ~Occurs(old, ReplaceEach(s, old, new))
           /\ \A w \in Seq(X) : w # <<>> /\ Foreign(w, new) /\ ~Occurs(w, s)
                 => ~Occurs(w, ReplaceEach(s, old, new))
<1>1. PICK f : ReplaceEach(s, old, new) = f[1] /\ Scans(X, s, old, new, f)
  BY ReplaceScans
<1>2. 1 \in 1..(Len(s) + 1) /\ f[1] \in Seq(X)
  <2>1. 1 \in 1..(Len(s) + 1)
    OBVIOUS
  <2> QED BY <1>1, <2>1 DEF Scans
<1>3. ASSUME NEW w \in Seq(X), w # <<>>, Foreign(w, new), Occurs(w, f[1])
      PROVE  \E j \in 1..Len(s) : StandsAt(s, j, w) /\ ~StandsAt(s, j, old)
  <2>0. DOMAIN f[1] = 1..Len(f[1])
    <3> DEFINE r == f[1]
    <3>1. r \in Seq(X)
      BY <1>2
    <3> HIDE DEF r
    <3>2. DOMAIN r = 1..Len(r)
      BY <3>1
    <3> QED BY <3>2 DEF r
  <2>1. PICK i \in 1..Len(f[1]) : StandsAt(f[1], i, w)
    BY <1>3, <2>0 DEF Occurs
  <2>2. Continues(f[1], i, w, 1)
    BY <1>2, <2>1, StandsContinues
  <2>3. PICK j \in 1..Len(s) : Continues(s, j, w, 1) /\ ~StandsAt(s, j, old)
    BY <1>1, <1>2, <1>3, <2>2, ScanFinds
  <2>4. StandsAt(s, j, w)
    BY <2>3, StandsContinues
  <2> QED BY <2>3, <2>4
<1>4. Foreign(old, new) => ~Occurs(old, f[1])
  BY <1>3
<1>5. ASSUME NEW w \in Seq(X), w # <<>>, Foreign(w, new), ~Occurs(w, s)
      PROVE  ~Occurs(w, f[1])
  <2>1. DOMAIN s = 1..Len(s)
    OBVIOUS
  <2> QED BY <1>3, <1>5, <2>1 DEF Occurs
<1> QED BY <1>1, <1>2, <1>4, <1>5

\* A piece that is not empty makes the whole not empty.
LEMMA CatNotEmpty ==
    ASSUME NEW X, NEW N \in Nat, NEW F \in Pieces(N, X), NEW i \in 1..N, F[i] # <<>>
    PROVE  Cat(N, F) # <<>>
<1> DEFINE C(n) == Cat(n, F)
           T == {n \in 1..N : C(n) # <<>>}
<1>1. /\ \A n \in 1..N : C(n) = C(n - 1) \o F[n]
      /\ \A n \in 0..N : C(n) \in Seq(X)
  BY CatNext
<1>2. \A n \in 1..N : F[n] \in Seq(X)
  BY DEF Pieces
<1> HIDE DEF C
<1>3. ASSUME NEW n \in 1..N, C(n - 1) # <<>> \/ F[n] # <<>> PROVE C(n) # <<>>
  <2>1. n - 1 \in 0..N
    OBVIOUS
  <2>2. C(n) = C(n - 1) \o F[n] /\ C(n - 1) \in Seq(X) /\ F[n] \in Seq(X)
    BY <1>1, <1>2, <2>1
  <2>3. Len(C(n)) = Len(C(n - 1)) + Len(F[n])
    BY <2>2
  <2>4. Len(C(n - 1)) \in Nat /\ Len(F[n]) \in Nat
    BY <2>2
  <2>5. Len(C(n - 1)) > 0 \/ Len(F[n]) > 0
    BY <1>3, <2>2
  <2>6. Len(C(n)) # 0
    <3> DEFINE p == Len(C(n - 1))
               q == Len(F[n])
               l == Len(C(n))
    <3>1. l = p + q /\ p \in Nat /\ q \in Nat /\ (p > 0 \/ q > 0)
      BY <2>3, <2>4, <2>5
    <3> HIDE DEF p, q, l
    <3>2. l # 0
      BY <3>1
    <3> QED BY <3>2 DEF l
  <2>7. Len(<<>>) = 0
    OBVIOUS
  <2> QED BY <2>6, <2>7
<1>4. i \in T
  BY <1>3
<1>5. ASSUME NEW n \in T, i <= n, n < N PROVE n + 1 \in T
  <2>1. n + 1 \in 1..N /\ (n + 1) - 1 = n
    BY <1>5
  <2>2. C(n + 1) # <<>>
    BY <1>3, <1>5, <2>1
  <2> QED BY <2>1, <2>2
<1>6. N \in T
  <2>1. N \in i..N /\ i \in Nat
    OBVIOUS
  <2> HIDE DEF T
  <2> QED BY <1>4, <1>5, <2>1, Climb
<1> QED BY <1>6 DEF C

\* Escaping adds nothing but backslashes.
LEMMA EscapedIn ==
    ASSUME NEW X, Backslash \in X, NEW v \in Seq(X)
    PROVE  Escaped(v) \in Seq(X) /\ (v # <<>> => Escaped(v) # <<>>)
<1> DEFINE N == Len(v)
           F == [n \in 1..N |-> IF v[n] \in NeedsEscape THEN <<Backslash, v[n]>>
                                ELSE <<v[n]>>]
<1>1. N \in Nat /\ DOMAIN v = 1..N
  OBVIOUS
<1>2. Escaped(v) = Cat(N, F)
  BY <1>1 DEF Escaped
<1>3. ASSUME NEW n \in 1..N PROVE F[n] \in Seq(X) /\ F[n] # <<>>
  <2>1. v[n] \in X
    OBVIOUS
  <2>2. <<Backslash, v[n]>> \in Seq(X) /\ <<v[n]>> \in Seq(X)
    BY <2>1
  <2>3. <<Backslash, v[n]>> # <<>> /\ <<v[n]>> # <<>>
    OBVIOUS
  <2> QED BY <2>2, <2>3
<1>4. F = [n \in 1..N |-> F[n]]
  OBVIOUS
<1>5. v # <<>> => N \in 1..N
  OBVIOUS
<1> HIDE DEF N, F
<1>6. F \in Pieces(N, X)
  BY <1>3, <1>4 DEF Pieces
<1>7. Cat(N, F) \in Seq(X)
  <2>1. N \in 0..N
    BY <1>1
  <2> QED BY <1>1, <1>6, <2>1, CatNext
<1>8. v # <<>> => Cat(N, F) # <<>>
  BY <1>1, <1>3, <1>5, <1>6, CatNotEmpty
<1> QED BY <1>2, <1>7, <1>8

\* An order of a finite set leaves nothing out and has nothing twice.
LEMMA OrderIsOnto ==
    ASSUME NEW S, IsFiniteSet(S), NEW o \in SetToSeqs(S)
    PROVE  /\ o \in Seq(S) /\ \A x \in S : \E n \in 1..Len(o) : o[n] = x
           /\ \A i, j \in 1..Len(o) : i # j => o[i] # o[j]
<1> DEFINE N == Cardinality(S)
<1>1. N \in Nat
  BY FS_CardinalityType
<1>2. o \in [1..N -> S] /\ \A i, j \in 1..N : i # j => o[i] # o[j]
  BY DEF SetToSeqs
<1>3. Cardinality(1..N) = N
  BY <1>1, FS_Interval
<1> HIDE DEF N
<1>4. o \in Injection(1..N, S)
  BY <1>2 DEF Injection, IsInjective
<1>5. o \in Surjection(1..N, S)
  BY <1>3, <1>4, FS_Injection DEF N
<1>6. \A x \in S : \E n \in 1..N : o[n] = x
  BY <1>5 DEF Surjection
<1>7. o \in Seq(S) /\ Len(o) = N
  BY <1>1, <1>2
<1> QED BY <1>2, <1>6, <1>7

-----------------------------------------------------------------------------
(* The masking *)

\* What a response may hold: tokens, raw, in base64 or percent-encoded.
Wire == Plain \cup {<<"percent", t>> : t \in Plain}

\* Tokens of a value that holds no uri.
Free == Token \ KeyURI

\* A turn of maskCredentials takes out the value in both forms, and puts no
\* text without a uri in.
LEMMA MaskedOne ==
    ASSUME NEW X, Token \subseteq X, NEW s \in Seq(X), NEW u \in KeyURI
    PROVE  /\ MaskOne(s, u) \in Seq(X)
           /\ \A w \in Seq(X \ KeyURI) :
                 w # <<>> /\ ~Occurs(w, s) => ~Occurs(w, MaskOne(s, u))
           /\ ValueOf[u] \in Seq(Free) =>
                 /\ ~Occurs(ValueOf[u], MaskOne(s, u))
                 /\ ~Occurs(Escaped(ValueOf[u]), MaskOne(s, u))
<1> DEFINE val == ValueOf[u]
           esc == Escaped(val)
           new == <<u>>
           mid == IF esc = val THEN s ELSE ReplaceEach(s, esc, new)
           end == ReplaceEach(mid, val, new)
<1>1. MaskOne(s, u) = end
  BY DEF MaskOne
<1>2. Backslash \in Token /\ Backslash \notin KeyURI /\ u \in Token
  BY MaskingAssumption, UriAssumption DEF Token
<1>3. val \in Seq(Token) /\ val # <<>>
  BY UriAssumption
<1> HIDE DEF val
<1>4. esc \in Seq(Token) /\ esc # <<>>
  BY <1>2, <1>3, EscapedIn
<1>5. new \in Seq(X) /\ new # <<>>
  BY <1>2
<1>6. val \in Seq(X) /\ esc \in Seq(X)
  BY <1>3, <1>4
<1>7. ASSUME NEW Y, NEW w \in Seq(Y), u \notin Y PROVE Foreign(w, new)
  <2>1. \A i \in 1..Len(w) : w[i] \in Y
    OBVIOUS
  <2>2. \A j \in 1..Len(new) : new[j] = u
    OBVIOUS
  <2> QED BY <1>7, <2>1, <2>2 DEF Foreign
<1> HIDE DEF new, esc
<1>8. mid \in Seq(X)
  BY <1>4, <1>5, <1>6, Replaced
<1>9. ASSUME NEW w \in Seq(X), w # <<>>, Foreign(w, new), ~Occurs(w, s)
      PROVE  ~Occurs(w, mid)
  BY <1>4, <1>5, <1>6, <1>9, Replaced
<1>10. ASSUME esc # val, Foreign(esc, new) PROVE ~Occurs(esc, mid)
  BY <1>4, <1>5, <1>6, <1>10, Replaced
<1> HIDE DEF mid
<1>11. end \in Seq(X)
  BY <1>3, <1>5, <1>6, <1>8, Replaced
<1>12. ASSUME NEW w \in Seq(X), w # <<>>, Foreign(w, new), ~Occurs(w, mid)
       PROVE  ~Occurs(w, end)
  BY <1>3, <1>5, <1>6, <1>8, <1>12, Replaced
<1>13. Foreign(val, new) => ~Occurs(val, end)
  BY <1>3, <1>5, <1>6, <1>8, Replaced
<1> HIDE DEF end
<1>14. ASSUME NEW w \in Seq(X \ KeyURI), w # <<>>, ~Occurs(w, s) PROVE ~Occurs(w, end)
  <2>1. w \in Seq(X)
    OBVIOUS
  <2>2. u \notin X \ KeyURI
    OBVIOUS
  <2>3. Foreign(w, new)
    BY <1>7, <2>2
  <2> QED BY <1>9, <1>12, <1>14, <2>1, <2>3
<1>15. ASSUME val \in Seq(Free) PROVE ~Occurs(val, end) /\ ~Occurs(esc, end)
  <2>1. u \notin Free /\ Backslash \in Free
    BY <1>2 DEF Free
  <2>2. Foreign(val, new)
    BY <1>7, <1>15, <2>1
  <2>3. Foreign(esc, new)
    <3>1. esc \in Seq(Free)
      BY <1>15, <2>1, EscapedIn DEF esc
    <3> QED BY <1>7, <2>1, <3>1
  <2>4. CASE esc = val
    BY <1>13, <2>2, <2>4
  <2>5. CASE esc # val
    BY <1>4, <1>6, <1>10, <1>12, <1>13, <2>2, <2>3, <2>5
  <2> QED BY <2>4, <2>5
<1> QED BY <1>1, <1>11, <1>14, <1>15 DEF val, esc

\* The turns of maskCredentials over the keys in this order.
CredentialTurns(X, s, order, f) ==
    /\ Len(order) \in Nat /\ f[0] = s
    /\ \A n \in 0..Len(order) : f[n] \in Seq(X)
    /\ \A n \in 1..Len(order) : order[n] \in KeyURI /\ f[n] = MaskOne(f[n - 1], order[n])

\* What it returns is what its last turn leaves.
LEMMA CredentialsTurn ==
    ASSUME NEW X, Token \subseteq X, NEW s \in Seq(X), NEW order \in MaskOrders
    PROVE  \E f : MaskCredentials(s, order) = f[Len(order)] /\ CredentialTurns(X, s, order, f)
<1> DEFINE L == Len(order)
           S == Seq(X)
           Is(f) == f = [n \in 0..L |-> IF n = 0 THEN s ELSE MaskOne(f[n - 1], order[n])]
           f == CHOOSE f : Is(f)
           step == [n \in 1..L |-> [t \in S |-> MaskOne(t, order[n])]]
<1>1. order \in Seq(KeyURI)
  <2>1. order \in SetToSeqs(KeyURI) /\ IsFiniteSet(KeyURI)
    BY UriAssumption DEF MaskOrders
  <2> QED BY <2>1, OrderIsOnto
<1>2. L \in Nat /\ \A n \in 1..L : order[n] \in KeyURI
  BY <1>1
<1>3. s \in S /\ \A t \in S, n \in 1..L : MaskOne(t, order[n]) \in S
  BY <1>2, MaskedOne
<1>4. MaskCredentials(s, order) = f[L]
  BY DEF MaskCredentials
<1> HIDE DEF S, L
<1>5. step \in Steps(L, S)
  BY <1>3 DEF Steps
<1>6. PICK g \in [0..L -> S] : g[0] = s /\ \A n \in 1..L : g[n] = step[n][g[n - 1]]
  <2> HIDE DEF step
  <2>1. \E g : Unfolds(g, L, S, s, step)
    BY <1>2, <1>3, <1>5, RecursionExists
  <2> QED BY <2>1 DEF Unfolds
<1>7. Is(g)
  <2>1. ASSUME NEW n \in 0..L, n # 0 PROVE g[n] = MaskOne(g[n - 1], order[n])
    <3>1. n \in 1..L /\ n - 1 \in 0..L
      BY <1>2, <2>1
    <3>2. g[n - 1] \in S
      BY <3>1
    <3> QED BY <1>6, <3>1, <3>2
  <2>2. g = [n \in 0..L |-> g[n]]
    OBVIOUS
  <2> HIDE DEF step
  <2> QED BY <1>6, <2>1, <2>2
<1>8. Is(f)
  <2> HIDE DEF Is
  <2> QED BY <1>7
<1> HIDE DEF f, step
<1>9. f[0] = s /\ \A n \in 1..L : f[n] = MaskOne(f[n - 1], order[n])
  <2>1. 0 \in 0..L /\ \A n \in 1..L : n \in 0..L /\ n # 0
    BY <1>2
  <2> QED BY <1>8, <2>1
<1>10. \A n \in 0..L : f[n] \in S
  <2>1. ASSUME NEW n \in 1..L, f[n - 1] \in S PROVE f[n] \in S
    BY <1>3, <1>9, <2>1
  <2> HIDE DEF Is
  <2> QED BY <1>2, <1>3, <1>9, <2>1, StaysIn
<1>11. CredentialTurns(X, s, order, f)
  BY <1>2, <1>9, <1>10 DEF CredentialTurns, L, S
<1> QED BY <1>4, <1>11 DEF L

\* All its turns do, in any order.
LEMMA MaskedCredentials ==
    ASSUME NEW X, Token \subseteq X, NEW s \in Seq(X), NEW order \in MaskOrders
    PROVE  /\ MaskCredentials(s, order) \in Seq(X)
           /\ \A w \in Seq(X \ KeyURI) :
                 w # <<>> /\ ~Occurs(w, s) => ~Occurs(w, MaskCredentials(s, order))
           /\ \A u \in KeyURI : ValueOf[u] \in Seq(Free) =>
                 /\ ~Occurs(ValueOf[u], MaskCredentials(s, order))
                 /\ ~Occurs(Escaped(ValueOf[u]), MaskCredentials(s, order))
<1> DEFINE L == Len(order)
           S == Seq(X)
<1>1. order \in Seq(KeyURI) /\ \A u \in KeyURI : \E n \in 1..L : order[n] = u
  <2>1. order \in SetToSeqs(KeyURI) /\ IsFiniteSet(KeyURI)
    BY UriAssumption DEF MaskOrders
  <2> QED BY <2>1, OrderIsOnto
<1>2. L \in Nat /\ \A n \in 1..L : order[n] \in KeyURI
  BY <1>1
<1>4. PICK f : MaskCredentials(s, order) = f[L] /\ CredentialTurns(X, s, order, f)
  BY CredentialsTurn
<1> HIDE DEF S, L
<1>9. f[0] = s /\ \A n \in 1..L : f[n] = MaskOne(f[n - 1], order[n])
  BY <1>4 DEF CredentialTurns, L
<1>10. \A n \in 0..L : f[n] \in S
  BY <1>4 DEF CredentialTurns, L, S
<1>11. ASSUME NEW w \in Seq(X \ KeyURI), w # <<>>, NEW i \in 0..L, ~Occurs(w, f[i])
       PROVE  ~Occurs(w, f[L])
  <2> DEFINE T == {n \in 0..L : ~Occurs(w, f[n])}
  <2>1. i \in T /\ i \in Nat /\ L \in i..L
    BY <1>2, <1>11
  <2>2. ASSUME NEW n \in T, i <= n, n < L PROVE n + 1 \in T
    <3>1. n + 1 \in 1..L /\ (n + 1) - 1 = n /\ n \in 0..L /\ n + 1 \in 0..L
      BY <1>2, <2>2
    <3>2. f[n + 1] = MaskOne(f[n], order[n + 1])
      BY <1>9, <3>1
    <3>3. f[n] \in Seq(X) /\ order[n + 1] \in KeyURI
      BY <1>2, <1>10, <3>1 DEF S
    <3>4. ~Occurs(w, MaskOne(f[n], order[n + 1]))
      BY <1>11, <2>2, <3>3, MaskedOne
    <3> QED BY <3>1, <3>2, <3>4
  <2>3. L \in T
    <3> HIDE DEF T
    <3> QED BY <1>2, <2>1, <2>2, Climb
  <2> QED BY <2>3
<1>12. ASSUME NEW w \in Seq(X \ KeyURI), w # <<>>, ~Occurs(w, s) PROVE ~Occurs(w, f[L])
  <2>1. 0 \in 0..L
    BY <1>2
  <2> QED BY <1>9, <1>11, <1>12, <2>1
<1>13. ASSUME NEW u \in KeyURI, ValueOf[u] \in Seq(Free)
       PROVE  ~Occurs(ValueOf[u], f[L]) /\ ~Occurs(Escaped(ValueOf[u]), f[L])
  <2> DEFINE val == ValueOf[u]
             esc == Escaped(val)
  <2>1. PICK n \in 1..L : order[n] = u
    BY <1>1
  <2>2. n \in 0..L /\ n - 1 \in 0..L
    BY <1>2
  <2>3. f[n] = MaskOne(f[n - 1], u) /\ f[n - 1] \in Seq(X)
    BY <1>9, <1>10, <2>1, <2>2 DEF S
  <2>4. ~Occurs(val, f[n]) /\ ~Occurs(esc, f[n])
    BY <1>13, <2>3, MaskedOne
  <2>5. val # <<>>
    BY UriAssumption
  <2>6. Backslash \in Free
    BY MaskingAssumption, UriAssumption DEF Free, Token
  <2>7. esc \in Seq(Free) /\ esc # <<>> /\ val \in Seq(Free)
    BY <1>13, <2>5, <2>6, EscapedIn
  <2> HIDE DEF val, esc
  <2>8. Free \subseteq X \ KeyURI
    BY DEF Free
  <2>9. esc \in Seq(X \ KeyURI) /\ val \in Seq(X \ KeyURI)
    BY <2>7, <2>8
  <2>10. ~Occurs(val, f[L]) /\ ~Occurs(esc, f[L])
    BY <1>11, <2>2, <2>4, <2>5, <2>7, <2>9
  <2> QED BY <2>10 DEF val, esc
<1>14. f[L] \in Seq(X)
  BY <1>2, <1>10 DEF S
<1> QED BY <1>4, <1>12, <1>13, <1>14

\* A transform has a uri for an argument, so its output is not empty.
LEMMA CallNotEmpty ==
    ASSUME NEW s \in Seq(Token), NEW m \in Matches(s), m.call
    PROVE  Resolve(m) # <<>>
<1> DEFINE value(a) == IF a.isURI THEN ValueOf[a.value[1]] ELSE a.value
           F == [n \in DOMAIN m.args |-> value(m.args[n])]
           N == Len(m.args)
<1>1. m.call = TRUE /\ m.args \in Seq(Args)
  BY MatchKinds
<1>2. Resolve(m) = Encoded(Cat(N, F))
  BY <1>1 DEF Resolve
<1>3. HasURI(m)
  <2>1. CASE m \in WithURI(s)
    BY <2>1 DEF WithURI
  <2>2. CASE m \in Outside(s)
    <3>1. PICK k \in DOMAIN s : m = UriMatch(s, k)
      BY <2>2 DEF Outside
    <3> QED BY <1>1, <3>1 DEF UriMatch, Match
  <2> QED BY <2>1, <2>2 DEF Matches
<1>4. ASSUME NEW a \in Args
      PROVE  value(a) \in Seq(Token) /\ (a.isURI => value(a) # <<>>)
  <2>1. CASE \E u \in KeyURI : a = Arg(TRUE, <<u>>)
    <3>1. PICK u \in KeyURI : a = Arg(TRUE, <<u>>)
      BY <2>1
    <3>2. value(a) = ValueOf[u]
      BY <3>1 DEF Arg
    <3> QED BY <3>2, UriAssumption
  <2>2. CASE \E w \in Seq(Token) : a = Arg(FALSE, w)
    <3>1. PICK w \in Seq(Token) : a = Arg(FALSE, w)
      BY <2>2
    <3>2. value(a) = w /\ ~a.isURI
      BY <3>1 DEF Arg
    <3> QED BY <3>2
  <2> QED BY <2>1, <2>2 DEF Args
<1>5. PICK i \in 1..N : m.args[i].isURI
  BY <1>1, <1>3 DEF HasURI
<1>6. N \in Nat /\ DOMAIN m.args = 1..N /\ \A n \in 1..N : m.args[n] \in Args
  BY <1>1
<1>7. F \in [1..N -> Seq(Token)] /\ F[i] # <<>>
  <2> HIDE DEF value, N
  <2>1. \A n \in 1..N : F[n] = value(m.args[n])
    BY <1>6
  <2> QED BY <1>4, <1>5, <1>6, <2>1
<1> HIDE DEF F, N
<1>8. Cat(N, F) \in Seq(Token) /\ Cat(N, F) # <<>>
  <2>1. F \in Pieces(N, Token) /\ N \in 0..N
    BY <1>6, <1>7 DEF Pieces
  <2> QED BY <1>6, <1>7, <2>1, CatNext, CatNotEmpty
<1>9. DOMAIN Cat(N, F) # {}
  <2> DEFINE t == Cat(N, F)
  <2>1. t \in Seq(Token) /\ t # <<>>
    BY <1>8
  <2> HIDE DEF t
  <2>2. 1 \in DOMAIN t
    BY <2>1
  <2> QED BY <2>2 DEF t
<1>10. DOMAIN Resolve(m) = DOMAIN Cat(N, F)
  BY <1>2 DEF Encoded
<1> QED BY <1>9, <1>10

\* The outputs are base64, their templates are not, and neither is empty.
LEMMA OutputsAre ==
    ASSUME NEW s \in Seq(Token)
    PROVE  /\ IsFiniteSet(Outputs(s))
           /\ \A o \in Outputs(s) :
                 /\ o[1] \in Seq(Coded) /\ o[1] # <<>>
                 /\ o[2] \in Seq(Token) /\ o[2] # <<>>
<1> DEFINE ms == FindAll(s)
           calls == {n \in DOMAIN ms : ms[n].call}
           last == {n \in calls : \A k \in calls : k > n => Resolve(ms[k]) # Resolve(ms[n])}
           out(n) == <<Resolve(ms[n]), SubSeq(s, ms[n].start, ms[n].end)>>
<1>1. ms \in Seq(Matches(s))
  BY AllFound
<1>2. Outputs(s) = {out(n) : n \in last}
  BY DEF Outputs, OutputsOf
<1>3. last \subseteq DOMAIN ms /\ \A n \in last : ms[n].call
  OBVIOUS
<1> HIDE DEF last, ms
<1>4. DOMAIN ms = 1..Len(ms) /\ Len(ms) \in Nat
  BY <1>1
<1>5. IsFiniteSet(last)
  <2>1. IsFiniteSet(1..Len(ms))
    BY <1>4, FS_Interval
  <2> QED BY <1>3, <1>4, <2>1, FS_Subset
<1>6. IsFiniteSet(Outputs(s))
  <2> DEFINE f == [n \in last |-> out(n)]
             T == {out(n) : n \in last}
  <2>1. f \in Surjection(last, T)
    <3> HIDE DEF out
    <3> QED BY DEF Surjection
  <2> HIDE DEF f, T
  <2>2. IsFiniteSet(T)
    BY <1>5, <2>1, FS_Surjection
  <2> QED BY <1>2, <2>2 DEF T
<1>7. ASSUME NEW o \in Outputs(s)
      PROVE  /\ o[1] \in Seq(Coded) /\ o[1] # <<>>
             /\ o[2] \in Seq(Token) /\ o[2] # <<>>
  <2>1. PICK n \in last : o = out(n)
    BY <1>2
  <2> DEFINE m == ms[n]
  <2>2. o[1] = Resolve(m) /\ o[2] = SubSeq(s, m.start, m.end)
    BY <2>1
  <2>3. m \in Matches(s) /\ m.call
    BY <1>1, <1>3
  <2> HIDE DEF m
  <2>4. m.start \in 1..Len(s) /\ m.end \in m.start..Len(s)
    BY <2>3, MatchesPlaced DEF Placed
  <2>5. SubSeq(s, m.start, m.end) \in Seq(Token)
        /\ Len(SubSeq(s, m.start, m.end)) = m.end - m.start + 1
    BY <2>4
  <2>6. SubSeq(s, m.start, m.end) # <<>>
    <3>1. Len(SubSeq(s, m.start, m.end)) # 0
      BY <2>4, <2>5
    <3>2. Len(<<>>) = 0
      OBVIOUS
    <3> QED BY <3>1, <3>2
  <2> QED BY <2>2, <2>3, <2>5, <2>6, Resolved, CallNotEmpty
<1> QED BY <1>6, <1>7

\* The turns of maskTransformOutputs over the outputs in this order.
OutputTurns(X, s, order, f) ==
    /\ Len(order) \in Nat /\ f[0] = s
    /\ \A n \in 0..Len(order) : f[n] \in Seq(X)
    /\ \A n \in 1..Len(order) : f[n] = ReplaceEach(f[n - 1], order[n][1], order[n][2])

\* What it returns is what its last turn leaves.
LEMMA OutputsTurn ==
    ASSUME NEW X, Plain \subseteq X, NEW s \in Seq(X), NEW t \in Seq(Token),
           NEW order \in SetToSeqs(Outputs(t))
    PROVE  \E f : MaskOutputs(s, order) = f[Len(order)] /\ OutputTurns(X, s, order, f)
<1> DEFINE L == Len(order)
           S == Seq(X)
           O == Outputs(t)
           one(r, n) == ReplaceEach(r, order[n][1], order[n][2])
           Is(f) == f = [n \in 0..L |-> IF n = 0 THEN s
                                        ELSE ReplaceEach(f[n - 1], order[n][1], order[n][2])]
           f == CHOOSE f : Is(f)
           step == [n \in 1..L |-> [r \in S |-> one(r, n)]]
<1>1. order \in Seq(O)
  BY OutputsAre, OrderIsOnto
<1>2. L \in Nat /\ \A n \in 1..L : order[n] \in O
  BY <1>1
<1>3. ASSUME NEW o \in O
      PROVE  /\ o[1] \in Seq(X) /\ o[1] # <<>> /\ o[2] \in Seq(X) /\ o[2] # <<>>
  <2>1. Coded \subseteq X /\ Token \subseteq X
    BY DEF Coded, Plain
  <2> QED BY <2>1, OutputsAre
<1>5. MaskOutputs(s, order) = f[L]
  BY DEF MaskOutputs
<1> HIDE DEF O
<1>6. ASSUME NEW r \in Seq(X), NEW n \in 1..L PROVE one(r, n) \in Seq(X)
  <2> DEFINE p == order[n]
  <2>1. p \in O
    BY <1>2
  <2> HIDE DEF p
  <2>2. p[1] \in Seq(X) /\ p[1] # <<>> /\ p[2] \in Seq(X) /\ p[2] # <<>>
    BY <1>3, <2>1
  <2>3. ReplaceEach(r, p[1], p[2]) \in Seq(X)
    BY <2>2, Replaced
  <2> QED BY <2>3 DEF p
<1> HIDE DEF S, L
<1>7. s \in S /\ \A r \in S, n \in 1..L : one(r, n) \in S
  BY <1>6 DEF S
<1>8. step \in Steps(L, S)
  <2> HIDE DEF one
  <2> QED BY <1>7 DEF Steps
<1>9. PICK g \in [0..L -> S] : g[0] = s /\ \A n \in 1..L : g[n] = step[n][g[n - 1]]
  <2> HIDE DEF step, one, f, Is
  <2>1. L \in Nat /\ s \in S
    BY <1>2, <1>7
  <2>2. \E g : Unfolds(g, L, S, s, step)
    BY <1>8, <2>1, RecursionExists
  <2> QED BY <2>2 DEF Unfolds
<1>10. Is(g)
  <2>1. ASSUME NEW n \in 0..L, n # 0 PROVE g[n] = one(g[n - 1], n)
    <3> HIDE DEF one
    <3>1. n \in 1..L /\ n - 1 \in 0..L
      BY <1>2, <2>1
    <3>2. g[n - 1] \in S
      BY <3>1
    <3> QED BY <1>9, <3>1, <3>2
  <2>2. g = [n \in 0..L |-> g[n]]
    OBVIOUS
  <2> HIDE DEF step
  <2> QED BY <1>9, <2>1, <2>2
<1>11. Is(f)
  <2> HIDE DEF Is
  <2> QED BY <1>10
<1> HIDE DEF f, step
<1>12. f[0] = s /\ \A n \in 1..L : f[n] = one(f[n - 1], n)
  <2>1. 0 \in 0..L /\ \A n \in 1..L : n \in 0..L /\ n # 0
    BY <1>2
  <2> QED BY <1>11, <2>1
<1> HIDE DEF Is, one
<1>13. \A n \in 0..L : f[n] \in S
  <2>1. ASSUME NEW n \in 1..L, f[n - 1] \in S PROVE f[n] \in S
    BY <1>7, <1>12, <2>1
  <2> QED BY <1>2, <1>7, <1>12, <2>1, StaysIn
<1>14. OutputTurns(X, s, order, f)
  BY <1>2, <1>12, <1>13 DEF OutputTurns, L, S, one
<1> QED BY <1>5, <1>14 DEF L

\* maskTransformOutputs takes out every output, in any order.
LEMMA MaskedOutputs ==
    ASSUME NEW X, Plain \subseteq X, NEW s \in Seq(X), NEW t \in Seq(Token),
           NEW order \in SetToSeqs(Outputs(t))
    PROVE  /\ MaskOutputs(s, order) \in Seq(X)
           /\ \A o \in Outputs(t) : ~Occurs(o[1], MaskOutputs(s, order))
<1> DEFINE L == Len(order)
           S == Seq(X)
           O == Outputs(t)
           one(r, n) == ReplaceEach(r, order[n][1], order[n][2])
<1>1. order \in Seq(O) /\ \A o \in O : \E n \in 1..L : order[n] = o
  BY OutputsAre, OrderIsOnto
<1>2. L \in Nat /\ \A n \in 1..L : order[n] \in O
  BY <1>1
<1>3. ASSUME NEW o \in O
      PROVE  /\ o[1] \in Seq(X) /\ o[1] # <<>> /\ o[2] \in Seq(X) /\ o[2] # <<>>
             /\ o[1] \in Seq(Coded) /\ o[2] \in Seq(Token)
  <2>1. Coded \subseteq X /\ Token \subseteq X
    BY DEF Coded, Plain
  <2> QED BY <2>1, OutputsAre
<1>4. ASSUME NEW o \in O, NEW p \in O PROVE Foreign(o[1], p[2])
  <2>1. \A i \in 1..Len(o[1]) : o[1][i] \in Coded
    BY <1>3
  <2>2. \A j \in 1..Len(p[2]) : p[2][j] \in Token
    BY <1>3
  <2>3. Coded \cap Token = {}
    BY UriAssumption DEF Coded
  <2> QED BY <2>1, <2>2, <2>3 DEF Foreign
<1>5. PICK f : MaskOutputs(s, order) = f[L] /\ OutputTurns(X, s, order, f)
  BY OutputsTurn
<1> HIDE DEF O
<1>6. ASSUME NEW r \in Seq(X), NEW n \in 1..L
      PROVE  /\ one(r, n) \in Seq(X) /\ ~Occurs(order[n][1], one(r, n))
             /\ \A o \in O : ~Occurs(o[1], r) => ~Occurs(o[1], one(r, n))
  <2> DEFINE p == order[n]
  <2>1. p \in O
    BY <1>2
  <2> HIDE DEF p
  <2>2. p[1] \in Seq(X) /\ p[1] # <<>> /\ p[2] \in Seq(X) /\ p[2] # <<>>
    BY <1>3, <2>1
  <2>3. ReplaceEach(r, p[1], p[2]) \in Seq(X) /\ ~Occurs(p[1], ReplaceEach(r, p[1], p[2]))
    BY <1>4, <2>1, <2>2, Replaced
  <2>4. ASSUME NEW o \in O, ~Occurs(o[1], r)
        PROVE  ~Occurs(o[1], ReplaceEach(r, p[1], p[2]))
    <3>1. o[1] \in Seq(X) /\ o[1] # <<>> /\ Foreign(o[1], p[2])
      BY <1>3, <1>4, <2>1
    <3> QED BY <2>2, <2>4, <3>1, Replaced
  <2> QED BY <2>3, <2>4 DEF p
<1> HIDE DEF S, L
<1>12. \A n \in 1..L : f[n] = one(f[n - 1], n)
  BY <1>5 DEF OutputTurns, L
<1>13. \A n \in 0..L : f[n] \in S
  BY <1>5 DEF OutputTurns, L, S
<1> HIDE DEF one
<1>14. ASSUME NEW o \in O PROVE ~Occurs(o[1], f[L])
  <2> DEFINE T == {n \in 0..L : ~Occurs(o[1], f[n])}
  <2>1. PICK i \in 1..L : order[i] = o
    BY <1>1 DEF L, O
  <2>2. i \in T /\ i \in Nat /\ L \in i..L
    <3>1. i - 1 \in 0..L /\ i \in 0..L /\ f[i - 1] \in Seq(X)
      BY <1>2, <1>13 DEF S
    <3>2. ~Occurs(o[1], f[i])
      BY <1>6, <1>12, <2>1, <3>1
    <3> QED BY <1>2, <3>1, <3>2
  <2>3. ASSUME NEW n \in T, i <= n, n < L PROVE n + 1 \in T
    <3>1. n + 1 \in 1..L /\ (n + 1) - 1 = n /\ n \in 0..L /\ n + 1 \in 0..L
      BY <1>2, <2>3
    <3>2. f[n + 1] = one(f[n], n + 1) /\ f[n] \in Seq(X)
      BY <1>12, <1>13, <3>1 DEF S
    <3>3. ~Occurs(o[1], one(f[n], n + 1))
      BY <1>6, <2>3, <3>1, <3>2
    <3> QED BY <3>1, <3>2, <3>3
  <2>4. L \in T
    <3> HIDE DEF T
    <3> QED BY <1>2, <2>2, <2>3, Climb
  <2> QED BY <2>4
<1>15. f[L] \in Seq(X)
  BY <1>2, <1>13 DEF S
<1> QED BY <1>5, <1>14, <1>15 DEF O

\* What is decoded has no percent-encoding left.
LEMMA DecodedIs ==
    /\ \A s \in Seq(Wire) : Decoded(s) \in Seq(Plain)
    /\ \A s \in Seq(Plain) : Decoded(s) = s
<1>1. ASSUME NEW s \in Seq(Wire) PROVE Decoded(s) \in Seq(Plain)
  <2>1. Decoded(s) = [k \in 1..Len(s) |-> IF s[k] \in Plain THEN s[k] ELSE s[k][2]]
    BY DEF Decoded
  <2>2. ASSUME NEW k \in 1..Len(s)
        PROVE  (IF s[k] \in Plain THEN s[k] ELSE s[k][2]) \in Plain
    <3>1. s[k] \in Wire
      OBVIOUS
    <3>2. CASE s[k] \in Plain
      BY <3>2
    <3>3. CASE s[k] \notin Plain
      <4>1. PICK t \in Plain : s[k] = <<"percent", t>>
        BY <3>1, <3>3 DEF Wire
      <4> QED BY <3>3, <4>1
    <3> QED BY <3>2, <3>3
  <2> QED BY <2>1, <2>2
<1>2. ASSUME NEW s \in Seq(Plain) PROVE Decoded(s) = s
  <2>1. Decoded(s) = [k \in 1..Len(s) |-> IF s[k] \in Plain THEN s[k] ELSE s[k][2]]
    BY DEF Decoded
  <2>2. s = [k \in 1..Len(s) |-> s[k]]
    OBVIOUS
  <2>3. \A k \in 1..Len(s) : s[k] \in Plain
    OBVIOUS
  <2> QED BY <2>1, <2>2, <2>3
<1> QED BY <1>1, <1>2

\* One round: the outputs first, then the credentials.
LEMMA MaskedRound ==
    ASSUME NEW X, Plain \subseteq X, NEW s \in Seq(X), NEW t \in Seq(Token),
           NEW o \in SetToSeqs(Outputs(t)), NEW c \in MaskOrders
    PROVE  /\ MaskCredentials(MaskOutputs(s, o), c) \in Seq(X)
           /\ \A w \in Secrets(Outputs(t)) : ~Occurs(w, MaskCredentials(MaskOutputs(s, o), c))
<1> DEFINE r == MaskOutputs(s, o)
           e == MaskCredentials(r, c)
<1>1. Token \subseteq X /\ Coded \subseteq X \ KeyURI
  BY UriAssumption DEF Plain, Coded, Token
<1>2. r \in Seq(X) /\ \A p \in Outputs(t) : ~Occurs(p[1], r)
  BY MaskedOutputs
<1> HIDE DEF r
<1>3. /\ e \in Seq(X)
      /\ \A w \in Seq(X \ KeyURI) : w # <<>> /\ ~Occurs(w, r) => ~Occurs(w, e)
      /\ \A u \in KeyURI : ValueOf[u] \in Seq(Free) =>
            ~Occurs(ValueOf[u], e) /\ ~Occurs(Escaped(ValueOf[u]), e)
  BY <1>1, <1>2, MaskedCredentials
<1> HIDE DEF e
<1>4. ASSUME NEW v \in Credentials PROVE ~Occurs(v, e) /\ ~Occurs(Escaped(v), e)
  <2>1. PICK u \in KeyURI :
           v = ValueOf[u] /\ \A n \in DOMAIN ValueOf[u] : ValueOf[u][n] \notin KeyURI
    BY DEF Credentials
  <2>2. ValueOf[u] \in Seq(Token)
    BY UriAssumption
  <2>3. ValueOf[u] \in Seq(Free)
    <3> DEFINE val == ValueOf[u]
    <3>1. val \in Seq(Token) /\ \A n \in DOMAIN val : val[n] \notin KeyURI
      BY <2>1, <2>2
    <3> HIDE DEF val
    <3>2. \A n \in 1..Len(val) : val[n] \in Free
      BY <3>1 DEF Free
    <3>3. val \in Seq(Free)
      BY <3>1, <3>2
    <3> QED BY <3>3 DEF val
  <2> QED BY <1>3, <2>1, <2>3
<1>5. ASSUME NEW p \in Outputs(t) PROVE ~Occurs(p[1], e)
  <2>1. p[1] \in Seq(Coded) /\ p[1] # <<>>
    BY OutputsAre
  <2>2. p[1] \in Seq(X \ KeyURI)
    BY <1>1, <2>1
  <2> QED BY <1>2, <1>3, <2>1, <2>2
<1>6. \A w \in Secrets(Outputs(t)) : ~Occurs(w, e)
  BY <1>4, <1>5 DEF Secrets
<1> QED BY <1>3, <1>6 DEF e, r

\* maskCredentials, maskTransformOutputs and maskPercentEncoded, on a body or a
\* header value of which each token stands as it is or percent-encoded once, in
\* whatever order the maps are gone through: no value and no output of a
\* transform is left in what the agent gets, and none appears if it decodes that.
\* Of a response with several layers of percent-encoding this is not so: one of
\* them is decoded, and what is masked then is returned with the others.
THEOREM MaskedClean ==
    ASSUME NEW s \in Seq(Wire), NEW t \in Seq(Token), NEW r \in Maskings(s, Outputs(t))
    PROVE  Clean(r, Secrets(Outputs(t)))
<1>1. PICK o1 \in SetToSeqs(Outputs(t)), o2 \in SetToSeqs(Outputs(t)),
           c1 \in MaskOrders, c2 \in MaskOrders :
             r = MaskPercent(MaskCredentials(MaskOutputs(s, o1), c1), o2, c2)
  BY DEF Maskings
<1> DEFINE e == MaskCredentials(MaskOutputs(s, o1), c1)
           d == Decoded(e)
           masked == MaskCredentials(MaskOutputs(d, o2), c2)
<1>2. e \in Seq(Wire) /\ \A w \in Secrets(Outputs(t)) : ~Occurs(w, e)
  <2>1. Plain \subseteq Wire
    BY DEF Wire
  <2> QED BY <2>1, MaskedRound
<1>3. r = IF e # d /\ masked # d THEN masked ELSE e
  BY <1>1 DEF MaskPercent
<1> HIDE DEF e
<1>4. d \in Seq(Plain)
  BY <1>2, DecodedIs
<1>5. d = Decoded(e)
  OBVIOUS
<1> HIDE DEF d
<1>6. masked \in Seq(Plain) /\ \A w \in Secrets(Outputs(t)) : ~Occurs(w, masked)
  BY <1>4, MaskedRound
<1> HIDE DEF masked
<1>7. CASE e # d /\ masked # d
  BY <1>3, <1>6, <1>7, DecodedIs DEF Clean
<1>8. CASE e # d /\ masked = d
  BY <1>2, <1>3, <1>5, <1>6, <1>8 DEF Clean
<1>9. CASE e = d
  BY <1>2, <1>3, <1>5, <1>9 DEF Clean
<1> QED BY <1>7, <1>8, <1>9
-----------------------------------------------------------------------------
(* The theorems *)

EchoTypeOK == field \in Seq(Token) /\ pieces \in 0..MaxPieces

\* An agent writes tokens, and only so often.
THEOREM EchoType == EchoSpec => []EchoTypeOK
<1>1. EchoInit => EchoTypeOK
  BY EchoAssumption DEF EchoInit, EchoTypeOK
<1>2. EchoTypeOK /\ [EchoNext]_echoVars => EchoTypeOK'
  <2> SUFFICES ASSUME EchoTypeOK, [EchoNext]_echoVars PROVE EchoTypeOK'
    OBVIOUS
  <2>1. ASSUME NEW p \in Piece, Write(p) PROVE EchoTypeOK'
    <3>1. p \in Seq(Token)
      BY EchoAssumption
    <3>2. field \o p \in Seq(Token)
      BY <3>1 DEF EchoTypeOK
    <3> QED BY <2>1, <3>2, EchoAssumption DEF Write, EchoTypeOK
  <2>2. CASE UNCHANGED echoVars
    BY <2>2 DEF echoVars, EchoTypeOK
  <2> QED BY <2>1, <2>2 DEF EchoNext
<1> QED BY <1>1, <1>2, PTL DEF EchoSpec

\* What ReplaceBytes sends is the field read once, each match resolved where it
\* stands: the two passes over the sorted matches agree with each other.
THEOREM EchoSentAsOnePass == EchoSpec => []SentAsOnePass
<1>1. EchoTypeOK => SentAsOnePass
  <2> SUFFICES ASSUME EchoTypeOK PROVE SentAsOnePass
    OBVIOUS
  <2>1. field \in Seq(Token)
    BY DEF EchoTypeOK
  <2>2. Sent = Cat(Len(field), SentPieces(field))
    BY <2>1, BytesReplaced DEF Sent
  <2>3. OnePass(Put, Self) = Cat(Len(field), SentPieces(field))
    <3>1. Found = Matches(field)
      BY <2>1, AllFound DEF Found
    <3> QED BY <3>1 DEF OnePass, SentPieces, Put
  <2> QED BY <2>2, <2>3 DEF SentAsOnePass
<1> QED BY <1>1, EchoType, PTL

\* Replace and ReplaceBytes agree wherever the matches were found from left to
\* right.
THEOREM EchoReplaceAgrees == EchoSpec => []ReplaceAgrees
<1>1. EchoTypeOK => ReplaceAgrees
  <2> SUFFICES ASSUME EchoTypeOK,
                      \A n \in 1..(Len(FindAll(field)) - 1) :
                         FindAll(field)[n].start < FindAll(field)[n + 1].start
               PROVE  Replace(field) = Sent
    BY DEF ReplaceAgrees
  <2>1. field \in Seq(Token)
    BY DEF EchoTypeOK
  <2> QED BY <2>1, BytesReplaced, StringReplaced DEF Sent
<1> QED BY <1>1, EchoType, PTL

\* No uri of the field is sent: one in what is sent came out of a value.
THEOREM EchoNoUriSent == EchoSpec => []NoUriSent
<1> DEFINE X == InValues \cup Coded \cup (Token \ KeyURI)
<1>1. EchoTypeOK => NoUriSent
  <2> SUFFICES ASSUME EchoTypeOK, NEW k \in DOMAIN Sent, Sent[k] \in KeyURI
               PROVE  \E u \in KeyURI :
                         \E n \in DOMAIN ValueOf[u] : ValueOf[u][n] = Sent[k]
    BY DEF NoUriSent
  <2>1. field \in Seq(Token) /\ Len(field) \in Nat
    BY DEF EchoTypeOK
  <2>2. SentPieces(field) \in Pieces(Len(field), X)
    <3>1. ASSUME NEW m \in Matches(field) PROVE Resolve(m) \in Seq(X)
      <4>1. Resolve(m) \in Seq(InValues \cup Coded)
        BY <2>1, ResolvedIn
      <4> QED BY <4>1
    <3>2. \A t \in Token : t \notin KeyURI => t \in X
      OBVIOUS
    <3> HIDE DEF X
    <3> QED BY <2>1, <3>1, <3>2, SentPiecesIn
  <2>3. Sent \in Seq(X)
    <3>1. Sent = Cat(Len(field), SentPieces(field))
      BY <2>1, BytesReplaced DEF Sent
    <3> HIDE DEF X
    <3>2. \A n \in 0..Len(field) : Cat(n, SentPieces(field)) \in Seq(X)
      BY <2>1, <2>2, CatNext
    <3> QED BY <2>1, <3>1, <3>2
  <2>4. Sent[k] \in X
    BY <2>3
  <2>5. Sent[k] \notin Coded
    BY UriAssumption DEF Coded, Token
  <2> QED BY <2>4, <2>5 DEF InValues
<1> QED BY <1>1, EchoType, PTL

\* An echo of the field, plain, in JSON or percent-encoded, gives no value and no
\* output of a transform back, in whatever order the maps are gone through.
THEOREM EchoNothingLeft == EchoSpec => []NothingLeft
<1>1. EchoTypeOK => NothingLeft
  <2> SUFFICES ASSUME EchoTypeOK, NEW echo \in Echoes(Sent),
                      NEW r \in Maskings(echo, Outputs(field))
               PROVE  Clean(r, Secrets(Outputs(field)))
    BY DEF NothingLeft
  <2>1. field \in Seq(Token) /\ Len(field) \in Nat /\ Len(field) \in 0..Len(field)
    BY DEF EchoTypeOK
  <2>2. Covers(field, SortedMatches(field), SentPieces(field), Plain)
    BY <2>1, SortedListed, PassCovers
  <2>3. Sent \in Seq(Plain)
    <3>1. SentPieces(field) \in Pieces(Len(field), Plain)
      BY <2>2 DEF Covers
    <3>2. \A n \in 0..Len(field) : Cat(n, SentPieces(field)) \in Seq(Plain)
      BY <2>1, <3>1, CatNext
    <3>3. Sent = Cat(Len(field), SentPieces(field))
      BY <2>1, BytesReplaced DEF Sent
    <3> QED BY <2>1, <3>2, <3>3
  <2>4. Plain \subseteq Wire
    BY DEF Wire
  <2> DEFINE t == Sent
  <2> HIDE DEF t
  <2>5. t \in Seq(Plain)
    BY <2>3 DEF t
  <2>6. Escaped(t) \in Seq(Plain)
    <3>1. Backslash \in Plain
      BY MaskingAssumption DEF Plain, Token
    <3> QED BY <2>5, <3>1, EscapedIn
  <2>7. Percent(t) \in Seq(Wire)
    <3>1. Percent(t) = [k \in 1..Len(t) |-> <<"percent", t[k]>>]
      BY <2>5 DEF Percent
    <3>2. \A k \in 1..Len(t) : <<"percent", t[k]>> \in Wire
      BY <2>5 DEF Wire
    <3> QED BY <2>5, <3>1, <3>2
  <2>8. echo \in Seq(Wire)
    <3>1. echo = t \/ echo = Escaped(t) \/ echo = Percent(t)
      BY DEF Echoes, t
    <3> QED BY <2>4, <2>5, <2>6, <2>7, <3>1
  <2> QED BY <2>1, <2>8, MaskedClean
<1> QED BY <1>1, EchoType, PTL
=============================================================================
