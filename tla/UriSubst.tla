------------------------------ MODULE UriSubst ------------------------------
(***************************************************************************)
(* internal/uri: where the placeholders of a text are, and the text with   *)
(* values in their place.                                                  *)
(*                                                                         *)
(* A text is a sequence of tokens with blanks between them: key uris, the  *)
(* marks `{{', `}}', `base64(', `)', a quote, a line break, and words.     *)
(* Blanks carry no meaning to the code but in a regular expression whose   *)
(* `.' stops at a line break, which is why that is a token.  The comma     *)
(* between arguments may be left out, and is.  base64 is the only          *)
(* transform; a group of three bytes is one token of a value, and encodes  *)
(* to one.                                                                 *)
(***************************************************************************)
EXTENDS Integers, Sequences, FiniteSets, SequencesExt

CONSTANTS
    KeyURI,    \* key-rest://... as tokens
    Open,      \* {{
    Close,     \* }}
    Call,      \* base64(
    Paren,     \* )
    Quote,
    NewLine,
    Word,      \* any other tokens
    ValueOf    \* what the resolver returns for each uri: a sequence of tokens

Mark  == {Open, Close, Call, Paren, Quote, NewLine}
Token == KeyURI \cup Mark \cup Word

\* A token in base64, which is no other token.
Code(t) == <<"base64", t>>
Plain   == Token \cup {Code(t) : t \in Token}

ASSUME UriAssumption ==
    /\ KeyURI \cap Mark = {} /\ (KeyURI \cup Mark) \cap Word = {}
    /\ IsInjective(<<Open, Close, Call, Paren, Quote, NewLine>>) /\ IsFiniteSet(KeyURI)
    /\ \A u \in KeyURI : ValueOf[u] \in Seq(Token) /\ ValueOf[u] # <<>>
    /\ \A t \in Token : Code(t) \notin Token

\* The first n of the sequences of F, one behind the other.
Cat(n, F) ==
    LET to[k \in 0..n] == IF k = 0 THEN <<>> ELSE to[k - 1] \o F[k]
    IN to[n]
-----------------------------------------------------------------------------
(* FindAll *)

Between(i, j) == (i + 1)..(j - 1)

\* From `{{' at i to the next `}}' at j, with line breaks only next to them.
Spans(s, i, j) ==
    /\ s[i] = Open /\ s[j] = Close /\ i < j
    /\ \A k \in Between(i, j) : s[k] # Close
    /\ \A k, l, m \in Between(i, j) :
          s[k] # NewLine /\ s[l] = NewLine /\ s[m] # NewLine
              => ~(k < l /\ l < m)

\* What enclosedRe finds: the leftmost `{{' that has a `}}', and on behind it.
Enclosed(s) ==
    {p \in (DOMAIN s) \X (DOMAIN s) :
        Spans(s, p[1], p[2]) /\ \A h \in 1..(p[1] - 1) : ~Spans(s, h, p[2])}

Inner(s, i, j) ==
    Cat(j - i - 1, [k \in 1..(j - i - 1) |-> IF s[i + k] = NewLine THEN <<>>
                                             ELSE <<s[i + k]>>])

Arg(isURI, val) == [isURI |-> isURI, value |-> val]

\* parseArgs: uris and literals in quotes, up to anything else.
ParseArgs(t) ==
    LET closing(k) == {m \in (k + 1)..Len(t) : t[m] = Quote}
        next(p) ==
            IF p.at > Len(t) THEN p
            ELSE IF t[p.at] \in KeyURI
            THEN [at |-> p.at + 1, args |-> Append(p.args, Arg(TRUE, <<t[p.at]>>))]
            ELSE IF t[p.at] = Quote /\ closing(p.at) # {}
            THEN LET m == CHOOSE m \in closing(p.at) : \A l \in closing(p.at) : m <= l
                 IN [at   |-> m + 1,
                     args |-> Append(p.args, Arg(FALSE, SubSeq(t, p.at + 1, m - 1)))]
            ELSE p
        turn[n \in 0..Len(t)] ==
            IF n = 0 THEN [at |-> 1, args |-> <<>>] ELSE next(turn[n - 1])
    IN turn[Len(t)].args

\* transformRe
IsCall(t) == Len(t) > 1 /\ t[1] = Call /\ t[Len(t)] = Paren

Match(i, j, call, args) == [start |-> i, end |-> j, call |-> call, args |-> args]

UriMatch(s, k) == Match(k, k, FALSE, <<Arg(TRUE, <<s[k]>>)>>)

\* The match from i to j, with t between; the first uri counts.
EnclosedMatch(i, j, t) ==
    LET at == {k \in DOMAIN t : t[k] \in KeyURI}
        k  == CHOOSE k \in at : \A l \in at : k <= l
    IN IF IsCall(t) THEN Match(i, j, TRUE, ParseArgs(SubSeq(t, 2, Len(t) - 1)))
       ELSE Match(i, j, FALSE, IF at = {} THEN <<>> ELSE <<Arg(TRUE, <<t[k]>>)>>)

\* A match without a uri does not count.
HasURI(m) == \E n \in DOMAIN m.args : m.args[n].isURI

\* The matches in S in the order in which they start, up to n.
InOrder(S, n) == Cat(n, [k \in 1..n |-> SetToSeq({m \in S : m.start = k})])

EnclosedMatches(s) ==
    InOrder({m \in {EnclosedMatch(p[1], p[2], Inner(s, p[1], p[2])) :
                       p \in Enclosed(s)} : HasURI(m)}, Len(s))

\* Mutant: what stands in braces is left out even where no match was made.
UnenclosedMatches_Outside(s, enclosed) ==
    InOrder({UriMatch(s, k) : k \in
                {k \in DOMAIN s : s[k] \in KeyURI
                    /\ \A p \in Enclosed(s) : k < p[1] \/ p[2] < k}}, Len(s))

\* The uris in none of the ranges that are excluded.
UnenclosedMatches(s, enclosed) ==
    InOrder({UriMatch(s, k) : k \in
                {k \in DOMAIN s : s[k] \in KeyURI
                    /\ \A n \in DOMAIN enclosed :
                          k < enclosed[n].start \/ enclosed[n].end < k}}, Len(s))

\* The enclosed matches first, then the others, each from left to right.
FindAll(s) ==
    LET enclosed == EnclosedMatches(s)
    IN enclosed \o UnenclosedMatches(s, enclosed)
-----------------------------------------------------------------------------
(* What stands in for a match. *)

Encoded(t) == [k \in DOMAIN t |-> Code(t[k])]

\* resolveMatch and resolveMatchBytes
Resolve(m) ==
    LET value(a) == IF a.isURI THEN ValueOf[a.value[1]] ELSE a.value
        joined   == Cat(Len(m.args), [n \in DOMAIN m.args |-> value(m.args[n])])
    IN IF m.call THEN Encoded(joined) ELSE joined

\* The text with val in the place of the match.
Splice(t, m) ==
    SubSeq(t, 1, m.start - 1) \o Resolve(m) \o SubSeq(t, m.end + 1, Len(t))

SpliceFrom(s, ms) ==
    LET turn[n \in 0..Len(ms)] == IF n = 0 THEN s ELSE Splice(turn[n - 1], ms[n])
    IN turn[Len(ms)]

\* Mutant: from the first found to the last.
Replace_Forward(s) == SpliceFrom(s, FindAll(s))

\* Replace: the matches from the last found to the first.
Replace(s) == SpliceFrom(s, Reverse(FindAll(s)))

\* copy into buf at offset n; what does not fit is left.
Copy(buf, n, t) ==
    [k \in DOMAIN buf |-> IF k \in (n + 1)..(n + Len(t)) THEN t[k - n] ELSE buf[k]]

\* Mutant: the matches stay in the order in which they were found.
SortedMatches_AsFound(s) == FindAll(s)

\* sort.Slice by start
SortedMatches(s) == InOrder(Range(FindAll(s)), Len(s))

\* The end of the n-th match, and what stands before that match.
EndOf(ms, n)  == IF n = 0 THEN 0 ELSE ms[n].end
Gap(s, ms, n) == SubSeq(s, EndOf(ms, n - 1) + 1, ms[n].start - 1)

\* One pass over the matches for the size, one that fills the buffer.
FillIn(s, ms) ==
    LET size[n \in 0..Len(ms)] ==
            IF n = 0 THEN 0
            ELSE size[n - 1] + (ms[n].start - 1 - EndOf(ms, n - 1)) + Len(Resolve(ms[n]))
        total == size[Len(ms)] + (Len(s) - EndOf(ms, Len(ms)))
        put(acc, t) == [buf |-> Copy(acc.buf, acc.n, t), n |-> acc.n + Len(t)]
        fill[n \in 0..Len(ms)] ==
            IF n = 0 THEN [buf |-> [k \in 1..total |-> 0], n |-> 0]
            ELSE put(put(fill[n - 1], Gap(s, ms, n)), Resolve(ms[n]))
    IN put(fill[Len(ms)], SubSeq(s, EndOf(ms, Len(ms)) + 1, Len(s))).buf

ReplaceBytes(s) == FillIn(s, SortedMatches(s))
=============================================================================
