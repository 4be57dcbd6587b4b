-------------------------------- MODULE Echo --------------------------------
(***************************************************************************)
(* A field of a request on its way out and back: uri.ReplaceBytes puts the *)
(* values in, an upstream echoes the field in one of three forms, and the  *)
(* proxy masks the echo.  The state is the field, which an agent may have  *)
(* written in any way; the properties speak of all fields up to a length.  *)
(***************************************************************************)
EXTENDS Masking

CONSTANTS
    Piece,      \* what an agent writes at a time: sequences of tokens
    MaxPieces   \* and how often: the bound of the run

ASSUME EchoAssumption == Piece \subseteq Seq(Token) /\ MaxPieces \in Nat

VARIABLES
    field,      \* the text of the field
    pieces      \* how many pieces it is made of

echoVars == <<field, pieces>>

EchoInit == field = <<>> /\ pieces = 0

Write(p) ==
    /\ pieces < MaxPieces
    /\ field' = field \o p
    /\ pieces' = pieces + 1

EchoNext == \E p \in Piece : Write(p)
EchoSpec == EchoInit /\ [][EchoNext]_echoVars
-----------------------------------------------------------------------------
(* The reference: the field read once from left to right. *)

\* What stands where in the one pass: where a match ends, what put has for it, and
\* what keep has for every other token.
PassPieces(s, put, keep) ==
    LET enclosed  == EnclosedMatches(s)
        around(k) == {n \in DOMAIN enclosed :
                         enclosed[n].start <= k /\ k <= enclosed[n].end}
        piece(k)  ==
            IF around(k) # {}
            THEN LET m == enclosed[CHOOSE n \in around(k) : TRUE]
                 IN IF k = m.end THEN put[m] ELSE <<>>
            ELSE IF s[k] \in KeyURI THEN put[UriMatch(s, k)]
            ELSE keep[s[k]]
    IN [k \in DOMAIN s |-> piece(k)]

OnePass(put, keep) == Cat(Len(field), PassPieces(field, put, keep))

Found == Range(FindAll(field))
Sent  == ReplaceBytes(field)

\* A match as it is sent, the uri of one that is no call, and the text that stands
\* for a call when it comes back: as it was written, or written last if twice.
Put         == [m \in Found |-> Resolve(m)]
Uri(m)      == m.args[1].value[1]
Template(m) == (CHOOSE o \in Outputs(field) : o[1] = Resolve(m))[2]
PutBack     == [m \in Found |-> IF m.call THEN Template(m) ELSE <<Uri(m)>>]

\* The other tokens, as they are and as JSON escapes them, and the values so.
Self          == [t \in Token |-> <<t>>]
EscapedSelf   == [t \in Token |-> Escaped(<<t>>)]
EscapedValues == [u \in KeyURI |-> Escaped(ValueOf[u])]

\* An echo in which the values stand in some form, and what is left of it once
\* the outputs are masked.
EchoOf(form) == [m \in Found |-> IF m.call THEN Resolve(m) ELSE form[Uri(m)]]
Shown(form)  == [m \in Found |-> IF m.call THEN Template(m) ELSE form[Uri(m)]]

\* w stands in the text only from within the pieces of ms.
StandsOnlyIn(w, parts, ms) ==
    LET text == Cat(Len(parts), parts)
    IN \A k \in DOMAIN text : StandsAt(text, k, w) =>
          \E m \in ms : Len(Cat(m.end - 1, parts)) < k /\ k <= Len(Cat(m.end, parts))

\* The calls with this output; the matches whose value may hold w, a form of the
\* value of u: a longer value, or that of u itself if it stands there as w or longer.
CallsOf(out)        == {m \in Found : m.call /\ Resolve(m) = out}
Holding(w, u, form) ==
    {m \in Found : /\ ~m.call
                   /\ \/ Len(ValueOf[Uri(m)]) > Len(ValueOf[u])
                      \/ Uri(m) = u /\ Len(w) <= Len(form[u])}

\* An echo can be read back: a value or an output that stands in it was put there,
\* or starts within a longer value, which is masked before.  If not, no masking
\* can tell what was meant, or it depends on the order of a map.
Legible(form, keep) ==
    LET echo  == PassPieces(field, EchoOf(form), keep)
        shown == PassPieces(field, Shown(form), keep)
    IN /\ \A u \in KeyURI : \A n \in DOMAIN ValueOf[u] : ValueOf[u][n] \notin KeyURI
       /\ \A o \in Outputs(field) :
             StandsOnlyIn(o[1], echo, CallsOf(o[1]))
       /\ \A u \in KeyURI : \A w \in {ValueOf[u], Escaped(ValueOf[u])} :
             StandsOnlyIn(w, shown, Holding(w, u, form))

\* In every order of the maps the echo is masked to the field, each match as PutBack
\* has it; this is claimed of legible echoes only.
ComesBack(echo, form, keep) ==
    \/ Maskings(echo, Outputs(field)) = {OnePass(PutBack, keep)}
    \/ ~Legible(form, keep)
-----------------------------------------------------------------------------
(* Properties *)

\* ReplaceBytes sizes its buffer and fills it in two passes over matches that
\* were found in another order; what comes out is the field with each match
\* replaced where it stands, nothing cut off and nothing left over.
SentAsOnePass == Sent = OnePass(Put, Self)

\* No uri is left in what is sent, however braces, quotes, calls and line breaks
\* stand around it: what no enclosed match takes is matched by itself.  A uri in
\* what is sent is part of a value, which nothing looks into.
NoUriSent ==
    \A k \in DOMAIN Sent : Sent[k] \in KeyURI =>
        \E u \in KeyURI : \E n \in DOMAIN ValueOf[u] : ValueOf[u][n] = Sent[k]

\* Replace, the variant for strings, agrees with ReplaceBytes unless a uri
\* without braces stands before one with braces: it goes through the matches
\* from the last found to the first, which keeps the offsets of the earlier
\* ones only if they were found from left to right.
ReplaceAgrees ==
    (\A n \in 1..(Len(FindAll(field)) - 1) :
        FindAll(field)[n].start < FindAll(field)[n + 1].start)
            => Replace(field) = Sent

\* An echo of the field comes back as the field if it is legible: every value, also
\* one that is part of another one, as its own uri, and a transform as it was
\* written; so no part of a value is left in it.
EchoComesBack == ComesBack(Sent, ValueOf, Self)

\* So does an echo in a JSON string,
EscapedComesBack == ComesBack(Escaped(Sent), EscapedValues, EscapedSelf)

\* and one in percent-encoding, if it holds a value.
PercentComesBack ==
    FindAll(field) # <<>> => ComesBack(Percent(Sent), ValueOf, Self)

\* What is not to come back: a value, raw or as JSON escapes it, and the output
\* of a transform.  (A value that holds a uri is made whole again by the masking
\* of the value of that uri.)
Credentials ==
    {ValueOf[u] : u \in {u \in KeyURI : \A n \in DOMAIN ValueOf[u] :
                            ValueOf[u][n] \notin KeyURI}}
Secrets(outputs) ==
    Credentials \cup {Escaped(v) : v \in Credentials} \cup {o[1] : o \in outputs}

Occurs(w, s)      == \E k \in DOMAIN s : StandsAt(s, k, w)
Clean(s, secrets) == \A w \in secrets : ~Occurs(w, s) /\ ~Occurs(w, Decoded(s))
Echoes(t)         == {t, Escaped(t), Percent(t)}

\* Whatever the order in which the maps of keys and of transform outputs are gone
\* through, none of these is left in what comes back, percent-encoded or not: a
\* replacement made later does not make whole what an earlier one took out.
NothingLeft ==
    LET outputs == Outputs(field)
        secrets == Secrets(outputs)
    IN \A echo \in Echoes(Sent) : \A r \in Maskings(echo, outputs) : Clean(r, secrets)
=============================================================================
