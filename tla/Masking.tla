------------------------------ MODULE Masking ------------------------------
(***************************************************************************)
(* The masking of internal/proxy/proxy.go: credentials in what came back   *)
(* from upstream are turned into their placeholders again, in the forms in *)
(* which an upstream may echo them.                                        *)
(*                                                                         *)
(* Texts and values are sequences of tokens, as in UriSubst.  A token in   *)
(* NeedsEscape is one that JSON puts a backslash before; any token may     *)
(* stand percent-encoded.  maskTruncatedKeys, which knows the error        *)
(* messages of two services, is left out.                                  *)
(***************************************************************************)
EXTENDS UriSubst

CONSTANTS
    NeedsEscape,   \* the tokens that encoding/json escapes
    Backslash

\* What encoding/json escapes is no base64, and what is percent-encoded is no
\* token of a text.
ASSUME MaskingAssumption ==
    /\ Backslash \in Word /\ NeedsEscape \subseteq Token
    /\ \A t \in Plain : <<"percent", t>> \notin Token

\* w stands in s from k on.
StandsAt(s, k, w) ==
    k + Len(w) - 1 <= Len(s) /\ \A n \in DOMAIN w : s[k + n - 1] = w[n]

\* strings.ReplaceAll of old, which is not empty, by new.
ReplaceEach(s, old, new) ==
    LET from[k \in 1..(Len(s) + Len(old))] ==
            IF k > Len(s) THEN <<>>
            ELSE IF StandsAt(s, k, old) THEN new \o from[k + Len(old)]
            ELSE <<s[k]>> \o from[k + 1]
    IN from[1]

\* json.Marshal, without its quotes
Escaped(t) ==
    Cat(Len(t), [n \in DOMAIN t |-> IF t[n] \in NeedsEscape THEN <<Backslash, t[n]>>
                                 ELSE <<t[n]>>])

\* Mutant: the form with backslashes is not looked for.
MaskOne_RawOnly(s, u) == ReplaceEach(s, ValueOf[u], <<u>>)

\* One turn of the loop of maskCredentials: the escaped form, then the raw one.
MaskOne(s, u) ==
    LET esc == Escaped(ValueOf[u])
    IN ReplaceEach(IF esc = ValueOf[u] THEN s ELSE ReplaceEach(s, esc, <<u>>),
                   ValueOf[u], <<u>>)

\* Mutant: the snapshot stays as it is, in any order.
MaskOrders_AsTaken == SetToSeqs(KeyURI)

\* Longest first; sort.Slice is not stable, so in any such order.
MaskOrders ==
    {o \in SetToSeqs(KeyURI) : \A m, n \in DOMAIN o :
        m < n => Len(ValueOf[o[m]]) >= Len(ValueOf[o[n]])}

\* maskCredentials, for one such order
MaskCredentials(s, order) ==
    LET turn[n \in 0..Len(order)] ==
            IF n = 0 THEN s ELSE MaskOne(turn[n - 1], order[n])
    IN turn[Len(order)]

\* The map of collectTransformOutputs: a resolved transform and its template.
\* If two templates resolve alike, the later one is in the map.
OutputsOf(s, ms) ==
    LET calls == {n \in DOMAIN ms : ms[n].call}
    IN {<<Resolve(ms[n]), SubSeq(s, ms[n].start, ms[n].end)>> : n \in
           {n \in calls : \A k \in calls : k > n => Resolve(ms[k]) # Resolve(ms[n])}}

Outputs(s) == OutputsOf(s, FindAll(s))

\* Mutant: the loop returns after its first turn.
MaskOutputs_First(s, order) ==
    IF order = <<>> THEN s ELSE ReplaceEach(s, order[1][1], order[1][2])

\* maskTransformOutputs: `range' over a map has no order.
MaskOutputs(s, order) ==
    LET turn[n \in 0..Len(order)] ==
            IF n = 0 THEN s ELSE ReplaceEach(turn[n - 1], order[n][1], order[n][2])
    IN turn[Len(order)]

\* A token may stand percent-encoded, and tolerantPercentDecode takes it out.
Percent(s) == [k \in DOMAIN s |-> <<"percent", s[k]>>]
Decoded(s) == [k \in DOMAIN s |-> IF s[k] \in Plain THEN s[k] ELSE s[k][2]]

\* Mutant: the transform outputs are not looked for.
MaskPercent_NoOutputs(s, outputs, order) ==
    LET masked == MaskCredentials(Decoded(s), order)
    IN IF s # Decoded(s) /\ masked # Decoded(s) THEN masked ELSE s

\* maskPercentEncoded: what is found decoded is returned decoded; a text in which
\* nothing was encoded is not gone through again.
MaskPercent(s, outputs, order) ==
    LET masked == MaskCredentials(MaskOutputs(Decoded(s), outputs), order)
    IN IF s # Decoded(s) /\ masked # Decoded(s) THEN masked ELSE s

\* What Handle does to the body and to each header of a response.  The outputs
\* are those of the request; each `range' over them has an order of its own.
Maskings(s, outputs) ==
    {MaskPercent(MaskCredentials(MaskOutputs(s, o1), c1), o2, c2) :
        o1, o2 \in SetToSeqs(outputs), c1, c2 \in MaskOrders}
=============================================================================
