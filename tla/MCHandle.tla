------------------------------ MODULE MCHandle ------------------------------
(* Two instances.  One key, with two values of which one has a line break,  *)
(* under three policies: anywhere on the site the requests go to, only in    *)
(* its headers, anywhere on another site; every form of request, with up to  *)
(* three references to the key, in urls with and without a path.  Two keys,  *)
(* with one value each, which one base64 expression joins.                   *)
EXTENDS Handle

CONSTANTS k1, k2, v1, v2, pw1, pw2

Anywhere    == {"path", "auth", "text"}
Open        == [sites |-> {"api"}, places |-> Anywhere]
HeadersOnly == [sites |-> {"api"}, places |-> {"auth"}]
Elsewhere   == [sites |-> {"other"}, places |-> Anywhere]

Ref(f, pl, x, K, fun, g, L) ==
    [field |-> f, place |-> pl, expr |-> x, keys |-> K, fun |-> fun,
     goes |-> g, left |-> L]

InUrl(u)    == Ref("url", "path", u, {u}, "none", "whole", {})
InHeader(u) == Ref("headers", "auth", u, {u}, "none", "whole", {})
InHost(u)   == Ref("headers", "auth", u, {u}, "none", "stays", {})
InBody(u)   == Ref("body", "text", u, {u}, "none", "whole", {})
Basic(K)    == Ref("headers", "auth", K, K, "base64", "whole", {})
Rot13(u)    == Ref("body", "text", u, {u}, "unknown", "whole", {})

\* The first reference of a url without a path: a plain one, and a base64
\* expression that is cut before the keys in L.
CutInUrl(u)    == Ref("url", "path", u, {u}, "none", "cut", {})
CutBasic(K, L) == Ref("url", "path", K, K, "base64", "cut", L)

Ask(form, site, R) == [form |-> form, site |-> site, refs |-> R]

\* Two keys in one base64 expression.
PairKeyURI   == {k1, k2}
PairPrefix   == {{k1}, {k1, k2}}
PairPolicy   == {Open}
PairRequest  == {Ask("ok", "api", {Basic({k1, k2})}),
                 Ask("ok", "api", {CutBasic({k1, k2}, {k2})})}

\* One key: every form of request, every place, every outcome.
OneKeyURI    == {k1}
OnePrefix    == {{k1}}
OnePolicy    == {Open, HeadersOnly, Elsewhere}
OneRequest   ==
    {Ask(f, "api", {InHeader(k1)}) : f \in {"wrongType", "insecure", "badMethod"}}
    \cup {Ask("badHeaderName", "api", {InUrl(k1), InHeader(k1), InBody(k1)}),
          Ask("ok", "api", {InUrl(k1), Basic({k1})}),
          Ask("ok", "api", {InHost(k1), InBody(k1)}),
          Ask("ok", "api", {InHeader(k1), Rot13(k1)}),
          Ask("ok", "api", {CutInUrl(k1), InUrl(k1), InBody(k1)}),
          Ask("ok", "api", {CutBasic({k1}, {k1})})}
=============================================================================
