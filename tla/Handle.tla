------------------------------- MODULE Handle -------------------------------
(***************************************************************************)
(* internal/proxy: one call of Proxy.Handle in the running daemon, and the *)
(* steps of others that may fall between any two of its own.               *)
(*                                                                         *)
(* Handle takes the store's read lock once per key it looks up, again for  *)
(* its snapshot, and again per key it resolves; between two of these the   *)
(* daemon may serve reload, disable and enable on other connections, and   *)
(* command-line processes may rewrite keys.enc.  Calls of Handle only read *)
(* the store and share nothing else, so one call, repeated for ever, sees  *)
(* every interference that several could.                                  *)
(*                                                                         *)
(* Data.  A request is the set of key references its texts contain, each   *)
(* with the place it stands in and what RoundTrip gets to see of it; byte  *)
(* layout is left out.  The value of a plain reference is the key value;   *)
(* that of a base64(...) expression is its wording and its keys' values.   *)
(* The upstream answers with any part of what this request carried, in     *)
(* places the daemon masks and in places it does not.                      *)
(***************************************************************************)
EXTENDS Store, Naturals

CONSTANTS
    DaemonPass,  \* the passphrase the daemon was started with
    Request,     \* the requests an agent may send
    NoRequest,   \* no call is under way
    Multiline    \* the key values that contain CR or LF

Field == {"url", "headers", "body"}
Form  == {"ok", "wrongType", "insecure", "badHeaderName", "badMethod"}

\* What Handle reads of a Request: its form, the site it is addressed to, and
\* its references: a text expression at a position of a place of a field, the
\* keys it names, its transform, and what becomes of it on its way out.  The
\* Host, Content-Length and Transfer-Encoding headers stay; and of a url that
\* has no path the first reference is cut, which leaves some of its keys.
ASSUME HandleAssumption ==
    /\ DaemonPass \in Passphrase
    /\ NoRequest \notin Request
    /\ Multiline \subseteq Value
    /\ \A t \in Request :
          /\ t.form \in Form
          /\ \A r \in t.refs :
                /\ r.field \in Field
                /\ r.keys \subseteq KeyURI
                /\ r.fun \in {"none", "base64", "unknown"}
                /\ r.goes \in {"whole", "stays", "cut"}
                /\ r.goes = "stays" => r.field = "headers"
                /\ r.goes = "cut" => r.field = "url" /\ r.left \subseteq r.keys

VARIABLES
    pc,        \* where Handle stands
    req,       \* the request it is called with
    todo,      \* the <<reference, key>> pairs the current loop has left
    snap,      \* snapshot: per key, the value it had, Empty if none
    found,     \* what collectTransformOutputs has resolved
    wire,      \* what RoundTrip has resolved into its buffer, then sent
    reply      \* the Response

\* History, for the properties only.
VARIABLES
    rekeyed,   \* keys whose policy in memory changed since the call began
    disturbed, \* keys whose value in memory changed since the snapshot
    fresh      \* values a key has had since the snapshot, other than its own in it

callVars   == <<pc, req, todo, snap, found, wire, reply>>
history    == <<rekeyed, disturbed, fresh>>
handleVars == <<storeVars, callVars, history>>
-----------------------------------------------------------------------------
(* What goes out of a request. *)

\* RoundTrip sends the raw url from its first "/" behind "://".  Without a path
\* that one stands in the first reference: in its own "//", or in a literal of
\* its expression.  The text from there on is no longer an expression, and the
\* uris that are whole in it are plain references.
Rest(r) == [field |-> r.field, place |-> r.place, expr |-> r.expr,
            keys |-> r.left, fun |-> "none"]

\* The references in the texts RoundTrip looks at.
Sent(t) == {IF r.goes = "cut" THEN Rest(r) ELSE r :
               r \in {q \in t.refs : q.goes # "stays"}}

Refs    == UNION {t.refs \cup Sent(t) : t \in Request}
Pair    == Refs \X KeyURI
Item    == [ref : Refs, key : KeyURI, value : Value, policy : Policy]
PC      == {"idle", "validate", "collect", "resolve", "exchange", "reply"}
Masking == {"collect", "resolve", "exchange"}   \* the snapshot is held
-----------------------------------------------------------------------------
(* What the functions compute. *)

PairsOf(refs) == {a \in refs \X KeyURI : a[2] \in a[1].keys}

\* The pairs of todo in the field the loop has come to.
FirstOf(S, rank) ==
    {a \in S : \A b \in S : rank[a[1].field] <= rank[b[1].field]}

ValidateOrder == [f \in Field |-> CASE f = "url"     -> 1
                                    [] f = "headers" -> 2
                                    [] f = "body"    -> 3]
ResolveOrder  == [f \in Field |-> CASE f = "body"    -> 1
                                    [] f = "url"     -> 2
                                    [] f = "headers" -> 3]

\* Mutant: validateField checks the url_prefix and not the placement.
Permits_SiteOnly(p, t, r) == t.site \in p.sites

\* hasURLPrefix and checkPlacement: the two halves of a key's policy.
Permits(p, t, r) == t.site \in p.sites /\ r.place \in p.places

ValueIn(m, u)  == IF m[u] = NoEntry THEN Empty ELSE m[u].value
PolicyIn(m, u) == IF m[u] = NoEntry THEN {} ELSE {m[u].policy}

\* Mutant: the resolver does not look whether the value is there.
Resolves_Found(m, u) == m[u] # NoEntry

\* Mutant: the resolver takes the value from keys.enc as it is now.
Taken_FromFile(m, r, u) ==
    [ref |-> r, key |-> u, policy |-> m[u].policy,
     value |-> IF file # Corrupt /\ ValueIn(file, u) # Empty
               THEN file[u].value ELSE m[u].value]

\* The resolver's answer for r's argument u, in memory m.
Resolves(m, u) == ValueIn(m, u) # Empty
Taken(m, r, u) ==
    [ref |-> r, key |-> u, value |-> m[u].value, policy |-> m[u].policy]

\* snapshotCredentials skips the keys without a value and keeps the others.
SnapshotOf(m) == [u \in KeyURI |-> ValueIn(m, u)]
NoSnapshot    == [u \in KeyURI |-> Empty]

\* The encoded text of r, if the items of S give every argument.
Encoded(S, r) ==
    [expr  |-> r.expr,
     parts |-> {<<i.key, i.value>> : i \in {j \in S : j.ref = r}}]
Outputs(S) ==
    {Encoded(S, r) : r \in {q \in {i.ref : i \in S} :
        /\ q.fun = "base64"
        /\ \A u \in q.keys : \E i \in S : i.ref = q /\ i.key = u}}

\* Mutant: collectTransformOutputs forgets the headers.
ToCollect_NoHeaders(t) ==
    PairsOf({r \in t.refs : r.fun # "none" /\ r.field # "headers"})

\* The references collectTransformOutputs and RoundTrip walk.
ToCollect(t) == PairsOf({r \in t.refs : r.fun # "none"})
ToResolve(t) == PairsOf(Sent(t))

\* Mutant: the masker reads the live keys (audit-speca.md, F-002 and F-003).
MaskedValues_Live == {ValueIn(mem, u) : u \in KeyURI}

\* What maskCredentials, maskTruncatedKeys and maskPercentEncoded take out.
MaskedValues == {snap[u] : u \in KeyURI}
\* What maskTransformOutputs takes out.
MaskedOutputs == Outputs(found)

\* What an upstream may say of a request that carried S: any of the values, and
\* any of the encodings.
Echoes(S) == [raw : SUBSET {i.value : i \in S}, enc : SUBSET Outputs(S)]
NoEcho    == [raw |-> {}, enc |-> {}]

\* An echo in the body or in the value of a header.
Masked(e) == [raw |-> e.raw \ MaskedValues, enc |-> e.enc \ MaskedOutputs]

\* A Response: what its body and its header values show, and what the places
\* show that nobody masks: the status text, the names of the headers, and the
\* message of an error.
NoReply    == [code |-> "NONE", masked |-> NoEcho, bare |-> NoEcho]
Error(c,b) == [code |-> c, masked |-> NoEcho, bare |-> b]
-----------------------------------------------------------------------------
(* Proxy.Handle *)

\* A step of the call writes neither the store nor the history.
Quiet == UNCHANGED <<storeVars, history>>

\* Handle returns r: RoundTrip's buffer and, by the deferred clearSnapshot, the
\* snapshot are cleared, and the other locals go.
Finish(r) ==
    /\ reply' = r
    /\ pc' = "reply"
    /\ snap' = NoSnapshot
    /\ todo' = {} /\ found' = {} /\ wire' = {}
    /\ UNCHANGED req

\* Handle returns an error, before or after some of its work.
Refuse(code) == Finish(Error(code, NoEcho))

Receive(t) ==
    /\ pc = "idle"
    /\ req' = t
    /\ \/ /\ t.form = "wrongType"
          /\ pc' = "reply" /\ reply' = Error("INVALID_REQUEST", NoEcho)
          /\ UNCHANGED todo
       \/ /\ t.form = "insecure"
          /\ pc' = "reply" /\ reply' = Error("INSECURE_REQUEST", NoEcho)
          /\ UNCHANGED todo
       \/ /\ t.form \notin {"wrongType", "insecure"}
          /\ pc' = "validate" /\ todo' = PairsOf(t.refs)
          /\ UNCHANGED reply
    /\ UNCHANGED <<snap, found, wire>>
    /\ Quiet

\* validateField for one key: Lookup and the checks on what it returns.  The
\* entry is read after the lock is given back; its policy never changes in
\* place, and a flag read early or late is one read before or after the step
\* that set it, so one step stands for the lookup and the reads.
Validate(r, u) ==
    /\ pc = "validate"
    /\ <<r, u>> \in FirstOf(todo, ValidateOrder)
    /\ req.form = "badHeaderName" => r.field # "body"
    /\ \/ /\ mem[u] = NoEntry
          /\ Refuse("KEY_NOT_FOUND")
       \/ /\ mem[u] # NoEntry
          /\ mem[u].disabled
          /\ Refuse("KEY_DISABLED")
       \/ /\ mem[u] # NoEntry
          /\ ~mem[u].disabled
          /\ ~Permits(mem[u].policy, req, r)
          /\ Refuse(IF req.site \in mem[u].policy.sites
                    THEN "FIELD_NOT_ALLOWED" ELSE "URL_PREFIX_MISMATCH")
       \/ /\ mem[u] # NoEntry
          /\ ~mem[u].disabled
          /\ Permits(mem[u].policy, req, r)
          /\ todo' = todo \ {<<r, u>>}
          /\ UNCHANGED <<pc, req, snap, found, wire, reply>>
    /\ Quiet

\* The loop over the headers meets a name that is not a token.
RefuseHeaderName ==
    /\ pc = "validate"
    /\ req.form = "badHeaderName"
    /\ \A a \in todo : a[1].field # "url"
    /\ Refuse("INVALID_REQUEST")
    /\ Quiet

TakeSnapshot ==
    /\ pc = "validate"
    /\ todo = {}
    /\ req.form # "badHeaderName"
    /\ snap' = SnapshotOf(mem)
    /\ todo' = ToCollect(req)
    /\ pc' = "collect"
    /\ UNCHANGED <<req, found, wire, reply>>
    /\ Quiet

\* collectTransformOutputs for one key; a key that does not resolve makes it
\* go on with the next reference.
Collect(r, u) ==
    /\ pc = "collect"
    /\ <<r, u>> \in FirstOf(todo, ValidateOrder)
    /\ \/ /\ Resolves(mem, u)
          /\ found' = found \cup {Taken(mem, r, u)}
          /\ todo' = todo \ {<<r, u>>}
       \/ /\ ~Resolves(mem, u)
          /\ todo' = {a \in todo : a[1] # r}
          /\ UNCHANGED found
    /\ UNCHANGED <<pc, req, snap, wire, reply>>
    /\ Quiet

\* http.NewRequest, then client.Do.
StartRoundTrip ==
    /\ pc = "collect"
    /\ todo = {}
    /\ \/ /\ req.form = "badMethod"
          /\ Refuse("HTTP_ERROR")
       \/ /\ req.form # "badMethod"
          /\ todo' = ToResolve(req)
          /\ pc' = "resolve"
          /\ UNCHANGED <<req, snap, found, wire, reply>>
    /\ Quiet

\* RoundTrip cannot use u in r: no value, no such transform, or a line break
\* in a header.
Unusable(m, r, u) ==
    \/ ~Resolves(m, u)
    \/ r.fun = "unknown"
    \/ r.fun = "none" /\ r.field = "headers" /\ m[u].value \in Multiline

\* Mutant: RoundTrip passes over a reference it cannot resolve.
Resolve_Skips(r, u) ==
    /\ pc = "resolve"
    /\ <<r, u>> \in FirstOf(todo, ResolveOrder)
    /\ wire' = IF Unusable(mem, r, u) THEN wire
                                      ELSE wire \cup {Taken(mem, r, u)}
    /\ todo' = todo \ {<<r, u>>}
    /\ UNCHANGED <<pc, req, snap, found, reply>>
    /\ Quiet

\* ReplaceBytes in RoundTrip, for one key.
Resolve(r, u) ==
    /\ pc = "resolve"
    /\ <<r, u>> \in FirstOf(todo, ResolveOrder)
    /\ \/ /\ Unusable(mem, r, u)
          /\ Refuse("HTTP_ERROR")
       \/ /\ ~Unusable(mem, r, u)
          /\ wire' = wire \cup {Taken(mem, r, u)}
          /\ todo' = todo \ {<<r, u>>}
          /\ UNCHANGED <<pc, req, snap, found, reply>>
    /\ Quiet

\* The request is complete in the mlocked buffer: dial and write.
Send ==
    /\ pc = "resolve"
    /\ todo = {}
    /\ pc' = "exchange"
    /\ UNCHANGED <<req, todo, snap, found, wire, reply>>
    /\ Quiet

\* Mutant: the client has no timeout, and the upstream owes nothing.
ExchangeFails_NoTimeout(b) == FALSE

\* Dial, write, read or decompression fails, or the client's timeout ends it.
\* The message quotes the part of the answer that net/http could not read (its
\* status line, a header line, its Location), so that b is empty if there was
\* none.
ExchangeFails(b) ==
    /\ pc = "exchange"
    /\ Finish(Error("HTTP_ERROR", b))
    /\ Quiet

\* The upstream answers, with the echo e in its body and its header values and
\* the echo b in its status text and its header names.
Answer(e, b) ==
    /\ pc = "exchange"
    /\ Finish([code |-> "OK", masked |-> Masked(e), bare |-> b])
    /\ Quiet

\* The connection's goroutine has the response and writes it to the agent.
Return ==
    /\ pc = "reply"
    /\ pc' = "idle"
    /\ reply' = NoReply
    /\ req' = NoRequest
    /\ rekeyed' = {} /\ disturbed' = {} /\ fresh' = {}
    /\ UNCHANGED <<storeVars, todo, snap, found, wire>>
-----------------------------------------------------------------------------
(* The daemon's other connections, and the command line. *)

\* What a step of others does to the history; the call does not move.
Observe ==
    /\ rekeyed' = IF pc = "validate" \/ pc \in Masking
                  THEN rekeyed \cup
                       {u \in KeyURI : PolicyIn(mem', u) # PolicyIn(mem, u)}
                  ELSE rekeyed
    /\ disturbed' = IF pc \in Masking
                    THEN disturbed \cup
                         {u \in KeyURI : ValueIn(mem', u) # ValueIn(mem, u)}
                    ELSE disturbed
    /\ fresh' = IF pc \in Masking
                THEN fresh \cup
                     ({ValueIn(mem', u) : u \in
                         {w \in KeyURI : ValueIn(mem', w) # snap[w]}} \ {Empty})
                ELSE fresh
    /\ UNCHANGED callVars

\* The socket commands, as Daemon.reload and Daemon.enable hand them on.
Reload        == DecryptAll(DaemonPass) /\ Observe
DisableKeys(S) == Disable(S) /\ Observe
EnableKeys(S)  == Enable(S, DaemonPass) /\ Observe

\* Add and Remove in a process of the command line: it has the file, and no
\* keys in memory to keep in step with it.
CliAdd(u, p, v, pw) ==
    /\ file # Corrupt
    /\ \/ file' = [file EXCEPT ![u] = Sealed(p, v, pw)] /\ UNCHANGED mem
       \/ SaveFails
    /\ UNCHANGED <<callVars, history>>

CliRemove(u) ==
    /\ file # Corrupt
    /\ file[u] # NoEntry
    /\ \/ file' = [file EXCEPT ![u] = NoEntry] /\ UNCHANGED mem
       \/ SaveFails
    /\ UNCHANGED <<callVars, history>>
-----------------------------------------------------------------------------
HandleInit ==
    /\ file \in {f \in FileMap : AllOpen(f, DaemonPass)}
    /\ mem = OpenedFile(file)
    /\ pc = "idle"
    /\ req = NoRequest
    /\ todo = {} /\ snap = NoSnapshot /\ found = {} /\ wire = {}
    /\ reply = NoReply
    /\ rekeyed = {} /\ disturbed = {} /\ fresh = {}

\* The call's own steps: what it does without waiting for anybody.
Advance ==
    \/ \E r \in Refs, u \in KeyURI : Validate(r, u)
    \/ \E r \in Refs, u \in KeyURI : Collect(r, u)
    \/ \E r \in Refs, u \in KeyURI : Resolve(r, u)
    \/ RefuseHeaderName
    \/ TakeSnapshot
    \/ StartRoundTrip
    \/ Send
    \/ \E b \in Echoes(wire) : ExchangeFails(b)
    \/ Return

HandleNext ==
    \/ Advance
    \/ \E t \in Request : Receive(t)
    \/ \E e, b \in Echoes(wire) : Answer(e, b)
    \/ Reload
    \/ \E S \in Prefix : DisableKeys(S)
    \/ \E S \in Prefix : EnableKeys(S)
    \/ \E u \in KeyURI, p \in Policy, v \in Plain, pw \in Passphrase :
          CliAdd(u, p, v, pw)
    \/ \E u \in KeyURI : CliRemove(u)

HandleSpec == HandleInit /\ [][HandleNext]_handleVars

\* The call goes on while it can: the store's locks are held briefly, and the
\* http client gives up after its timeout.  The upstream owes nothing.
Fairness == WF_handleVars(Advance)

HandleFairSpec == HandleSpec /\ Fairness
-----------------------------------------------------------------------------
(* Properties *)

Code == {"NONE", "OK", "INVALID_REQUEST", "INSECURE_REQUEST", "KEY_NOT_FOUND",
         "KEY_DISABLED", "URL_PREFIX_MISMATCH", "FIELD_NOT_ALLOWED",
         "HTTP_ERROR"}

\* The daemon always has its keys loaded while it serves (ClearAll comes after
\* the last connection), and the locals of a call hold what they should.
HandleTypeOK ==
    /\ file \in FileMap \cup {Corrupt}
    /\ mem \in MemMap
    /\ pc \in PC
    /\ req \in Request \cup {NoRequest}
    /\ pc # "idle" => req \in Request
    /\ todo \subseteq Pair
    /\ snap \in [KeyURI -> Plain]
    /\ found \subseteq Item /\ wire \subseteq Item
    /\ reply.code \in Code
    /\ reply.masked.raw \subseteq Value /\ reply.bare.raw \subseteq Value
    /\ rekeyed \subseteq KeyURI /\ disturbed \subseteq KeyURI
    /\ fresh \subseteq Value

\* In the body and the header values a credential comes back raw only if some
\* key took it after the snapshot (a reload of an edited keys.enc, or an
\* enable): what the daemon held when it took the snapshot is masked there,
\* whatever was disabled or reloaded while the request was out.  This is what
\* masking from the snapshot, taken before anything is resolved, is for.  Of
\* reply.bare nothing of the kind holds.
RawShownOnlyIfFresh == reply.masked.raw \subseteq fresh

\* In the body and the header values a base64 credential comes back only if one
\* of its keys was touched between the snapshot and the answer:
\* collectTransformOutputs and RoundTrip resolve the same expressions, each key
\* on its own, some time after one another.
EncodedShownOnlyIfDisturbed ==
    \A o \in reply.masked.enc : \E part \in o.parts : part[1] \in disturbed

\* Every value that goes into the request was released by the policy it was
\* filed with -- the url_prefix and placement validateField checks -- unless
\* the key's policy was replaced after the call began: validation looks the
\* key up once and RoundTrip again, with the snapshot and the loops between.
WireAuthorised ==
    \A i \in wire : \/ req.site \in i.policy.sites
                       /\ i.ref.place \in i.policy.places
                    \/ i.key \in rekeyed

\* A key nobody touched is sent with the value the masker has for it, and so
\* with the same one at each of its references: body, url and headers are
\* resolved one after the other, with keys coming and going in between.
WireAsSnapshot ==
    \A i \in wire : i.key \in disturbed \/ i.value = snap[i.key]

\* What goes out has every reference of the request replaced, those aside that
\* stand in a header which does not go out, and what is cut off the first one
\* in a url without a path.  A key that stops resolving, in the middle of
\* RoundTrip, stops the request, where collectTransformOutputs passes over it.
NoPlaceholderSent ==
    pc = "exchange" => \A r \in req.refs : \A u \in r.keys :
        \/ r.goes = "stays"
        \/ r.goes = "cut" /\ u \notin r.left
        \/ \E i \in wire : i.key = u /\ i.ref = IF r.goes = "cut" THEN Rest(r)
                                                                 ELSE r

\* Every call returns, if only the client's timeout and the locks do their
\* part: whatever the upstream does, and whatever others do to the store.
Answered == pc # "idle" ~> pc = "idle"
-----------------------------------------------------------------------------
(* What the documents say and the code does not do. *)

\* README.md:296 and audit-speca.md:63 (P-010, fixed by the snapshot): the
\* response holds no credential that went out with the request.  Said of its
\* body and its header values only.
NoCredentialShown == reply.masked = NoEcho

\* README.md, replacement procedure 2b: the request url matches the url_prefix
\* of every key that is replaced (and 2c, its place is one the key allows).
WirePermitted ==
    \A i \in wire : req.site \in i.policy.sites
                    /\ i.ref.place \in i.policy.places
=============================================================================
