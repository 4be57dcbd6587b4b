---------------------------- MODULE HandleProofs ----------------------------
(* What holds of a call of Handle for any keys, requests and environment.     *)
EXTENDS Handle, StoreProofs

(* The inductive invariant, in parts. *)

\* Between calls nothing is left, a call gathers its parts one by one, and its
\* loops walk the request's references: those of its texts, then those of what
\* goes out.
Stages ==
    /\ pc \in {"validate", "collect"} => todo \subseteq PairsOf(req.refs)
    /\ pc = "resolve" => todo \subseteq ToResolve(req)
    /\ pc \in {"idle", "reply"} => found = {} /\ wire = {}
    /\ pc = "validate" => found = {} /\ wire = {}
    /\ pc = "collect" => wire = {}
    /\ pc # "reply" => reply = NoReply

\* Items come from the request's own references.
ItemsOfRequest ==
    /\ \A i \in found : i.ref \in req.refs /\ i.key \in i.ref.keys
    /\ \A i \in wire : i.ref \in Sent(req) /\ i.key \in i.ref.keys

\* A pair that validation has passed is permitted by the policy in memory, as
\* long as that is the policy the call found.
Passed(r, u) ==
    \/ u \in rekeyed
    \/ mem[u] # NoEntry /\ Permits(mem[u].policy, req, r)

Validated ==
    /\ pc = "validate" => \A a \in PairsOf(req.refs) \ todo : Passed(a[1], a[2])
    /\ pc \in Masking => \A a \in PairsOf(req.refs) : Passed(a[1], a[2])

\* From the snapshot on: what is in memory is in the snapshot or fresh, and is
\* what the snapshot has if nobody touched it.
Known(u, v) == v = snap[u] \/ v \in fresh

MemKnown ==
    pc \in Masking => \A u \in KeyURI :
        /\ ValueIn(mem, u) = Empty \/ Known(u, ValueIn(mem, u))
        /\ u \in disturbed \/ ValueIn(mem, u) = snap[u]

ItemsKnown ==
    \A i \in found \cup wire :
        /\ Known(i.key, i.value)
        /\ i.key \in disturbed \/ i.value = snap[i.key]

\* A reference that collectTransformOutputs has passed over had a key that was
\* touched, or that had no value in the snapshot.
Skipped(r) == \E w \in r.keys : w \in disturbed \/ snap[w] = Empty

CollectedSoFar ==
    pc \in Masking => \A a \in ToCollect(req) :
        \/ pc = "collect" /\ a \in todo
        \/ \E i \in found : i.ref = a[1] /\ i.key = a[2]
        \/ Skipped(a[1])

ResolvedSoFar ==
    pc = "resolve" => \A a \in ToResolve(req) :
        a \in todo \/ \E i \in wire : i.ref = a[1] /\ i.key = a[2]

HandleInv ==
    /\ Stages
    /\ ItemsOfRequest
    /\ Validated
    /\ WireAuthorised
    /\ MemKnown
    /\ ItemsKnown
    /\ CollectedSoFar
    /\ ResolvedSoFar
    /\ NoPlaceholderSent
    /\ RawShownOnlyIfFresh
    /\ EncodedShownOnlyIfDisturbed
-----------------------------------------------------------------------------
(* The steps of others. *)

Others ==
    \/ Reload
    \/ \E S \in Prefix : DisableKeys(S)
    \/ \E S \in Prefix : EnableKeys(S)
    \/ \E u \in KeyURI, p \in Policy, v \in Plain, pw \in Passphrase :
          CliAdd(u, p, v, pw)
    \/ \E u \in KeyURI : CliRemove(u)

\* All that the call can notice of such a step.
OthersEffect ==
    /\ UNCHANGED callVars
    /\ rekeyed \subseteq rekeyed' /\ disturbed \subseteq disturbed'
    /\ fresh \subseteq fresh'
    /\ pc \notin Masking => UNCHANGED <<disturbed, fresh>>
    /\ pc = "validate" \/ pc \in Masking =>
          \A u \in KeyURI : u \in rekeyed' \/ PolicyIn(mem', u) = PolicyIn(mem, u)
    /\ pc \in Masking => \A u \in KeyURI :
          /\ u \in disturbed' \/ ValueIn(mem', u) = ValueIn(mem, u)
          /\ \/ ValueIn(mem', u) \in {Empty, snap[u], ValueIn(mem, u)}
             \/ ValueIn(mem', u) \in fresh'

LEMMA OthersTypes ==
    ASSUME HandleTypeOK, Others
    PROVE  file' \in FileMap \cup {Corrupt} /\ mem' \in MemMap
<1> USE DEF HandleTypeOK
<1>1. CASE Reload
  BY <1>1, OpenedFileType DEF Reload, DecryptAll
<1>2. ASSUME NEW S \in Prefix, DisableKeys(S)
      PROVE  file' \in FileMap \cup {Corrupt} /\ mem' \in MemMap
  BY <1>2, DisabledMemType DEF DisableKeys, Disable
<1>3. ASSUME NEW S \in Prefix, EnableKeys(S)
      PROVE  file' \in FileMap \cup {Corrupt} /\ mem' \in MemMap
  <2>1. S \in SUBSET KeyURI /\ file \in FileMap /\ file' = file
    BY <1>3, StoreAssumption DEF EnableKeys, Enable
  <2>2. PICK D \in SUBSET Enableable(mem, file, S) :
           mem' = EnabledMem(mem, file, D)
    BY <1>3 DEF EnableKeys, Enable
  <2> QED BY <2>1, <2>2, EnabledMemType
<1>4. ASSUME NEW u \in KeyURI, NEW p \in Policy, NEW v \in Plain,
             NEW pw \in Passphrase, CliAdd(u, p, v, pw)
      PROVE  file' \in FileMap \cup {Corrupt} /\ mem' \in MemMap
  BY <1>4, Entries DEF CliAdd, SaveFails, FileMap
<1>5. ASSUME NEW u \in KeyURI, CliRemove(u)
      PROVE  file' \in FileMap \cup {Corrupt} /\ mem' \in MemMap
  BY <1>5 DEF CliRemove, SaveFails, FileMap
<1> QED BY <1>1, <1>2, <1>3, <1>4, <1>5 DEF Others

LEMMA OthersStep ==
    ASSUME HandleTypeOK, Others
    PROVE  /\ OthersEffect
           /\ rekeyed' \subseteq KeyURI /\ disturbed' \subseteq KeyURI
           /\ fresh' \subseteq Value
<1>1. CASE mem' = mem /\ UNCHANGED <<callVars, history>>
  BY <1>1 DEF OthersEffect, history, HandleTypeOK, ValueIn, PolicyIn
<1>2. CASE Observe
  <2>1. \A u \in KeyURI : ValueIn(mem', u) \in Value \cup {Empty}
    BY OthersTypes, Entries, StoreAssumption DEF ValueIn, MemMap, Plain
  <2>2. fresh \subseteq fresh' /\ fresh' \subseteq Value
    BY <1>2, <2>1 DEF Observe, HandleTypeOK
  <2>3. /\ rekeyed \subseteq rekeyed' /\ rekeyed' \subseteq KeyURI
        /\ disturbed \subseteq disturbed' /\ disturbed' \subseteq KeyURI
    BY <1>2 DEF Observe, HandleTypeOK
  <2>4. pc \notin Masking => UNCHANGED <<disturbed, fresh>>
    BY <1>2 DEF Observe
  <2>5. ASSUME pc = "validate" \/ pc \in Masking, NEW u \in KeyURI
        PROVE  u \in rekeyed' \/ PolicyIn(mem', u) = PolicyIn(mem, u)
    BY <1>2, <2>5 DEF Observe
  <2>6. ASSUME pc \in Masking, NEW u \in KeyURI
        PROVE  /\ u \in disturbed' \/ ValueIn(mem', u) = ValueIn(mem, u)
               /\ \/ ValueIn(mem', u) \in {Empty, snap[u], ValueIn(mem, u)}
                  \/ ValueIn(mem', u) \in fresh'
    BY <1>2, <2>6 DEF Observe
  <2>7. UNCHANGED callVars
    BY <1>2 DEF Observe
  <2> QED BY <2>2, <2>3, <2>4, <2>5, <2>6, <2>7 DEF OthersEffect
<1>3. CASE Reload
  BY <1>2, <1>3 DEF Reload
<1>4. ASSUME NEW S \in Prefix, DisableKeys(S) \/ EnableKeys(S)
      PROVE  Observe
  BY <1>4 DEF DisableKeys, EnableKeys
<1>5. ASSUME NEW u \in KeyURI, NEW p \in Policy, NEW v \in Plain,
             NEW pw \in Passphrase, CliAdd(u, p, v, pw)
      PROVE  mem' = mem /\ UNCHANGED <<callVars, history>>
  BY <1>5 DEF CliAdd, SaveFails
<1>6. ASSUME NEW u \in KeyURI, CliRemove(u)
      PROVE  mem' = mem /\ UNCHANGED <<callVars, history>>
  BY <1>6 DEF CliRemove, SaveFails
<1> QED BY <1>1, <1>2, <1>3, <1>4, <1>5, <1>6 DEF Others
-----------------------------------------------------------------------------
(* Types *)

LEMMA PairsType ==
    ASSUME NEW t \in Request, NEW R \in SUBSET t.refs
    PROVE  /\ PairsOf(R) \subseteq Pair
           /\ PairsOf(R) \subseteq PairsOf(t.refs)
           /\ R \subseteq Refs
BY DEF PairsOf, Pair, Refs

LEMMA WalksType ==
    ASSUME NEW t \in Request
    PROVE  /\ PairsOf(t.refs) \subseteq Pair
           /\ ToCollect(t) \subseteq Pair /\ ToCollect(t) \subseteq PairsOf(t.refs)
           /\ ToResolve(t) \subseteq Pair
<1>1. Sent(t) \subseteq Refs
  BY DEF Refs
<1>2. ToResolve(t) \subseteq Pair
  BY <1>1 DEF ToResolve, PairsOf, Pair
<1> QED BY <1>2, PairsType DEF ToCollect

\* What goes out of a request are references of its texts, or what is left of
\* them in the same place; no expression is made out of anything.
LEMMA SentType ==
    ASSUME NEW t \in Request, NEW r \in Sent(t)
    PROVE  /\ \E q \in t.refs : q.place = r.place /\ r.keys \subseteq q.keys
           /\ r.fun # "none" => r \in t.refs
<1>1. PICK q \in t.refs : r = IF q.goes = "cut" THEN Rest(q) ELSE q
  BY DEF Sent
<1>2. CASE q.goes = "cut"
  <2>1. r = Rest(q) /\ q.left \subseteq q.keys
    BY <1>1, <1>2, HandleAssumption
  <2>2. r.place = q.place /\ r.keys = q.left /\ r.fun = "none"
    BY <2>1 DEF Rest
  <2> QED BY <2>1, <2>2
<1>3. CASE q.goes # "cut"
  BY <1>1, <1>3
<1> QED BY <1>2, <1>3

LEMMA TakenType ==
    ASSUME mem \in MemMap, NEW r \in Refs, NEW u \in KeyURI, Resolves(mem, u)
    PROVE  /\ Taken(mem, r, u) \in Item
           /\ Taken(mem, r, u).value = ValueIn(mem, u)
<1>1. mem[u] \in MemEntry
  BY DEF Resolves, ValueIn, MemMap
<1> QED BY <1>1, Entries DEF Resolves, ValueIn, Taken, Item, Plain

LEMMA EchoType ==
    ASSUME NEW e \in Echoes(wire)
    PROVE  /\ e.raw \subseteq {i.value : i \in wire}
           /\ e.enc \subseteq Outputs(wire)
           /\ HandleTypeOK => e.raw \subseteq Value
<1>1. e.raw \subseteq {i.value : i \in wire} /\ e.enc \subseteq Outputs(wire)
  BY DEF Echoes
<1> QED BY <1>1 DEF HandleTypeOK, Item

LEMMA ReplyType ==
    ASSUME HandleTypeOK
    PROVE  /\ NoEcho.raw = {} /\ NoEcho.enc = {}
           /\ \A c \in Code : \A b :
                 /\ Error(c, b).code \in Code
                 /\ Error(c, b).masked = NoEcho
                 /\ Error(c, b).bare = b
           /\ NoReply.code \in Code
           /\ NoReply.masked = NoEcho /\ NoReply.bare = NoEcho
BY DEF NoEcho, Error, NoReply, Code

LEMMA FinishType ==
    ASSUME HandleTypeOK, pc # "idle", NEW r, r.code \in Code,
           r.masked.raw \subseteq Value, r.bare.raw \subseteq Value,
           Finish(r), Quiet
    PROVE  HandleTypeOK'
BY DEF HandleTypeOK, Finish, Quiet, storeVars, history, PC, NoSnapshot, Plain

LEMMA RefuseType ==
    ASSUME HandleTypeOK, pc # "idle", NEW c \in Code, Refuse(c), Quiet
    PROVE  HandleTypeOK'
<1>1. /\ Error(c, NoEcho).code \in Code
      /\ Error(c, NoEcho).masked.raw \subseteq Value
      /\ Error(c, NoEcho).bare.raw \subseteq Value
  BY ReplyType
<1> QED BY <1>1, FinishType DEF Refuse

\* A daemon that serves has its keys in memory, and the locals of a call are
\* what their readers take them for, at every step of everyone.
THEOREM HandleTypes == HandleSpec => []HandleTypeOK
<1>1. HandleInit => HandleTypeOK
  <2>1. ASSUME HandleInit PROVE file \in FileMap /\ mem \in MemMap
    BY <2>1, OpenedFileType DEF HandleInit
  <2> QED BY <2>1 DEF HandleInit, HandleTypeOK, PC, NoSnapshot, Plain, NoReply,
                      NoEcho, Code
<1>2. HandleTypeOK /\ [HandleNext]_handleVars => HandleTypeOK'
  <2> SUFFICES ASSUME HandleTypeOK, [HandleNext]_handleVars
               PROVE  HandleTypeOK'
    OBVIOUS
  <2>a. {"INVALID_REQUEST", "KEY_NOT_FOUND", "KEY_DISABLED", "FIELD_NOT_ALLOWED",
         "URL_PREFIX_MISMATCH", "HTTP_ERROR", "OK"} \subseteq Code
    BY DEF Code
  <2>1. ASSUME NEW t \in Request, Receive(t)
        PROVE  HandleTypeOK'
    BY <2>1, WalksType
       DEF HandleTypeOK, PC, Code, Receive, Quiet, storeVars, history, Error, NoEcho
  <2>2. ASSUME NEW r \in Refs, NEW u \in KeyURI, Validate(r, u)
        PROVE  HandleTypeOK'
    <3>1. CASE \E c \in Code : Refuse(c)
      BY <2>2, <3>1, RefuseType DEF Validate
    <3>2. CASE /\ todo' = todo \ {<<r, u>>}
               /\ UNCHANGED <<pc, req, snap, found, wire, reply>>
      BY <2>2, <3>2 DEF HandleTypeOK, Validate, Quiet, storeVars, history
    <3> QED BY <2>2, <2>a, <3>1, <3>2 DEF Validate
  <2>3. CASE RefuseHeaderName
    BY <2>3, <2>a, RefuseType DEF RefuseHeaderName
  <2>4. CASE TakeSnapshot
    <3>1. snap' \in [KeyURI -> Plain]
      BY <2>4, Entries
         DEF HandleTypeOK, TakeSnapshot, SnapshotOf, ValueIn, MemMap, Plain
    <3> QED BY <2>4, <3>1, WalksType
            DEF HandleTypeOK, PC, TakeSnapshot, Quiet, storeVars, history
  <2>5. ASSUME NEW r \in Refs, NEW u \in KeyURI, Collect(r, u)
        PROVE  HandleTypeOK'
    BY <2>5, TakenType DEF HandleTypeOK, Collect, Quiet, storeVars, history
  <2>6. CASE StartRoundTrip
    <3>1. CASE Refuse("HTTP_ERROR")
      BY <2>6, <2>a, <3>1, RefuseType DEF StartRoundTrip
    <3>2. CASE /\ todo' = ToResolve(req)
               /\ pc' = "resolve"
               /\ UNCHANGED <<req, snap, found, wire, reply>>
      BY <2>6, <3>2, WalksType
         DEF HandleTypeOK, PC, StartRoundTrip, Quiet, storeVars, history
    <3> QED BY <2>6, <3>1, <3>2 DEF StartRoundTrip
  <2>7. ASSUME NEW r \in Refs, NEW u \in KeyURI, Resolve(r, u)
        PROVE  HandleTypeOK'
    <3>1. CASE Refuse("HTTP_ERROR")
      BY <2>7, <2>a, <3>1, RefuseType DEF Resolve
    <3>2. CASE /\ ~Unusable(mem, r, u)
               /\ wire' = wire \cup {Taken(mem, r, u)}
               /\ todo' = todo \ {<<r, u>>}
               /\ UNCHANGED <<pc, req, snap, found, reply>>
      BY <2>7, <3>2, TakenType
         DEF HandleTypeOK, Resolve, Unusable, Quiet, storeVars, history
    <3> QED BY <2>7, <3>1, <3>2 DEF Resolve
  <2>8. CASE Send
    BY <2>8 DEF HandleTypeOK, PC, Send, Quiet, storeVars, history
  <2>9. ASSUME NEW b \in Echoes(wire), ExchangeFails(b)
        PROVE  HandleTypeOK'
    <3>1. /\ Error("HTTP_ERROR", b).code \in Code
          /\ Error("HTTP_ERROR", b).masked.raw \subseteq Value
          /\ Error("HTTP_ERROR", b).bare.raw \subseteq Value
      BY <2>a, ReplyType, EchoType
    <3> QED BY <2>9, <3>1, FinishType DEF ExchangeFails
  <2>10. ASSUME NEW e \in Echoes(wire), NEW b \in Echoes(wire), Answer(e, b)
         PROVE  HandleTypeOK'
    <3> DEFINE r == [code |-> "OK", masked |-> Masked(e), bare |-> b]
    <3>1. r.code \in Code /\ r.masked.raw \subseteq Value /\ r.bare.raw \subseteq Value
      BY <2>a, EchoType DEF Masked
    <3> QED BY <2>10, <3>1, FinishType DEF Answer
  <2>11. CASE Return
    BY <2>11, ReplyType DEF HandleTypeOK, PC, Return, storeVars
  <2>12. CASE Others
    BY <2>12, OthersTypes, OthersStep DEF HandleTypeOK, OthersEffect, callVars
  <2>13. CASE UNCHANGED handleVars
    BY <2>13 DEF HandleTypeOK, handleVars, storeVars, callVars, history
  <2> QED BY <2>1, <2>2, <2>3, <2>4, <2>5, <2>6, <2>7, <2>8, <2>9, <2>10,
             <2>11, <2>12, <2>13 DEF HandleNext, Advance, Others
<1> QED BY <1>1, <1>2, PTL DEF HandleSpec
-----------------------------------------------------------------------------
(* Encodings: two collections of items that agree with the snapshot on the   *)
(* keys of a reference, and have all of them, encode it the same way.        *)

\* S has all arguments of r, with the values of the snapshot.
AsInSnapshot(S, r) ==
    /\ \A i \in S : i.ref = r => i.key \in r.keys /\ i.value = snap[i.key]
    /\ \A u \in r.keys : \E i \in S : i.ref = r /\ i.key = u

LEMMA SameEncoding ==
    ASSUME NEW S, NEW T, NEW r, AsInSnapshot(S, r), AsInSnapshot(T, r)
    PROVE  Encoded(S, r) = Encoded(T, r)
<1> DEFINE Parts(X) == {<<i.key, i.value>> : i \in {j \in X : j.ref = r}}
<1>1. Parts(S) = {<<u, snap[u]>> : u \in r.keys}
  BY DEF AsInSnapshot
<1>2. Parts(T) = {<<u, snap[u]>> : u \in r.keys}
  BY DEF AsInSnapshot
<1>3. Parts(S) = Parts(T)
  BY <1>1, <1>2
<1> QED BY <1>3 DEF Encoded

LEMMA OutputsUnfold ==
    ASSUME NEW S, NEW o \in Outputs(S)
    PROVE  \E r \in {i.ref : i \in S} :
              /\ o = Encoded(S, r) /\ r.fun = "base64"
              /\ \A u \in r.keys : \E i \in S : i.ref = r /\ i.key = u
BY DEF Outputs

LEMMA OutputsFold ==
    ASSUME NEW S, NEW r \in {i.ref : i \in S}, r.fun = "base64",
           \A u \in r.keys : \E i \in S : i.ref = r /\ i.key = u
    PROVE  Encoded(S, r) \in Outputs(S)
BY DEF Outputs

LEMMA EncodedPart ==
    ASSUME NEW S, NEW i \in S
    PROVE  <<i.key, i.value>> \in Encoded(S, i.ref).parts
BY DEF Encoded
-----------------------------------------------------------------------------
(* The steps of the call keep the invariant. *)

\* A call that returns leaves nothing but its reply.
LEMMA FinishKeeps ==
    ASSUME HandleTypeOK, HandleInv, pc # "idle", NEW r, Finish(r), Quiet,
           r.masked.raw \subseteq fresh,
           \A o \in r.masked.enc : \E part \in o.parts : part[1] \in disturbed
    PROVE  HandleInv'
<1> USE DEF Finish, Quiet, history
<1>1. Stages' /\ Validated' /\ MemKnown' /\ CollectedSoFar' /\ ResolvedSoFar'
      /\ NoPlaceholderSent'
  BY DEF Stages, Validated, MemKnown, CollectedSoFar, ResolvedSoFar,
         NoPlaceholderSent, Masking
<1>2. ItemsOfRequest' /\ WireAuthorised' /\ ItemsKnown'
  BY DEF ItemsOfRequest, WireAuthorised, ItemsKnown
<1>3. RawShownOnlyIfFresh' /\ EncodedShownOnlyIfDisturbed'
  BY DEF RawShownOnlyIfFresh, EncodedShownOnlyIfDisturbed
<1> QED BY <1>1, <1>2, <1>3 DEF HandleInv

\* An error shows nothing in the places that are masked.
LEMMA ErrorKeeps ==
    ASSUME HandleTypeOK, HandleInv, pc # "idle", NEW c, NEW b,
           Finish(Error(c, b)), Quiet
    PROVE  HandleInv'
<1>1. Error(c, b).masked.raw = {} /\ Error(c, b).masked.enc = {}
  BY DEF Error, NoEcho
<1> QED BY <1>1, FinishKeeps

LEMMA RefuseKeeps ==
    ASSUME HandleTypeOK, HandleInv, pc # "idle", NEW c, Refuse(c), Quiet
    PROVE  HandleInv'
BY ErrorKeeps DEF Refuse

LEMMA ReceiveKeeps ==
    ASSUME HandleTypeOK, HandleInv, NEW t \in Request, Receive(t)
    PROVE  HandleInv'
<1> USE DEF Receive, Quiet, storeVars, history
<1>1. found = {} /\ wire = {} /\ found' = {} /\ wire' = {} /\ reply = NoReply
  BY DEF HandleInv, Stages
<1>2. Stages' /\ MemKnown' /\ CollectedSoFar' /\ ResolvedSoFar' /\ NoPlaceholderSent'
  BY <1>1 DEF Stages, MemKnown, CollectedSoFar, ResolvedSoFar,
              NoPlaceholderSent, Masking
<1>3. Validated'
  BY DEF Validated, Masking
<1>4. ItemsOfRequest' /\ WireAuthorised' /\ ItemsKnown'
  BY <1>1 DEF ItemsOfRequest, WireAuthorised, ItemsKnown
<1>5. reply'.masked.raw = {} /\ reply'.masked.enc = {}
  BY <1>1 DEF Error, NoReply, NoEcho
<1> QED BY <1>2, <1>3, <1>4, <1>5
    DEF HandleInv, RawShownOnlyIfFresh, EncodedShownOnlyIfDisturbed

\* Steps after which snapshot, items, reply and memory are as before.
Still == UNCHANGED <<req, snap, found, wire, reply, mem, history>>

LEMMA StillKeeps ==
    ASSUME HandleTypeOK, HandleInv, Still
    PROVE  /\ ItemsOfRequest' /\ WireAuthorised' /\ ItemsKnown'
           /\ RawShownOnlyIfFresh' /\ EncodedShownOnlyIfDisturbed'
BY DEF Still, history, HandleInv, ItemsOfRequest, WireAuthorised, ItemsKnown,
       Known, RawShownOnlyIfFresh, EncodedShownOnlyIfDisturbed

LEMMA ValidateKeeps ==
    ASSUME HandleTypeOK, HandleInv, NEW r \in Refs, NEW u \in KeyURI,
           Validate(r, u)
    PROVE  HandleInv'
<1>1. CASE \E c : Refuse(c)
  BY <1>1, RefuseKeeps DEF Validate
<1>2. CASE /\ mem[u] # NoEntry
           /\ Permits(mem[u].policy, req, r)
           /\ todo' = todo \ {<<r, u>>}
           /\ UNCHANGED <<pc, req, snap, found, wire, reply>>
  <2> USE <1>2 DEF Quiet, storeVars, history
  <2>1. pc = "validate" /\ Still
    BY DEF Validate, Still
  <2>2. \A a \in PairsOf(req.refs) \ todo' : Passed(a[1], a[2])
    BY <2>1 DEF HandleInv, Validated, PairsOf, Passed
  <2>3. Validated'
    BY <2>1, <2>2 DEF Validate, Validated, Passed, Masking
  <2>4. Stages' /\ MemKnown' /\ CollectedSoFar' /\ ResolvedSoFar' /\ NoPlaceholderSent'
    BY <2>1 DEF HandleInv, Stages, MemKnown, CollectedSoFar, ResolvedSoFar,
                NoPlaceholderSent, Masking
  <2> QED BY <2>1, <2>3, <2>4, StillKeeps DEF HandleInv
<1> QED BY <1>1, <1>2 DEF Validate

LEMMA TakeSnapshotKeeps ==
    ASSUME HandleTypeOK, HandleInv, TakeSnapshot
    PROVE  HandleInv'
<1> USE DEF TakeSnapshot, Quiet, storeVars, history
<1>1. found' = {} /\ wire' = {} /\ reply' = NoReply
  BY DEF HandleInv, Stages
<1>2. Stages' /\ ResolvedSoFar' /\ NoPlaceholderSent'
  BY <1>1, WalksType DEF HandleTypeOK, Stages, ResolvedSoFar, NoPlaceholderSent
<1>3. Validated'
  BY DEF HandleInv, Validated, Passed
<1>4. MemKnown'
  BY DEF MemKnown, Known, SnapshotOf, ValueIn
<1>5. CollectedSoFar'
  BY DEF CollectedSoFar, ToCollect
<1>6. ItemsOfRequest' /\ WireAuthorised' /\ ItemsKnown'
  BY <1>1 DEF ItemsOfRequest, WireAuthorised, ItemsKnown
<1>7. reply'.masked.raw = {} /\ reply'.masked.enc = {}
  BY <1>1 DEF NoReply, NoEcho
<1> QED BY <1>2, <1>3, <1>4, <1>5, <1>6, <1>7
    DEF HandleInv, RawShownOnlyIfFresh, EncodedShownOnlyIfDisturbed

\* What the resolver hands out after the snapshot is in the snapshot or fresh.
LEMMA TakenKnown ==
    ASSUME HandleTypeOK, HandleInv, pc \in Masking,
           NEW r \in Refs, NEW u \in KeyURI, Resolves(mem, u)
    PROVE  LET i == Taken(mem, r, u) IN
           /\ i.ref = r /\ i.key = u /\ i.policy = mem[u].policy
           /\ Known(u, i.value)
           /\ u \in disturbed \/ i.value = snap[u]
BY TakenType DEF HandleTypeOK, HandleInv, MemKnown, Resolves, Taken

LEMMA CollectKeeps ==
    ASSUME HandleTypeOK, HandleInv, NEW r \in Refs, NEW u \in KeyURI,
           Collect(r, u)
    PROVE  HandleInv'
<1> USE DEF Collect, Quiet, storeVars, history
<1>1. pc = "collect" /\ <<r, u>> \in todo
  BY DEF FirstOf
<1>a. pc \in Masking
  BY <1>1 DEF Masking
<1>2. Stages' /\ ResolvedSoFar' /\ NoPlaceholderSent'
  BY <1>1 DEF HandleInv, Stages, ResolvedSoFar, NoPlaceholderSent
<1>3. Validated' /\ MemKnown'
  BY <1>1 DEF HandleInv, Validated, Passed, MemKnown, Known
<1>4. WireAuthorised' /\ RawShownOnlyIfFresh' /\ EncodedShownOnlyIfDisturbed'
  BY DEF HandleInv, WireAuthorised, RawShownOnlyIfFresh,
         EncodedShownOnlyIfDisturbed
<1>5. CASE /\ Resolves(mem, u)
           /\ found' = found \cup {Taken(mem, r, u)}
           /\ todo' = todo \ {<<r, u>>}
  <2>1. ItemsOfRequest' /\ ItemsKnown'
    BY <1>1, <1>a, <1>5, TakenKnown
       DEF HandleInv, Stages, ItemsOfRequest, ItemsKnown, Known, PairsOf
  <2>2. CollectedSoFar'
    <3> SUFFICES ASSUME NEW a \in ToCollect(req)
                 PROVE  \/ a \in todo'
                        \/ \E i \in found' : i.ref = a[1] /\ i.key = a[2]
                        \/ Skipped(a[1])
      BY <1>1 DEF CollectedSoFar, Skipped
    <3>1. CASE a = <<r, u>>
      BY <1>5, <3>1, <1>a, TakenKnown
    <3>2. CASE a # <<r, u>>
      BY <1>1, <1>a, <1>5, <3>2 DEF HandleInv, CollectedSoFar
    <3> QED BY <3>1, <3>2
  <2> QED BY <1>2, <1>3, <1>4, <2>1, <2>2 DEF HandleInv
<1>6. CASE /\ ~Resolves(mem, u)
           /\ todo' = {a \in todo : a[1] # r}
           /\ UNCHANGED found
  <2>1. ItemsOfRequest' /\ ItemsKnown'
    BY <1>6 DEF HandleInv, ItemsOfRequest, ItemsKnown, Known
  <2>2. Skipped(r)
    <3>1. u \in r.keys
      BY <1>1 DEF HandleInv, Stages, PairsOf
    <3> QED BY <1>a, <1>6, <3>1 DEF HandleInv, MemKnown, Resolves, Skipped
  <2>3. CollectedSoFar'
    BY <1>1, <1>a, <1>6, <2>2 DEF HandleInv, CollectedSoFar, Skipped
  <2> QED BY <1>2, <1>3, <1>4, <2>1, <2>3 DEF HandleInv
<1> QED BY <1>5, <1>6

LEMMA StartRoundTripKeeps ==
    ASSUME HandleTypeOK, HandleInv, StartRoundTrip
    PROVE  HandleInv'
<1>1. CASE Refuse("HTTP_ERROR")
  BY <1>1, RefuseKeeps DEF StartRoundTrip
<1>2. CASE /\ todo' = ToResolve(req)
           /\ pc' = "resolve"
           /\ UNCHANGED <<req, snap, found, wire, reply>>
  <2> USE <1>2 DEF StartRoundTrip, Quiet, storeVars, history
  <2>1. Still
    BY DEF Still
  <2>2. Stages' /\ ResolvedSoFar' /\ NoPlaceholderSent'
    BY WalksType
       DEF HandleTypeOK, HandleInv, Stages, ResolvedSoFar, NoPlaceholderSent
  <2>3. Validated' /\ MemKnown'
    BY DEF HandleInv, Validated, Passed, MemKnown, Known, Masking
  <2>4. CollectedSoFar'
    BY DEF HandleInv, CollectedSoFar, Skipped, Masking
  <2> QED BY <2>1, <2>2, <2>3, <2>4, StillKeeps DEF HandleInv
<1> QED BY <1>1, <1>2 DEF StartRoundTrip

LEMMA ResolveKeeps ==
    ASSUME HandleTypeOK, HandleInv, NEW r \in Refs, NEW u \in KeyURI,
           Resolve(r, u)
    PROVE  HandleInv'
<1>1. CASE Refuse("HTTP_ERROR")
  BY <1>1, RefuseKeeps DEF Resolve
<1>2. CASE /\ ~Unusable(mem, r, u)
           /\ wire' = wire \cup {Taken(mem, r, u)}
           /\ todo' = todo \ {<<r, u>>}
           /\ UNCHANGED <<pc, req, snap, found, reply>>
  <2> USE <1>2 DEF Resolve, Quiet, storeVars, history
  <2>1. /\ pc = "resolve" /\ pc \in Masking
        /\ Resolves(mem, u)
        /\ <<r, u>> \in todo /\ r \in Sent(req) /\ u \in r.keys
    BY DEF Masking, Unusable, FirstOf, HandleInv, Stages, ToResolve, PairsOf
  <2>2. ItemsOfRequest' /\ ItemsKnown'
    BY <2>1, TakenKnown DEF HandleInv, ItemsOfRequest, ItemsKnown, Known
  <2>3. WireAuthorised'
    <3>0. PICK q \in req.refs : q.place = r.place /\ r.keys \subseteq q.keys
      BY <2>1, SentType DEF HandleTypeOK
    <3>a. <<q, u>> \in PairsOf(req.refs)
      BY <2>1, <3>0 DEF PairsOf
    <3>1. Passed(r, u)
      BY <2>1, <3>0, <3>a DEF HandleInv, Validated, Passed, Permits
    <3> QED BY <2>1, <3>1, TakenKnown DEF HandleInv, WireAuthorised, Passed, Permits
  <2>4. ResolvedSoFar'
    <3> SUFFICES ASSUME NEW a \in ToResolve(req)
                 PROVE  a \in todo' \/ \E i \in wire' : i.ref = a[1] /\ i.key = a[2]
      BY DEF ResolvedSoFar
    <3>1. CASE a = <<r, u>>
      BY <3>1, <2>1, TakenKnown
    <3>2. CASE a # <<r, u>>
      BY <2>1, <3>2 DEF HandleInv, ResolvedSoFar
    <3> QED BY <3>1, <3>2
  <2>5. Stages' /\ NoPlaceholderSent'
    BY <2>1 DEF HandleInv, Stages, NoPlaceholderSent
  <2>6. Validated' /\ MemKnown' /\ CollectedSoFar'
    BY <2>1 DEF HandleInv, Validated, Passed, MemKnown, Known, CollectedSoFar,
                Skipped
  <2>7. RawShownOnlyIfFresh' /\ EncodedShownOnlyIfDisturbed'
    BY DEF HandleInv, RawShownOnlyIfFresh, EncodedShownOnlyIfDisturbed
  <2> QED BY <2>2, <2>3, <2>4, <2>5, <2>6, <2>7 DEF HandleInv
<1> QED BY <1>1, <1>2 DEF Resolve

LEMMA SendKeeps ==
    ASSUME HandleTypeOK, HandleInv, Send
    PROVE  HandleInv'
<1> USE DEF Send, Quiet, storeVars, history
<1>1. Still
  BY DEF Still
<1>2. Stages' /\ ResolvedSoFar'
  BY DEF HandleInv, Stages, ResolvedSoFar
<1>3. Validated' /\ MemKnown' /\ CollectedSoFar'
  BY DEF HandleInv, Validated, Passed, MemKnown, Known, CollectedSoFar, Skipped,
         Masking
<1>4. NoPlaceholderSent'
  <2> DEFINE out(r) == IF r.goes = "cut" THEN Rest(r) ELSE r
  <2> SUFFICES ASSUME NEW r \in req.refs, NEW u \in r.keys, r.goes # "stays",
                      r.goes = "cut" => u \in r.left
               PROVE  \E i \in wire : i.key = u /\ i.ref = out(r)
    BY DEF NoPlaceholderSent
  <2>1. out(r) \in Sent(req)
    BY DEF Sent
  <2>2. u \in out(r).keys /\ u \in KeyURI
    BY HandleAssumption DEF HandleTypeOK, Rest
  <2>3. <<out(r), u>> \in ToResolve(req)
    BY <2>1, <2>2 DEF ToResolve, PairsOf
  <2> QED BY <2>3 DEF HandleInv, ResolvedSoFar
<1> QED BY <1>1, <1>2, <1>3, <1>4, StillKeeps DEF HandleInv

\* The one step that shows something where it is masked: what the masker does
\* not know.
LEMMA AnswerKeeps ==
    ASSUME HandleTypeOK, HandleInv, NEW e \in Echoes(wire), NEW b \in Echoes(wire),
           Answer(e, b)
    PROVE  HandleInv'
<1> DEFINE r0 == [code |-> "OK", masked |-> Masked(e), bare |-> b]
<1>1. pc = "exchange" /\ Finish(r0) /\ Quiet
  BY DEF Answer
<1>2. r0.masked.raw = e.raw \ MaskedValues /\ r0.masked.enc = e.enc \ MaskedOutputs
  BY DEF Masked
<1> HIDE DEF r0
<1>3. e.raw \ MaskedValues \subseteq fresh
  <2> SUFFICES ASSUME NEW v \in e.raw, v \notin MaskedValues
               PROVE  v \in fresh
    OBVIOUS
  <2>1. PICK i \in wire : i.value = v
    BY EchoType
  <2>2. i.key \in KeyURI
    BY DEF HandleTypeOK, Item
  <2> QED BY <2>1, <2>2 DEF HandleInv, ItemsKnown, Known, MaskedValues
<1>4. \A o \in e.enc \ MaskedOutputs : \E part \in o.parts : part[1] \in disturbed
  <2> SUFFICES ASSUME NEW o \in e.enc, o \notin MaskedOutputs,
                      \A part \in o.parts : part[1] \notin disturbed
               PROVE  FALSE
    OBVIOUS
  <2>0. o \in Outputs(wire)
    BY EchoType
  <2>1. PICK r \in {i.ref : i \in wire} :
           /\ o = Encoded(wire, r) /\ r.fun = "base64"
           /\ \A u \in r.keys : \E i \in wire : i.ref = r /\ i.key = u
    BY <2>0, OutputsUnfold
  <2>2. \A u \in r.keys : u \notin disturbed
    <3> TAKE u \in r.keys
    <3>1. PICK i \in wire : i.ref = r /\ i.key = u
      BY <2>1
    <3>2. <<i.key, i.value>> \in o.parts
      BY <2>1, <3>1, EncodedPart
    <3> QED BY <3>1, <3>2
  <2>3. \A i \in found \cup wire :
           i.ref = r => i.key \in r.keys /\ i.value = snap[i.key]
    BY <2>2 DEF HandleInv, ItemsOfRequest, ItemsKnown
  <2>4. \A u \in r.keys : u \in KeyURI /\ snap[u] # Empty
    <3> TAKE u \in r.keys
    <3>1. PICK i \in wire : i.ref = r /\ i.key = u
      BY <2>1
    <3> QED BY <2>3, <3>1, StoreAssumption DEF HandleTypeOK, Item
  <2>5. ~Skipped(r)
    BY <2>2, <2>4 DEF Skipped
  <2>6. r \in req.refs /\ r.fun # "none"
    <3>1. req \in Request
      BY <1>1 DEF HandleTypeOK
    <3>2. r \in Sent(req)
      BY <2>1 DEF HandleInv, ItemsOfRequest
    <3> QED BY <2>1, <3>1, <3>2, SentType
  <2>7. \A u \in r.keys : \E i \in found : i.ref = r /\ i.key = u
    <3> TAKE u \in r.keys
    <3>1. <<r, u>> \in ToCollect(req)
      BY <2>4, <2>6 DEF ToCollect, PairsOf
    <3> QED BY <1>1, <2>5, <3>1 DEF HandleInv, CollectedSoFar, Masking
  <2>8. r \in {i.ref : i \in found}
    <3>1. PICK i \in wire : i.ref = r
      OBVIOUS
    <3>2. i.key \in r.keys
      BY <2>3, <3>1
    <3> QED BY <2>7, <3>2
  <2>9. Encoded(wire, r) = Encoded(found, r)
    <3>1. AsInSnapshot(wire, r) /\ AsInSnapshot(found, r)
      BY <2>1, <2>3, <2>7 DEF AsInSnapshot
    <3> QED BY <3>1, SameEncoding
  <2>10. o \in Outputs(found)
    BY <2>1, <2>7, <2>8, <2>9, OutputsFold
  <2> QED BY <2>10 DEF MaskedOutputs
<1> QED BY <1>1, <1>2, <1>3, <1>4, FinishKeeps

LEMMA ReturnKeeps ==
    ASSUME HandleInv, Return
    PROVE  HandleInv'
<1>1. found' = {} /\ wire' = {} /\ pc' = "idle" /\ reply' = NoReply
  BY DEF Return, HandleInv, Stages
<1>2. reply'.masked.raw = {} /\ reply'.masked.enc = {}
  BY <1>1 DEF NoReply, NoEcho
<1> QED BY <1>1, <1>2
    DEF HandleInv, Stages, ItemsOfRequest, Validated, WireAuthorised, MemKnown,
        ItemsKnown, CollectedSoFar, ResolvedSoFar, NoPlaceholderSent,
        RawShownOnlyIfFresh, EncodedShownOnlyIfDisturbed, Masking

\* Others may change memory under the call; the history says what they did.
LEMMA OthersKeep ==
    ASSUME HandleTypeOK, HandleInv, Others
    PROVE  HandleInv'
<1> USE DEF callVars
<1>1. OthersEffect
  BY OthersStep
<1>2. Stages' /\ ItemsOfRequest' /\ ResolvedSoFar' /\ NoPlaceholderSent'
  BY <1>1 DEF OthersEffect, HandleInv, Stages, ItemsOfRequest, ResolvedSoFar,
              NoPlaceholderSent
<1>3. ASSUME pc = "validate" \/ pc \in Masking, NEW r, NEW u \in KeyURI,
             Passed(r, u)
      PROVE  Passed(r, u)'
  BY <1>1, <1>3 DEF OthersEffect, Passed, PolicyIn
<1>4. Validated'
  <2>1. \A a \in PairsOf(req.refs) : a[2] \in KeyURI
    BY DEF PairsOf
  <2> QED BY <1>1, <1>3, <2>1 DEF OthersEffect, HandleInv, Validated
<1>5. WireAuthorised'
  BY <1>1 DEF OthersEffect, HandleInv, WireAuthorised
<1>6. MemKnown'
  BY <1>1 DEF OthersEffect, HandleInv, MemKnown, Known
<1>7. ItemsKnown'
  BY <1>1 DEF OthersEffect, HandleInv, ItemsKnown, Known
<1>8. CollectedSoFar'
  BY <1>1 DEF OthersEffect, HandleInv, CollectedSoFar, Skipped
<1>9. RawShownOnlyIfFresh' /\ EncodedShownOnlyIfDisturbed'
  BY <1>1 DEF OthersEffect, HandleInv, RawShownOnlyIfFresh,
              EncodedShownOnlyIfDisturbed
<1> QED BY <1>2, <1>4, <1>5, <1>6, <1>7, <1>8, <1>9 DEF HandleInv
-----------------------------------------------------------------------------
\* The parts of the inductive invariant hold of every call, at every step.
THEOREM HandleInvariant == HandleSpec => []HandleInv
<1>1. HandleInit => HandleInv
  BY DEF HandleInit, NoReply, NoEcho, HandleInv, Stages, ItemsOfRequest, Validated,
         WireAuthorised, MemKnown, ItemsKnown, CollectedSoFar, ResolvedSoFar,
         NoPlaceholderSent, RawShownOnlyIfFresh, EncodedShownOnlyIfDisturbed,
         Masking
<1>2. HandleTypeOK /\ HandleInv /\ [HandleNext]_handleVars => HandleInv'
  <2> SUFFICES ASSUME HandleTypeOK, HandleInv, [HandleNext]_handleVars
               PROVE  HandleInv'
    OBVIOUS
  <2>1. CASE RefuseHeaderName
    BY <2>1, RefuseKeeps DEF RefuseHeaderName
  <2>2. ASSUME NEW b \in Echoes(wire), ExchangeFails(b)
        PROVE  HandleInv'
    BY <2>2, ErrorKeeps DEF ExchangeFails
  <2>3. CASE UNCHANGED handleVars
    BY <2>3 DEF handleVars, storeVars, callVars, history, HandleInv, Stages,
                ItemsOfRequest, Validated, Passed, WireAuthorised, MemKnown,
                ItemsKnown, Known, CollectedSoFar, Skipped, ResolvedSoFar,
                NoPlaceholderSent, RawShownOnlyIfFresh,
                EncodedShownOnlyIfDisturbed
  <2> QED BY <2>1, <2>2, <2>3, ReceiveKeeps, ValidateKeeps, TakeSnapshotKeeps,
             CollectKeeps, StartRoundTripKeeps, ResolveKeeps, SendKeeps,
             AnswerKeeps, ReturnKeeps, OthersKeep
          DEF HandleNext, Advance, Others
<1> QED BY <1>1, <1>2, HandleTypes, PTL DEF HandleSpec

\* What the daemon held when a call took its snapshot never comes back raw in
\* a body or in the value of a header, whatever is disabled, reloaded or
\* rewritten while the request is out.
THEOREM HandleRawShown == HandleSpec => []RawShownOnlyIfFresh
<1>1. HandleInv => RawShownOnlyIfFresh
  BY DEF HandleInv
<1> QED BY <1>1, HandleInvariant, PTL

\* In a body or in the value of a header a base64 expression comes back only if
\* one of its keys was touched after the snapshot.
THEOREM HandleEncodedShown == HandleSpec => []EncodedShownOnlyIfDisturbed
<1>1. HandleInv => EncodedShownOnlyIfDisturbed
  BY DEF HandleInv
<1> QED BY <1>1, HandleInvariant, PTL

\* Every value sent was released by a policy that permits it, or by one that
\* replaced, during the call, the policy the call found.
THEOREM HandleAuthorised == HandleSpec => []WireAuthorised
<1>1. HandleInv => WireAuthorised
  BY DEF HandleInv
<1> QED BY <1>1, HandleInvariant, PTL

\* A key nobody touched goes out with the value the masker knows.
THEOREM HandleAsSnapshot == HandleSpec => []WireAsSnapshot
<1>1. HandleInv => WireAsSnapshot
  BY DEF HandleInv, ItemsKnown, WireAsSnapshot
<1> QED BY <1>1, HandleInvariant, PTL

\* No request goes out with a reference left in it, but for what is cut off the
\* first one of a url without a path.
THEOREM HandleComplete == HandleSpec => []NoPlaceholderSent
<1>1. HandleInv => NoPlaceholderSent
  BY DEF HandleInv
<1> QED BY <1>1, HandleInvariant, PTL
=============================================================================
