# Verification of key-rest

TLA+ models of key-rest, TLC configurations that check them on small instances,
and TLAPS proofs of what matters most for every instance. key-rest is a daemon
that keeps an agent's API keys: the agent sends an HTTP request that names keys
as `key-rest://` references, the daemon checks each reference against the key's
policy, puts the value in, sends the request over TLS, and takes credentials
out of the response before the agent sees it.

Paths are relative to `src/`. Line numbers are those of this commit.

## The system

| Component | State | Operations | Talks to |
|---|---|---|---|
| keystore (`internal/keystore/keystore.go`) | `keys.enc` on disk, `s.decrypted` in memory, `s.mu` | Add, Remove, DecryptAll, ClearAll, Disable, Enable, Lookup, List, ListStatus | file system, crypto |
| crypto (`internal/crypto/crypto.go`) | none | Encrypt, Decrypt, ZeroClear, Mlock | – |
| proxy (`internal/proxy/proxy.go`) | per call: the request, a snapshot of the credentials, the transform outputs | Handle: validate, snapshot, collect outputs, send, mask | keystore (read locks), secureTransport |
| secureTransport (`internal/proxy/sectransport.go`) | per call: resolved buffers, the connection | RoundTrip: resolve body, url, headers; dial, write, read | keystore through the resolver, upstream |
| uri (`internal/uri/uri.go`) | none | FindAll, Replace, ReplaceBytes, transforms | the resolver |
| server (`internal/server/server.go`) | listener, quit channel, semaphore of 64, wait group | Start, Stop, accept loop, one goroutine per connection, socket commands | proxy, keystore through callbacks |
| daemon (`internal/daemon/daemon.go`) | pid file, socket file, passphrase | Start, Stop, IsRunning, reload, enable, shutdown | keystore, server, signals |
| command line (`cmd/key-rest/main.go`) | none of its own | add, remove, list, start, stop, enable, disable, status | `keys.enc` directly, the daemon by socket and signal |
| clients (`clients/*`) | none between requests | one connection, one line out, one line in | server |

What is hard about it:

- **One call, many reads of the store.** `Handle` takes the read lock once per
  key it validates, once for the snapshot, once per key it resolves for the
  masker, and once per key it resolves for the wire. Other connections may
  disable, enable or reload between any two of these.
- **Two views that must agree.** Memory and `keys.enc` are changed together by
  one process, but the command line changes the file alone and asks for a
  reload afterwards.
- **Steps that fail half way.** Reload and enable decrypt entry by entry;
  saving truncates before it writes; a request may lose a key between its body
  and its headers.
- **A shutdown among goroutines.** `Stop` must outlive every connection before
  the daemon clears the keys; the accept loop may be starting a goroutine just
  then; a semaphore bounds the connections.
- **Processes that share two files.** Every command looks at the pid file and
  may remove it and the socket; starts, stops and crashes fall between any two
  system calls, and nothing locks anything. The same goes for `keys.enc`.
- **Text taken apart twice.** Placeholders are found by two searches, filled in
  by two passes over a buffer, and masked again in an echo that may be escaped.
- **Waiting.** An upstream that never answers; a client that never writes.

For each component, what makes it correct: the keystore keeps memory and file
in step and leaves no plaintext under a disabled key; `Handle` substitutes only
what the policy releases, sends every reference replaced, shows no credential of
its snapshot in a body or a header value, and always returns; the server never exceeds its
bound, loses no token, and is quiet when `Stop` returns; the daemon's pid file
names the one process that serves; the command line loses no addition and a
running daemon learns of it; masking takes out every form of every value.

## The modules

| Module | What it is |
|---|---|
| `Store` | one keystore.Store: file and memory, one action per method |
| `StoreProofs` | its theorems |
| `Handle` | EXTENDS `Store`: one call of Proxy.Handle, interleaved with the daemon's other connections and the command line |
| `HandleProofs` | its theorems |
| `Accepting` | what the server promises the daemon: an abstract gate with a bounded number of places |
| `Server` | accept loop, goroutines, semaphore, wait group and Stop, with the clients; implements `Accepting` |
| `ServerProofs` | its theorems |
| `Registry` | what keys.enc is to an operator: an abstract table, changed one entry at a time |
| `KeyFile` | EXTENDS `Store`: several `add` and `remove` processes and the daemon around one keys.enc; implements `Registry` while commands do not overlap |
| `KeyFileProofs` | its theorems; EXTENDS `StoreProofs` |
| `Tenure` | what the daemons of a data directory are to everybody else: an abstract line of tenants, one after another |
| `Lifecycle` | start, stop, status and the daemon as processes that act on the pid file and the socket one system call at a time; implements `Tenure` while nobody relies on the pid file at the same time as another |
| `LifecycleProofs` | its theorems |
| `UriSubst` | FindAll, Replace and ReplaceBytes as operators over sequences of tokens |
| `TextProofs` | EXTENDS `UriSubst`: what the proofs about texts rest on |
| `Masking` | EXTENDS `UriSubst`: the masking of responses, in each order the code may take |
| `Echo` | EXTENDS `Masking`: a field on its way out and back, with the one-pass reference it is compared with |
| `EchoProofs` | its theorems on the way out, and on what masking leaves; EXTENDS `TextProofs` |
| `RoundTripProofs` | its theorems on the way back; EXTENDS `EchoProofs` |
| `MCStore`, `MCHandle`, `MCServer`, `MCKeyFile`, `MCLifecycle`, `MCEcho` | values for the constants |

`Store` is used twice, by `Handle` (goroutines of the daemon, for which a save
is one step) and by `KeyFile` (other processes, for which it is three). `Server`
and `Handle` meet in `StoppedIsQuiet` and `Answered`: a call that is under way
keeps Stop waiting, and a call ends. `KeyFile` takes two things of the pid file
from `Lifecycle`, each proved there: that a daemon goes through its phases alone
(`TakesTurns`, which implements `Tenure`), and that nobody is told there is none
while one is there (`NoMeansNobody`). Both hold while no two processes rely on
IsRunning at a time; where they do, `Lifecycle` speaks and `KeyFile` does not.

A definition whose name is another's followed by an underscore and a fault
(`Add_FileOnly`) is that definition with a plausible bug. None is used by a
specification; they show that each property can be broken.

### Store

`file` is `keys.enc`, a function from uri to entry (policy, value, the
passphrase it is sealed under) or `Corrupt`, which is what an interrupted
`os.WriteFile` leaves. `mem` is `s.decrypted`, or `Closed` for nil. Every
exported method holds `s.mu` throughout, so each is one step. `Add` and
`Remove` change the file, then memory if keys are loaded; a failed save leaves
memory alone. `DecryptAll` replaces memory only if every entry opens. `Enable`
stops at the first entry that does not open and keeps what it enabled; which
entries came first depends on the order of the slice, so the action chooses.
url_prefix, placement flags and allow-only rules together are one opaque
*policy*. Enable takes the value, not the policy, from the file, as the code
does.

### Handle

`pc` is where the call stands; `todo` holds the (reference, key) pairs its
current loop has left.

| Code | Action |
|---|---|
| proxy.go:160-182, early refusals | `Receive` |
| validateField, one key | `Validate` |
| header name check | `RefuseHeaderName` |
| snapshotCredentials | `TakeSnapshot` |
| collectTransformOutputs, one key | `Collect` |
| NewRequest, client.Do | `StartRoundTrip` |
| RoundTrip's three ReplaceBytes loops, one key | `Resolve` |
| dial, write | `Send` |
| any failure after that, and the client's timeout | `ExchangeFails` |
| ReadAll, decompression, masking | `Answer` |
| every return: the deferred clearSnapshot, RoundTrip's buffer | `Finish`, part of each of them |
| the goroutine writes the response | `Return` |
| `reload`, `disable`, `enable` on other connections | `Reload`, `DisableKeys`, `EnableKeys` |
| `key-rest add`, `remove` in other processes | `CliAdd`, `CliRemove` |

The loops follow the code's order of fields (url, headers, body for validation
and collection; body, url, headers in RoundTrip); within a field the order is
free, as it is for Go's map of headers. A request is a set of references; text,
parsing and byte layout are left out, but for what RoundTrip makes of the texts
(`Sent`): references in the Host, Content-Length and Transfer-Encoding headers
stay behind, and of a url without a path the first reference is cut, as
sectransport.go:111-117 sends the url from its first "/" on. `Rest` says which of
its keys are left, as plain references.

The upstream answers with any part of what the request carried, in places of two
kinds. The body and the values of headers are masked: the values of the snapshot
and the collected encodings are removed (`reply.masked`). The status text
(proxy.go:274), the names of headers (proxy.go:265-269) and what an error message
quotes of an answer net/http could not read (proxy.go:237, 245, 249) are not
(`reply.bare`). The properties about what a reply shows are about the former; see
Observations for the latter. `rekeyed`, `disturbed` and `fresh`
are history: what others changed while the call was under way. They are read by
properties and by no guard.

Concurrent calls of Handle share nothing but reads of the store, so one call,
repeated, sees every interference that several could.

### Server and Accepting

`main` is the daemon's main goroutine (Start, the wait for a signal, Stop,
shutdown), `loop` the accept loop, and `conn[c]` where connection `c` and its
goroutine stand: not connected, in the kernel's queue, held by the loop,
scanning, busy, then through the deferred calls (close, token, wait group) one
by one. `wg` and `sem` are the counters themselves, so that a goroutine that is
not counted or a token that is not returned shows. A client has at most one
unread line; lines are blank, longer than the scanner's buffer, or requests.
`TakeLine` joins `Scan` and the look at `s.quit` that follows it: nobody can
tell whether quit was closed just before the one or between the two.

`Server` implements `Accepting` under `phase <- Phase`, `inside <- Slotted`,
`free <- Free`. The promise the daemon needs, and the reason `Handle` may assume
loaded keys, is `StoppedIsQuiet`.

### KeyFile and Registry

A command is a process: `stage` is where it stands, `copy` what its load
returned, `saw` what IsRunning told it. `Load`, `Truncate` (the open with
O_TRUNC) and `WriteAll` or `WriteBreaks` are separate, so others may read an
empty file or write over a stale copy. `Overlay` is what is in the file if two
have it open: a shorter text over a longer one leaves a tail that Unmarshal
refuses. IsRunning answers what is in `Answers`: yes whenever a daemon has its pid
in the file, and perhaps also when none has, since the pid of a crashed one may be
in use again (`Lifecycle` has such processes). `cmdAdd` asks IsRunning before its prompts (`AskBefore`), `cmdRemove`
after its save (`Report`). `Answer` is the reload the daemon serves for a
command; `GiveUp` is the five seconds, after which the daemon may still come to
it (`SocketReload`). The daemon is `off`, `loaded` (keys read, no pid file yet),
`named`, `up` or `stopping`; `DaemonEnds` may follow any of them.

`truth`, `standing`, `settled`, `lagging`, `outdated`, `overtaken` and `late` are
history. No guard reads them.

`Table` maps a state to a table of `Registry`: the file, or, while a save is
between truncation and write, the copy in the writer's memory. `KeepsRegistry`
says that a command with a fresh copy changes it as `Registry` does.

### Lifecycle

A process is its pid; `prog` is what it runs and `stage` the system call it is
about to make. IsRunning is four steps for every caller: read the pid file,
probe the process, remove the pid file, remove the socket. Daemon.Start goes on
with `Load`, `Truncate`, `Name`, `Unlink`, `Listen`, `Chmod`, `Notify` (and `Undo`
if the server cannot start), shutdown with `Close`, `Drain`, `Unname`. `Kill` may
come at any step, and `Launch` may give a free pid to a command or to a process
that has nothing to do with key-rest. `sock` names who made the socket file.

`Phase` and `Tenant` map a state to one of `Tenure`. The properties hold while no
two processes rely on IsRunning at a time (`overlapped`, history): from the reading to the last step that rests on it,
which for a daemon is the end of its start. `life_one` shows that the condition
is needed.

### UriSubst, Masking and Echo

A text is a sequence of tokens: uris, the marks of the syntax, line breaks,
words. The regular expressions, parseArgs and the arithmetic on offsets are
modelled by what they match and compute; a value is a sequence of tokens too, so
one can be part of another. base64 is the one transform, with groups of three
bytes as tokens, so that encoding works token by token and yields tokens of its
own (`Code`). Where the code ranges over a map or sorts with sort.Slice, the
operator takes the order as an argument and `Maskings` is the set of results over
all of them. `OnePass(put, keep)` in `Echo` is the reference: the field read once
from left to right, with `put[m]` for a match and `keep[t]` for any other token. What
is sent is that text with the values put in, and what should come back is that text
with the placeholders, so that `ComesBack` compares two passes over one field. It is
claimed of an echo that is `Legible`: a value or an output that stands in it was put
there, or starts within a longer value. Loops are recursive functions, `turn` and
`fill`, which the proofs can speak of.

What tokens leave out: a base64 output that is split at another boundary than the
agent's, or that happens to be a word or part of a uri; a value that starts or
ends within a token.

## The runs

| Run | Question | Bounds | Shows |
|---|---|---|---|
| `store` | do memory and file stay in step? | 2 uris, one also under the other's prefix; 2 values and the empty one, 2 policies, 2 passphrases | holds |
| `handle_one` | what may a call show and send? | 1 key, 2 values (one with a line break), 3 policies (anywhere on the site, only its headers, another site), 9 requests over every form and place, with up to three references to the key and urls with and without a path | holds |
| `handle_pair` | and with several keys in one expression? does every call return? | 2 keys with 1 value each in one base64 expression, whole or cut in front of the second key, prefixes matching one or both | holds, the second under fairness |
| `server_safe` | are counters right, is a stopped server quiet, does a stop return, is there room again? | 3 connections, 2 tokens | holds, the last two if clients leave |
| `keyfile_overlap` | what can a save lose? | 2 commands at a time, 2 keys, one entry to add or to remove, no daemon | holds |
| `keyfile_served` | what does the daemon serve after a command? | 2 commands at a time, 1 key, two versions with other value and policy, one sealed under another passphrase, a daemon that starts and stops | holds |
| `life_safe` | is the daemon that is up the one that is named, are its files left alone, do daemons take turns, and does "no" mean that none is there? | 3 pids | holds |
| `echo` | is every placeholder filled, does an echo come back as it was written, and is nothing left in it? | every field of up to 5 pieces of 8; 2 values, one part of the other | holds |
| `handle_shown` | is no credential ever shown? | as `handle_one` | violated, see below |
| `handle_permit` | is everything sent permitted by its policy? | as `handle_one` | violated |
| `server_idle` | does Stop return, whatever clients do? | 2 connections, 1 token | violated |
| `life_one` | does one daemon serve at most? | as `life_safe` | violated |

Why the bounds are enough to be interesting. In `store`, two passphrases make
refused reloads and half-done enables happen; two values make overwriting
visible. In `handle_one`, two values let a key change under a call, also between
two of its references, so that both values go out in one request; three policies
let it change its permission; repeated calls are not bounded. In
`handle_pair` each of the two keys may go and come back between any two reads.
In `server_safe`, three connections for two tokens fill the server with one at
the door, and connections may be made again without bound. In `keyfile_overlap`
one command saves over what the other has saved, on the same key or another, and
either may be cut off between truncation and write; commands follow each other
without bound. It leaves the daemon out, which writes nothing. `keyfile_served`
has one key because what is served of one depends on no other but through the
passphrase, and on the other command in every step. In `life_safe`, three pids
are a daemon and two commands, a start with its child and a third, or two daemons and
a stop; pids are reused without bound. In `echo`, five pieces are enough for two
different transforms in one field, for a transform with two uris and a literal,
for braces within braces, and for an enclosed uri behind an unenclosed one with a
line break in between; as they are sent, all but 106 of the 37425 fields are legible.
The only cap in the
models is `MaxPieces`: connections bound `wg` and `sem`, and histories are sets.

Symmetry sets are used only where no property is a liveness property
(`store`, `keyfile_overlap`, `keyfile_served`, `life_safe`). Deadlock is not
checked in the server runs, because a daemon that has shut down does nothing
more, and in `echo`, which ends at its bound.

### What the violated runs say

Each checks a sentence of the repository against the code. The passing
properties say exactly how far the sentence is true.

- **`NoCredentialShown`** (README.md:296, docs/audit-speca.md:63, P-010). The
  masker's snapshot is taken before the wire's values are resolved. If an
  edited `keys.enc` is reloaded in between, the new value goes out and its echo
  is not masked. `RawShownOnlyIfFresh` is what holds: in a body or a header value
  only values a key took after the snapshot can come back.
- **`WirePermitted`** (README.md:175). Policies are checked at validation; the
  resolver looks keys up again without checking. A reload in between can
  substitute a key whose present policy forbids it. `WireAuthorised` is what
  holds: unless the policy was replaced during the call, it permits the use.
- **`StopReturns`** without the clients' fairness (README.md:63, server.go:83).
  A goroutine looks at `s.quit` only after it has read a line. One silent client
  keeps Stop waiting for ever, with the keys still in memory.
- **`OneDaemon`** (README.md:102). Start looks for a pid file, derives and opens
  every key, and writes its pid only then (daemon.go:76-102). A second start in
  between finds nothing either; both serve, the second with the first one's
  path. `Orderly` is what holds: without such an overlap the daemon that is up is
  alone.

### Observations

Met while modelling; no run is about them, since they are one step of the code,
or not a sentence of the repository that a run could refute.

- Masking covers the body and the values of headers. An upstream can also echo
  what it got in the status text (proxy.go:274), in the name of a header
  (proxy.go:265-269) or, through an answer that net/http cannot read, in the message
  of an error (proxy.go:237, 245, 249), and there it reaches the agent as it stands,
  whatever the store does meanwhile. README.md:298 promises "response body or
  header". The model has these places as `reply.bare`, of which no property holds.
- For a url without a path, such as `https://host?k=key-rest://user1/x`, which
  hasURLPrefix allows, the first "/" behind "://" is one of the reference's own
  (sectransport.go:111-117). What goes out is `GET //user1/x`: nothing
  is replaced there and no error is returned. If an expression with
  several keys is cut, the later keys go out as they are instead of encoded.
  `NoPlaceholderSent` names this exception.
- maskPercentEncoded decodes once (proxy.go:585-596). Of a text that holds one key
  percent-encoded once and another twice, the first is masked, and the second comes
  back encoded once. `MaskedClean` and `NothingLeft` are about one layer. What comes
  of an echo in the escaping of another encoder than Go's encoding/json is not
  modelled either.
- `IsRunning` asks with signal 0 whether the pid is in use (daemon.go:63). If
  another process has it, `status` reports a daemon and `stop` signals that
  process. `Lifecycle` has such processes.
- Two additions at the same time may lose one (keystore.go:125). Each command
  reports success. `LostOnlyToOverlap` says that nothing else is lost.
- `cmdAdd` asks for the daemon before it prompts (main.go:269). A daemon that has
  read `keys.enc` and writes its pid file meanwhile is not told, and no warning
  is given. `ServedUnlessLate` says that nothing else goes unserved.
- The passphrase copy is not cleared when the server cannot start
  (daemon.go:116); the process ends right after. `KeysClearedOnExit` is about the
  keys, which are.
- main.go:271 reads the passphrase whether or not the daemon runs; README.md:66
  and README.md:105 say it is not required if it does.
- readPassphrase reads bytes until a line feed or an error (main.go:585). Zero
  bytes at the end of the input are neither, so it reads on; it takes the line
  for ended after 4096 bytes.
- Between the pid file and the listen, `status` says running and the socket is
  not there yet (README.md:96 says it listens).
- uri.Replace goes from the last match found to the first "to preserve byte
  offsets" (uri.go:168). FindAll lists enclosed matches first, so this holds only
  if no unenclosed uri stands before an enclosed one: the condition of
  `ReplaceAgrees`. The proxy uses ReplaceBytes, which sorts.
- An enclosed match takes all that stands in its braces: of several uris without
  a transform the first is put in and the rest is dropped.
- maskTransformOutputs ranges over a map (proxy.go:669). If one output is part
  of another, what comes back depends on the order and of the longer output a part
  may be left: such an echo is not `Legible`. Nor is one in which words of the field
  or two values side by side happen to spell a value. `NothingLeft` holds of these
  too: no output is left whole, and no value.
- A value that holds a uri, of its own key or another, may be put together by
  the masking itself, where that uri comes to stand beside the rest of the value.
  `NothingLeft` says nothing of such values.
- An encoding is collected from the live store after the snapshot; a key
  disabled for just that moment and back for the exchange is sent in an encoding the
  masker does not know. `EncodedShownOnlyIfDisturbed` says exactly when.

### Fairness

`HandleFairSpec` assumes weak fairness of the call's own steps (`Advance`).
The locks are held for a loop over the keys and `sync.RWMutex` does not starve
readers or writers; a call that waits for the upstream ends by the client's
timeout of 30 seconds (proxy.go:80, made a connection deadline at
sectransport.go:225), which is `ExchangeFails`. The upstream owes no answer,
and nothing is assumed of other connections or of the command line.

`ServerFairness` assumes that each goroutine runs when it can: the loop while
it has something to accept or to hand over, each handler, and main once a stop
has begun. That a busy handler finishes is `Answered` of `Handle`; the socket
commands only compute. Accept is assumed to fail once the listener is closed,
not before. `ShortStayFairSpec` adds that every connected client hangs up at
some time. The code does not enforce this, which is why `server_idle` exists.

`KeyFile`, `Lifecycle` and `Echo` state no fairness: their properties are safety.
That a command ends needs only that its process is scheduled, the five seconds
of sendReload, and an operator who answers the prompts.

## The proofs

All are for any constants that satisfy the modules' assumptions:
`StoreAssumption` (markers such as `NoEntry` are not entries; prefixes are sets
of uris), `HandleAssumption` (the daemon's passphrase is a passphrase, requests
refer to keys, and only references in urls are cut), `ServerAssumption` (finitely many connections, at least one
token).

**StoreProofs.** `StoreTypeOK`, then `StoreDisabled`, `StoreMirrors` and
`StoreFollows`. Types and `DisabledHoldsNothing` are inductive.
`MemoryMirrorsFile` needs a step lemma, `StepOnKey`, which says what any step
may do to one uri in file and memory; and `CorruptStays`, since a corrupt file
never becomes readable again.

**HandleProofs.** None of the properties is inductive as it stands: a masked
reply depends on what was put on the wire, that on what the store held, that on
what others did since the snapshot. `HandleInv` carries the chain:

- `Validated`: a pair validation has passed is permitted by the policy now in
  memory, or its key is in `rekeyed`;
- `MemKnown`: from the snapshot on, a value in memory is the snapshot's or in
  `fresh`, and is the snapshot's if nobody touched the key;
- `ItemsKnown`: the same of everything collected or resolved;
- `CollectedSoFar`: every transform reference is still to do, collected, or had
  a key that was touched or empty;
- `ResolvedSoFar`: every reference RoundTrip has passed is in its buffer.
  `SentType` relates these to the references that were validated.

Whatever ends a call goes through one lemma, `FinishKeeps`: all that matters of it is
what the reply shows where it is masked. One lemma per action shows that it keeps the invariant; the steps of others go
through one lemma, `OthersStep`, that says all a call can notice of them. From
`HandleInvariant` follow `HandleRawShown`, `HandleEncodedShown`,
`HandleAuthorised`, `HandleAsSnapshot` and `HandleComplete`; `HandleTypes` is
proved first. TLC checked `HandleInv` before it was proved.

**ServerProofs.** `ServerInv` says what the counters count (`WaitCount`: the
goroutines, and the loop while it lives; `TokenCount`: those with a token, and
the loop while it has one for the goroutine it is about to start) and where main can stand
(`Phases`). `wg = 0` then means that nobody is left, which gives
`ServerQuiet`; the loop's own count gives `ServerAdds`; a full semaphore with
the loop at the door means that `MaxConns` goroutines have a token, which gives
`ServerTurnsAway`. `ServerKeepsGate` is the refinement: `Spawn` is `Enter`,
`Release` is `Leave`, `BeginStop` begins the closing, `WaitReturns` and a failed
`Start` finish it, and every other step stutters.

**KeyFileProofs.** `KeyFileTypes` is inductive. For `KeyFileLosesOnlyToOverlap`
the copies have to be as good as the file: `FileTrue` and `CopyTrue` say that
either differs from the last saves only at keys that are `overtaken`, or would be
if this copy were saved. `KeyFileServesUnlessLate` needs to know of each command
what it will tell the daemon: one that is not late and has seen no daemon faces
none (`LateIfLoading`, `OffIfUnseen`), so what it has saved and will not report
is held by whatever daemon there is (`HeldIfUntold`). `HoldsRead` and `HoldsKept`
say that reading the file makes the daemon hold it, and that no socket command
undoes that. `KeyFileKeepsRegistry` is the refinement; it needs `FoundIt`, that a
command about to remove an entry has it in its copy.

**LifecycleProofs.** `LifecycleInv` is inductive. `Orderly` and `RemovesItsOwn` rest on `OrderInv`: who has
written the pid file is the one in it (`NamedIsFiled`), so there is one at most;
whoever is about to write it or has found it stale is up against nobody
(`NoneNamed`), which stays so because another one could only come in by relying
on a reading at the same time; and the socket is of the one who listens
(`SockIsOwn`). `KeysClearedOnExit` rests on `KeysWhileLoaded`, where a process can
hold keys at all. `LifecycleTakesTurns` is the refinement of `Tenure`: the invariant
leaves one tenant at a time (`OneTenantAtATime`), so that the CHOOSE in `Tenant` has
one candidate; a step moves one process (`OneMoves`), and each move of a tenant is
a step of `Tenure` (`Turn`). `LifecycleNoMeansNobody` adds that whoever is about to
be told "no" has read a file without a pid, or found that pid dead, in which case
nobody who is named can be alive (`LooksFirst`). TLC checks these properties on
three pids, the theorems hold for any number.

`KeyFileProofs` needs of `Answers` only that a "no" means that no daemon is named
(`Asked`), which is the same promise.

**TextProofs, EchoProofs and RoundTripProofs.** These are about what the operators compute for any
text, keys and values. The library states induction for an operator, which the
provers here cannot instantiate; `Climb` and `Descend` state it for a set of
numbers, from the well-foundedness of `<`, and every induction is over a set
`{n \in Nat : ...}`. A recursive function is a CHOOSE, so it satisfies its equation
only if some function does; `RecursionExists` gives one for any single step.

- A field is accounted for by *pieces*, one for each token: what a match resolves to
  where it ends, nothing in the rest of the match, and the token itself elsewhere.
  `Covers` says that a list of matches from left to right accounts for the pieces.
  `Filled` shows that the two passes of ReplaceBytes then put the pieces together
  (the size is their length, and every copy goes behind the one before), and
  `Spliced` that Replace does, going backwards.
- `Matches` is the set of matches of a text. They do not overlap (`MatchesPlaced`):
  ranges in braces do not (`EnclosedApart`), and the second search leaves out what
  is in one that was matched. `AllFound`, `SortedListed` and `FoundListed` say that
  the code lists them all, sorted or, under the condition of `ReplaceAgrees`, as found.
- The one-pass reference is made of the same pieces (`SentPiecesIn`, `PieceAt`), which gives
  `EchoSentAsOnePass` and `EchoReplaceAgrees`. `EchoNoUriSent` follows from where
  the tokens of the pieces are from (`ResolvedIn`, `PiecesIn`).
- strings.ReplaceAll is a scan from left to right (`ReplaceScans`). What starts
  with a text that shares no token with what is put in was copied from the old text
  (`FrontCopied`, `ScanFinds`). `Replaced` then says: what was replaced is gone,
  and a text that was not there does not come about. The chain of replacements
  keeps both, one value after another in either form (`MaskedOne`,
  `MaskedCredentials`), one output after another (`MaskedOutputs`), raw and
  decoded (`MaskedRound`, `DecodedIs`). `MaskedClean` is the result, not just for
  echoes but for every text whose tokens stand as they are or percent-encoded once;
  `EchoNothingLeft` applies it to echoes. For two layers it is false (see
  Observations).
- On the way back the text is in pieces again, and each replacement turns some of
  them into placeholders. `PassReplaced`: strings.ReplaceAll does exactly this if
  what it looks for stands only at those pieces. That a value stands nowhere else is
  known of the text before any value was replaced (`Legible`); it stays true because
  a value that stands in a partly masked text lies within pieces that have not been
  changed (it holds no uri), and stood at the same place before (`SamePlace`).
- `OutputsBack` and `CredentialsBack` are the inductions over the two loops. For the
  values it matters that the longest come first: when it is the turn of a value,
  every longer one that may hold it is gone. A value and its escaped form are two
  replacements; `EscapedLonger` says which of them can meet which value.
- What is escaped is escaped piece by piece (`EscapedCat`, `EscapedSentIs`), and what is
  percent-encoded stands for nothing until it is decoded (`PercentBack`, which needs
  a placeholder in the result, as the code keeps the decoded text only if masking
  changed it). There is an order to mask in (`SomeMaskOrder`), so the set of results
  is not empty, and each result is the field: `EchoBack`, `EchoEscapedBack`,
  `EchoPercentBack`.
- `EchoOwnKeys` shows that `Legible` asks little of real keys. If every key starts
  with a token that stands nowhere else, neither in the field nor in a key, and
  JSON leaves the keys as they are, then all fields with one transform output at
  most come back.

The assumptions of the other modules: `KeyFileAssumption` (there is a key, a task is
about one, `Truncated` is no table), `LifecycleAssumption` (`None` and `Blank` are no
pids), `UriAssumption` (uris, marks and words are apart, values are texts and not
empty, there are finitely many keys, an encoded token is no token of a text),
`MaskingAssumption` (the backslash is a word, what JSON escapes is a token of a text and
so no base64, what is percent-encoded is none), `EchoAssumption` (an agent writes
tokens). The code skips empty values (proxy.go:516); that they are left out is part of
`UriAssumption`.

Only model-checked are the liveness properties (`Answered`, `StopReturns`,
`RoomAgain`), as fairness is out of reach of the provers. All other properties of
the passing runs are theorems.

## Not modelled

- Placement rules on query strings and JSON fields (proxy.go), which are pure
  functions of one request; `Handle` has their verdict as part of the policy.
- maskTruncatedKeys, which knows the error messages of two services, and
  decompressBody.
- Overlong lines of prompts, argument parsing, the terminal, `list` output.
- Contents of freed memory (mlock, zero-clearing), AES-GCM and PBKDF2, TLS,
  HTTP framing: taken as working.
- `Lookup` hands out a pointer into the slice, which `validateField` reads after
  the lock is gone. The policy fields are never written in place and the
  disabled flag is read once, so one step stands for both (see `Validate`).
- A socket path that another process replaces while the server runs.
- Clients in other languages, the test server, scripts, `formal/`, examples.

## What could come next

- `Server` composed with `Handle`, so that the assumption of loaded keys is
  discharged by a proof and not by an argument over two modules.
- The placement rules against their documentation, as operators over the places
  of a request.
- What comes back if several outputs overlap: a condition on the outputs, as
  `EchoOwnKeys` has one on the keys.
