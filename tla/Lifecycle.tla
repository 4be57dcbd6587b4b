----------------------------- MODULE Lifecycle -----------------------------
(***************************************************************************)
(* internal/daemon/daemon.go and the start, stop and status commands of    *)
(* cmd/key-rest/main.go: processes that know each other through two files, *)
(* key-rest.pid and key-rest.sock, and act on them one system call at a    *)
(* time.  Nothing locks either file.                                       *)
(*                                                                         *)
(* A process is its pid.  `key-rest start` looks for a daemon and forks;   *)
(* the child looks once as the start command and once as the daemon before *)
(* it goes on.  Any process may be killed at any step, and the system may  *)
(* give a free pid to a process that has nothing to do with key-rest.      *)
(*                                                                         *)
(* The socket path stands for the socket file: it names the process whose  *)
(* listen made it.  What a serving daemon does is in Server and Handle.    *)
(***************************************************************************)
CONSTANTS
    Proc,      \* the process ids
    None,      \* no such file, no such process
    Blank      \* key-rest.pid exists and holds no number

ASSUME LifecycleAssumption == None \notin Proc /\ Blank \notin Proc \cup {None}

VARIABLES
    pidfile,   \* what key-rest.pid holds
    sock,      \* who made key-rest.sock
    prog,      \* what each process runs
    stage,     \* where it stands
    target,    \* the pid that IsRunning read
    held       \* which secrets a daemon has: the opened keys, d.passphrase

\* History, for the properties only.
VARIABLE
    overlapped \* two processes were relying on what IsRunning read at a time

procVars      == <<prog, stage, target, held>>
lifecycleVars == <<pidfile, sock, procVars, overlapped>>

Program == {"start", "child", "daemon", "stop", "status", "other"}
Secret  == {"keys", "passphrase"}

\* IsRunning, in every program that calls it.
Looking == {"read", "probe", "rmpid", "rmsock", "no", "yes"}
\* Daemon.Start after that, in order; a signal before "up" kills the process.
Rising  == {"load", "truncate", "name", "unlink", "listen", "chmod", "serve"}
\* Its accept loop runs.
Serving == {"serve", "up"}
Stage   == Looking \cup Rising \cup {"undo", "up", "closing", "drain", "unname",
                                     "exit", "gone", "busy"}

Alive(p) == stage[p] # "gone"
At(p, s) == stage[p] = s

\* Between what IsRunning read and the last step that rests on it.
Relying(p, pg, st) ==
    \/ st[p] \in {"probe", "rmpid", "rmsock"}
    \/ pg[p] = "daemon" /\ st[p] \in {"no"} \cup Rising \cup {"undo"}

Go(p, s) == stage' = [stage EXCEPT ![p] = s]

\* The process is gone, and with it its memory.
Vanish(p) ==
    /\ prog' = [prog EXCEPT ![p] = "other"]
    /\ Go(p, "gone")
    /\ target' = [target EXCEPT ![p] = None]
    /\ held' = [held EXCEPT ![p] = {}]

\* A step of p that changes neither file, nor what p runs and holds.
Step(p, from, to) ==
    /\ At(p, from)
    /\ Go(p, to)
    /\ UNCHANGED <<pidfile, sock, prog, target, held>>
-----------------------------------------------------------------------------
(* IsRunning *)

\* Mutant: a pid file without a number is read as one.
ReadPid_Blank(p) ==
    /\ At(p, "read")
    /\ IF pidfile # None
       THEN Go(p, "probe") /\ target' = [target EXCEPT ![p] = pidfile]
       ELSE Go(p, "no") /\ UNCHANGED target
    /\ UNCHANGED <<pidfile, sock, prog, held>>

\* The number in the pid file, if there is one.
ReadPid(p) ==
    /\ At(p, "read")
    /\ IF pidfile \in Proc
       THEN Go(p, "probe") /\ target' = [target EXCEPT ![p] = pidfile]
       ELSE Go(p, "no") /\ UNCHANGED target
    /\ UNCHANGED <<pidfile, sock, prog, held>>

\* Mutant: a process that is there counts as gone.
Probe_Stale(p) == At(p, "probe") /\ Step(p, "probe", "rmpid")

\* Signal 0.
Probe(p) == Step(p, "probe", IF Alive(target[p]) THEN "yes" ELSE "rmpid")

\* The recorded process is gone: its files are removed, whoever's they are now.
RemovePid(p) ==
    /\ At(p, "rmpid")
    /\ pidfile' = None
    /\ Go(p, "rmsock")
    /\ UNCHANGED <<sock, prog, target, held>>

RemoveSock(p) ==
    /\ At(p, "rmsock")
    /\ sock' = None
    /\ Go(p, "no")
    /\ UNCHANGED <<pidfile, prog, target, held>>
-----------------------------------------------------------------------------
(* The commands *)

\* A command is typed, or an unrelated process takes the pid.  With
\* KEY_REST_FOREGROUND=1 a start is its own child.
Launch(p, pg) ==
    /\ At(p, "gone")
    /\ prog' = [prog EXCEPT ![p] = pg]
    /\ Go(p, IF pg = "other" THEN "busy" ELSE "read")
    /\ UNCHANGED <<pidfile, sock, target, held>>

\* spawnDaemon: fork, hand over the passphrase, and return.  Or the fork fails.
Spawn(p) ==
    /\ At(p, "no") /\ prog[p] = "start"
    /\ \/ \E q \in Proc :
             /\ At(q, "gone")
             /\ prog' = [prog EXCEPT ![q] = "child"]
             /\ stage' = [stage EXCEPT ![p] = "exit", ![q] = "read"]
       \/ Go(p, "exit") /\ UNCHANGED prog
    /\ UNCHANGED <<pidfile, sock, target, held>>

\* Mutant: Start goes by what the command has seen.
Again_Once(p) ==
    /\ At(p, "no") /\ prog[p] = "child"
    /\ prog' = [prog EXCEPT ![p] = "daemon"]
    /\ Go(p, "load")
    /\ UNCHANGED <<pidfile, sock, target, held>>

\* The child has its passphrase and calls Start, which looks again.
Again(p) ==
    /\ At(p, "no") /\ prog[p] = "child"
    /\ prog' = [prog EXCEPT ![p] = "daemon"]
    /\ Go(p, "read")
    /\ UNCHANGED <<pidfile, sock, target, held>>

\* IsRunning has answered, and the program has nothing more to do.
Answered(p) ==
    \/ prog[p] \in {"status", "stop"} /\ Step(p, "no", "exit")
    \/ prog[p] # "stop" /\ Step(p, "yes", "exit")

\* Daemon.Stop: SIGTERM for the pid that IsRunning returned.  A daemon that has
\* called signal.Notify shuts down, and ignores a second signal; any other
\* process is killed by it.
Signal(p) ==
    /\ At(p, "yes") /\ prog[p] = "stop"
    /\ LET q == target[p]
       IN CASE At(q, "up")  ->
                  /\ stage' = [stage EXCEPT ![p] = "exit", ![q] = "closing"]
                  /\ UNCHANGED <<prog, target, held>>
            [] stage[q] \in {"gone", "closing", "drain", "unname", "exit"} ->
                  Go(p, "exit") /\ UNCHANGED <<prog, target, held>>
            [] OTHER ->
                  /\ prog' = [prog EXCEPT ![q] = "other"]
                  /\ stage' = [stage EXCEPT ![p] = "exit", ![q] = "gone"]
                  /\ target' = [target EXCEPT ![q] = None]
                  /\ held' = [held EXCEPT ![q] = {}]
    /\ UNCHANGED <<pidfile, sock>>

Exit(p) ==
    /\ At(p, "exit")
    /\ Vanish(p)
    /\ UNCHANGED <<pidfile, sock>>

\* The process is killed, or the unrelated one ends.
Kill(p) ==
    /\ Alive(p)
    /\ Vanish(p)
    /\ UNCHANGED <<pidfile, sock>>
-----------------------------------------------------------------------------
(* Daemon.Start *)

\* A step of Start with whose failure the process ends.
OrEnd(p, from) ==
    /\ At(p, from)
    /\ Go(p, "exit")
    /\ held' = [held EXCEPT ![p] = {}]
    /\ UNCHANGED <<pidfile, sock, prog, target>>

GoOn(p) == prog[p] = "daemon" /\ Step(p, "no", "load")

\* DecryptAll opens every key or none; then the passphrase is kept.
Load(p) ==
    \/ /\ At(p, "load")
       /\ held' = [held EXCEPT ![p] = Secret]
       /\ Go(p, "truncate")
       /\ UNCHANGED <<pidfile, sock, prog, target>>
    \/ OrEnd(p, "load")

\* os.WriteFile empties the pid file, and writes it.
Truncate(p) ==
    \/ /\ At(p, "truncate")
       /\ pidfile' = Blank
       /\ Go(p, "name")
       /\ UNCHANGED <<sock, prog, target, held>>
    \/ OrEnd(p, "truncate")

Name(p) ==
    \/ /\ At(p, "name")
       /\ pidfile' = p
       /\ Go(p, "unlink")
       /\ UNCHANGED <<sock, prog, target, held>>
    \/ OrEnd(p, "name")

\* server.Start: a stale socket is removed,
Unlink(p) ==
    /\ At(p, "unlink")
    /\ sock' = None
    /\ Go(p, "listen")
    /\ UNCHANGED <<pidfile, prog, target, held>>

\* a new one is bound unless there is one, or it fails anyway,
Listen(p) ==
    \/ /\ At(p, "listen") /\ sock = None
       /\ sock' = p
       /\ Go(p, "chmod")
       /\ UNCHANGED <<pidfile, prog, target, held>>
    \/ Step(p, "listen", "undo")

\* and made private, which needs it to be there; otherwise ln.Close removes it.
Chmod(p) ==
    \/ sock # None /\ Step(p, "chmod", "serve")
    \/ /\ At(p, "chmod")
       /\ sock' = None
       /\ Go(p, "undo")
       /\ UNCHANGED <<pidfile, prog, target, held>>

\* Mutant: the keys stay opened.
Undo_KeepsKeys(p) ==
    /\ At(p, "undo")
    /\ pidfile' = None
    /\ Go(p, "exit")
    /\ UNCHANGED <<sock, prog, target, held>>

\* Start after a failed server.Start: os.Remove, ClearAll.
Undo(p) ==
    /\ At(p, "undo")
    /\ pidfile' = None
    /\ held' = [held EXCEPT ![p] = @ \ {"keys"}]
    /\ Go(p, "exit")
    /\ UNCHANGED <<sock, prog, target>>

\* signal.Notify
Notify(p) == Step(p, "serve", "up")
-----------------------------------------------------------------------------
(* Daemon.shutdown *)

\* Mutant: the pid file goes first.
Close_UnnamesFirst(p) ==
    /\ At(p, "closing")
    /\ pidfile' = None
    /\ sock' = None
    /\ Go(p, "drain")
    /\ UNCHANGED <<prog, target, held>>

\* server.Stop closes the listener, which removes the path.
Close(p) ==
    /\ At(p, "closing")
    /\ sock' = None
    /\ Go(p, "drain")
    /\ UNCHANGED <<pidfile, prog, target, held>>

\* The last connection has ended; the path is removed once more and the secrets
\* are cleared.
Drain(p) ==
    /\ At(p, "drain")
    /\ sock' = None
    /\ held' = [held EXCEPT ![p] = {}]
    /\ Go(p, "unname")
    /\ UNCHANGED <<pidfile, prog, target>>

Unname(p) ==
    /\ At(p, "unname")
    /\ pidfile' = None
    /\ Go(p, "exit")
    /\ UNCHANGED <<sock, prog, target, held>>
-----------------------------------------------------------------------------
LifecycleInit ==
    /\ pidfile = None
    /\ sock = None
    /\ prog = [p \in Proc |-> "other"]
    /\ stage = [p \in Proc |-> "gone"]
    /\ target = [p \in Proc |-> None]
    /\ held = [p \in Proc |-> {}]
    /\ overlapped = FALSE

\* What a process does by itself.
Proceed(p) ==
    \/ ReadPid(p) \/ Probe(p) \/ RemovePid(p) \/ RemoveSock(p)
    \/ Spawn(p) \/ Again(p) \/ Answered(p) \/ Signal(p) \/ Exit(p)
    \/ GoOn(p) \/ Load(p) \/ Truncate(p) \/ Name(p)
    \/ Unlink(p) \/ Listen(p) \/ Chmod(p) \/ Undo(p) \/ Notify(p)
    \/ Close(p) \/ Drain(p) \/ Unname(p)

\* What is done to it.
Befall(p) ==
    \/ \E pg \in Program \ {"daemon"} : Launch(p, pg)
    \/ Kill(p)

\* Two processes rely on what they read, or one that will came after another.
NotesOverlap ==
    overlapped' = (overlapped \/ \E p, q \in Proc : p # q
                                     /\ Relying(p, prog', stage')
                                     /\ Relying(q, prog', stage'))

LifecycleNext == (\E p \in Proc : Proceed(p) \/ Befall(p)) /\ NotesOverlap

LifecycleSpec == LifecycleInit /\ [][LifecycleNext]_lifecycleVars
-----------------------------------------------------------------------------
(* Properties *)

LifecycleTypeOK ==
    /\ pidfile \in Proc \cup {None, Blank}
    /\ sock \in Proc \cup {None}
    /\ prog \in [Proc -> Program]
    /\ stage \in [Proc -> Stage]
    /\ target \in [Proc -> Proc \cup {None}]
    /\ held \in [Proc -> SUBSET Secret]
    /\ \A p \in Proc :
          stage[p] \in {"probe", "rmpid", "rmsock", "yes"} => target[p] \in Proc
    /\ overlapped \in BOOLEAN

\* While no two processes rely on IsRunning at a time, a daemon that has told of
\* itself is the one in the pid file and has the socket, and no other serves:
\* through crashes at any step, stale files, reused pids, a stop in the middle
\* of a start and a start in the middle of a shutdown.
Orderly ==
    ~overlapped => \A p \in Proc : At(p, "up") =>
        /\ pidfile = p
        /\ sock = p
        /\ \A q \in Proc \ {p} : stage[q] \notin Serving

\* A process that ends by itself has cleared the keys it opened.
KeysClearedOnExit == \A p \in Proc : At(p, "exit") => "keys" \notin held[p]

\* What a process takes away is its own or a dead one's: the pid file and the
\* socket of a daemon that shuts down or gives up, and the files that IsRunning
\* has found stale, while no two processes rely on what it read.
RemovesItsOwn ==
    ~overlapped => \A p \in Proc :
        /\ stage[p] \in {"undo", "closing", "drain", "unname"} => pidfile = p
        /\ stage[p] \in {"rmpid", "closing", "drain"} =>
              \A q \in Proc \ {p} : sock = q => stage[q] \notin Serving
        /\ At(p, "rmpid") => pidfile \in {target[p], None}

\* The stages of a daemon as the phases of Tenure.
PhaseOf(p) ==
    CASE stage[p] \in {"truncate", "name"}                  -> "loaded"
      [] stage[p] \in {"unlink", "listen", "chmod", "undo"} -> "named"
      [] stage[p] \in Serving                               -> "up"
      [] stage[p] \in {"closing", "drain", "unname"}        -> "stopping"
      [] OTHER                                              -> "off"

Tenants == {p \in Proc : PhaseOf(p) # "off"}
Tenant  == IF Tenants = {} THEN None ELSE CHOOSE p \in Tenants : TRUE
Phase   == IF Tenants = {} THEN "off" ELSE PhaseOf(Tenant)

Keeper == INSTANCE Tenure WITH phase <- Phase, tenant <- Tenant

\* Nobody is told that no daemon runs while one is between its pid file and the
\* end of its shutdown, unless two processes rely on IsRunning at a time.
NoMeansNobody ==
    [][~overlapped' =>
          \A p \in Proc : ~At(p, "no") /\ At(p, "no")' =>
              \A q \in Proc : PhaseOf(q)' \in {"off", "loaded"}]_lifecycleVars

\* While no two processes rely on IsRunning at a time, daemons take turns: the
\* keys of one directory are in the memory of one process, which goes through
\* its phases in order, and of no other before it has ended.
TakesTurns ==
    [][~overlapped' =>
          /\ [Keeper!TenureNext]_<<Phase, Tenant>>
          /\ \A p \in Proc : "keys" \in held'[p] => p = Tenant']_lifecycleVars
-----------------------------------------------------------------------------
(* What the documents say and the code does not do. *)

\* README.md:102: start is refused while the daemon runs.
OneDaemon ==
    \A p, q \in Proc : stage[p] \in Serving /\ stage[q] \in Serving => p = q
=============================================================================
