------------------------------ MODULE KeyFile ------------------------------
(***************************************************************************)
(* keys.enc between processes: the add and remove commands of              *)
(* cmd/key-rest/main.go, several at a time, and the daemon that reads the  *)
(* file when it starts and when it is told to.                             *)
(*                                                                         *)
(* Store takes a save as one step, which it is for the goroutines of one   *)
(* process.  For other processes load, the truncation in os.WriteFile and  *)
(* the write are three, and the answer of IsRunning and the request for a  *)
(* reload that rests on it are further apart still.                        *)
(*                                                                         *)
(* Of IsRunning only this is taken from Lifecycle (NoMeansNobody): a       *)
(* process that is told no is told so when no daemon is between its pid    *)
(* file and its end.  A yes may be wrong: the pid may be another's now.    *)
(***************************************************************************)
EXTENDS Store

CONSTANTS
    Cli,         \* command-line processes, each for one command after another
    Task,        \* what commands are given to do: see Job
    DaemonPass,  \* the passphrase the daemon is started with
    Truncated    \* keys.enc is empty: os.WriteFile has opened it

ASSUME KeyFileAssumption ==
    /\ KeyURI # {}
    /\ Task \subseteq [key : KeyURI, entry : FileEntry \cup {NoEntry}]
    /\ DaemonPass \in Passphrase
    /\ Truncated \notin FileMap \cup {Corrupt}

VARIABLES
    stage,    \* where each command stands
    job,      \* its task: a key, and an entry to add or NoEntry to remove
    copy,     \* kf: the entries its load has returned, until they are saved
    saw,      \* what IsRunning told it
    daemon    \* "off", "loaded", "named", "up", "stopping"

\* History, for the properties only.
VARIABLES
    truth,     \* per key, what the last successful save of that key put there
    standing,  \* the commands whose save of their key is the last
    settled,   \* the keys whose last save was by a command that ended without
               \* a warning
    lagging,   \* the ones of them whose command was late
    outdated,  \* per command, the keys others have saved since it loaded
    overtaken, \* the keys a command has saved over without having read them
    late       \* the commands under way, not yet saved, while a daemon had the
               \* file read and no pid file written

cliVars     == <<stage, job, copy, saw>>
fileHistory == <<truth, standing, settled, lagging, outdated, overtaken>>
keyFileVars == <<storeVars, cliVars, daemon, fileHistory, late>>

Stage   == {"idle", "ask", "load", "save", "write", "saved", "notify",
            "await"}
Job     == [key : KeyURI, entry : FileEntry \cup {NoEntry}]
Adds(c) == job[c].entry # NoEntry
NoJob   == [key |-> CHOOSE u \in KeyURI : TRUE, entry |-> NoEntry]
NoCopy  == [u \in KeyURI |-> NoEntry]

Readable == file \notin {Corrupt, Truncated}

\* The answers IsRunning may give.
Running == daemon \in {"named", "up", "stopping"}
Answers == {yes \in BOOLEAN : Running => yes}

\* The commands that have a copy, and those that have begun and not saved yet.
Holding == {c \in Cli : stage[c] \in {"save", "write"}}
Unsaved == {c \in Cli : stage[c] \in {"ask", "load", "save", "write"}}

Go(c, to) == stage' = [stage EXCEPT ![c] = to]

\* The process ends, and with it what it knew.
Exit(c) ==
    /\ Go(c, "idle")
    /\ job' = [job EXCEPT ![c] = NoJob]
    /\ copy' = [copy EXCEPT ![c] = NoCopy]
    /\ saw' = [saw EXCEPT ![c] = FALSE]
    /\ standing' = standing \ {c}
    /\ outdated' = [outdated EXCEPT ![c] = {}]
    /\ late' = late \ {c}
    /\ UNCHANGED <<truth, overtaken>>

\* With an error, a warning, or by a signal.
Fail(c) == Exit(c) /\ UNCHANGED <<settled, lagging>>

\* As it should.
Done(c) ==
    /\ Exit(c)
    /\ settled' = settled \cup {job[d].key : d \in {c} \cap standing}
    /\ lagging' = lagging \cup {job[d].key : d \in {c} \cap standing \cap late}
-----------------------------------------------------------------------------
(* The two commands *)

\* The entries a command saves: those it loaded, its own put in or left out.
Changed(f, j) == [f EXCEPT ![j.key] = j.entry]

\* What is in the file once new is written from its start over old.  Nothing of
\* old is left if old is empty or no longer than new; otherwise a tail of old
\* may stand behind new, and Unmarshal refuses that.
Overlay(old, new) ==
    CASE old = Truncated -> {new}
      [] old = Corrupt   -> {new, Corrupt}
      [] OTHER           -> IF \A u \in Registered(old) : new[u] = old[u]
                            THEN {new} ELSE {new, Corrupt}

Begin(c, j) ==
    /\ stage[c] = "idle"
    /\ job' = [job EXCEPT ![c] = j]
    /\ Go(c, IF j.entry = NoEntry THEN "load" ELSE "ask")
    /\ late' = IF daemon = "loaded" THEN late \cup {c} ELSE late
    /\ UNCHANGED <<storeVars, copy, saw, daemon, fileHistory>>

\* Mutant: cmdAdd takes the daemon to be absent.
AskBefore_Never(c) ==
    /\ stage[c] = "ask"
    /\ Go(c, "load")
    /\ UNCHANGED <<storeVars, job, copy, saw, daemon, fileHistory, late>>

\* cmdAdd asks IsRunning before it reads the passphrase and the value.
AskBefore(c) ==
    /\ stage[c] = "ask"
    /\ \E yes \in Answers : saw' = [saw EXCEPT ![c] = yes]
    /\ Go(c, "load")
    /\ UNCHANGED <<storeVars, job, copy, daemon, fileHistory, late>>

\* The load succeeds, and finds the entry that is to be removed.
Loadable(c) == Readable /\ (Adds(c) \/ file[job[c].key] # NoEntry)

Load(c) ==
    /\ stage[c] = "load"
    /\ \/ /\ Loadable(c)
          /\ copy' = [copy EXCEPT ![c] = file]
          /\ Go(c, "save")
          /\ UNCHANGED <<job, saw, fileHistory, late>>
       \/ ~Loadable(c) /\ Fail(c)
    /\ UNCHANGED <<storeVars, daemon>>

\* os.WriteFile opens keys.enc with O_TRUNC, or cannot.
Truncate(c) ==
    /\ stage[c] = "save"
    /\ \/ /\ file' = Truncated
          /\ Go(c, "write")
          /\ UNCHANGED <<job, copy, saw, fileHistory, late>>
       \/ Fail(c) /\ UNCHANGED file
    /\ UNCHANGED <<mem, daemon>>

\* What a save of c puts on record.
Record(c) ==
    LET u == job[c].key
    IN /\ truth' = [truth EXCEPT ![u] = job[c].entry]
       /\ standing' = {d \in standing : job[d].key # u} \cup {c}
       /\ settled' = settled \ {u}
       /\ lagging' = lagging \ {u}
       /\ outdated' = [d \in Cli |-> IF d \in Holding \ {c}
                                     THEN outdated[d] \cup {u} ELSE {}]
       /\ overtaken' = (overtaken \cup outdated[c]) \ {u}

\* Mutant: a command saves what it loaded, without its own change.
WriteAll_Unchanged(c) ==
    /\ stage[c] = "write"
    /\ file' \in Overlay(file, copy[c])
    /\ copy' = [copy EXCEPT ![c] = NoCopy]
    /\ Record(c)
    /\ Go(c, "saved")
    /\ UNCHANGED <<mem, job, saw, daemon, late>>

\* os.WriteFile writes the whole buffer.
WriteAll(c) ==
    /\ stage[c] = "write"
    /\ file' \in Overlay(file, Changed(copy[c], job[c]))
    /\ copy' = [copy EXCEPT ![c] = NoCopy]
    /\ Record(c)
    /\ Go(c, "saved")
    /\ UNCHANGED <<mem, job, saw, daemon, late>>

\* Mutant: a save that breaks off leaves a table with nothing in it.
WriteBreaks_Empties(c) ==
    /\ stage[c] = "write"
    /\ file' = NoCopy
    /\ Fail(c)
    /\ UNCHANGED <<mem, daemon>>

\* The write stops: nothing or a part of the buffer is in the file.
WriteBreaks(c) ==
    /\ stage[c] = "write"
    /\ file' \in {file, Corrupt}
    /\ Fail(c)
    /\ UNCHANGED <<mem, daemon>>

\* Remove asks IsRunning now, add has asked; without a daemon that was all.
Report(c) ==
    /\ stage[c] = "saved"
    /\ \E yes \in IF Adds(c) THEN {saw[c]} ELSE Answers :
          IF yes THEN Go(c, "notify") /\ UNCHANGED <<job, copy, saw, fileHistory, late>>
          ELSE Done(c)
    /\ UNCHANGED <<storeVars, daemon>>

\* sendReload dials; nobody listens, or the server is full.
Notify(c) ==
    /\ stage[c] = "notify"
    /\ \/ /\ daemon = "up"
          /\ Go(c, "await")
          /\ UNCHANGED <<job, copy, saw, fileHistory, late>>
       \/ Fail(c)
    /\ UNCHANGED <<storeVars, daemon>>

\* The daemon serves the reload of c and answers; so it does for a connection
\* that Stop is waiting for.
Answer(c) ==
    /\ stage[c] = "await"
    /\ daemon \in {"up", "stopping"}
    /\ IF Readable THEN DecryptAll(DaemonPass) ELSE UNCHANGED storeVars
    /\ IF Readable /\ AllOpen(file, DaemonPass) THEN Done(c) ELSE Fail(c)
    /\ UNCHANGED daemon

\* Five seconds are over, or the connection is lost.  The daemon may still come
\* to the reload, as SocketReload.
GiveUp(c) ==
    /\ stage[c] = "await"
    /\ Fail(c)
    /\ UNCHANGED <<storeVars, daemon>>

\* The operator interrupts the command.
Kill(c) ==
    /\ stage[c] # "idle"
    /\ Fail(c)
    /\ UNCHANGED <<storeVars, daemon>>
-----------------------------------------------------------------------------
(* The daemon *)

\* Daemon.Start up to the pid file: DecryptAll, or nothing.
StartLoads ==
    /\ daemon = "off"
    /\ Readable
    /\ AllOpen(file, DaemonPass)
    /\ DecryptAll(DaemonPass)
    /\ daemon' = "loaded"
    /\ late' = late \cup Unsaved
    /\ UNCHANGED <<cliVars, fileHistory>>

Serve(from, to) ==
    /\ daemon = from
    /\ daemon' = to
    /\ UNCHANGED <<storeVars, cliVars, fileHistory, late>>

StartNames   == Serve("loaded", "named")
StartListens == Serve("named", "up")
BeginStop    == Serve("up", "stopping")

\* Mutant: the daemon's memory outlives it.
DaemonEnds_KeepsKeys ==
    /\ daemon # "off"
    /\ daemon' = "off"
    /\ UNCHANGED <<storeVars, cliVars, fileHistory, late>>

\* Shutdown ends, a step of the start fails, or the process is killed.
DaemonEnds ==
    /\ daemon # "off"
    /\ daemon' = "off"
    /\ ClearAll
    /\ UNCHANGED <<cliVars, fileHistory, late>>

\* Commands that come over the socket by themselves.
OnSocket ==
    /\ daemon \in {"up", "stopping"}
    /\ UNCHANGED <<cliVars, daemon, fileHistory, late>>

SocketReload     == OnSocket /\ Readable /\ DecryptAll(DaemonPass)
SocketDisable(S) == OnSocket /\ Disable(S)
SocketEnable(S)  == OnSocket /\ Readable /\ Enable(S, DaemonPass)
-----------------------------------------------------------------------------
KeyFileInit ==
    /\ Init
    /\ stage = [c \in Cli |-> "idle"]
    /\ job = [c \in Cli |-> NoJob]
    /\ copy = [c \in Cli |-> NoCopy]
    /\ saw = [c \in Cli |-> FALSE]
    /\ daemon = "off"
    /\ truth = file
    /\ standing = {}
    /\ settled = {}
    /\ lagging = {}
    /\ outdated = [c \in Cli |-> {}]
    /\ overtaken = {}
    /\ late = {}

\* What a command does without waiting for anybody.
Proceed(c) ==
    \/ AskBefore(c) \/ Load(c) \/ Truncate(c) \/ WriteAll(c) \/ WriteBreaks(c)
    \/ Report(c) \/ Notify(c) \/ GiveUp(c)

KeyFileNext ==
    \/ \E c \in Cli :
          \/ \E j \in Task : Begin(c, j)
          \/ Proceed(c)
          \/ Answer(c)
          \/ Kill(c)
    \/ StartLoads \/ StartNames \/ StartListens \/ BeginStop \/ DaemonEnds
    \/ SocketReload
    \/ \E S \in Prefix : SocketDisable(S) \/ SocketEnable(S)

KeyFileSpec == KeyFileInit /\ [][KeyFileNext]_keyFileVars
-----------------------------------------------------------------------------
(* Properties *)

KeyFileTypeOK ==
    /\ file \in FileMap \cup {Corrupt, Truncated}
    /\ mem \in MemMap \cup {Closed}
    /\ stage \in [Cli -> Stage]
    /\ job \in [Cli -> Job]
    /\ copy \in [Cli -> FileMap]
    /\ saw \in [Cli -> BOOLEAN]
    /\ daemon \in {"off", "loaded", "named", "up", "stopping"}
    /\ mem = Closed <=> daemon = "off"
    /\ truth \in FileMap
    /\ standing \subseteq Cli
    /\ settled \subseteq KeyURI
    /\ lagging \subseteq settled
    /\ outdated \in [Cli -> SUBSET KeyURI]
    /\ overtaken \subseteq KeyURI
    /\ late \subseteq Cli

\* What a command has saved stays in keys.enc until another command on the same
\* key, except for what a process saves over that had loaded the file earlier:
\* load, change and save of a key leave every other key as it was.
LostOnlyToOverlap ==
    Readable => \A u \in KeyURI : file[u] = truth[u] \/ u \in overtaken

\* The daemon holds what is filed under u: the entry, with its value unless it
\* is disabled, or nothing after a removal.
Holds(u) ==
    LET e == truth[u]
    IN IF e = NoEntry THEN mem[u] = NoEntry
       ELSE /\ mem[u] # NoEntry
            /\ mem[u].policy = e.policy
            /\ mem[u].disabled \/ mem[u].value = e.value

\* After a command that ended without a warning, a daemon that runs, then or
\* later, serves what was filed, value and policy of one version, through
\* reloads, disables and enables; unless it was just starting at the time, or
\* the entry was lost in the file.
ServedUnlessLate ==
    daemon # "off" => \A u \in settled \ (lagging \cup overtaken) : Holds(u)

\* At most one command holds a copy of the file, and nobody has written to the
\* file since it loaded or truncated it.
Alone ==
    /\ \A c, d \in Holding : c = d
    /\ \A c \in Holding :
          file = IF stage[c] = "save" THEN copy[c] ELSE Truncated

\* A truncated file stands for the entries its writer has in memory.
Writers == {c \in Cli : stage[c] = "write"}
Table ==
    IF Writers # {} THEN copy[CHOOSE c \in Writers : TRUE]
    ELSE IF Readable THEN file ELSE Corrupt
Reg == INSTANCE Registry WITH
           Key <- KeyURI, Entry <- FileEntry, None <- NoEntry,
           Unreadable <- Corrupt, table <- Table

\* A command with a fresh copy changes the table as an operator would expect: at
\* one key, at once, or not at all; or its save breaks off and nothing can be
\* read any more.  No daemon that starts, reloads or stops meanwhile changes it.
KeepsRegistry == [][Alone => [Reg!RegistryNext]_Table]_keyFileVars
=============================================================================
