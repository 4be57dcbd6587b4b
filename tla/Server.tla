------------------------------- MODULE Server -------------------------------
(***************************************************************************)
(* internal/server, and the part of internal/daemon that starts and stops  *)
(* it: the accept loop, one goroutine per connection, the semaphore that   *)
(* bounds them, and Stop, which must outlive them all before the daemon    *)
(* clears its keys.                                                        *)
(*                                                                         *)
(* A connection is a client with its queue of one unread line.  What a     *)
(* request does is the subject of Handle; here it takes its time and ends. *)
(* The wording of a line that is malformed or of another type makes no     *)
(* difference: it is answered, and the next one is read.                   *)
(***************************************************************************)
EXTENDS Integers, FiniteSets

CONSTANTS
    Conn,      \* connections; one that has ended may be made anew
    MaxConns   \* maxConcurrentConns

ASSUME ServerAssumption == IsFiniteSet(Conn) /\ MaxConns \in Nat \ {0}

VARIABLES
    main,      \* where Daemon.Start, then shutdown and Server.Stop, stand
    keys,      \* the decrypted keys and the passphrase are in memory
    quit,      \* s.quit is closed
    listener,  \* s.listener: "none", "open", "closed"
    loop,      \* where acceptLoop stands
    wg,        \* the counter of s.wg
    sem,       \* the tokens in s.connSem
    conn,      \* where each connection, and the goroutine that has it, stands
    inbox,     \* the line the client has written and nobody has read
    hung       \* the clients that have hung up

serverVars == <<main, keys, quit, listener, loop, wg, sem, conn, inbox, hung>>
clientVars == <<inbox, hung>>
mainVars   == <<main, keys, quit, listener>>

\* An empty line, one longer than the scanner's buffer, and any other.
Line == {"blank", "huge", "request"}

\* Not connected, in the kernel's queue, with the loop, then with a goroutine.
Place == {"none", "queued", "held", "scan", "busy", "close", "release", "done"}

\* The goroutines of handleConnection, and those of them with a token.
Slotted  == {c \in Conn : conn[c] \in {"scan", "busy", "close", "release"}}
Routines == Slotted \cup {c \in Conn : conn[c] = "done"}

Move(c, at) == conn' = [conn EXCEPT ![c] = at]
-----------------------------------------------------------------------------
(* The daemon's main goroutine *)

Start ==
    /\ main = "start"
    /\ \/ /\ main' = "serve" /\ listener' = "open"
          /\ wg' = wg + 1 /\ loop' = "accept"
          /\ UNCHANGED keys
       \/ /\ main' = "over" /\ keys' = FALSE   \* Listen or Chmod fails
          /\ UNCHANGED <<listener, wg, loop>>
    /\ UNCHANGED <<quit, sem, conn, clientVars>>

\* Mutant: Stop does not tell the goroutines.
BeginStop_ForgetsQuit ==
    /\ main = "serve"
    /\ main' = "quit"
    /\ UNCHANGED <<keys, quit, listener, loop, wg, sem, conn, clientVars>>

\* The signal arrives; Stop closes s.quit.
BeginStop ==
    /\ main = "serve"
    /\ main' = "quit"
    /\ quit' = TRUE
    /\ UNCHANGED <<keys, listener, loop, wg, sem, conn, clientVars>>

\* Stop closes the listener; the kernel drops who was not accepted.
CloseListener ==
    /\ main = "quit"
    /\ main' = "drain"
    /\ listener' = "closed"
    /\ conn' = [c \in Conn |-> IF conn[c] = "queued" THEN "none" ELSE conn[c]]
    /\ inbox' = [c \in Conn |-> IF conn[c] = "queued" THEN "nothing" ELSE inbox[c]]
    /\ hung' = {c \in hung : conn[c] # "queued"}
    /\ UNCHANGED <<keys, quit, loop, wg, sem>>

WaitReturns ==
    /\ main = "drain"
    /\ wg = 0
    /\ main' = "stopped"
    /\ UNCHANGED <<keys, quit, listener, loop, wg, sem, conn, clientVars>>

\* shutdown: ClearAll, ZeroClear of the passphrase, and the process ends.
ClearKeys ==
    /\ main = "stopped"
    /\ main' = "over"
    /\ keys' = FALSE
    /\ UNCHANGED <<quit, listener, loop, wg, sem, conn, clientVars>>
-----------------------------------------------------------------------------
(* acceptLoop *)

Accept(c) ==
    /\ loop = "accept"
    /\ listener = "open"
    /\ conn[c] = "queued"
    /\ Move(c, "held")
    /\ loop' = "got"
    /\ UNCHANGED <<mainVars, wg, sem, clientVars>>

\* Accept fails, for good once the listener is closed, before that now and then.
AcceptFails ==
    /\ loop = "accept"
    /\ listener # "none"
    /\ loop' = IF quit THEN "exit" ELSE "accept"
    /\ UNCHANGED <<mainVars, wg, sem, conn, clientVars>>

\* The connection is over, for both sides.
Forget(c) ==
    /\ Move(c, "none")
    /\ inbox' = [inbox EXCEPT ![c] = "nothing"]
    /\ hung' = hung \ {c}

\* Mutant: one connection too many.
Admit_OffByOne(c) ==
    /\ loop = "got"
    /\ conn[c] = "held"
    /\ \/ /\ sem <= MaxConns
          /\ sem' = sem + 1
          /\ loop' = "slot"
          /\ UNCHANGED <<conn, clientVars>>
       \/ /\ sem > MaxConns
          /\ Forget(c)
          /\ loop' = "accept"
          /\ UNCHANGED sem
    /\ UNCHANGED <<mainVars, wg>>

\* A token if there is one, else the connection is closed at once.
Admit(c) ==
    /\ loop = "got"
    /\ conn[c] = "held"
    /\ \/ /\ sem < MaxConns
          /\ sem' = sem + 1
          /\ loop' = "slot"
          /\ UNCHANGED <<conn, clientVars>>
       \/ /\ sem >= MaxConns
          /\ Forget(c)
          /\ loop' = "accept"
          /\ UNCHANGED sem
    /\ UNCHANGED <<mainVars, wg>>

\* Mutant: the goroutine is not counted.
Spawn_NotCounted(c) ==
    /\ loop = "slot"
    /\ conn[c] = "held"
    /\ Move(c, "scan")
    /\ loop' = "accept"
    /\ UNCHANGED <<mainVars, wg, sem, clientVars>>

\* Mutant: the goroutine counts itself, some time after it was started.
Spawn_CountsItself(c) ==
    /\ \/ /\ loop = "slot" /\ conn[c] = "held"
          /\ Move(c, "born") /\ loop' = "accept" /\ UNCHANGED wg
       \/ /\ conn[c] = "born"
          /\ Move(c, "scan") /\ wg' = wg + 1 /\ UNCHANGED loop
    /\ UNCHANGED <<mainVars, sem, clientVars>>

\* wg.Add(1), then go.
Spawn(c) ==
    /\ loop = "slot"
    /\ conn[c] = "held"
    /\ wg' = wg + 1
    /\ Move(c, "scan")
    /\ loop' = "accept"
    /\ UNCHANGED <<mainVars, sem, clientVars>>

LoopDone ==
    /\ loop = "exit"
    /\ wg' = wg - 1
    /\ loop' = "done"
    /\ UNCHANGED <<mainVars, sem, conn, clientVars>>
-----------------------------------------------------------------------------
(* handleConnection, and the goroutine around it *)

\* Scan returns a line, and s.quit is looked at before anything is done with
\* it; or Scan fails, on a line too long or at the end of the input.
TakeLine(c) ==
    /\ conn[c] = "scan"
    /\ \/ /\ inbox[c] # "nothing"
          /\ inbox' = [inbox EXCEPT ![c] = "nothing"]
          /\ Move(c, CASE quit \/ inbox[c] = "huge" -> "close"
                       [] ~quit /\ inbox[c] = "blank" -> "scan"
                       [] ~quit /\ inbox[c] = "request" -> "busy")
       \/ /\ inbox[c] = "nothing" /\ c \in hung
          /\ Move(c, "close")
          /\ UNCHANGED inbox
    /\ UNCHANGED <<mainVars, loop, wg, sem, hung>>

\* The request is handled and the response written, to a client or to nobody.
Respond(c) ==
    /\ conn[c] = "busy"
    /\ Move(c, "scan")
    /\ UNCHANGED <<mainVars, loop, wg, sem, clientVars>>

\* Mutant: the goroutine ends without giving its token back.
CloseConn_KeepsToken(c) ==
    /\ conn[c] = "close"
    /\ Move(c, "done")
    /\ UNCHANGED <<mainVars, loop, wg, sem, clientVars>>

\* The deferred calls, last first: conn.Close, the token, wg.Done.
CloseConn(c) ==
    /\ conn[c] = "close"
    /\ Move(c, "release")
    /\ UNCHANGED <<mainVars, loop, wg, sem, clientVars>>

Release(c) ==
    /\ conn[c] = "release"
    /\ sem' = sem - 1
    /\ Move(c, "done")
    /\ UNCHANGED <<mainVars, loop, wg, clientVars>>

Done(c) ==
    /\ conn[c] = "done"
    /\ wg' = wg - 1
    /\ Forget(c)
    /\ UNCHANGED <<mainVars, loop, sem>>
-----------------------------------------------------------------------------
(* The clients *)

Connected(c) == conn[c] \in {"queued", "held", "scan", "busy"} /\ c \notin hung

Connect(c) ==
    /\ conn[c] = "none"
    /\ listener = "open"
    /\ Move(c, "queued")
    /\ UNCHANGED <<mainVars, loop, wg, sem, clientVars>>

SendLine(c, l) ==
    /\ Connected(c)
    /\ inbox[c] = "nothing"
    /\ inbox' = [inbox EXCEPT ![c] = l]
    /\ UNCHANGED <<mainVars, loop, wg, sem, conn, hung>>

HangUp(c) ==
    /\ Connected(c)
    /\ hung' = hung \cup {c}
    /\ UNCHANGED <<mainVars, loop, wg, sem, conn, inbox>>
-----------------------------------------------------------------------------
ServerInit ==
    /\ main = "start" /\ keys = TRUE
    /\ quit = FALSE /\ listener = "none"
    /\ loop = "off"
    /\ wg = 0 /\ sem = 0
    /\ conn = [c \in Conn |-> "none"]
    /\ inbox = [c \in Conn |-> "nothing"]
    /\ hung = {}

Stopping == CloseListener \/ WaitReturns \/ ClearKeys

Looping(c)  == Accept(c) \/ Admit(c) \/ Spawn(c)
Handling(c) ==
    TakeLine(c) \/ Respond(c) \/ CloseConn(c) \/ Release(c) \/ Done(c)

ServerNext ==
    \/ Start \/ BeginStop \/ Stopping
    \/ AcceptFails \/ LoopDone
    \/ \E c \in Conn :
          \/ Looping(c)
          \/ Handling(c)
          \/ Connect(c)
          \/ \E l \in Line : SendLine(c, l)
          \/ HangUp(c)

ServerSpec == ServerInit /\ [][ServerNext]_serverVars

\* Goroutines run when they can; a request ends (Handle, Answered; the other
\* commands only compute); a closed listener makes Accept fail.
ServerFairness ==
    /\ WF_serverVars(Stopping)
    /\ WF_serverVars(\E c \in Conn : Looping(c))
    /\ WF_serverVars(listener = "closed" /\ AcceptFails)
    /\ WF_serverVars(LoopDone)
    /\ \A c \in Conn : WF_serverVars(Handling(c))

\* Clients owe nothing, except those that do not stay for ever.
ServerFairSpec    == ServerSpec /\ ServerFairness
ShortStayFairSpec == ServerFairSpec /\ \A c \in Conn : WF_serverVars(HangUp(c))
-----------------------------------------------------------------------------
(* Properties *)

ServerTypeOK ==
    /\ main \in {"start", "serve", "quit", "drain", "stopped", "over"}
    /\ keys \in BOOLEAN /\ quit \in BOOLEAN
    /\ listener \in {"none", "open", "closed"}
    /\ loop \in {"off", "accept", "got", "slot", "exit", "done"}
    /\ wg \in Nat /\ sem \in Nat
    /\ conn \in [Conn -> Place]
    /\ inbox \in [Conn -> Line \cup {"nothing"}]
    /\ hung \subseteq Conn

\* Once Stop has returned no goroutine of the server is left, and none is left
\* that could start one; so no request runs on cleared keys, and no reload
\* brings plaintext back after ClearAll.  An accept that raced with close(quit)
\* is among those Stop waits for.
StoppedIsQuiet ==
    /\ main \in {"stopped", "over"} =>
          Routines = {} /\ loop \in {"off", "done"}
    /\ \A c \in Conn : conn[c] = "busy" => keys

\* The rule of sync.WaitGroup: while Stop waits, nothing is added to a counter
\* that has come to zero.  The accept loop is counted itself while it adds.
AddedWhileCounted == [][wg' > wg /\ quit => wg > 0]_serverVars

\* A connection is turned away only if MaxConns others have their goroutine:
\* every way out of handleConnection gives the token back.
TurnedAwayWhenFull ==
    [][ \A c \in Conn : conn[c] = "held" /\ conn'[c] = "none" =>
            Cardinality(Slotted) = MaxConns ]_serverVars

\* The server keeps the promise of Accepting.
Phase ==
    CASE main \in {"start", "serve"}  -> "open"
      [] main \in {"quit", "drain"}   -> "closing"
      [] main \in {"stopped", "over"} -> "closed"
Free == MaxConns - Cardinality(Slotted)
Gate == INSTANCE Accepting WITH phase <- Phase, inside <- Slotted, free <- Free
KeepsGate == Gate!ASpec

\* server.go:83: a stop that has begun ends, and the keys are cleared.
StopReturns == main = "quit" ~> main = "over"

\* A full server has room again, if clients do not stay for ever.
RoomAgain == []<>(sem < MaxConns)
=============================================================================
