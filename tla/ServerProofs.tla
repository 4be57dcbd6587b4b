---------------------------- MODULE ServerProofs ----------------------------
(* What holds of the server for any number of connections and tokens.         *)
EXTENDS Server, FiniteSetTheorems, TLAPS

(* The inductive invariant. *)

\* The loop itself, and each goroutine it has started, is counted in s.wg.
LoopCount == IF loop \in {"accept", "got", "slot", "exit"} THEN 1 ELSE 0
WaitCount == wg = Cardinality(Routines) + LoopCount

\* A token is held by a goroutine, or by the loop for one it is about to start.
TokenCount ==
    /\ sem = Cardinality(Slotted) + (IF loop = "slot" THEN 1 ELSE 0)
    /\ sem <= MaxConns

\* Where main stands is what has been started and what has been closed.
Phases ==
    /\ main = "start" => loop = "off" /\ Routines = {} /\ listener = "none"
    /\ loop = "off" => main \in {"start", "over"}
    /\ quit <=> main \in {"quit", "drain", "stopped"} \/ (main = "over" /\ loop = "done")
    /\ loop \in {"exit", "done"} => quit
    /\ keys <=> main # "over"
    /\ main \in {"stopped", "over"} => Routines = {} /\ loop \in {"off", "done"}

ServerInv == ServerTypeOK /\ WaitCount /\ TokenCount /\ Phases
-----------------------------------------------------------------------------
(* Counting goroutines *)

LEMMA Finite ==
    /\ IsFiniteSet(Slotted) /\ Cardinality(Slotted) \in Nat
    /\ IsFiniteSet(Routines) /\ Cardinality(Routines) \in Nat
<1>1. Slotted \in SUBSET Conn /\ Routines \in SUBSET Conn
  BY DEF Slotted, Routines
<1>2. IsFiniteSet(Slotted) /\ IsFiniteSet(Routines)
  BY <1>1, FS_Subset, ServerAssumption
<1> QED BY <1>2, FS_CardinalityType

LEMMA NoRoutines == Cardinality(Routines) = 0 => Routines = {}
BY Finite, FS_EmptySet

\* A goroutine that moves on without passing the token or the counter.
LEMMA MoveSame ==
    ASSUME conn \in [Conn -> Place], NEW c \in Conn, NEW at \in Place,
           Move(c, at),
           conn[c] \in {"scan", "busy", "close", "release"}
               <=> at \in {"scan", "busy", "close", "release"},
           conn[c] = "done" <=> at = "done"
    PROVE  Slotted' = Slotted /\ Routines' = Routines
BY DEF Move, Slotted, Routines

LEMMA SpawnCount ==
    ASSUME conn \in [Conn -> Place], NEW c \in Conn,
           conn[c] = "held", Move(c, "scan")
    PROVE  /\ Slotted' = Slotted \cup {c} /\ Routines' = Routines \cup {c}
           /\ c \notin Routines /\ c \notin Slotted
           /\ Cardinality(Slotted') = Cardinality(Slotted) + 1
           /\ Cardinality(Routines') = Cardinality(Routines) + 1
<1>1. /\ Slotted' = Slotted \cup {c} /\ Routines' = Routines \cup {c}
      /\ c \notin Routines /\ c \notin Slotted
  BY DEF Move, Slotted, Routines
<1> QED BY <1>1, Finite, FS_AddElement

LEMMA ReleaseCount ==
    ASSUME conn \in [Conn -> Place], NEW c \in Conn,
           conn[c] = "release", Move(c, "done")
    PROVE  /\ Slotted' = Slotted \ {c} /\ c \in Slotted
           /\ Routines' = Routines
           /\ Cardinality(Slotted') = Cardinality(Slotted) - 1
<1>1. /\ Slotted' = Slotted \ {c} /\ Routines' = Routines /\ c \in Slotted
  BY DEF Move, Slotted, Routines
<1> QED BY <1>1, Finite, FS_RemoveElement

LEMMA DoneCount ==
    ASSUME conn \in [Conn -> Place], NEW c \in Conn,
           conn[c] = "done", Move(c, "none")
    PROVE  /\ Slotted' = Slotted
           /\ Routines' = Routines \ {c} /\ c \in Routines
           /\ Cardinality(Routines') = Cardinality(Routines) - 1
<1>1. /\ Slotted' = Slotted /\ Routines' = Routines \ {c} /\ c \in Routines
  BY DEF Move, Slotted, Routines
<1> QED BY <1>1, Finite, FS_RemoveElement
-----------------------------------------------------------------------------
(* What a step may do, seen from the invariant and from the gate. *)

LEMMA InitInv == ServerInit => ServerInv
<1> SUFFICES ASSUME ServerInit PROVE ServerInv
  OBVIOUS
<1>1. Slotted = {} /\ Routines = {}
  BY DEF ServerInit, Slotted, Routines
<1>2. Cardinality(Slotted) = 0 /\ Cardinality(Routines) = 0
  BY <1>1, FS_EmptySet
<1>3. ServerTypeOK
  BY DEF ServerInit, ServerTypeOK, Place
<1> QED BY <1>1, <1>2, <1>3, ServerAssumption
        DEF ServerInit, ServerInv, WaitCount, LoopCount, TokenCount, Phases

LEMMA TypesKept ==
    ASSUME ServerInv, ServerNext
    PROVE  ServerTypeOK'
<1> USE DEF ServerInv, ServerTypeOK
<1>0. conn \in [Conn -> Place]
  OBVIOUS
<1> USE DEF Place
<1>1. CASE Start
  <2>1. wg' \in Nat
    BY <1>1 DEF Start
  <2>2. keys' \in BOOLEAN
    BY <1>1, Zenon DEF Start
  <2>3. UNCHANGED <<quit, sem, conn, inbox, hung>>
    BY <1>1 DEF Start, clientVars
  <2>4. /\ main' \in {"serve", "over"} /\ loop' \in {loop, "accept"}
        /\ listener' \in {listener, "open"}
    BY <1>1 DEF Start
  <2> QED BY <2>1, <2>2, <2>3, <2>4
<1>2. CASE BeginStop
  BY <1>2 DEF BeginStop, clientVars
<1>3. CASE CloseListener
  BY <1>3 DEF CloseListener
<1>4. CASE WaitReturns \/ ClearKeys
  BY <1>4 DEF WaitReturns, ClearKeys, clientVars
<1>5. CASE AcceptFails
  BY <1>5 DEF AcceptFails, mainVars, clientVars
<1>6. CASE LoopDone
  BY <1>6, Finite DEF LoopDone, mainVars, clientVars, WaitCount, LoopCount
<1>7. ASSUME NEW c \in Conn, Accept(c)
      PROVE  ServerTypeOK'
  BY <1>7 DEF Accept, Move, mainVars, clientVars
<1>8. ASSUME NEW c \in Conn, Admit(c)
      PROVE  ServerTypeOK'
  BY <1>8 DEF Admit, Forget, Move, mainVars, clientVars
<1>9. ASSUME NEW c \in Conn, Spawn(c)
      PROVE  ServerTypeOK'
  BY <1>9 DEF Spawn, Move, mainVars, clientVars
<1>10. ASSUME NEW c \in Conn, TakeLine(c)
       PROVE  ServerTypeOK'
  <2>1. PICK at \in {"close", "scan", "busy"} : Move(c, at)
    BY <1>10 DEF TakeLine, Line
  <2> QED BY <1>10, <2>1 DEF TakeLine, Move, mainVars, clientVars
<1>11. ASSUME NEW c \in Conn, Respond(c) \/ CloseConn(c)
       PROVE  ServerTypeOK'
  BY <1>11 DEF Respond, CloseConn, Move, mainVars, clientVars
<1>12. ASSUME NEW c \in Conn, Release(c)
       PROVE  ServerTypeOK'
  <2>1. sem' \in Nat
    <3>1. c \in Slotted /\ Cardinality(Slotted \ {c}) = Cardinality(Slotted) - 1
      BY <1>12, <1>0, ReleaseCount DEF Release
    <3>2. Cardinality(Slotted \ {c}) \in Nat
      BY Finite, FS_RemoveElement, FS_CardinalityType
    <3> QED BY <1>12, <3>1, <3>2, Finite DEF Release, TokenCount
  <2> QED BY <1>12, <2>1 DEF Release, Move, mainVars, clientVars
<1>13. ASSUME NEW c \in Conn, Done(c)
       PROVE  ServerTypeOK'
  <2>1. wg' \in Nat
    <3>1. c \in Routines /\ Cardinality(Routines \ {c}) = Cardinality(Routines) - 1
      BY <1>13, <1>0, DoneCount DEF Done, Forget
    <3>2. Cardinality(Routines \ {c}) \in Nat
      BY Finite, FS_RemoveElement, FS_CardinalityType
    <3> QED BY <1>13, <3>1, <3>2, Finite DEF Done, WaitCount, LoopCount
  <2> QED BY <1>13, <2>1 DEF Done, Forget, Move, mainVars, clientVars
<1>14. ASSUME NEW c \in Conn, Connect(c) \/ HangUp(c)
       PROVE  ServerTypeOK'
  BY <1>14 DEF Connect, HangUp, Move, mainVars, clientVars
<1>15. ASSUME NEW c \in Conn, NEW l \in Line, SendLine(c, l)
       PROVE  ServerTypeOK'
  BY <1>15 DEF SendLine, mainVars
<1> QED
  BY <1>1, <1>2, <1>3, <1>4, <1>5, <1>6, <1>7, <1>8, <1>9, <1>10, <1>11, <1>12,
     <1>13, <1>14, <1>15 DEF ServerNext, Stopping, Looping, Handling

LEMMA CountsKept ==
    ASSUME ServerInv, ServerNext
    PROVE  WaitCount' /\ TokenCount' /\ Phases'
<1> USE DEF ServerInv, ServerTypeOK
<1> DEFINE Goal == WaitCount' /\ TokenCount' /\ Phases'
<1>0. conn \in [Conn -> Place] /\ MaxConns \in Nat \ {0}
  BY ServerAssumption
<1> USE Finite DEF WaitCount, LoopCount, TokenCount, Phases
<1>a. ASSUME UNCHANGED conn PROVE Slotted' = Slotted /\ Routines' = Routines
  BY <1>a DEF Slotted, Routines
<1>1. CASE Start
  <2>1. /\ quit' = quit /\ sem' = sem /\ main = "start"
        /\ Slotted' = Slotted /\ Routines' = Routines
    BY <1>1, <1>a DEF Start
  <2>2. \/ /\ main' = "serve" /\ listener' = "open"
           /\ wg' = wg + 1 /\ loop' = "accept" /\ keys' = keys
        \/ /\ main' = "over" /\ ~keys' /\ listener' = listener
           /\ wg' = wg /\ loop' = loop
    BY <1>1, Zenon DEF Start
  <2>3. WaitCount' /\ TokenCount'
    <3>1. CASE main' = "serve" /\ wg' = wg + 1 /\ loop' = "accept"
      <4>1. WaitCount'
        BY <2>1, <3>1
      <4>2. TokenCount'
        BY <2>1, <3>1
      <4> QED BY <4>1, <4>2
    <3>2. CASE wg' = wg /\ loop' = loop
      BY <2>1, <3>2
    <3> QED BY <2>2, <3>1, <3>2
  <2>4. Phases'
    BY <2>1, <2>2
  <2> QED BY <2>3, <2>4
<1>2. CASE BeginStop
  BY <1>2, <1>a DEF BeginStop
<1>3. CASE CloseListener
  <2>1. Slotted' = Slotted /\ Routines' = Routines
    BY <1>3 DEF CloseListener, Slotted, Routines, Place
  <2> QED BY <1>3, <2>1 DEF CloseListener
<1>4. CASE WaitReturns
  <2>1. Cardinality(Routines) = 0 /\ LoopCount = 0
    BY <1>4 DEF WaitReturns
  <2>2. Routines = {} /\ loop \in {"off", "done"}
    BY <2>1, NoRoutines
  <2> QED BY <1>4, <1>a, <2>1, <2>2 DEF WaitReturns
<1>5. CASE ClearKeys
  BY <1>5, <1>a DEF ClearKeys
<1>6. CASE AcceptFails
  BY <1>6, <1>a DEF AcceptFails, mainVars
<1>7. CASE LoopDone
  BY <1>7, <1>a DEF LoopDone, mainVars
<1>8. ASSUME NEW c \in Conn, Accept(c)
      PROVE  Goal
  <2>1. Slotted' = Slotted /\ Routines' = Routines
    BY <1>0, <1>8, MoveSame DEF Accept, Place
  <2> QED BY <1>8, <2>1 DEF Accept, mainVars
<1>9. ASSUME NEW c \in Conn, Admit(c)
      PROVE  Goal
  <2>1. Slotted' = Slotted /\ Routines' = Routines
    <3>1. conn[c] = "held" /\ (UNCHANGED conn \/ Move(c, "none"))
      BY <1>9 DEF Admit, Forget
    <3> QED BY <1>0, <1>a, <3>1, MoveSame DEF Place
  <2> QED BY <1>0, <1>9, <2>1 DEF Admit, mainVars
<1>10. ASSUME NEW c \in Conn, Spawn(c)
       PROVE  Goal
  <2>1. /\ Cardinality(Slotted') = Cardinality(Slotted) + 1
        /\ Cardinality(Routines') = Cardinality(Routines) + 1
    BY <1>0, <1>10, SpawnCount DEF Spawn
  <2>2. main \notin {"start", "stopped", "over"}
    BY <1>10 DEF Spawn
  <2> QED BY <1>10, <2>1, <2>2 DEF Spawn, mainVars
<1>11. ASSUME NEW c \in Conn, TakeLine(c) \/ Respond(c) \/ CloseConn(c)
       PROVE  Goal
  <2>1. PICK at \in {"close", "scan", "busy", "release"} : Move(c, at)
    BY <1>11 DEF TakeLine, Respond, CloseConn, Line
  <2>2. conn[c] \in {"scan", "busy", "close"}
    BY <1>11 DEF TakeLine, Respond, CloseConn
  <2>3. Slotted' = Slotted /\ Routines' = Routines
    BY <1>0, <2>1, <2>2, MoveSame DEF Place
  <2>4. UNCHANGED <<main, keys, quit, listener, loop, wg, sem>>
    BY <1>11 DEF TakeLine, Respond, CloseConn, mainVars
  <2> QED BY <2>3, <2>4
<1>12. ASSUME NEW c \in Conn, Release(c)
       PROVE  Goal
  <2>1. /\ Routines' = Routines
        /\ Cardinality(Slotted') = Cardinality(Slotted) - 1
    BY <1>0, <1>12, ReleaseCount DEF Release
  <2> QED BY <1>0, <1>12, <2>1 DEF Release, mainVars
<1>13. ASSUME NEW c \in Conn, Done(c)
       PROVE  Goal
  <2>1. /\ Slotted' = Slotted /\ c \in Routines
        /\ Cardinality(Routines') = Cardinality(Routines) - 1
    BY <1>0, <1>13, DoneCount DEF Done, Forget
  <2> QED BY <1>13, <2>1 DEF Done, mainVars
<1>14. ASSUME NEW c \in Conn, Connect(c)
       PROVE  Goal
  <2>1. Slotted' = Slotted /\ Routines' = Routines
    BY <1>0, <1>14, MoveSame DEF Connect, Place
  <2> QED BY <1>14, <2>1 DEF Connect, mainVars
<1>15. ASSUME NEW c \in Conn, HangUp(c) \/ \E l \in Line : SendLine(c, l)
       PROVE  Goal
  BY <1>15, <1>a DEF HangUp, SendLine, mainVars
<1> QED
  BY <1>1, <1>2, <1>3, <1>4, <1>5, <1>6, <1>7, <1>8, <1>9, <1>10, <1>11, <1>12,
     <1>13, <1>14, <1>15 DEF ServerNext, Stopping, Looping, Handling
-----------------------------------------------------------------------------
\* The counters count what they are for, and main is never ahead of the others.
THEOREM ServerInvariant == ServerSpec => []ServerInv
<1>1. ServerInv /\ [ServerNext]_serverVars => ServerInv'
  <2> SUFFICES ASSUME ServerInv, [ServerNext]_serverVars PROVE ServerInv'
    OBVIOUS
  <2>1. CASE ServerNext
    BY <2>1, TypesKept, CountsKept DEF ServerInv
  <2>2. CASE UNCHANGED serverVars
    <3>1. Slotted' = Slotted /\ Routines' = Routines
      BY <2>2 DEF serverVars, Slotted, Routines
    <3> QED BY <2>2, <3>1
            DEF serverVars, ServerInv, ServerTypeOK, WaitCount, LoopCount,
                TokenCount, Phases
  <2> QED BY <2>1, <2>2
<1> QED BY <1>1, InitInv, PTL DEF ServerSpec

\* The variables of the server, the counter and the tokens have their types; in
\* particular neither counter ever goes below zero.
THEOREM ServerTypes == ServerSpec => []ServerTypeOK
<1>1. ServerInv => ServerTypeOK
  BY DEF ServerInv
<1> QED BY <1>1, ServerInvariant, PTL

\* Stop does not return, and the keys are not cleared, before the last
\* goroutine of the server has ended.
THEOREM ServerQuiet == ServerSpec => []StoppedIsQuiet
<1>1. ServerInv => StoppedIsQuiet
  <2> SUFFICES ASSUME ServerInv PROVE StoppedIsQuiet
    OBVIOUS
  <2> USE DEF ServerInv, Phases
  <2>1. main \in {"stopped", "over"} => Routines = {} /\ loop \in {"off", "done"}
    OBVIOUS
  <2>2. ASSUME NEW c \in Conn, conn[c] = "busy" PROVE keys
    BY <2>2 DEF Routines, Slotted
  <2> QED BY <2>1, <2>2 DEF StoppedIsQuiet
<1> QED BY <1>1, ServerInvariant, PTL

\* Every wg.Add that may run beside Wait finds the loop's own count.
THEOREM ServerAdds == ServerSpec => AddedWhileCounted
<1>1. ServerInv /\ [ServerNext]_serverVars => [wg' > wg /\ quit => wg > 0]_serverVars
  <2> SUFFICES ASSUME ServerInv, ServerNext, wg' > wg, quit
               PROVE  wg > 0
    OBVIOUS
  <2> USE Finite DEF ServerInv, ServerTypeOK, WaitCount, LoopCount, Phases
  <2>1. ASSUME NEW c \in Conn, Spawn(c) PROVE wg > 0
    BY <2>1 DEF Spawn
  <2>2. CASE Start
    BY <2>2 DEF Start
  <2>3. CASE LoopDone \/ \E c \in Conn : Done(c)
    <3>1. wg' = wg - 1
      BY <2>3 DEF LoopDone, Done
    <3> QED BY <3>1
  <2>4. CASE wg' = wg
    BY <2>4
  <2>5. ASSUME ~Start, ~LoopDone, \A c \in Conn : ~Spawn(c) /\ ~Done(c)
        PROVE  wg' = wg
    BY <2>5 DEF ServerNext, Stopping, Looping, Handling, BeginStop, CloseListener,
       WaitReturns, ClearKeys, AcceptFails, Accept, Admit, TakeLine, Respond,
       CloseConn, Release, Connect, SendLine, HangUp
  <2> QED BY <2>1, <2>2, <2>3, <2>4, <2>5
<1> QED BY <1>1, ServerInvariant, PTL DEF ServerSpec, AddedWhileCounted

\* Nobody is turned away while a token is free or lost.
THEOREM ServerTurnsAway == ServerSpec => TurnedAwayWhenFull
<1>1. ServerInv /\ [ServerNext]_serverVars =>
         [ \A c \in Conn : conn[c] = "held" /\ conn'[c] = "none" =>
               Cardinality(Slotted) = MaxConns ]_serverVars
  <2> SUFFICES ASSUME ServerInv, ServerNext,
                      NEW c \in Conn, conn[c] = "held", conn'[c] = "none"
               PROVE  Cardinality(Slotted) = MaxConns
    OBVIOUS
  <2>0. conn \in [Conn -> Place]
    BY DEF ServerInv, ServerTypeOK
  <2>1. PICK d \in Conn : Admit(d)
    <3>1. conn' # conn
      BY <2>0
    <3>2. ASSUME NEW d \in Conn, NEW at \in Place, Move(d, at), conn[d] # "held" \/ at # "none"
          PROVE  FALSE
      BY <2>0, <3>2 DEF Move, Place
    <3>3. ASSUME NEW d \in Conn, TakeLine(d)
          PROVE  FALSE
      <4>1. \E at \in {"close", "scan", "busy"} : Move(d, at)
        BY <3>3 DEF TakeLine, ServerInv, ServerTypeOK, Line
      <4> QED BY <4>1, <3>2 DEF Place
    <3>4. ~CloseListener
      BY <2>0 DEF CloseListener
    <3>5. \A d \in Conn : /\ ~Accept(d) /\ ~Spawn(d) /\ ~Respond(d)
                          /\ ~CloseConn(d) /\ ~Release(d) /\ ~Connect(d)
      BY <3>2 DEF Accept, Spawn, Respond, CloseConn, Release, Connect, Place
    <3>6. \A d \in Conn : ~Done(d)
      BY <3>2 DEF Done, Forget, Place
    <3>7. ~Start /\ ~BeginStop /\ ~WaitReturns /\ ~ClearKeys /\ ~AcceptFails /\ ~LoopDone
      BY <3>1 DEF Start, BeginStop, WaitReturns, ClearKeys, AcceptFails, LoopDone
    <3>8. \A d \in Conn : ~HangUp(d) /\ \A l \in Line : ~SendLine(d, l)
      BY <3>1 DEF HangUp, SendLine
    <3> QED BY <3>3, <3>4, <3>5, <3>6, <3>7, <3>8
            DEF ServerNext, Stopping, Looping, Handling
  <2>2. sem >= MaxConns /\ loop = "got"
    BY <2>0, <2>1 DEF Admit
  <2> QED BY <2>2, Finite, ServerAssumption DEF ServerInv, ServerTypeOK, TokenCount
<1> QED BY <1>1, ServerInvariant, PTL DEF ServerSpec, TurnedAwayWhenFull

\* The server does what Accepting promises: every step of it is one of the
\* gate, or is none of the gate's business.
THEOREM ServerKeepsGate == ServerSpec => KeepsGate
<1>1. ServerInit => Gate!AInit
  <2> SUFFICES ASSUME ServerInit PROVE Gate!AInit
    OBVIOUS
  <2>1. Slotted = {} /\ Phase = "open"
    BY DEF ServerInit, Phase, Slotted
  <2>2. Free = MaxConns
    BY <2>1, FS_EmptySet, ServerAssumption DEF Free
  <2> QED BY <2>1, <2>2 DEF Gate!AInit
<1>2. ServerInv /\ ServerInv' /\ [ServerNext]_serverVars =>
         [Gate!ANext]_<<Phase, Slotted, Free>>
  <2> SUFFICES ASSUME ServerInv, ServerInv', [ServerNext]_serverVars
               PROVE  Gate!ANext \/ (Phase' = Phase /\ Slotted' = Slotted)
    BY DEF Free
  <2> DEFINE Idle == Phase' = Phase /\ Slotted' = Slotted
  <2>0. conn \in [Conn -> Place] /\ MaxConns \in Nat
    BY ServerAssumption DEF ServerInv, ServerTypeOK
  <2>a. ASSUME main' = main PROVE Phase' = Phase
    BY <2>a DEF Phase
  <2>b. ASSUME conn' = conn PROVE Slotted' = Slotted
    BY <2>b DEF Slotted
  <2>1. CASE UNCHANGED serverVars
    BY <2>1, <2>a, <2>b DEF serverVars
  <2>2. CASE Start
    <3>1. Slotted' = Slotted /\ Slotted = {}
      BY <2>2, <2>b DEF Start, ServerInv, Phases, Routines
    <3>2. Phase = "open" /\ Phase' \in {"open", "closed"}
      BY <2>2 DEF Start, Phase
    <3> QED BY <3>1, <3>2 DEF Gate!ANext, Gate!FinishClosing, Free
  <2>3. CASE BeginStop
    <3>1. Phase = "open" /\ Phase' = "closing"
      BY <2>3 DEF BeginStop, Phase
    <3> QED BY <2>3, <2>b, <3>1 DEF BeginStop, Gate!ANext, Gate!BeginClosing, Free
  <2>4. CASE CloseListener
    <3>1. Phase' = Phase
      BY <2>4 DEF CloseListener, Phase
    <3>2. Slotted' = Slotted
      BY <2>4 DEF CloseListener, Slotted
    <3> QED BY <3>1, <3>2
  <2>5. CASE WaitReturns
    <3>1. Phase = "closing" /\ Phase' = "closed"
      BY <2>5 DEF WaitReturns, Phase
    <3>2. Slotted' = Slotted
      BY <2>5, <2>b DEF WaitReturns
    <3>3. Slotted' = {}
      BY <2>5 DEF WaitReturns, ServerInv, Phases, Routines
    <3> QED BY <3>1, <3>2, <3>3 DEF Gate!ANext, Gate!FinishClosing, Free
  <2>6. CASE ClearKeys
    BY <2>6, <2>b DEF ClearKeys, Phase
  <2>7. CASE AcceptFails \/ LoopDone
    BY <2>7, <2>a, <2>b DEF AcceptFails, LoopDone, mainVars
  <2>8. ASSUME NEW c \in Conn, Spawn(c)
        PROVE  Gate!Enter(c)
    <3>1. /\ Slotted' = Slotted \cup {c} /\ c \notin Slotted
          /\ Cardinality(Slotted') = Cardinality(Slotted) + 1
      BY <2>0, <2>8, SpawnCount DEF Spawn
    <3>2. Free > 0
      BY <2>0, <2>8, Finite DEF Spawn, ServerInv, TokenCount, Free
    <3>3. Phase' = Phase
      BY <2>8, <2>a DEF Spawn, mainVars
    <3>4. Phase # "closed"
      BY <2>8 DEF Spawn, Phase, ServerInv, ServerTypeOK, Phases
    <3>5. Free' = Free - 1
      BY <2>0, <3>1, Finite DEF Free
    <3> QED BY <3>1, <3>2, <3>3, <3>4, <3>5 DEF Gate!Enter
  <2>9. ASSUME NEW c \in Conn, Release(c)
        PROVE  Gate!Leave(c)
    <3>1. /\ Slotted' = Slotted \ {c} /\ c \in Slotted
          /\ Cardinality(Slotted') = Cardinality(Slotted) - 1
      BY <2>0, <2>9, ReleaseCount DEF Release
    <3>2. Phase' = Phase
      BY <2>9, <2>a DEF Release, mainVars
    <3>3. Free' = Free + 1
      BY <2>0, <3>1, Finite DEF Free
    <3> QED BY <3>1, <3>2, <3>3 DEF Gate!Leave
  <2>10. ASSUME NEW c \in Conn,
                Accept(c) \/ Admit(c) \/ Done(c) \/ Connect(c)
         PROVE  Idle
    <3>1. conn[c] \in {"queued", "held", "done", "none"}
      BY <2>10 DEF Accept, Admit, Done, Connect
    <3>2. UNCHANGED conn \/ \E at \in {"held", "none", "queued"} : Move(c, at)
      BY <2>10 DEF Accept, Admit, Done, Connect, Forget
    <3>3. ASSUME NEW at \in {"held", "none", "queued"}, Move(c, at)
          PROVE  Slotted' = Slotted
      BY <2>0, <3>1, <3>3 DEF Move, Slotted
    <3>4. Slotted' = Slotted
      BY <2>b, <3>2, <3>3
    <3> QED BY <2>10, <2>a, <3>4 DEF Accept, Admit, Done, Connect, mainVars
  <2>11. ASSUME NEW c \in Conn, TakeLine(c) \/ Respond(c) \/ CloseConn(c)
         PROVE  Idle
    <3>1. conn[c] \in {"scan", "busy", "close"}
      BY <2>11 DEF TakeLine, Respond, CloseConn
    <3>2. \E at \in {"close", "scan", "busy", "release"} : Move(c, at)
      BY <2>11 DEF TakeLine, Respond, CloseConn, ServerInv, ServerTypeOK, Line
    <3>3. Slotted' = Slotted
      BY <2>0, <3>1, <3>2 DEF Move, Slotted
    <3> QED BY <2>11, <2>a, <3>3 DEF TakeLine, Respond, CloseConn, mainVars
  <2>12. ASSUME NEW c \in Conn, HangUp(c) \/ \E l \in Line : SendLine(c, l)
         PROVE  Idle
    BY <2>12, <2>a, <2>b DEF HangUp, SendLine, mainVars
  <2>13. (\E c \in Conn : Gate!Enter(c) \/ Gate!Leave(c)) => Gate!ANext
    BY DEF Gate!ANext
  <2> QED
    BY <2>1, <2>2, <2>3, <2>4, <2>5, <2>6, <2>7, <2>8, <2>9, <2>10, <2>11, <2>12,
       <2>13 DEF ServerNext, Stopping, Looping, Handling
<1> QED BY <1>1, <1>2, ServerInvariant, PTL DEF ServerSpec, KeepsGate, Gate!ASpec
=============================================================================
