-------------------------- MODULE LifecycleProofs --------------------------
(***************************************************************************)
(* Theorems about Lifecycle, for any set of process ids.                   *)
(*                                                                         *)
(* Orderly and RemovesItsOwn rest on what IsRunning has read.  Named are   *)
(* the stages from the pid file on.  While no two processes rely on a      *)
(* reading, whoever is Named is the one in the pid file, so that there is  *)
(* one at most; a daemon on its way there has found none, and none can     *)
(* come to be meanwhile, for that would take another one on its way.       *)
(***************************************************************************)
EXTENDS Lifecycle, TLAPS

Named == {"unlink", "listen", "chmod", "serve", "undo", "up", "closing", "drain",
          "unname"}

\* It goes for the pid file: stale, or to be written.
Claims(p) ==
    \/ stage[p] \in {"rmpid", "rmsock"}
    \/ prog[p] = "daemon" /\ stage[p] \in {"no", "load", "truncate", "name"}

\* Only a daemon is in the stages of one, and has keys only there.
DaemonStages ==
    \A p \in Proc : stage[p] \in Rising \cup Named => prog[p] = "daemon"
KeysWhileLoaded ==
    \A p \in Proc : "keys" \in held[p] =>
        stage[p] \in (Rising \ {"load"}) \cup (Named \ {"unname"})

OneRelies ==
    \A p, q \in Proc : Relying(p, prog, stage) /\ Relying(q, prog, stage) => p = q
NamedIsFiled == \A p \in Proc : stage[p] \in Named => pidfile = p
NoneNamed ==
    \A p \in Proc : Claims(p) => \A q \in Proc : stage[q] \notin Named
ReadIsFiled ==
    \A p \in Proc : stage[p] \in {"probe", "rmpid"} => pidfile \in {target[p], None}
SockIsOwn ==
    \A p \in Proc : stage[p] \in {"chmod", "serve", "up", "closing"} => sock = p

OwnInv   == DaemonStages /\ KeysWhileLoaded
OrderInv ==
    ~overlapped =>
        OneRelies /\ NamedIsFiled /\ NoneNamed /\ ReadIsFiled /\ SockIsOwn
LifecycleInv == LifecycleTypeOK /\ OwnInv /\ OrderInv
-----------------------------------------------------------------------------
LEMMA TypeStep ==
    ASSUME LifecycleTypeOK, [LifecycleNext]_lifecycleVars
    PROVE  LifecycleTypeOK'
<1> USE LifecycleAssumption DEF LifecycleTypeOK, Program, Secret, Stage, Looking, Rising
<1>0. CASE UNCHANGED lifecycleVars
  BY <1>0 DEF lifecycleVars, procVars
<1> SUFFICES ASSUME NEW p \in Proc, Proceed(p) \/ Befall(p), NotesOverlap
             PROVE  LifecycleTypeOK'
  BY <1>0 DEF LifecycleNext
<1>1. overlapped' \in BOOLEAN
  BY DEF NotesOverlap
<1>2. CASE ReadPid(p)
  BY <1>1, <1>2 DEF ReadPid, Go, At
<1>3. CASE Probe(p) \/ RemovePid(p) \/ RemoveSock(p)
  BY <1>1, <1>3 DEF Probe, RemovePid, RemoveSock, Step, Go, At
<1>4. CASE Spawn(p)
  BY <1>1, <1>4 DEF Spawn, Go, At
<1>5. CASE Again(p) \/ Answered(p) \/ GoOn(p)
  BY <1>1, <1>5 DEF Again, Answered, GoOn, Step, Go, At
<1>6. CASE Signal(p)
  BY <1>1, <1>6 DEF Signal, Go, At
<1>7. CASE Exit(p) \/ Kill(p)
  BY <1>1, <1>7 DEF Exit, Kill, Vanish, Go, At
<1>8. CASE Load(p) \/ Truncate(p) \/ Name(p)
  BY <1>1, <1>8 DEF Load, Truncate, Name, OrEnd, Go, At
<1>9. CASE Unlink(p) \/ Listen(p) \/ Chmod(p) \/ Undo(p) \/ Notify(p)
  BY <1>1, <1>9 DEF Unlink, Listen, Chmod, Undo, Notify, Step, Go, At
<1>10. CASE Close(p) \/ Drain(p) \/ Unname(p)
  BY <1>1, <1>10 DEF Close, Drain, Unname, Go, At
<1>11. ASSUME NEW pg \in Program \ {"daemon"}, Launch(p, pg)
       PROVE  LifecycleTypeOK'
  BY <1>1, <1>11 DEF Launch, Go, At
<1> QED BY <1>2, <1>3, <1>4, <1>5, <1>6, <1>7, <1>8, <1>9, <1>10, <1>11
        DEF Proceed, Befall

LEMMA OwnStep ==
    ASSUME LifecycleTypeOK, OwnInv, [LifecycleNext]_lifecycleVars
    PROVE  OwnInv'
<1> USE DEF OwnInv, DaemonStages, KeysWhileLoaded, Named, Rising, LifecycleTypeOK, Secret
<1>0. CASE UNCHANGED lifecycleVars
  BY <1>0 DEF lifecycleVars, procVars
<1> SUFFICES ASSUME NEW p \in Proc, Proceed(p) \/ Befall(p)
             PROVE  OwnInv'
  BY <1>0 DEF LifecycleNext
<1>2. CASE ReadPid(p)
  BY <1>2 DEF ReadPid, Go, At
<1>3. CASE Probe(p) \/ RemovePid(p) \/ RemoveSock(p)
  BY <1>3 DEF Probe, RemovePid, RemoveSock, Step, Go, At
<1>4. CASE Spawn(p)
  BY <1>4 DEF Spawn, Go, At
<1>5. CASE Again(p) \/ Answered(p) \/ GoOn(p)
  BY <1>5 DEF Again, Answered, GoOn, Step, Go, At
<1>6. CASE Signal(p)
  BY <1>6 DEF Signal, Go, At
<1>7. CASE Exit(p) \/ Kill(p)
  BY <1>7 DEF Exit, Kill, Vanish, Go, At
<1>8. CASE Load(p) \/ Truncate(p) \/ Name(p)
  BY <1>8 DEF Load, Truncate, Name, OrEnd, Go, At
<1>9. CASE Unlink(p) \/ Listen(p) \/ Chmod(p) \/ Undo(p) \/ Notify(p)
  BY <1>9 DEF Unlink, Listen, Chmod, Undo, Notify, Step, Go, At
<1>10. CASE Close(p) \/ Drain(p) \/ Unname(p)
  BY <1>10 DEF Close, Drain, Unname, Go, At
<1>11. ASSUME NEW pg \in Program \ {"daemon"}, Launch(p, pg)
       PROVE  OwnInv'
  BY <1>11 DEF Launch, Go, At
<1> QED BY <1>2, <1>3, <1>4, <1>5, <1>6, <1>7, <1>8, <1>9, <1>10, <1>11
        DEF Proceed, Befall
-----------------------------------------------------------------------------
\* Whoever is in the pid file is alone in it.
LEMMA OneNamed ==
    ASSUME NamedIsFiled, NEW p \in Proc, NEW q \in Proc,
           stage[p] \in Named, stage[q] \in Named
    PROVE  p = q
  BY DEF NamedIsFiled

LEMMA OrderStep ==
    ASSUME LifecycleTypeOK, LifecycleTypeOK', OwnInv, OrderInv,
           [LifecycleNext]_lifecycleVars
    PROVE  OrderInv'
<1> DEFINE Rest == NamedIsFiled /\ NoneNamed /\ ReadIsFiled /\ SockIsOwn
<1> USE LifecycleAssumption
    DEF OwnInv, DaemonStages, Claims, Named, Rising, LifecycleTypeOK
<1>0. CASE UNCHANGED lifecycleVars
  BY <1>0 DEF lifecycleVars, procVars, OrderInv, OneRelies, NamedIsFiled, NoneNamed,
              ReadIsFiled, SockIsOwn, Relying
<1> SUFFICES ASSUME NEW p \in Proc, Proceed(p) \/ Befall(p), NotesOverlap, ~overlapped'
             PROVE  OneRelies' /\ Rest'
  BY <1>0 DEF LifecycleNext, OrderInv
<1>1. OneRelies'
  BY DEF NotesOverlap, OneRelies
<1>a. OneRelies /\ NamedIsFiled /\ NoneNamed /\ ReadIsFiled /\ SockIsOwn
  BY DEF NotesOverlap, OrderInv
<1> USE <1>a, <1>1
    DEF Go, At, Relying, OneRelies, NamedIsFiled, NoneNamed, ReadIsFiled, SockIsOwn
<1>2. CASE ReadPid(p)
  BY <1>2 DEF ReadPid
<1>3. CASE Probe(p)
  BY <1>3 DEF Probe, Step, Alive
<1>4. CASE RemovePid(p)
  BY <1>4 DEF RemovePid
<1>5. CASE RemoveSock(p)
  BY <1>5 DEF RemoveSock
<1>6. CASE Spawn(p)
  BY <1>6 DEF Spawn
<1>7. CASE Again(p) \/ Answered(p) \/ GoOn(p)
  BY <1>7 DEF Again, Answered, GoOn, Step
<1>8. CASE Signal(p)
  BY <1>8 DEF Signal
<1>9. CASE Exit(p) \/ Kill(p)
  BY <1>9 DEF Exit, Kill, Vanish
<1>10. CASE Load(p)
  BY <1>10 DEF Load, OrEnd
<1>11. CASE Truncate(p)
  BY <1>11 DEF Truncate, OrEnd
<1>12. CASE Name(p)
  BY <1>12 DEF Name, OrEnd
<1>13. CASE Unlink(p) \/ Listen(p) \/ Notify(p)
  BY <1>13 DEF Unlink, Listen, Notify, Step
<1>14. CASE Chmod(p) \/ Undo(p)
  BY <1>14 DEF Chmod, Undo, Step
<1>15. CASE Close(p) \/ Drain(p) \/ Unname(p)
  BY <1>15 DEF Close, Drain, Unname
<1>16. ASSUME NEW pg \in Program \ {"daemon"}, Launch(p, pg)
       PROVE  Rest'
  BY <1>16 DEF Launch
<1> QED BY <1>2, <1>3, <1>4, <1>5, <1>6, <1>7, <1>8, <1>9, <1>10, <1>11, <1>12,
           <1>13, <1>14, <1>15, <1>16 DEF Proceed, Befall
-----------------------------------------------------------------------------
LEMMA InitInv == ASSUME LifecycleInit PROVE LifecycleInv
  BY LifecycleAssumption
     DEF LifecycleInit, LifecycleInv, LifecycleTypeOK, OwnInv, OrderInv, DaemonStages,
         KeysWhileLoaded, OneRelies, NamedIsFiled, NoneNamed, ReadIsFiled, SockIsOwn,
         Relying, Claims, Named, Rising, Looking, Stage, Program, Secret

LEMMA LifecycleInvariant == LifecycleSpec => []LifecycleInv
<1>1. ASSUME LifecycleInv, [LifecycleNext]_lifecycleVars
      PROVE  LifecycleInv'
  <2>1. LifecycleTypeOK'
    BY <1>1, TypeStep DEF LifecycleInv
  <2> QED BY <1>1, <2>1, OwnStep, OrderStep DEF LifecycleInv
<1> QED BY <1>1, InitInv, PTL DEF LifecycleSpec

\* The files, the processes and their memory hold nothing else than modelled.
THEOREM LifecycleTypes == LifecycleSpec => []LifecycleTypeOK
  BY LifecycleInvariant, PTL DEF LifecycleInv

\* A process that ends by itself, with an error or without, has cleared the keys.
THEOREM LifecycleClearsKeys == LifecycleSpec => []KeysClearedOnExit
<1>1. LifecycleInv => KeysClearedOnExit
  BY DEF LifecycleInv, OwnInv, KeysWhileLoaded, KeysClearedOnExit, At, Named, Rising
<1> QED BY <1>1, LifecycleInvariant, PTL

\* For any number of processes, while no two rely on a reading at a time, a daemon
\* that is up is the one in the pid file, has the socket, and is the only one.
THEOREM LifecycleIsOrderly == LifecycleSpec => []Orderly
<1>1. LifecycleInv => Orderly
  BY OneNamed DEF LifecycleInv, OrderInv, NamedIsFiled, SockIsOwn, Orderly, At, Named,
                  Serving
<1> QED BY <1>1, LifecycleInvariant, PTL

\* And what a process removes is its own or a dead one's.
THEOREM LifecycleRemovesItsOwn == LifecycleSpec => []RemovesItsOwn
<1>1. LifecycleInv => RemovesItsOwn
  BY OneNamed DEF LifecycleInv, OrderInv, NamedIsFiled, NoneNamed, ReadIsFiled,
                  RemovesItsOwn, Claims, At, Named, Serving
<1> QED BY <1>1, LifecycleInvariant, PTL
-----------------------------------------------------------------------------
(* Taking turns: a step moves one process to another phase, or none.           *)

\* p goes from one phase to the next, and nobody else goes anywhere.
Moves(p, from, to) ==
    /\ PhaseOf(p) = from
    /\ PhaseOf(p)' = to
    /\ \A q \in Proc \ {p} : PhaseOf(q)' = PhaseOf(q)

LEMMA OneChosen ==
    ASSUME NEW p, NEW S, S = {p}
    PROVE  (CHOOSE q \in S : TRUE) = p
  OBVIOUS

OneTenant ==
    ~overlapped => \A p, q \in Proc : PhaseOf(p) # "off" /\ PhaseOf(q) # "off" => p = q

LEMMA OneTenantAtATime == LifecycleInv => OneTenant
<1> SUFFICES ASSUME LifecycleInv, ~overlapped, NEW p \in Proc, NEW q \in Proc,
                    PhaseOf(p) # "off", PhaseOf(q) # "off"
             PROVE  p = q
  BY DEF OneTenant
<1>1. /\ stage[p] \in {"truncate", "name"} \cup Named
      /\ stage[q] \in {"truncate", "name"} \cup Named
  BY DEF PhaseOf, Named, Serving
<1>2. OneRelies /\ NamedIsFiled /\ NoneNamed /\ DaemonStages
  BY DEF LifecycleInv, OrderInv, OwnInv
<1>3. CASE stage[p] \in Named /\ stage[q] \in Named
  BY <1>2, <1>3, OneNamed
<1>4. CASE stage[p] \in {"truncate", "name"} \/ stage[q] \in {"truncate", "name"}
  <2>1. \A r \in Proc : stage[r] \in {"truncate", "name"} =>
                            Claims(r) /\ Relying(r, prog, stage)
    <3> SUFFICES ASSUME NEW r \in Proc, stage[r] \in {"truncate", "name"}
                 PROVE  Claims(r) /\ Relying(r, prog, stage)
      OBVIOUS
    <3>1. stage[r] \in Rising
      BY DEF Rising
    <3>2. prog[r] = "daemon"
      BY <1>2, <3>1 DEF DaemonStages
    <3>3. Relying(r, prog, stage)
      BY <3>1, <3>2 DEF Relying
    <3> QED BY <3>2, <3>3 DEF Claims
  <2> QED BY <1>1, <1>2, <1>4, <2>1 DEF OneRelies, NoneNamed
<1> QED BY <1>1, <1>3, <1>4

\* What a step does to the phases of the processes.
LEMMA OneMoves ==
    ASSUME LifecycleTypeOK, LifecycleTypeOK', [LifecycleNext]_lifecycleVars
    PROVE  \/ \A q \in Proc : PhaseOf(q)' = PhaseOf(q)
           \/ \E p \in Proc :
                 \/ Moves(p, "off", "loaded") /\ At(p, "load")
                 \/ Moves(p, "loaded", "named") \/ Moves(p, "named", "up")
                 \/ Moves(p, "up", "stopping")
                 \/ PhaseOf(p) # "off" /\ Moves(p, PhaseOf(p), "off")
<1> USE DEF PhaseOf, Serving, Moves, LifecycleTypeOK
<1>0. CASE UNCHANGED lifecycleVars
  BY <1>0 DEF lifecycleVars, procVars
<1> SUFFICES ASSUME NEW p \in Proc, Proceed(p) \/ Befall(p)
             PROVE  \/ \A q \in Proc : PhaseOf(q)' = PhaseOf(q)
                    \/ \E r \in Proc :
                          \/ Moves(r, "off", "loaded") /\ At(r, "load")
                          \/ Moves(r, "loaded", "named") \/ Moves(r, "named", "up")
                          \/ Moves(r, "up", "stopping")
                          \/ PhaseOf(r) # "off" /\ Moves(r, PhaseOf(r), "off")
  BY <1>0 DEF LifecycleNext
<1> USE DEF Go, At
<1>1. CASE ReadPid(p) \/ Probe(p) \/ RemovePid(p) \/ RemoveSock(p)
  BY <1>1 DEF ReadPid, Probe, RemovePid, RemoveSock, Step
<1>2. CASE Spawn(p)
  BY <1>2 DEF Spawn
<1>3. CASE Again(p) \/ Answered(p) \/ GoOn(p)
  BY <1>3 DEF Again, Answered, GoOn, Step
<1>4. CASE Signal(p)
  BY <1>4 DEF Signal
<1>5. CASE Exit(p) \/ Kill(p)
  BY <1>5 DEF Exit, Kill, Vanish
<1>6. CASE Load(p)
  BY <1>6 DEF Load, OrEnd
<1>7. CASE Truncate(p) \/ Name(p)
  BY <1>7 DEF Truncate, Name, OrEnd
<1>8. CASE Unlink(p) \/ Listen(p) \/ Chmod(p) \/ Undo(p) \/ Notify(p)
  BY <1>8 DEF Unlink, Listen, Chmod, Undo, Notify, Step
<1>9. CASE Close(p) \/ Drain(p) \/ Unname(p)
  BY <1>9 DEF Close, Drain, Unname
<1>10. ASSUME NEW pg \in Program \ {"daemon"}, Launch(p, pg)
       PROVE  \A q \in Proc : PhaseOf(q)' = PhaseOf(q)
  BY <1>10 DEF Launch
<1> HIDE DEF PhaseOf, Serving, Moves, LifecycleTypeOK, Go, At
<1> QED BY <1>1, <1>2, <1>3, <1>4, <1>5, <1>6, <1>7, <1>8, <1>9, <1>10
        DEF Proceed, Befall

\* Tenant and Phase after a move.
LEMMA Turn ==
    ASSUME OneTenant, ~overlapped, NEW p \in Proc, NEW from, NEW to, Moves(p, from, to),
           from = "off" => \A q \in Proc : PhaseOf(q) = "off"
    PROVE  /\ Phase = from
           /\ Phase' = to
           /\ Tenant = IF from = "off" THEN None ELSE p
           /\ Tenant' = IF to = "off" THEN None ELSE p
<1>1. CASE from = "off"
  <2>1. Tenants = {}
    BY <1>1 DEF Tenants
  <2>2. CASE to = "off"
    <3>1. Tenants' = {}
      BY <1>1, <2>2 DEF Tenants, Moves
    <3> QED BY <1>1, <2>1, <2>2, <3>1 DEF Phase, Tenant
  <2>3. CASE to # "off"
    <3>1. Tenants' = {p}
      BY <1>1, <2>3 DEF Tenants, Moves
    <3>2. Tenant' = p
      BY <3>1, OneChosen DEF Tenant
    <3> QED BY <1>1, <2>1, <2>3, <3>1, <3>2 DEF Phase, Tenant, Moves
  <2> QED BY <2>2, <2>3
<1>2. CASE from # "off"
  <2>1. Tenants = {p}
    BY <1>2 DEF OneTenant, Tenants, Moves
  <2>2. Tenant = p /\ Phase = from
    BY <2>1, OneChosen DEF Tenant, Phase, Moves
  <2>3. CASE to = "off"
    <3>1. Tenants' = {}
      BY <2>1, <2>3 DEF Tenants, Moves
    <3> QED BY <1>2, <2>2, <2>3, <3>1 DEF Phase, Tenant
  <2>4. CASE to # "off"
    <3>1. Tenants' = {p}
      BY <2>1, <2>4 DEF Tenants, Moves
    <3>2. Tenant' = p
      BY <3>1, OneChosen DEF Tenant
    <3> QED BY <1>2, <2>2, <2>4, <3>1, <3>2 DEF Phase, Moves
  <2> QED BY <2>3, <2>4
<1> QED BY <1>1, <1>2

LEMMA NotYet ==
    ASSUME LifecycleTypeOK, [LifecycleNext]_lifecycleVars, ~overlapped'
    PROVE  ~overlapped
  BY DEF LifecycleTypeOK, LifecycleNext, NotesOverlap, lifecycleVars

\* Only a look that finds nobody comes to "no".
LEMMA LooksFirst ==
    ASSUME LifecycleTypeOK, [LifecycleNext]_lifecycleVars,
           NEW p \in Proc, ~At(p, "no"), At(p, "no")'
    PROVE  (ReadPid(p) \/ RemoveSock(p)) /\ Go(p, "no")
<1> USE DEF At, Go, LifecycleTypeOK
<1>1. PICK q \in Proc : Proceed(q) \/ Befall(q)
  BY DEF LifecycleNext, lifecycleVars, procVars
<1>2. CASE ReadPid(q) \/ RemoveSock(q)
  BY <1>2 DEF ReadPid, RemoveSock
<1>3. ~(Probe(q) \/ RemovePid(q) \/ Again(q) \/ Answered(q) \/ GoOn(q))
  BY DEF Probe, RemovePid, Again, Answered, GoOn, Step
<1>4. ~(Spawn(q) \/ Signal(q) \/ Exit(q) \/ Kill(q))
  BY DEF Spawn, Signal, Exit, Kill, Vanish
<1>5. ~(Load(q) \/ Truncate(q) \/ Name(q))
  BY DEF Load, Truncate, Name, OrEnd
<1>6. ~(Unlink(q) \/ Listen(q) \/ Chmod(q) \/ Undo(q) \/ Notify(q))
  BY DEF Unlink, Listen, Chmod, Undo, Notify, Step
<1>7. ~(Close(q) \/ Drain(q) \/ Unname(q))
  BY DEF Close, Drain, Unname
<1>8. \A pg \in Program : ~Launch(q, pg)
  BY DEF Launch
<1> QED BY <1>1, <1>2, <1>3, <1>4, <1>5, <1>6, <1>7, <1>8 DEF Proceed, Befall

\* For any number of processes, daemons implement Tenure while no two processes
\* rely on a reading at a time: one after another, each through its phases.
THEOREM LifecycleTakesTurns == LifecycleSpec => TakesTurns
<1>1. ASSUME LifecycleInv, LifecycleInv', OneTenant, OneTenant',
             [LifecycleNext]_lifecycleVars, ~overlapped'
      PROVE  /\ [Keeper!TenureNext]_<<Phase, Tenant>>
             /\ \A p \in Proc : "keys" \in held'[p] => p = Tenant'
  <2> USE <1>1
  <2>0. LifecycleTypeOK /\ LifecycleTypeOK' /\ ~overlapped
    BY NotYet DEF LifecycleInv
  <2>1. [Keeper!TenureNext]_<<Phase, Tenant>>
    <3>1. CASE \A q \in Proc : PhaseOf(q)' = PhaseOf(q)
      <4>1. Tenants' = Tenants
        BY <3>1 DEF Tenants
      <4>2. Tenant' = Tenant
        BY <4>1 DEF Tenant
      <4>3. Tenants # {} => Tenant \in Proc
        BY DEF Tenant, Tenants
      <4> QED BY <3>1, <4>1, <4>2, <4>3 DEF Phase
    <3>2. ASSUME NEW p \in Proc, Moves(p, "off", "loaded"), At(p, "load")
          PROVE  Keeper!Take(p)
      <4>1. \A q \in Proc : PhaseOf(q) = "off"
        <5>1. Claims(p) /\ Relying(p, prog, stage)
          BY <2>0, <3>2 DEF LifecycleInv, OwnInv, DaemonStages, Claims, Relying, At,
                            Rising
        <5>2. \A q \in Proc : stage[q] \notin Named
          BY <2>0, <5>1 DEF LifecycleInv, OrderInv, NoneNamed
        <5>3. \A q \in Proc : stage[q] \notin {"truncate", "name"}
          BY <2>0, <3>2, <5>1 DEF LifecycleInv, OrderInv, OwnInv, OneRelies,
                                  DaemonStages, Relying, At, Rising
        <5> QED BY <5>2, <5>3 DEF PhaseOf, Named, Serving
      <4> QED BY <2>0, <3>2, <4>1, Turn DEF Keeper!Take
    <3>3. ASSUME NEW p \in Proc, NEW from, NEW to, from # "off", to # "off",
                 Moves(p, from, to)
          PROVE  Keeper!Advance(from, to)
      BY <2>0, <3>3, Turn DEF Keeper!Advance
    <3>4. ASSUME NEW p \in Proc, PhaseOf(p) # "off", Moves(p, PhaseOf(p), "off")
          PROVE  Keeper!End
      BY <2>0, <3>4, Turn DEF Keeper!End
    <3> QED BY <2>0, <3>1, <3>2, <3>3, <3>4, OneMoves DEF Keeper!TenureNext
  <2>2. ASSUME NEW p \in Proc, "keys" \in held'[p]
        PROVE  p = Tenant'
    <3>1. PhaseOf(p)' # "off"
      BY <2>2 DEF LifecycleInv, OwnInv, KeysWhileLoaded, PhaseOf, Rising, Named, Serving
    <3>2. Tenants' = {p}
      BY <3>1 DEF OneTenant, Tenants
    <3> QED BY <3>2, OneChosen DEF Tenant
  <2> QED BY <2>1, <2>2
<1> QED BY <1>1, LifecycleInvariant, OneTenantAtATime, PTL
        DEF LifecycleSpec, TakesTurns

\* And nobody whom IsRunning tells no is wrong about it.
THEOREM LifecycleNoMeansNobody == LifecycleSpec => NoMeansNobody
<1>1. ASSUME LifecycleInv, [LifecycleNext]_lifecycleVars
      PROVE  ~overlapped' => \A p \in Proc : ~At(p, "no") /\ At(p, "no")' =>
                 \A q \in Proc : PhaseOf(q)' \in {"off", "loaded"}
  <2> SUFFICES ASSUME ~overlapped', NEW p \in Proc, ~At(p, "no"), At(p, "no")',
                      NEW q \in Proc
               PROVE  PhaseOf(q)' \in {"off", "loaded"}
    OBVIOUS
  <2> USE <1>1
  <2>0. LifecycleTypeOK /\ NamedIsFiled /\ NoneNamed
    BY NotYet DEF LifecycleInv, OrderInv
  <2>1. (ReadPid(p) \/ RemoveSock(p)) /\ stage' = [stage EXCEPT ![p] = "no"]
    BY <2>0, LooksFirst DEF Go
  <2>2. \A r \in Proc : stage[r] \notin Named
    BY <2>0, <2>1 DEF ReadPid, RemoveSock, NamedIsFiled, NoneNamed, Claims, Go, At,
                        LifecycleTypeOK
  <2>3. stage'[q] = IF q = p THEN "no" ELSE stage[q]
    BY <2>0, <2>1 DEF LifecycleTypeOK
  <2>4. stage'[q] \notin Named
    BY <2>2, <2>3 DEF Named
  <2> QED BY <2>4 DEF PhaseOf, Named, Serving
<1> QED BY <1>1, LifecycleInvariant, PTL DEF LifecycleSpec, NoMeansNobody
=============================================================================
