---------------------------- MODULE StoreProofs ----------------------------
(* What holds of a Store for any keys, policies, values and passphrases.     *)
EXTENDS Store, TLAPS

\* The entries the store builds are of the kind it keeps.
LEMMA Entries ==
    /\ \A p \in Policy, v \in Plain, pw \in Passphrase : Sealed(p, v, pw) \in FileEntry
    /\ \A p \in Policy, v \in Plain : Opened(p, v) \in MemEntry
    /\ \A e \in FileEntry : e.policy \in Policy /\ e.value \in Plain
    /\ \A e \in MemEntry : e.policy \in Policy /\ e.value \in Plain
  BY DEF Sealed, Opened, FileEntry, MemEntry

LEMMA OpenedFileType ==
    ASSUME NEW f \in FileMap
    PROVE  OpenedFile(f) \in MemMap
  BY Entries DEF OpenedFile, FileMap, MemMap

LEMMA DisabledMemType ==
    ASSUME NEW m \in MemMap, NEW S
    PROVE  DisabledMem(m, S) \in MemMap
<1>1. \A e \in MemEntry :
         [e EXCEPT !.value = Empty, !.disabled = TRUE] \in MemEntry
  BY DEF MemEntry, Plain
<1> QED BY <1>1 DEF DisabledMem, MemMap

LEMMA EnabledMemType ==
    ASSUME NEW m \in MemMap, NEW f \in FileMap, NEW S \in SUBSET KeyURI,
           NEW D \in SUBSET Enableable(m, f, S)
    PROVE  EnabledMem(m, f, D) \in MemMap
<1>1. \A e \in MemEntry, v \in Plain :
         [e EXCEPT !.value = v, !.disabled = FALSE] \in MemEntry
  BY DEF MemEntry
<1>2. ASSUME NEW u \in D
      PROVE  m[u] \in MemEntry /\ f[u] \in FileEntry
  BY DEF Enableable, MemMap, FileMap
<1> QED BY <1>1, <1>2, Entries DEF EnabledMem, MemMap, Enableable
-----------------------------------------------------------------------------
\* The file stays a map of entries or corrupt, and memory a map of opened
\* entries or closed, through every method and every way one can fail.
THEOREM StoreTypeOK == Spec => []TypeOK
<1>1. Init => TypeOK
  BY DEF Init, TypeOK, FileMap
<1>2. TypeOK /\ [Next]_storeVars => TypeOK'
  <2> SUFFICES ASSUME TypeOK, [Next]_storeVars
               PROVE  TypeOK'
    OBVIOUS
  <2> USE DEF TypeOK
  <2>1. ASSUME NEW u \in KeyURI, NEW p \in Policy, NEW v \in Plain,
               NEW pw \in Passphrase, Add(u, p, v, pw)
        PROVE  TypeOK'
    BY <2>1, Entries DEF Add, SaveFails, FileMap, MemMap
  <2>2. ASSUME NEW u \in KeyURI, Remove(u)
        PROVE  TypeOK'
    BY <2>2 DEF Remove, SaveFails, FileMap, MemMap
  <2>3. ASSUME NEW pw \in Passphrase, DecryptAll(pw)
        PROVE  TypeOK'
    BY <2>3, OpenedFileType DEF DecryptAll
  <2>4. CASE ClearAll
    BY <2>4 DEF ClearAll
  <2>5. ASSUME NEW S \in Prefix, Disable(S)
        PROVE  TypeOK'
    BY <2>5, DisabledMemType DEF Disable
  <2>6. ASSUME NEW S \in Prefix, NEW pw \in Passphrase, Enable(S, pw)
        PROVE  TypeOK'
    <3>1. S \in SUBSET KeyURI /\ file \in FileMap /\ mem \in MemMap
      BY <2>6, StoreAssumption DEF Enable
    <3>2. PICK D \in SUBSET Enableable(mem, file, S) :
             mem' = EnabledMem(mem, file, D)
      BY <2>6 DEF Enable
    <3> QED BY <2>6, <3>1, <3>2, EnabledMemType DEF Enable
  <2>7. CASE UNCHANGED storeVars
    BY <2>7 DEF storeVars
  <2> QED BY <2>1, <2>2, <2>3, <2>4, <2>5, <2>6, <2>7 DEF Next
<1> QED BY <1>1, <1>2, PTL DEF Spec
-----------------------------------------------------------------------------
(* What a step can make of one loaded key. *)

\* Nothing, and the file's entry stays too, if the file can be read.
Kept(u) == mem'[u] = mem[u] /\ (file # Corrupt /\ file' # Corrupt => file'[u] = file[u])

\* Disabled and emptied.
Emptied(u) == /\ file' = file
              /\ mem[u] # NoEntry /\ mem'[u] # NoEntry
              /\ mem'[u].disabled /\ mem'[u].value = Empty
              /\ mem'[u].policy = mem[u].policy

\* Enabled, with the value the file has and the policy it was loaded with.
Refilled(u) == /\ file # Corrupt /\ file' = file
               /\ file[u] # NoEntry /\ mem[u] # NoEntry /\ mem'[u] # NoEntry
               /\ mem'[u].policy = mem[u].policy
               /\ mem'[u].value = file[u].value /\ ~mem'[u].disabled

\* Made what the file has after the step.
AsFiled(u) == file' # Corrupt /\ mem'[u] = OpenedFile(file')[u]

\* A step that leaves keys loaded does one of these to each key.
LEMMA StepOnKey ==
    ASSUME TypeOK, [Next]_storeVars, mem # Closed, mem' # Closed,
           NEW u \in KeyURI
    PROVE  Kept(u) \/ Emptied(u) \/ Refilled(u) \/ AsFiled(u)
<1> USE DEF TypeOK
<1>a. mem \in MemMap
  OBVIOUS
<1>b. \A e \in MemEntry : e # NoEntry
  BY StoreAssumption
<1>1. ASSUME NEW w \in KeyURI, NEW p \in Policy, NEW v \in Plain,
             NEW pw \in Passphrase, Add(w, p, v, pw)
      PROVE  Kept(u) \/ AsFiled(u)
  <2>1. CASE SaveFails
    BY <2>1 DEF SaveFails, Kept
  <2>2. CASE /\ file' = [file EXCEPT ![w] = Sealed(p, v, pw)]
             /\ mem' = [mem EXCEPT ![w] = Opened(p, v)]
    <3>1. file \in FileMap /\ file' \in FileMap
      BY <1>1, <2>2, Entries DEF Add, FileMap
    <3>2. file'[w] = Sealed(p, v, pw) /\ mem'[w] = Opened(p, v)
      BY <2>2, <3>1, <1>a DEF FileMap, MemMap
    <3>3. CASE u = w
      <4>1. file'[u] # NoEntry /\ file' # Corrupt
        BY <3>1, <3>2, <3>3, Entries, StoreAssumption
      <4> QED BY <3>2, <3>3, <4>1 DEF Sealed, AsFiled, OpenedFile
    <3>4. CASE u # w
      BY <2>2, <3>1, <3>4, <1>a DEF FileMap, MemMap, Kept
    <3> QED BY <3>3, <3>4
  <2> QED BY <1>1, <2>1, <2>2 DEF Add
<1>2. ASSUME NEW w \in KeyURI, Remove(w)
      PROVE  Kept(u) \/ AsFiled(u)
  <2>1. CASE SaveFails
    BY <2>1 DEF SaveFails, Kept
  <2>2. CASE /\ file' = [file EXCEPT ![w] = NoEntry]
             /\ mem' = [mem EXCEPT ![w] = NoEntry]
    <3>1. file \in FileMap /\ file' \in FileMap /\ file' # Corrupt
      BY <1>2, <2>2, StoreAssumption DEF Remove, FileMap
    <3>2. CASE u = w
      BY <2>2, <3>1, <3>2, <1>a DEF FileMap, MemMap, AsFiled, OpenedFile
    <3>3. CASE u # w
      BY <2>2, <3>1, <3>3, <1>a DEF FileMap, MemMap, Kept
    <3> QED BY <3>2, <3>3
  <2> QED BY <1>2, <2>1, <2>2 DEF Remove
<1>3. ASSUME NEW pw \in Passphrase, DecryptAll(pw)
      PROVE  Kept(u) \/ AsFiled(u)
  BY <1>3 DEF DecryptAll, Kept, AsFiled
<1>4. ASSUME NEW S \in Prefix, Disable(S)
      PROVE  Kept(u) \/ Emptied(u)
  <2>1. mem[u] = NoEntry \/ mem[u] \in MemEntry
    BY <1>a DEF MemMap
  <2>2. mem'[u] = IF u \in S /\ mem[u] # NoEntry
                  THEN [mem[u] EXCEPT !.value = Empty, !.disabled = TRUE]
                  ELSE mem[u]
    BY <1>4 DEF Disable, DisabledMem
  <2>3. CASE u \in S /\ mem[u] # NoEntry
    BY <1>4, <2>1, <2>2, <2>3, <1>b DEF Disable, MemEntry, Plain, Emptied
  <2> QED BY <1>4, <2>2, <2>3 DEF Disable, Kept
<1>5. ASSUME NEW S \in Prefix, NEW pw \in Passphrase, Enable(S, pw)
      PROVE  Kept(u) \/ Refilled(u)
  <2>1. S \in SUBSET KeyURI /\ file \in FileMap /\ file' = file /\ file # Corrupt
    BY <1>5, StoreAssumption DEF Enable
  <2>2. PICK D \in SUBSET Enableable(mem, file, S) :
           mem' = EnabledMem(mem, file, D)
    BY <1>5 DEF Enable
  <2>3. CASE u \in D
    <3>1. mem[u] \in MemEntry /\ file[u] \in FileEntry
             /\ mem[u] # NoEntry /\ file[u] # NoEntry
      BY <2>1, <2>3, <1>a DEF Enableable, MemMap, FileMap
    <3>2. mem'[u] = [mem[u] EXCEPT !.value = file[u].value, !.disabled = FALSE]
      BY <2>2, <2>3 DEF EnabledMem
    <3> QED BY <2>1, <3>1, <3>2, <1>b, Entries DEF MemEntry, Refilled
  <2>4. CASE u \notin D
    BY <2>1, <2>2, <2>4 DEF EnabledMem, Kept
  <2> QED BY <2>3, <2>4
<1>6. ~ClearAll
  BY DEF ClearAll
<1>7. CASE UNCHANGED storeVars
  BY <1>7 DEF storeVars, Kept
<1> QED BY <1>1, <1>2, <1>3, <1>4, <1>5, <1>6, <1>7 DEF Next
-----------------------------------------------------------------------------
\* Keys get loaded only by reading the whole file.
LEMMA StepLoads ==
    ASSUME TypeOK, [Next]_storeVars, mem = Closed, mem' # Closed
    PROVE  file' # Corrupt /\ mem' = OpenedFile(file')
BY DEF Next, Add, Remove, SaveFails, DecryptAll, ClearAll, Disable, Enable,
       storeVars

\* A corrupt file stays corrupt: every method that saves loads first.
LEMMA CorruptStays ==
    ASSUME [Next]_storeVars, file = Corrupt PROVE file' = Corrupt
BY DEF Next, Add, Remove, SaveFails, DecryptAll, ClearAll, Disable, Enable,
       storeVars

\* A disabled key holds no value, whatever sequence of adds, removals, reloads
\* disables and half-done enables led there.
THEOREM StoreDisabled == Spec => []DisabledHoldsNothing
<1>1. Init => DisabledHoldsNothing
  BY DEF Init, DisabledHoldsNothing
<1>2. TypeOK /\ TypeOK' /\ DisabledHoldsNothing /\ [Next]_storeVars
        => DisabledHoldsNothing'
  <2> SUFFICES ASSUME TypeOK, TypeOK', DisabledHoldsNothing, [Next]_storeVars,
                      mem' # Closed, NEW u \in KeyURI,
                      mem'[u] # NoEntry, mem'[u].disabled
               PROVE  mem'[u].value = Empty
    BY DEF DisabledHoldsNothing
  <2>1. ASSUME file' # Corrupt, mem'[u] = OpenedFile(file')[u]
        PROVE  FALSE
    BY <2>1 DEF OpenedFile, Opened
  <2>2. CASE mem = Closed
    BY <2>1, <2>2, StepLoads
  <2>3. CASE mem # Closed
    BY <2>1, <2>3, StepOnKey
       DEF Kept, Emptied, Refilled, AsFiled, DisabledHoldsNothing
  <2> QED BY <2>2, <2>3
<1> QED BY <1>1, <1>2, StoreTypeOK, PTL DEF Spec

\* While the Store is the file's only user, memory and file agree on which keys
\* there are, on their policies and on the values of the enabled ones.
THEOREM StoreMirrors == Spec => []MemoryMirrorsFile
<1>1. Init => MemoryMirrorsFile
  BY DEF Init, MemoryMirrorsFile
<1>2. TypeOK /\ TypeOK' /\ MemoryMirrorsFile /\ [Next]_storeVars
        => MemoryMirrorsFile'
  <2> SUFFICES ASSUME TypeOK, TypeOK', MemoryMirrorsFile, [Next]_storeVars,
                      mem' # Closed, file' # Corrupt, NEW u \in KeyURI
               PROVE  /\ mem'[u] = NoEntry <=> file'[u] = NoEntry
                      /\ mem'[u] # NoEntry =>
                            /\ mem'[u].policy = file'[u].policy
                            /\ \/ mem'[u].disabled
                               \/ mem'[u].value = file'[u].value
    BY DEF MemoryMirrorsFile
  <2>1. file # Corrupt
    BY CorruptStays
  <2>2. CASE mem'[u] = OpenedFile(file')[u]
    <3>1. file' \in FileMap
      BY DEF TypeOK
    <3>2. CASE file'[u] = NoEntry
      BY <2>2, <3>2 DEF OpenedFile
    <3>3. CASE file'[u] # NoEntry
      <4>1. file'[u] \in FileEntry
        BY <3>1, <3>3 DEF FileMap
      <4>2. mem'[u] = Opened(file'[u].policy, file'[u].value)
        BY <2>2, <3>3 DEF OpenedFile
      <4>3. mem'[u] # NoEntry
        BY <4>1, <4>2, Entries, StoreAssumption
      <4> QED BY <3>3, <4>2, <4>3 DEF Opened
    <3> QED BY <3>2, <3>3
  <2>3. CASE mem = Closed
    BY <2>2, <2>3, StepLoads
  <2>4. CASE mem # Closed
    BY <2>1, <2>2, <2>4, StepOnKey
       DEF Kept, Emptied, Refilled, AsFiled, MemoryMirrorsFile
  <2> QED BY <2>3, <2>4
<1> QED BY <1>1, <1>2, StoreTypeOK, PTL DEF Spec

\* What changes in memory is a disable or what the file says after the step; a
\* reload that cannot open every entry, above all, changes nothing.
THEOREM StoreFollows == Spec => StepFollowsFile
<1>1. ASSUME TypeOK, MemoryMirrorsFile, TypeOK', MemoryMirrorsFile',
             [Next]_storeVars, mem # Closed, mem' # Closed, NEW u \in KeyURI
      PROVE  \/ mem'[u] = mem[u]
             \/ mem'[u] # NoEntry /\ mem'[u].disabled
             \/ file' # Corrupt /\ mem'[u] = OpenedFile(file')[u]
  <2>1. CASE Refilled(u)
    <3>1. mem'[u] \in MemEntry /\ file[u] \in FileEntry
      BY <1>1, <2>1 DEF Refilled, TypeOK, MemMap, FileMap
    <3>2. mem'[u].policy = file[u].policy
      BY <1>1, <2>1 DEF Refilled, MemoryMirrorsFile
    <3>3. mem'[u] = Opened(file[u].policy, file[u].value)
      BY <2>1, <3>1, <3>2 DEF Refilled, Opened, MemEntry
    <3> QED BY <2>1, <3>3 DEF Refilled, OpenedFile
  <2> QED BY <1>1, <2>1, StepOnKey DEF Kept, Emptied, AsFiled
<1>2. /\ TypeOK /\ MemoryMirrorsFile /\ TypeOK' /\ MemoryMirrorsFile'
      /\ [Next]_storeVars
      => [mem # Closed /\ mem' # Closed =>
            \A u \in KeyURI :
               \/ mem'[u] = mem[u]
               \/ /\ mem'[u] # NoEntry
                  /\ mem'[u].disabled
               \/ /\ file' # Corrupt
                  /\ mem'[u] = OpenedFile(file')[u]]_storeVars
  BY <1>1
<1> QED BY <1>2, StoreTypeOK, StoreMirrors, PTL DEF Spec, StepFollowsFile
=============================================================================
