------------------------------- MODULE Store -------------------------------
(***************************************************************************)
(* internal/keystore: one Store object, the keys.enc file it owns and the  *)
(* decrypted keys it holds in memory.  Every exported method takes s.mu    *)
(* for its whole body, so a method is one step.                            *)
(*                                                                         *)
(* Data.  A key value is opaque; Empty is the value of length zero, which  *)
(* is also what a disabled entry holds (its Value is nil).  Encryption is  *)
(* what it does: an entry opens under the passphrase it was sealed with    *)
(* and under no other (AES-GCM).  The url_prefix and the placement flags   *)
(* of an entry are one opaque "policy".  A uri prefix argument is the set  *)
(* of uris it matches.  The entries of the file and of the slice are keyed *)
(* by uri: Add replaces in place, so a uri never occurs twice.             *)
(***************************************************************************)
CONSTANTS
    KeyURI,      \* the key uris that may be registered
    Policy,      \* url_prefix + placement of an entry
    Value,       \* the non-empty key values
    Empty,       \* the empty value, and the nil Value of a disabled key
    Passphrase,  \* the passphrases an operator may type
    Prefix,      \* the uri prefixes of enable/disable, as sets of uris
    NoEntry,     \* no entry under this uri
    Corrupt,     \* keys.enc exists and is not valid JSON
    Closed       \* s.decrypted = nil

Plain     == Value \cup {Empty}
FileEntry == [policy : Policy, value : Plain, pass : Passphrase]
MemEntry  == [policy : Policy, value : Plain, disabled : BOOLEAN]
FileMap   == [KeyURI -> FileEntry \cup {NoEntry}]
MemMap    == [KeyURI -> MemEntry \cup {NoEntry}]

ASSUME StoreAssumption ==
    /\ Prefix \subseteq SUBSET KeyURI
    /\ Empty \notin Value
    /\ NoEntry \notin FileEntry /\ NoEntry \notin MemEntry
    /\ Corrupt \notin FileMap
    /\ Closed \notin MemMap

VARIABLES
    file,   \* keys.enc: the registered entries, or Corrupt
    mem     \* s.decrypted: the opened entries, or Closed

storeVars == <<file, mem>>

TypeOK ==
    /\ file \in FileMap \cup {Corrupt}
    /\ mem  \in MemMap \cup {Closed}
-----------------------------------------------------------------------------
(* What the methods compute. *)

\* A KeyEntry as Add builds it: the value sealed under the passphrase.
Sealed(p, v, pw) == [policy |-> p, value |-> v, pass |-> pw]

\* crypto.Decrypt succeeds iff the passphrase is the one of Encrypt.
Opens(e, pw) == e.pass = pw

\* A DecryptedKey as Add and DecryptAll build it.
Opened(p, v) == [policy |-> p, value |-> v, disabled |-> FALSE]

Registered(f) == {u \in KeyURI : f[u] # NoEntry}

\* DecryptAll's loop gets to the end: every entry opens.
AllOpen(f, pw) == \A u \in Registered(f) : Opens(f[u], pw)

OpenedFile(f) ==
    [u \in KeyURI |-> IF f[u] = NoEntry THEN NoEntry
                                        ELSE Opened(f[u].policy, f[u].value)]

\* Mutant: Disable sets the flag and forgets the value.
DisabledMem_KeepsValue(m, S) ==
    [u \in KeyURI |-> IF u \in S /\ m[u] # NoEntry
                      THEN [m[u] EXCEPT !.disabled = TRUE] ELSE m[u]]

\* Disable: zero-clear the value, set it to nil, mark the entry.
DisabledMem(m, S) ==
    [u \in KeyURI |-> IF u \in S /\ m[u] # NoEntry
                      THEN [m[u] EXCEPT !.value = Empty, !.disabled = TRUE]
                      ELSE m[u]]

\* The disabled entries Enable(S) finds in the file.
Enableable(m, f, S) ==
    {u \in S : m[u] # NoEntry /\ m[u].disabled /\ f[u] # NoEntry}

\* Mutant: Enable puts the sealed entry into memory.
EnabledMem_Sealed(m, f, S) == [u \in KeyURI |-> IF u \in S THEN f[u] ELSE m[u]]

\* Mutant: Enable clears the flag and leaves the value gone.
EnabledMem_NoRefill(m, f, S) ==
    [u \in KeyURI |-> IF u \in S THEN [m[u] EXCEPT !.disabled = FALSE] ELSE m[u]]

\* Enable refills value and flag from the file; the policy stays as loaded.
EnabledMem(m, f, S) ==
    [u \in KeyURI |-> IF u \in S
                      THEN [m[u] EXCEPT !.value = f[u].value, !.disabled = FALSE]
                      ELSE m[u]]

\* A save that fails: keys.enc could not be opened (unchanged), or the write
\* stopped after WriteFile had truncated it.
SaveFails ==
    /\ file' \in {file, Corrupt}
    /\ UNCHANGED mem
-----------------------------------------------------------------------------
(* The methods.  One that fails in load (file = Corrupt) changes nothing. *)

\* Mutant: Add forgets the loaded keys.
Add_FileOnly(u, p, v, pw) ==
    /\ file # Corrupt
    /\ \/ file' = [file EXCEPT ![u] = Sealed(p, v, pw)] /\ UNCHANGED mem
       \/ SaveFails

\* Add: overwrite or append in the file, then, if keys are loaded, in memory.
Add(u, p, v, pw) ==
    /\ file # Corrupt
    /\ \/ /\ file' = [file EXCEPT ![u] = Sealed(p, v, pw)]
          /\ mem' = IF mem = Closed THEN Closed
                    ELSE [mem EXCEPT ![u] = Opened(p, v)]
       \/ SaveFails

Remove(u) ==
    /\ file # Corrupt
    /\ file[u] # NoEntry
    /\ \/ /\ file' = [file EXCEPT ![u] = NoEntry]
          /\ mem' = IF mem = Closed THEN Closed
                    ELSE [mem EXCEPT ![u] = NoEntry]
       \/ SaveFails

\* Mutant: DecryptAll clears the loaded keys before it knows that all open.
DecryptAll_ClearsFirst(pw) ==
    /\ file # Corrupt
    /\ mem' = IF AllOpen(file, pw) THEN OpenedFile(file)
                                   ELSE [u \in KeyURI |-> NoEntry]
    /\ UNCHANGED file

\* DecryptAll: all entries open and replace the loaded ones, or none does.
DecryptAll(pw) ==
    /\ file # Corrupt
    /\ mem' = IF AllOpen(file, pw) THEN OpenedFile(file) ELSE mem
    /\ UNCHANGED file

ClearAll ==
    /\ mem' = Closed
    /\ UNCHANGED file

Disable(S) ==
    /\ mem # Closed
    /\ mem' = DisabledMem(mem, S)
    /\ UNCHANGED file

\* Enable walks the slice and stops at the first entry that does not open,
\* keeping what it enabled so far: with such an entry in the way, which of the
\* others were reached depends on their order in the slice.
Enable(S, pw) ==
    /\ file # Corrupt
    /\ mem # Closed
    /\ LET found == Enableable(mem, file, S)
           good  == {u \in found : Opens(file[u], pw)}
       IN \E done \in SUBSET good :
             /\ good = found => done = found
             /\ mem' = EnabledMem(mem, file, done)
    /\ UNCHANGED file
-----------------------------------------------------------------------------
(* A process that owns its directory alone, as the keystore tests use it. *)

Init ==
    /\ file = [u \in KeyURI |-> NoEntry]
    /\ mem = Closed

Next ==
    \/ \E u \in KeyURI, p \in Policy, v \in Plain, pw \in Passphrase :
          Add(u, p, v, pw)
    \/ \E u \in KeyURI : Remove(u)
    \/ \E pw \in Passphrase : DecryptAll(pw)
    \/ ClearAll
    \/ \E S \in Prefix : Disable(S)
    \/ \E S \in Prefix, pw \in Passphrase : Enable(S, pw)

Spec == Init /\ [][Next]_storeVars
-----------------------------------------------------------------------------
(* Properties *)

\* A disabled key's plaintext is gone: its Value is nil (Disable zero-clears,
\* Enable, Add and DecryptAll never leave the flag set on a filled value).
DisabledHoldsNothing ==
    mem # Closed =>
        \A u \in KeyURI :
            mem[u] # NoEntry /\ mem[u].disabled => mem[u].value = Empty

\* Memory and keys.enc never drift apart while the Store is the file's only
\* user: same uris, each under the policy it is filed with, and an enabled key
\* holds the value that is filed -- through overwrites, removals, failed saves,
\* half-done Enables and refused reloads.
MemoryMirrorsFile ==
    mem # Closed /\ file # Corrupt =>
        \A u \in KeyURI :
            /\ mem[u] = NoEntry <=> file[u] = NoEntry
            /\ mem[u] # NoEntry =>
                  /\ mem[u].policy = file[u].policy
                  /\ mem[u].disabled \/ mem[u].value = file[u].value

\* No method takes a loaded key out of memory, or puts another value in its
\* place, without the file saying so: what a step changes in memory is a
\* disable (the value goes), a shutdown, or what the file holds afterwards.
\* In particular a DecryptAll that cannot open every entry changes nothing.
StepFollowsFile ==
    [][ mem # Closed /\ mem' # Closed =>
          \A u \in KeyURI :
             \/ mem'[u] = mem[u]
             \/ /\ mem'[u] # NoEntry
                /\ mem'[u].disabled
             \/ /\ file' # Corrupt
                /\ mem'[u] = OpenedFile(file')[u] ]_storeVars
=============================================================================
