--------------------------- MODULE KeyFileProofs ---------------------------
(* What holds of the commands and the daemon around keys.enc for any number of *)
(* processes, keys, policies, values and passphrases.                          *)
EXTENDS KeyFile, StoreProofs

\* The file and what its readers hold is what the last saves made of it, but for
\* the keys that a later save put back to what its process had loaded.
FileTrue == Readable => \A u \in KeyURI : file[u] = truth[u] \/ u \in overtaken
CopyTrue ==
    \A c \in Holding, u \in KeyURI :
        copy[c][u] = truth[u] \/ u \in overtaken \cup outdated[c]

\* A command counts as the last one of its key while it is reporting.
StandingReports ==
    \A c \in standing : stage[c] \in {"saved", "notify", "await"}

\* A command that has not saved yet knows of the daemon, or is late.
LateIfLoading == \A c \in Unsaved : daemon = "loaded" => c \in late
OffIfUnseen ==
    \A c \in Cli :
        stage[c] \in {"load", "save", "write"} /\ Adds(c) /\ ~saw[c] /\ c \notin late
            => daemon = "off"

\* What a command does not report to the daemon, the daemon has read.
Untold(c) ==
    /\ stage[c] = "saved" /\ c \notin late
    /\ IF Adds(c) THEN ~saw[c] ELSE daemon = "loaded"
HeldIfUntold ==
    \A c \in standing :
        Untold(c) /\ daemon # "off" /\ job[c].key \notin overtaken
            => Holds(job[c].key)

FileInv   == KeyFileTypeOK /\ FileTrue /\ CopyTrue
TellInv   == StandingReports /\ LateIfLoading /\ OffIfUnseen
ServedInv == FileInv /\ TellInv /\ HeldIfUntold /\ ServedUnlessLate
-----------------------------------------------------------------------------
\* A change at one key leaves a map of entries.
LEMMA ChangedType ==
    ASSUME NEW f \in FileMap, NEW j \in Job
    PROVE  Changed(f, j) \in FileMap
  BY DEF Changed, FileMap, Job

LEMMA NoJobType == NoJob \in Job
  BY KeyFileAssumption DEF NoJob, Job

LEMMA NoCopyType == NoCopy \in FileMap
  BY DEF NoCopy, FileMap

\* DecryptAll keeps the file, and memory a map if there is one.
LEMMA DecryptType ==
    ASSUME KeyFileTypeOK, Readable, DecryptAll(DaemonPass)
    PROVE  /\ file' = file
           /\ mem' \in MemMap \cup {Closed}
           /\ AllOpen(file, DaemonPass) => mem' = OpenedFile(file) /\ mem' \in MemMap
           /\ mem # Closed => mem' # Closed
<1>1. file \in FileMap
  BY DEF KeyFileTypeOK, Readable
<1>2. OpenedFile(file) \in MemMap
  BY <1>1, OpenedFileType
<1> QED BY <1>1, <1>2, StoreAssumption DEF KeyFileTypeOK, DecryptAll
-----------------------------------------------------------------------------
LEMMA InitType == KeyFileInit => KeyFileTypeOK
  BY NoJobType, NoCopyType DEF KeyFileInit, Init, KeyFileTypeOK, FileMap, Stage

LEMMA ExitType ==
    ASSUME KeyFileTypeOK, NEW c \in Cli, Exit(c)
    PROVE  /\ stage' \in [Cli -> Stage]
           /\ job' \in [Cli -> Job]
           /\ copy' \in [Cli -> FileMap]
           /\ saw' \in [Cli -> BOOLEAN]
           /\ truth' \in FileMap
           /\ standing' \subseteq Cli
           /\ outdated' \in [Cli -> SUBSET KeyURI]
           /\ overtaken' \subseteq KeyURI
           /\ late' \subseteq Cli
  BY NoJobType, NoCopyType DEF Exit, Go, KeyFileTypeOK, Stage

LEMMA FailType ==
    ASSUME KeyFileTypeOK, NEW c \in Cli, Fail(c),
           file' \in FileMap \cup {Corrupt, Truncated}, UNCHANGED <<mem, daemon>>
    PROVE  KeyFileTypeOK'
  BY ExitType DEF Fail, KeyFileTypeOK

LEMMA DoneType ==
    ASSUME KeyFileTypeOK, NEW c \in Cli, Done(c),
           UNCHANGED <<file, daemon>>, mem' \in MemMap \cup {Closed},
           mem' = Closed <=> mem = Closed
    PROVE  KeyFileTypeOK'
<1>1. settled' \subseteq KeyURI
  BY DEF Done, KeyFileTypeOK, Job
<1>2. lagging' \subseteq settled'
  BY DEF Done, KeyFileTypeOK
<1> QED BY <1>1, <1>2, ExitType DEF Done, KeyFileTypeOK

\* An answer may be a wrong yes, and no wrong no.
LEMMA Asked ==
    ASSUME KeyFileTypeOK, NEW c \in Cli, AskBefore(c)
    PROVE  /\ saw' \in [Cli -> BOOLEAN]
           /\ Running => saw'[c]
           /\ \A d \in Cli \ {c} : saw'[d] = saw[d]
<1>1. PICK yes \in BOOLEAN : (Running => yes) /\ saw' = [saw EXCEPT ![c] = yes]
  BY DEF AskBefore, Answers
<1> QED BY <1>1 DEF KeyFileTypeOK

\* The variables keep their types.
LEMMA KeyFileTypeStep ==
    ASSUME KeyFileTypeOK, [KeyFileNext]_keyFileVars
    PROVE  KeyFileTypeOK'
<1>1. ASSUME NEW c \in Cli, NEW j \in Task, Begin(c, j)
      PROVE  KeyFileTypeOK'
  <2>1. j \in Job
    BY KeyFileAssumption DEF Job
  <2> QED BY <1>1, <2>1 DEF Begin, KeyFileTypeOK, Go, Stage, storeVars, fileHistory
<1>2. ASSUME NEW c \in Cli, AskBefore(c)
      PROVE  KeyFileTypeOK'
  BY <1>2, Asked DEF AskBefore, KeyFileTypeOK, Go, Stage, storeVars, fileHistory
<1>3. ASSUME NEW c \in Cli, Load(c)
      PROVE  KeyFileTypeOK'
  <2>1. CASE ~Loadable(c) /\ Fail(c)
    BY <1>3, <2>1, FailType DEF Load, storeVars, KeyFileTypeOK
  <2>2. CASE Loadable(c) /\ copy' = [copy EXCEPT ![c] = file] /\ Go(c, "save")
                /\ UNCHANGED <<job, saw, fileHistory, late>>
    BY <1>3, <2>2 DEF Load, Loadable, Readable, KeyFileTypeOK, Go, Stage, storeVars,
                      fileHistory
  <2> QED BY <1>3, <2>1, <2>2 DEF Load
<1>4. ASSUME NEW c \in Cli, Truncate(c)
      PROVE  KeyFileTypeOK'
  <2>1. CASE Fail(c) /\ UNCHANGED file
    BY <1>4, <2>1, FailType DEF Truncate, KeyFileTypeOK
  <2>2. CASE file' = Truncated /\ Go(c, "write")
                /\ UNCHANGED <<job, copy, saw, fileHistory, late>>
    BY <1>4, <2>2 DEF Truncate, KeyFileTypeOK, Go, Stage, fileHistory
  <2> QED BY <1>4, <2>1, <2>2 DEF Truncate
<1>5. ASSUME NEW c \in Cli, WriteAll(c)
      PROVE  KeyFileTypeOK'
  <2>1. job[c] \in Job /\ copy[c] \in FileMap
    BY DEF KeyFileTypeOK
  <2>2. file' \in FileMap \cup {Corrupt}
    BY <1>5, <2>1, ChangedType DEF WriteAll, Overlay
  <2>3. truth' \in FileMap
    BY <1>5, <2>1 DEF WriteAll, Record, KeyFileTypeOK, FileMap, Job
  <2>4. /\ standing' \subseteq Cli /\ settled' \subseteq KeyURI
        /\ lagging' \subseteq settled' /\ outdated' \in [Cli -> SUBSET KeyURI]
        /\ overtaken' \subseteq KeyURI
    BY <1>5, <2>1 DEF WriteAll, Record, KeyFileTypeOK, Job
  <2>5. stage' \in [Cli -> Stage] /\ copy' \in [Cli -> FileMap]
    BY <1>5, NoCopyType DEF WriteAll, KeyFileTypeOK, Go, Stage
  <2> QED BY <1>5, <2>2, <2>3, <2>4, <2>5 DEF WriteAll, KeyFileTypeOK
<1>6. ASSUME NEW c \in Cli, WriteBreaks(c)
      PROVE  KeyFileTypeOK'
  BY <1>6, FailType DEF WriteBreaks, KeyFileTypeOK
<1>7. ASSUME NEW c \in Cli, Report(c)
      PROVE  KeyFileTypeOK'
  <2>1. CASE Done(c)
    BY <1>7, <2>1, DoneType DEF Report, storeVars, KeyFileTypeOK
  <2>2. CASE Go(c, "notify") /\ UNCHANGED <<job, copy, saw, fileHistory, late>>
    BY <1>7, <2>2 DEF Report, KeyFileTypeOK, Go, Stage, storeVars, fileHistory
  <2> QED BY <1>7, <2>1, <2>2 DEF Report
<1>8. ASSUME NEW c \in Cli, Notify(c)
      PROVE  KeyFileTypeOK'
  <2>1. CASE Fail(c)
    BY <1>8, <2>1, FailType DEF Notify, storeVars, KeyFileTypeOK
  <2>2. CASE Go(c, "await") /\ UNCHANGED <<job, copy, saw, fileHistory, late>>
    BY <1>8, <2>2 DEF Notify, KeyFileTypeOK, Go, Stage, storeVars, fileHistory
  <2> QED BY <1>8, <2>1, <2>2 DEF Notify
<1>9. ASSUME NEW c \in Cli, Answer(c)
      PROVE  KeyFileTypeOK'
  <2>1. /\ file' = file /\ mem' \in MemMap \cup {Closed}
        /\ mem' = Closed <=> mem = Closed
    BY <1>9, DecryptType DEF Answer, storeVars, KeyFileTypeOK
  <2>2. CASE Done(c)
    BY <1>9, <2>1, <2>2, DoneType DEF Answer
  <2>3. CASE Fail(c)
    BY <1>9, <2>1, <2>3, ExitType DEF Answer, Fail, KeyFileTypeOK
  <2> QED BY <1>9, <2>2, <2>3 DEF Answer
<1>10. ASSUME NEW c \in Cli, GiveUp(c) \/ Kill(c)
       PROVE  KeyFileTypeOK'
  BY <1>10, FailType DEF GiveUp, Kill, storeVars, KeyFileTypeOK
<1>11. CASE StartLoads
  <2>1. file' = file /\ mem' \in MemMap /\ mem' # Closed
    BY <1>11, DecryptType, StoreAssumption DEF StartLoads
  <2> QED BY <1>11, <2>1 DEF StartLoads, KeyFileTypeOK, cliVars, fileHistory, Unsaved
<1>12. CASE StartNames \/ StartListens \/ BeginStop
  BY <1>12 DEF StartNames, StartListens, BeginStop, Serve, KeyFileTypeOK, storeVars,
               cliVars, fileHistory
<1>13. CASE DaemonEnds
  BY <1>13 DEF DaemonEnds, ClearAll, KeyFileTypeOK, cliVars, fileHistory
<1>14. CASE SocketReload
  <2>1. mem # Closed /\ file' = file /\ mem' \in MemMap \cup {Closed} /\ mem' # Closed
    BY <1>14, DecryptType DEF SocketReload, OnSocket, KeyFileTypeOK
  <2> QED BY <1>14, <2>1 DEF SocketReload, OnSocket, KeyFileTypeOK, cliVars, fileHistory
<1>15. ASSUME NEW S \in Prefix, SocketDisable(S)
       PROVE  KeyFileTypeOK'
  <2>1. mem \in MemMap /\ file' = file /\ mem' \in MemMap /\ mem' # Closed
    BY <1>15, DisabledMemType, StoreAssumption
       DEF SocketDisable, OnSocket, KeyFileTypeOK, Disable
  <2> QED BY <1>15, <2>1 DEF SocketDisable, OnSocket, KeyFileTypeOK, cliVars, fileHistory
<1>16. ASSUME NEW S \in Prefix, SocketEnable(S)
       PROVE  KeyFileTypeOK'
  <2>1. S \in SUBSET KeyURI /\ file \in FileMap /\ mem \in MemMap
    BY <1>16, StoreAssumption DEF SocketEnable, OnSocket, KeyFileTypeOK, Enable, Readable
  <2>2. PICK D \in SUBSET Enableable(mem, file, S) : mem' = EnabledMem(mem, file, D)
    BY <1>16 DEF SocketEnable, Enable
  <2>3. file' = file /\ mem' \in MemMap /\ mem' # Closed
    BY <1>16, <2>1, <2>2, EnabledMemType, StoreAssumption DEF SocketEnable, Enable
  <2> QED BY <1>16, <2>3 DEF SocketEnable, OnSocket, KeyFileTypeOK, cliVars, fileHistory
<1>17. CASE UNCHANGED keyFileVars
  BY <1>17 DEF keyFileVars, storeVars, cliVars, fileHistory, KeyFileTypeOK
<1> QED BY <1>1, <1>2, <1>3, <1>4, <1>5, <1>6, <1>7, <1>8, <1>9, <1>10, <1>11, <1>12,
           <1>13, <1>14, <1>15, <1>16, <1>17 DEF KeyFileNext, Proceed
-----------------------------------------------------------------------------
\* Steps without a save: the file is left, truncated or spoilt, and what a
\* command holds it has held before or has just read.
LEMMA NoSave ==
    ASSUME FileInv, UNCHANGED <<truth, overtaken>>,
           file' \in {file, Corrupt, Truncated},
           \A c \in Holding' :
              \/ c \in Holding /\ copy'[c] = copy[c] /\ outdated[c] \subseteq outdated'[c]
              \/ Readable /\ copy'[c] = file
    PROVE  FileTrue' /\ CopyTrue'
<1>1. FileTrue'
  BY DEF FileInv, FileTrue, Readable
<1>2. CopyTrue'
  <2> SUFFICES ASSUME NEW c \in Holding', NEW u \in KeyURI
               PROVE  copy'[c][u] = truth[u] \/ u \in overtaken \cup outdated'[c]
    BY DEF CopyTrue
  <2>1. CASE c \in Holding /\ copy'[c] = copy[c] /\ outdated[c] \subseteq outdated'[c]
    BY <2>1 DEF FileInv, CopyTrue
  <2>2. CASE Readable /\ copy'[c] = file
    BY <2>2 DEF FileInv, FileTrue
  <2> QED BY <2>1, <2>2
<1> QED BY <1>1, <1>2

\* So the end of a command.
LEMMA ExitFile ==
    ASSUME FileInv, NEW c \in Cli, Exit(c), file' \in {file, Corrupt, Truncated}
    PROVE  FileTrue' /\ CopyTrue'
<1>1. \A d \in Holding' : d \in Holding /\ d # c
  BY DEF FileInv, KeyFileTypeOK, Exit, Go, Holding
<1>2. \A d \in Holding' : copy'[d] = copy[d] /\ outdated'[d] = outdated[d]
  BY <1>1 DEF FileInv, KeyFileTypeOK, Exit, Holding
<1> QED BY <1>1, <1>2, NoSave DEF Exit

\* And a step that leaves the commands alone, or moves one that holds nothing.
LEMMA MoveFile ==
    ASSUME FileInv, UNCHANGED <<copy, truth, outdated, overtaken>>,
           file' \in {file, Corrupt, Truncated}, Holding' \subseteq Holding
    PROVE  FileTrue' /\ CopyTrue'
  BY NoSave

\* What a save leaves in the file, if it can be read.
LEMMA Saved ==
    ASSUME KeyFileTypeOK, NEW c \in Cli, WriteAll(c), Readable'
    PROVE  file' = Changed(copy[c], job[c])
  BY DEF WriteAll, Overlay, Readable

\* The file, and every copy of it, is true but for the keys saved over.
LEMMA FileStep ==
    ASSUME FileInv, [KeyFileNext]_keyFileVars
    PROVE  FileInv'
<1>t. KeyFileTypeOK /\ KeyFileTypeOK'
  BY KeyFileTypeStep DEF FileInv
<1> SUFFICES FileTrue' /\ CopyTrue'
  BY <1>t DEF FileInv
<1>1. ASSUME NEW c \in Cli, NEW j \in Task, Begin(c, j)
      PROVE  FileTrue' /\ CopyTrue'
  <2>1. Holding' \subseteq Holding
    BY <1>1, <1>t DEF Begin, Go, Holding, KeyFileTypeOK
  <2> QED BY <1>1, <2>1, MoveFile DEF Begin, storeVars, fileHistory
<1>2. ASSUME NEW c \in Cli, AskBefore(c)
      PROVE  FileTrue' /\ CopyTrue'
  <2>1. Holding' \subseteq Holding
    BY <1>2, <1>t DEF AskBefore, Go, Holding, KeyFileTypeOK
  <2> QED BY <1>2, <2>1, MoveFile DEF AskBefore, storeVars, fileHistory
<1>3. ASSUME NEW c \in Cli, Load(c)
      PROVE  FileTrue' /\ CopyTrue'
  <2>1. CASE Fail(c)
    BY <1>3, <2>1, ExitFile DEF Load, Fail, storeVars
  <2>2. CASE Loadable(c) /\ copy' = [copy EXCEPT ![c] = file] /\ Go(c, "save")
                /\ UNCHANGED <<job, saw, fileHistory, late>>
    <3>1. Readable /\ copy'[c] = file
      BY <2>2, <1>t DEF Loadable, KeyFileTypeOK
    <3>2. \A d \in Holding' \ {c} :
             d \in Holding /\ copy'[d] = copy[d] /\ outdated'[d] = outdated[d]
      BY <2>2, <1>t DEF Go, Holding, KeyFileTypeOK, fileHistory
    <3> QED BY <1>3, <2>2, <3>1, <3>2, NoSave DEF Load, storeVars, fileHistory
  <2> QED BY <1>3, <2>1, <2>2 DEF Load
<1>4. ASSUME NEW c \in Cli, Truncate(c)
      PROVE  FileTrue' /\ CopyTrue'
  <2>1. CASE Fail(c) /\ UNCHANGED file
    BY <2>1, ExitFile DEF Fail
  <2>2. CASE file' = Truncated /\ Go(c, "write")
                /\ UNCHANGED <<job, copy, saw, fileHistory, late>>
    <3>1. Holding' \subseteq Holding
      BY <1>4, <2>2, <1>t DEF Truncate, Go, Holding, KeyFileTypeOK
    <3> QED BY <2>2, <3>1, MoveFile DEF fileHistory
  <2> QED BY <1>4, <2>1, <2>2 DEF Truncate
<1>5. ASSUME NEW c \in Cli, WriteAll(c)
      PROVE  FileTrue' /\ CopyTrue'
  <2> DEFINE k == job[c].key
  <2>0. /\ c \in Holding /\ k \in KeyURI /\ copy[c] \in FileMap /\ truth \in FileMap
        /\ truth' = [truth EXCEPT ![k] = job[c].entry]
        /\ overtaken' = (overtaken \cup outdated[c]) \ {k}
    BY <1>5, <1>t DEF WriteAll, Record, Holding, KeyFileTypeOK, Job
  <2>1. FileTrue'
    <3> SUFFICES ASSUME Readable', NEW u \in KeyURI
                 PROVE  file'[u] = truth'[u] \/ u \in overtaken'
      BY DEF FileTrue
    <3>1. file' = Changed(copy[c], job[c])
      BY <1>5, <1>t, Saved
    <3>2. CASE u = k
      BY <3>1, <3>2, <2>0 DEF Changed, FileMap
    <3>3. CASE u # k
      <4>1. file'[u] = copy[c][u] /\ truth'[u] = truth[u]
        BY <3>1, <3>3, <2>0 DEF Changed, FileMap
      <4> QED BY <4>1, <3>3, <2>0 DEF FileInv, CopyTrue
    <3> QED BY <3>2, <3>3
  <2>2. CopyTrue'
    <3> SUFFICES ASSUME NEW d \in Holding', NEW u \in KeyURI
                 PROVE  copy'[d][u] = truth'[u] \/ u \in overtaken' \cup outdated'[d]
      BY DEF CopyTrue
    <3>1. d \in Cli /\ d # c /\ d \in Holding /\ copy'[d] = copy[d]
      BY <1>5, <1>t DEF WriteAll, Go, Holding, KeyFileTypeOK
    <3>2. outdated'[d] = outdated[d] \cup {k}
      BY <1>5, <3>1 DEF WriteAll, Record
    <3>3. CASE u = k
      BY <3>2, <3>3
    <3>4. CASE u # k
      <4>1. truth'[u] = truth[u]
        BY <3>4, <2>0 DEF FileMap
      <4> QED BY <3>1, <3>2, <3>4, <4>1, <2>0 DEF FileInv, CopyTrue
    <3> QED BY <3>3, <3>4
  <2> QED BY <2>1, <2>2
<1>6. ASSUME NEW c \in Cli, WriteBreaks(c)
      PROVE  FileTrue' /\ CopyTrue'
  BY <1>6, ExitFile DEF WriteBreaks, Fail
<1>7. ASSUME NEW c \in Cli, Report(c)
      PROVE  FileTrue' /\ CopyTrue'
  <2>1. CASE Done(c)
    BY <1>7, <2>1, ExitFile DEF Report, Done, storeVars
  <2>2. CASE Go(c, "notify") /\ UNCHANGED <<job, copy, saw, fileHistory, late>>
    <3>1. Holding' \subseteq Holding
      BY <2>2, <1>t DEF Go, Holding, KeyFileTypeOK
    <3> QED BY <1>7, <2>2, <3>1, MoveFile DEF Report, storeVars, fileHistory
  <2> QED BY <1>7, <2>1, <2>2 DEF Report
<1>8. ASSUME NEW c \in Cli, Notify(c)
      PROVE  FileTrue' /\ CopyTrue'
  <2>1. CASE Fail(c)
    BY <1>8, <2>1, ExitFile DEF Notify, Fail, storeVars
  <2>2. CASE Go(c, "await") /\ UNCHANGED <<job, copy, saw, fileHistory, late>>
    <3>1. Holding' \subseteq Holding
      BY <2>2, <1>t DEF Go, Holding, KeyFileTypeOK
    <3> QED BY <1>8, <2>2, <3>1, MoveFile DEF Notify, storeVars, fileHistory
  <2> QED BY <1>8, <2>1, <2>2 DEF Notify
<1>9. ASSUME NEW c \in Cli, Answer(c)
      PROVE  FileTrue' /\ CopyTrue'
  <2>1. file' = file
    BY <1>9 DEF Answer, DecryptAll, storeVars
  <2>2. Exit(c)
    BY <1>9 DEF Answer, Done, Fail
  <2> QED BY <2>1, <2>2, ExitFile
<1>10. ASSUME NEW c \in Cli, GiveUp(c) \/ Kill(c)
       PROVE  FileTrue' /\ CopyTrue'
  BY <1>10, ExitFile DEF GiveUp, Kill, Fail, storeVars
<1>11. ASSUME UNCHANGED <<cliVars, fileHistory>>, file' = file
       PROVE  FileTrue' /\ CopyTrue'
  <2>1. Holding' = Holding
    BY <1>11 DEF cliVars, Holding
  <2> QED BY <1>11, <2>1, MoveFile DEF cliVars, fileHistory
<1>12. CASE StartLoads
  BY <1>11, <1>12 DEF StartLoads, DecryptAll
<1>13. CASE StartNames \/ StartListens \/ BeginStop
  BY <1>11, <1>13 DEF StartNames, StartListens, BeginStop, Serve, storeVars
<1>14. CASE DaemonEnds
  BY <1>11, <1>14 DEF DaemonEnds, ClearAll
<1>15. CASE SocketReload
  BY <1>11, <1>15 DEF SocketReload, OnSocket, DecryptAll
<1>16. ASSUME NEW S \in Prefix, SocketDisable(S) \/ SocketEnable(S)
       PROVE  FileTrue' /\ CopyTrue'
  BY <1>11, <1>16 DEF SocketDisable, SocketEnable, OnSocket, Disable, Enable
<1>17. CASE UNCHANGED keyFileVars
  BY <1>11, <1>17 DEF keyFileVars, storeVars
<1> QED BY <1>1, <1>2, <1>3, <1>4, <1>5, <1>6, <1>7, <1>8, <1>9, <1>10, <1>12, <1>13,
           <1>14, <1>15, <1>16, <1>17 DEF KeyFileNext, Proceed

\* What a command has saved stays in keys.enc until another command on the same
\* key, or a save of a process that had loaded the file before: for any number
\* of commands on any keys, cut off at any point.
THEOREM KeyFileLosesOnlyToOverlap == KeyFileSpec => []LostOnlyToOverlap
<1>1. KeyFileInit => FileInv
  BY InitType DEF KeyFileInit, FileInv, FileTrue, CopyTrue, Holding
<1>2. FileInv /\ [KeyFileNext]_keyFileVars => FileInv'
  BY FileStep
<1>3. FileInv => LostOnlyToOverlap
  BY DEF FileInv, FileTrue, LostOnlyToOverlap
<1> QED BY <1>1, <1>2, <1>3, PTL DEF KeyFileSpec

\* The variables have their types, and the daemon has keys in memory if and only
\* if it is there.
THEOREM KeyFileTypes == KeyFileSpec => []KeyFileTypeOK
<1>1. KeyFileInit => KeyFileTypeOK
  BY InitType
<1>2. KeyFileTypeOK /\ [KeyFileNext]_keyFileVars => KeyFileTypeOK'
  BY KeyFileTypeStep
<1> QED BY <1>1, <1>2, PTL DEF KeyFileSpec
-----------------------------------------------------------------------------
(* Who tells the daemon, and when. *)

LEMMA ExitTell ==
    ASSUME KeyFileTypeOK, TellInv, NEW c \in Cli, Exit(c), daemon' = daemon
    PROVE  TellInv'
<1>1. StandingReports'
  BY DEF KeyFileTypeOK, TellInv, StandingReports, Exit, Go
<1>2. LateIfLoading'
  BY DEF KeyFileTypeOK, TellInv, LateIfLoading, Unsaved, Exit, Go
<1>3. OffIfUnseen'
  BY DEF KeyFileTypeOK, TellInv, OffIfUnseen, Adds, Exit, Go
<1> QED BY <1>1, <1>2, <1>3 DEF TellInv

\* The end of a command and the steps of the daemon do not touch the others;
\* a command that becomes late does so with the daemon's start.
LEMMA TellStep ==
    ASSUME KeyFileTypeOK, TellInv, [KeyFileNext]_keyFileVars
    PROVE  TellInv'
<1> USE DEF TellInv
<1>1. ASSUME NEW c \in Cli, NEW j \in Task, Begin(c, j)
      PROVE  TellInv'
  BY <1>1 DEF Begin, Go, StandingReports, LateIfLoading, OffIfUnseen, Unsaved, Adds,
              KeyFileTypeOK, fileHistory
<1>2. ASSUME NEW c \in Cli, AskBefore(c)
      PROVE  TellInv'
  <2>1. StandingReports' /\ LateIfLoading'
    BY <1>2 DEF AskBefore, Go, StandingReports, LateIfLoading, Unsaved,
                KeyFileTypeOK, fileHistory
  <2>2. ASSUME ~saw'[c], c \notin late
        PROVE  daemon = "off"
    <3>1. c \in Unsaved /\ ~Running
      BY <1>2, <2>2, Asked DEF AskBefore, Unsaved, KeyFileTypeOK
    <3> QED BY <2>2, <3>1 DEF LateIfLoading, Running, KeyFileTypeOK
  <2>3. OffIfUnseen'
    BY <1>2, <2>2 DEF AskBefore, Go, OffIfUnseen, Adds, KeyFileTypeOK
  <2> QED BY <2>1, <2>3
<1>3. ASSUME NEW c \in Cli, Load(c)
      PROVE  TellInv'
  <2>0. ~Adds(c) => stage[c] = "load"
    BY <1>3 DEF Load
  <2>1. CASE Fail(c)
    BY <1>3, <2>1, ExitTell DEF Load, Fail
  <2>2. CASE Go(c, "save") /\ UNCHANGED <<job, saw, fileHistory, late>>
    BY <1>3, <2>2 DEF Load, Go, StandingReports, LateIfLoading, OffIfUnseen, Unsaved,
                      Adds, KeyFileTypeOK, fileHistory
  <2> QED BY <1>3, <2>1, <2>2 DEF Load
<1>4. ASSUME NEW c \in Cli, Truncate(c)
      PROVE  TellInv'
  <2>1. CASE Fail(c)
    BY <1>4, <2>1, ExitTell DEF Truncate, Fail
  <2>2. CASE Go(c, "write") /\ UNCHANGED <<job, saw, fileHistory, late>>
    BY <1>4, <2>2 DEF Truncate, Go, StandingReports, LateIfLoading, OffIfUnseen, Unsaved,
                      Adds, KeyFileTypeOK, fileHistory
  <2> QED BY <1>4, <2>1, <2>2 DEF Truncate
<1>5. ASSUME NEW c \in Cli, WriteAll(c)
      PROVE  TellInv'
  <2>1. StandingReports'
    BY <1>5 DEF WriteAll, Record, Go, StandingReports, KeyFileTypeOK
  <2>2. LateIfLoading' /\ OffIfUnseen'
    BY <1>5 DEF WriteAll, Go, LateIfLoading, OffIfUnseen, Unsaved, Adds, KeyFileTypeOK
  <2> QED BY <2>1, <2>2
<1>6. ASSUME NEW c \in Cli, WriteBreaks(c) \/ GiveUp(c) \/ Kill(c) \/ Answer(c)
      PROVE  TellInv'
  BY <1>6, ExitTell DEF WriteBreaks, GiveUp, Kill, Answer, Fail, Done
<1>7. ASSUME NEW c \in Cli, Report(c)
      PROVE  TellInv'
  <2>1. CASE Done(c)
    BY <1>7, <2>1, ExitTell DEF Report, Done
  <2>2. CASE Go(c, "notify") /\ UNCHANGED <<job, copy, saw, fileHistory, late>>
    BY <1>7, <2>2 DEF Report, Go, StandingReports, LateIfLoading, OffIfUnseen, Unsaved,
                      Adds, KeyFileTypeOK, fileHistory
  <2> QED BY <1>7, <2>1, <2>2 DEF Report
<1>8. ASSUME NEW c \in Cli, Notify(c)
      PROVE  TellInv'
  <2>1. CASE Fail(c)
    BY <1>8, <2>1, ExitTell DEF Notify, Fail
  <2>2. CASE Go(c, "await") /\ UNCHANGED <<job, copy, saw, fileHistory, late>>
    BY <1>8, <2>2 DEF Notify, Go, StandingReports, LateIfLoading, OffIfUnseen, Unsaved,
                      Adds, KeyFileTypeOK, fileHistory
  <2> QED BY <1>8, <2>1, <2>2 DEF Notify
<1>9. CASE StartLoads
  BY <1>9 DEF StartLoads, cliVars, fileHistory, StandingReports, LateIfLoading,
              OffIfUnseen, Unsaved, Adds, KeyFileTypeOK
<1>10. ASSUME UNCHANGED <<cliVars, fileHistory, late>>,
              daemon' = daemon \/ daemon' = "off" \/ (daemon # "off" /\ daemon' # "loaded")
       PROVE  TellInv'
  BY <1>10 DEF cliVars, fileHistory, StandingReports, LateIfLoading, OffIfUnseen,
               Unsaved, Adds
<1>11. CASE StartNames \/ StartListens \/ BeginStop
  BY <1>10, <1>11 DEF StartNames, StartListens, BeginStop, Serve
<1>12. CASE DaemonEnds
  BY <1>10, <1>12 DEF DaemonEnds
<1>13. ASSUME OnSocket
       PROVE  TellInv'
  BY <1>10, <1>13 DEF OnSocket
<1>14. CASE UNCHANGED keyFileVars
  BY <1>10, <1>14 DEF keyFileVars
<1> QED BY <1>1, <1>2, <1>3, <1>4, <1>5, <1>6, <1>7, <1>8, <1>9, <1>11, <1>12, <1>13,
           <1>14 DEF KeyFileNext, Proceed, SocketReload, SocketDisable, SocketEnable
-----------------------------------------------------------------------------
(* What the daemon holds. *)

\* A daemon that has read the file holds what was filed.
LEMMA HoldsRead ==
    ASSUME FileInv, Readable, mem' = OpenedFile(file), truth' = truth,
           NEW u \in KeyURI, u \notin overtaken
    PROVE  Holds(u)'
<1>1. file[u] = truth[u] /\ truth \in FileMap /\ file \in FileMap
  BY DEF FileInv, FileTrue, KeyFileTypeOK, Readable
<1>2. mem'[u] = IF file[u] = NoEntry THEN NoEntry
                ELSE Opened(file[u].policy, file[u].value)
  BY DEF OpenedFile
<1>3. CASE truth[u] = NoEntry
  BY <1>1, <1>2, <1>3 DEF Holds
<1>4. CASE truth[u] # NoEntry
  <2>1. mem'[u] = Opened(truth[u].policy, truth[u].value) /\ truth[u] \in FileEntry
    BY <1>1, <1>2, <1>4 DEF FileMap
  <2>2. mem'[u] # NoEntry
    BY <2>1, Entries, StoreAssumption
  <2> QED BY <1>4, <2>1, <2>2 DEF Holds, Opened
<1> QED BY <1>3, <1>4

\* And goes on to, whatever comes over the socket.
LEMMA HoldsKept ==
    ASSUME FileInv, mem # Closed, truth' = truth,
           NEW u \in KeyURI, u \notin overtaken, Holds(u),
           \/ mem' = mem
           \/ Readable /\ DecryptAll(DaemonPass)
           \/ \E S \in Prefix : Disable(S)
           \/ Readable /\ \E S \in Prefix : Enable(S, DaemonPass)
    PROVE  Holds(u)'
<1>0. mem \in MemMap /\ truth \in FileMap
  BY DEF FileInv, KeyFileTypeOK
<1>1. CASE mem' = mem
  BY <1>1 DEF Holds
<1>2. CASE Readable /\ DecryptAll(DaemonPass)
  BY <1>1, <1>2, HoldsRead DEF DecryptAll
<1>3. ASSUME NEW S \in Prefix, Disable(S)
      PROVE  Holds(u)'
  <2>1. mem' = DisabledMem(mem, S)
    BY <1>3 DEF Disable
  <2>2. mem'[u] = IF u \in S /\ mem[u] # NoEntry
                  THEN [mem[u] EXCEPT !.value = Empty, !.disabled = TRUE] ELSE mem[u]
    BY <2>1 DEF DisabledMem
  <2>3. CASE u \in S /\ mem[u] # NoEntry
    <3>1. mem[u] \in MemEntry
      BY <1>0, <2>3 DEF MemMap
    <3>2. /\ mem'[u].policy = mem[u].policy /\ mem'[u].disabled
          /\ mem'[u] \in MemEntry
      BY <2>2, <2>3, <3>1 DEF MemEntry, Plain
    <3>3. mem'[u] # NoEntry
      BY <3>2, StoreAssumption
    <3> QED BY <2>3, <3>2, <3>3 DEF Holds
  <2>4. CASE ~(u \in S /\ mem[u] # NoEntry)
    BY <2>2, <2>4 DEF Holds
  <2> QED BY <2>3, <2>4
<1>4. ASSUME Readable, NEW S \in Prefix, Enable(S, DaemonPass)
      PROVE  Holds(u)'
  <2>1. file[u] = truth[u] /\ file \in FileMap
    BY <1>4 DEF FileInv, FileTrue, KeyFileTypeOK, Readable
  <2>2. PICK D \in SUBSET Enableable(mem, file, S) : mem' = EnabledMem(mem, file, D)
    BY <1>4 DEF Enable
  <2>3. mem'[u] = IF u \in D
                  THEN [mem[u] EXCEPT !.value = file[u].value, !.disabled = FALSE]
                  ELSE mem[u]
    BY <2>2 DEF EnabledMem
  <2>4. CASE u \in D
    <3>1. mem[u] \in MemEntry /\ file[u] \in FileEntry /\ mem[u] # NoEntry
                /\ file[u] # NoEntry
      BY <1>0, <2>1, <2>4 DEF Enableable, MemMap, FileMap
    <3>2. mem'[u] = [mem[u] EXCEPT !.value = file[u].value, !.disabled = FALSE]
      BY <2>3, <2>4
    <3>3. file[u].value \in Plain
      BY <3>1, Entries
    <3>4. /\ mem'[u].policy = mem[u].policy /\ mem'[u].value = file[u].value
          /\ mem'[u] \in MemEntry
      BY <3>1, <3>2, <3>3 DEF MemEntry
    <3>5. mem'[u] # NoEntry
      BY <3>4, StoreAssumption
    <3> QED BY <2>1, <3>1, <3>4, <3>5 DEF Holds
  <2>5. CASE u \notin D
    BY <2>3, <2>5 DEF Holds
  <2> QED BY <2>4, <2>5
<1> QED BY <1>1, <1>2, <1>3, <1>4

\* A command that ends adds nothing to what it reported, or only what is held.
LEMMA ExitHeld ==
    ASSUME ServedInv, NEW c \in Cli, Exit(c), UNCHANGED daemon,
           \A u \in KeyURI \ overtaken : Holds(u) /\ daemon # "off" => Holds(u)',
           settled' \ lagging' \subseteq
              (settled \ lagging) \cup
              {u \in KeyURI : daemon = "off" \/ u \in overtaken \/ Holds(u)'}
    PROVE  HeldIfUntold' /\ ServedUnlessLate'
<1>1. HeldIfUntold'
  <2> SUFFICES ASSUME NEW d \in standing', Untold(d)', daemon' # "off",
                      job'[d].key \notin overtaken'
               PROVE  Holds(job[d].key)'
    BY DEF HeldIfUntold
  <2>1. d \in standing /\ d # c /\ d \in Cli /\ overtaken' = overtaken
    BY DEF Exit, ServedInv, FileInv, KeyFileTypeOK
  <2>2. job'[d] = job[d] /\ job[d].key \in KeyURI /\ Untold(d)
    BY <2>1 DEF Untold, Adds, Exit, Go, ServedInv, FileInv, KeyFileTypeOK, Job
  <2> QED BY <2>1, <2>2 DEF ServedInv, HeldIfUntold
<1>2. ServedUnlessLate'
  BY DEF ServedInv, ServedUnlessLate, Exit, FileInv, KeyFileTypeOK
<1> QED BY <1>1, <1>2

\* A step that leaves the commands where they are or moves one that will report.
LEMMA MoveHeld ==
    ASSUME ServedInv, UNCHANGED <<truth, standing, settled, lagging, overtaken, daemon>>,
           \A d \in standing : job'[d] = job[d] /\ (Untold(d)' => Untold(d)),
           \A u \in KeyURI \ overtaken : Holds(u) /\ daemon # "off" => Holds(u)'
    PROVE  HeldIfUntold' /\ ServedUnlessLate'
<1>1. \A d \in standing : job[d].key \in KeyURI
  BY DEF ServedInv, FileInv, KeyFileTypeOK, Job
<1>2. \A u \in settled : u \in KeyURI
  BY DEF ServedInv, FileInv, KeyFileTypeOK
<1>3. HeldIfUntold'
  BY <1>1 DEF ServedInv, HeldIfUntold
<1>4. ServedUnlessLate'
  BY <1>2 DEF ServedInv, ServedUnlessLate
<1> QED BY <1>3, <1>4

LEMMA ServedStep ==
    ASSUME ServedInv, [KeyFileNext]_keyFileVars
    PROVE  ServedInv'
<1>t. FileInv /\ KeyFileTypeOK /\ TellInv
  BY DEF ServedInv, FileInv
<1>n. FileInv' /\ TellInv' /\ KeyFileTypeOK'
  BY <1>t, FileStep, TellStep DEF FileInv
<1> SUFFICES HeldIfUntold' /\ ServedUnlessLate'
  BY <1>n DEF ServedInv
<1>m. ASSUME mem' = mem, truth' = truth, NEW u \in KeyURI
      PROVE  Holds(u)' <=> Holds(u)
  BY <1>m DEF Holds
<1>s. standing \subseteq Cli /\ \A d \in standing : stage[d] \in {"saved", "notify", "await"}
  BY <1>t DEF TellInv, StandingReports, KeyFileTypeOK
<1>f. ASSUME NEW c \in Cli, Fail(c), UNCHANGED <<mem, daemon>>
      PROVE  HeldIfUntold' /\ ServedUnlessLate'
  <2>1. truth' = truth
    BY <1>f DEF Fail, Exit
  <2> QED BY <1>f, <1>m, <2>1, ExitHeld DEF Fail
<1>1. ASSUME NEW c \in Cli, NEW j \in Task, Begin(c, j)
      PROVE  HeldIfUntold' /\ ServedUnlessLate'
  <2>1. \A d \in standing : job'[d] = job[d] /\ (Untold(d)' => Untold(d))
    BY <1>1, <1>s, <1>t DEF Begin, Go, Untold, Adds, KeyFileTypeOK
  <2> QED BY <1>1, <1>m, <2>1, MoveHeld DEF Begin, storeVars, fileHistory
<1>2. ASSUME NEW c \in Cli, AskBefore(c)
      PROVE  HeldIfUntold' /\ ServedUnlessLate'
  <2>1. \A d \in standing : job'[d] = job[d] /\ (Untold(d)' => Untold(d))
    BY <1>2, <1>s, <1>t DEF AskBefore, Go, Untold, Adds, KeyFileTypeOK
  <2> QED BY <1>2, <1>m, <2>1, MoveHeld DEF AskBefore, storeVars, fileHistory
<1>3. ASSUME NEW c \in Cli, Load(c)
      PROVE  HeldIfUntold' /\ ServedUnlessLate'
  <2>1. CASE Fail(c)
    BY <1>3, <1>f, <2>1 DEF Load, storeVars
  <2>2. CASE Go(c, "save") /\ UNCHANGED <<job, saw, fileHistory, late>>
    <3>1. \A d \in standing : job'[d] = job[d] /\ (Untold(d)' => Untold(d))
      BY <1>3, <1>s, <1>t, <2>2 DEF Load, Go, Untold, Adds, KeyFileTypeOK
    <3> QED BY <1>3, <1>m, <2>2, <3>1, MoveHeld DEF Load, storeVars, fileHistory
  <2> QED BY <1>3, <2>1, <2>2 DEF Load
<1>4. ASSUME NEW c \in Cli, Truncate(c)
      PROVE  HeldIfUntold' /\ ServedUnlessLate'
  <2>1. CASE Fail(c)
    BY <1>4, <1>f, <2>1 DEF Truncate
  <2>2. CASE Go(c, "write") /\ UNCHANGED <<job, copy, saw, fileHistory, late>>
    <3>1. \A d \in standing : job'[d] = job[d] /\ (Untold(d)' => Untold(d))
      BY <1>4, <1>s, <1>t, <2>2 DEF Truncate, Go, Untold, Adds, KeyFileTypeOK
    <3> QED BY <1>4, <1>m, <2>2, <3>1, MoveHeld DEF Truncate, fileHistory
  <2> QED BY <1>4, <2>1, <2>2 DEF Truncate
<1>5. ASSUME NEW c \in Cli, WriteAll(c)
      PROVE  HeldIfUntold' /\ ServedUnlessLate'
  <2> DEFINE k == job[c].key
  <2>0. /\ k \in KeyURI /\ truth \in FileMap /\ mem' = mem /\ daemon' = daemon
        /\ job' = job /\ saw' = saw /\ late' = late
        /\ truth' = [truth EXCEPT ![k] = job[c].entry]
        /\ overtaken' = (overtaken \cup outdated[c]) \ {k}
        /\ standing' = {d \in standing : job[d].key # k} \cup {c}
        /\ settled' = settled \ {k} /\ lagging' = lagging \ {k}
    BY <1>5, <1>t DEF WriteAll, Record, KeyFileTypeOK, Job
  <2>1. ASSUME NEW u \in KeyURI, u # k
        PROVE  Holds(u)' <=> Holds(u)
    <3>1. truth'[u] = truth[u]
      BY <2>0, <2>1 DEF FileMap
    <3> QED BY <2>0, <3>1 DEF Holds
  <2>2. ~(Untold(c)' /\ daemon' # "off")
    <3>1. c \in Unsaved /\ stage[c] = "write"
      BY <1>5 DEF WriteAll, Unsaved
    <3> QED BY <3>1, <2>0, <1>t DEF Untold, Adds, TellInv, LateIfLoading, OffIfUnseen
  <2>3. HeldIfUntold'
    <3> SUFFICES ASSUME NEW d \in standing', Untold(d)', daemon' # "off",
                        job'[d].key \notin overtaken'
                 PROVE  Holds(job[d].key)'
      BY DEF HeldIfUntold
    <3>1. d \in standing /\ job[d].key # k /\ d # c /\ d \in Cli
      BY <2>0, <2>2, <1>s
    <3>2. Untold(d) /\ job[d].key \in KeyURI
      BY <1>5, <1>t, <2>0, <3>1 DEF WriteAll, Go, Untold, Adds, KeyFileTypeOK, Job
    <3>3. job[d].key \notin overtaken
      BY <2>0, <3>1
    <3>4. Holds(job[d].key)
      BY <2>0, <3>1, <3>2, <3>3 DEF ServedInv, HeldIfUntold
    <3> QED BY <2>0, <2>1, <3>1, <3>2, <3>4
  <2>4. ServedUnlessLate'
    <3> SUFFICES ASSUME daemon' # "off", NEW u \in settled' \ (lagging' \cup overtaken')
                 PROVE  Holds(u)'
      BY DEF ServedUnlessLate
    <3>1. u \in KeyURI /\ u # k /\ u \in settled \ (lagging \cup overtaken)
      BY <2>0, <1>t DEF KeyFileTypeOK
    <3> QED BY <2>0, <2>1, <3>1 DEF ServedInv, ServedUnlessLate
  <2> QED BY <2>3, <2>4
<1>6. ASSUME NEW c \in Cli, WriteBreaks(c) \/ GiveUp(c) \/ Kill(c)
      PROVE  HeldIfUntold' /\ ServedUnlessLate'
  BY <1>6, <1>f DEF WriteBreaks, GiveUp, Kill, storeVars
<1>7. ASSUME NEW c \in Cli, Report(c)
      PROVE  HeldIfUntold' /\ ServedUnlessLate'
  <2>1. CASE (IF Adds(c) THEN ~saw[c] ELSE ~Running) /\ Done(c)
    <3>0. mem' = mem /\ truth' = truth /\ daemon' = daemon /\ Exit(c)
      BY <1>7, <2>1 DEF Report, Done, Exit, storeVars
    <3>1. ASSUME c \in standing, c \notin late, daemon # "off", job[c].key \notin overtaken
          PROVE  Holds(job[c].key)
      <4>1. Untold(c)
        BY <1>7, <2>1, <3>1, <1>t DEF Report, Answers, Untold, Running, KeyFileTypeOK
      <4> QED BY <3>1, <4>1 DEF ServedInv, HeldIfUntold
    <3>2. job[c].key \in KeyURI
      BY <1>t DEF KeyFileTypeOK, Job
    <3>3. settled' \ lagging' \subseteq
              (settled \ lagging) \cup
              {u \in KeyURI : daemon = "off" \/ u \in overtaken \/ Holds(u)'}
      BY <2>1, <3>0, <3>1, <3>2, <1>m DEF Done
    <3> QED BY <3>0, <3>3, <1>m, ExitHeld
  <2>2. CASE Go(c, "notify") /\ UNCHANGED <<job, copy, saw, fileHistory, late>>
    <3>1. \A d \in standing : job'[d] = job[d] /\ (Untold(d)' => Untold(d))
      BY <1>7, <1>s, <1>t, <2>2 DEF Report, Go, Untold, Adds, KeyFileTypeOK
    <3> QED BY <1>7, <1>m, <2>2, <3>1, MoveHeld DEF Report, storeVars, fileHistory
  <2>3. saw[c] \in BOOLEAN
    BY <1>t DEF KeyFileTypeOK
  <2> QED BY <1>7, <2>1, <2>2, <2>3 DEF Report, Answers
<1>8. ASSUME NEW c \in Cli, Notify(c)
      PROVE  HeldIfUntold' /\ ServedUnlessLate'
  <2>1. CASE Fail(c)
    BY <1>8, <1>f, <2>1 DEF Notify, storeVars
  <2>2. CASE Go(c, "await") /\ UNCHANGED <<job, copy, saw, fileHistory, late>>
    <3>1. \A d \in standing : job'[d] = job[d] /\ (Untold(d)' => Untold(d))
      BY <1>8, <1>s, <1>t, <2>2 DEF Notify, Go, Untold, Adds, KeyFileTypeOK
    <3> QED BY <1>8, <1>m, <2>2, <3>1, MoveHeld DEF Notify, storeVars, fileHistory
  <2> QED BY <1>8, <2>1, <2>2 DEF Notify
<1>9. ASSUME NEW c \in Cli, Answer(c)
      PROVE  HeldIfUntold' /\ ServedUnlessLate'
  <2>0. daemon' = daemon /\ daemon # "off" /\ mem # Closed /\ Exit(c) /\ truth' = truth
    BY <1>9, <1>t DEF Answer, Done, Fail, Exit, KeyFileTypeOK
  <2>1. \A u \in KeyURI \ overtaken : Holds(u) => Holds(u)'
    BY <1>9, <1>t, <2>0, HoldsKept DEF Answer, storeVars
  <2>2. CASE Fail(c)
    BY <2>0, <2>1, <2>2, ExitHeld DEF Fail
  <2>3. CASE Readable /\ AllOpen(file, DaemonPass) /\ Done(c)
    <3>1. \A u \in KeyURI \ overtaken : Holds(u)'
      BY <1>9, <1>t, <2>0, <2>3, HoldsRead DEF Answer, DecryptAll
    <3>2. job[c].key \in KeyURI
      BY <1>t DEF KeyFileTypeOK, Job
    <3>3. settled' \ lagging' \subseteq
              (settled \ lagging) \cup
              {u \in KeyURI : daemon = "off" \/ u \in overtaken \/ Holds(u)'}
      BY <2>3, <3>1, <3>2 DEF Done
    <3> QED BY <2>0, <2>1, <3>3, ExitHeld
  <2> QED BY <1>9, <2>2, <2>3 DEF Answer
<1>10. CASE StartLoads
  <2>1. \A u \in KeyURI \ overtaken : Holds(u)'
    BY <1>10, <1>t, HoldsRead DEF StartLoads, DecryptAll, fileHistory
  <2>2. \A d \in standing : job[d].key \in KeyURI
    BY <1>t DEF KeyFileTypeOK, Job
  <2>3. UNCHANGED <<job, standing, settled, lagging, overtaken>> /\ settled \subseteq KeyURI
    BY <1>10, <1>t DEF StartLoads, cliVars, fileHistory, KeyFileTypeOK
  <2> QED BY <2>1, <2>2, <2>3 DEF HeldIfUntold, ServedUnlessLate
<1>11. CASE StartNames \/ StartListens \/ BeginStop
  <2>1. /\ mem' = mem /\ daemon # "off" /\ daemon' \notin {"off", "loaded"}
        /\ UNCHANGED <<stage, job, saw, truth, standing, settled, lagging, overtaken, late>>
    BY <1>11 DEF StartNames, StartListens, BeginStop, Serve, storeVars, cliVars, fileHistory
  <2>2. \A d \in standing : Untold(d)' => Untold(d)
    BY <2>1 DEF Untold, Adds
  <2>3. \A d \in standing : job[d].key \in KeyURI
    BY <1>t DEF KeyFileTypeOK, Job
  <2>4. settled \subseteq KeyURI
    BY <1>t DEF KeyFileTypeOK
  <2> QED BY <1>m, <2>1, <2>2, <2>3, <2>4 DEF ServedInv, HeldIfUntold, ServedUnlessLate
<1>12. CASE DaemonEnds
  BY <1>12 DEF DaemonEnds, HeldIfUntold, ServedUnlessLate
<1>13. ASSUME OnSocket, \A u \in KeyURI \ overtaken : Holds(u) => Holds(u)'
       PROVE  HeldIfUntold' /\ ServedUnlessLate'
  <2>1. \A d \in standing : job'[d] = job[d] /\ (Untold(d)' => Untold(d))
    BY <1>13 DEF OnSocket, cliVars, Untold, Adds
  <2> QED BY <1>13, <2>1, MoveHeld DEF OnSocket, fileHistory
<1>14. ASSUME OnSocket
       PROVE  mem # Closed /\ truth' = truth
  BY <1>14, <1>t DEF OnSocket, KeyFileTypeOK, fileHistory
<1>15. CASE SocketReload
  BY <1>13, <1>14, <1>15, <1>t, HoldsKept DEF SocketReload
<1>16. ASSUME NEW S \in Prefix, SocketDisable(S) \/ SocketEnable(S)
       PROVE  HeldIfUntold' /\ ServedUnlessLate'
  BY <1>13, <1>14, <1>16, <1>t, HoldsKept DEF SocketDisable, SocketEnable
<1>17. CASE UNCHANGED keyFileVars
  <2>1. \A d \in standing : job'[d] = job[d] /\ (Untold(d)' => Untold(d))
    BY <1>17 DEF keyFileVars, cliVars, Untold, Adds
  <2> QED BY <1>17, <1>m, <2>1, MoveHeld DEF keyFileVars, storeVars, fileHistory
<1> QED BY <1>1, <1>2, <1>3, <1>4, <1>5, <1>6, <1>7, <1>8, <1>9, <1>10, <1>11, <1>12,
           <1>15, <1>16, <1>17 DEF KeyFileNext, Proceed

\* After a command that ended without a warning a running daemon serves what was
\* filed, unless it was starting meanwhile or the entry was lost: for any number
\* of commands, keys and passphrases.
THEOREM KeyFileServesUnlessLate == KeyFileSpec => []ServedUnlessLate
<1>1. KeyFileInit => ServedInv
  <2> SUFFICES ASSUME KeyFileInit
               PROVE  ServedInv
    OBVIOUS
  <2>1. FileInv
    BY InitType DEF KeyFileInit, FileInv, FileTrue, CopyTrue, Holding
  <2>2. TellInv
    BY DEF KeyFileInit, TellInv, StandingReports, LateIfLoading, OffIfUnseen, Unsaved
  <2> QED BY <2>1, <2>2 DEF KeyFileInit, ServedInv, HeldIfUntold, ServedUnlessLate
<1>2. ServedInv /\ [KeyFileNext]_keyFileVars => ServedInv'
  BY ServedStep
<1>3. ServedInv => ServedUnlessLate
  BY DEF ServedInv
<1> QED BY <1>1, <1>2, <1>3, PTL DEF KeyFileSpec
-----------------------------------------------------------------------------
(* The table the commands keep. *)

\* A command that will remove an entry has found it.
FoundIt ==
    \A c \in Holding : ~Adds(c) => copy[c][job[c].key] # NoEntry

LEMMA FoundStep ==
    ASSUME KeyFileTypeOK, FoundIt, [KeyFileNext]_keyFileVars
    PROVE  FoundIt'
<1> USE DEF FoundIt, Holding, Adds, KeyFileTypeOK
<1>1. ASSUME UNCHANGED <<stage, job, copy>>
      PROVE  FoundIt'
  BY <1>1
<1>2. ASSUME NEW c \in Cli, Fail(c) \/ Done(c)
      PROVE  FoundIt'
  BY <1>2 DEF Fail, Done, Exit, Go
<1>3. ASSUME NEW c \in Cli, NEW j \in Task, Begin(c, j)
      PROVE  FoundIt'
  BY <1>3 DEF Begin, Go
<1>4. ASSUME NEW c \in Cli, AskBefore(c) \/ Report(c) \/ Notify(c)
      PROVE  FoundIt'
  BY <1>2, <1>4 DEF AskBefore, Report, Notify, Go
<1>5. ASSUME NEW c \in Cli, Load(c)
      PROVE  FoundIt'
  BY <1>2, <1>5 DEF Load, Loadable, Go
<1>6. ASSUME NEW c \in Cli, Truncate(c)
      PROVE  FoundIt'
  BY <1>2, <1>6 DEF Truncate, Go
<1>7. ASSUME NEW c \in Cli, WriteAll(c)
      PROVE  FoundIt'
  BY <1>7 DEF WriteAll, Go
<1>8. ASSUME NEW c \in Cli, WriteBreaks(c) \/ GiveUp(c) \/ Kill(c) \/ Answer(c)
      PROVE  FoundIt'
  BY <1>2, <1>8 DEF WriteBreaks, GiveUp, Kill, Answer
<1>9. ASSUME UNCHANGED cliVars
      PROVE  FoundIt'
  BY <1>1, <1>9 DEF cliVars
<1>10. CASE \/ StartLoads \/ StartNames \/ StartListens \/ BeginStop \/ DaemonEnds
            \/ SocketReload
            \/ \E S \in Prefix : SocketDisable(S) \/ SocketEnable(S)
  BY <1>9, <1>10 DEF StartLoads, StartNames, StartListens, BeginStop, Serve, DaemonEnds,
                     SocketReload, SocketDisable, SocketEnable, OnSocket
<1>11. CASE UNCHANGED keyFileVars
  BY <1>9, <1>11 DEF keyFileVars
<1> QED BY <1>3, <1>4, <1>5, <1>6, <1>7, <1>8, <1>10, <1>11 DEF KeyFileNext, Proceed

\* The table is that of the same file, or of the same writers.
LEMMA SameTable ==
    ASSUME file' = file, Writers' = Writers, \A c \in Writers : copy'[c] = copy[c]
    PROVE  Table' = Table
<1>1. (CHOOSE c \in Writers' : TRUE) = (CHOOSE c \in Writers : TRUE)
  OBVIOUS
<1>2. Writers # {} => (CHOOSE c \in Writers : TRUE) \in Writers
  OBVIOUS
<1> QED BY <1>1, <1>2 DEF Table, Readable

\* The table of a lone writer is its copy; that of a lone reader is the file.
LEMMA LoneTable ==
    ASSUME KeyFileTypeOK, Alone, NEW c \in Holding
    PROVE  /\ Table = copy[c] /\ copy[c] \in FileMap /\ c \in Cli
           /\ Table # Corrupt
           /\ Writers = IF stage[c] = "write" THEN {c} ELSE {}
<1>1. c \in Cli /\ copy[c] \in FileMap
  BY DEF Holding, KeyFileTypeOK
<1>2. copy[c] # Corrupt /\ copy[c] # Truncated
  BY <1>1, StoreAssumption, KeyFileAssumption
<1>3. Writers = IF stage[c] = "write" THEN {c} ELSE {}
  BY <1>1 DEF Alone, Holding, Writers
<1>4. CASE stage[c] = "write"
  BY <1>1, <1>2, <1>3, <1>4 DEF Table
<1>5. CASE stage[c] = "save"
  BY <1>1, <1>2, <1>3, <1>5 DEF Table, Alone, Readable
<1> QED BY <1>1, <1>2, <1>3, <1>4, <1>5 DEF Holding

\* A command that ends is no writer any more, or was none.
LEMMA ExitTable ==
    ASSUME KeyFileTypeOK, Alone, NEW c \in Cli, Exit(c),
           \/ file' = file
           \/ stage[c] = "write" /\ file' \in {file, Corrupt}
    PROVE  [Reg!RegistryNext]_Table
<1>1. Writers' = Writers \ {c} /\ \A d \in Writers \ {c} : copy'[d] = copy[d]
  BY DEF Writers, Exit, Go, KeyFileTypeOK
<1>2. CASE stage[c] = "write"
  <2>1. c \in Holding
    BY <1>2 DEF Holding
  <2>2. file = Truncated /\ Writers = {c} /\ Table # Corrupt
    BY <1>2, <2>1, LoneTable DEF Alone
  <2>3. Table' = Corrupt
    BY <1>1, <1>2, <2>2 DEF Table, Readable
  <2> QED BY <2>2, <2>3 DEF Reg!RegistryNext, Reg!BreakOff
<1>3. CASE stage[c] # "write"
  <2>1. Writers' = Writers
    BY <1>1, <1>3 DEF Writers
  <2> QED BY <1>1, <1>3, <2>1, SameTable
<1> QED BY <1>2, <1>3

LEMMA RegistryStep ==
    ASSUME KeyFileTypeOK, FoundIt, Alone, [KeyFileNext]_keyFileVars
    PROVE  [Reg!RegistryNext]_Table
<1>1. ASSUME NEW c \in Cli, NEW to \in Stage \ {"write"}, stage[c] # "write",
             Go(c, to), \A d \in Cli \ {c} : copy'[d] = copy[d], file' = file
      PROVE  Table' = Table
  <2>1. Writers' = Writers /\ \A d \in Writers : d \in Cli \ {c}
    BY <1>1 DEF Writers, Go, KeyFileTypeOK
  <2> QED BY <1>1, <2>1, SameTable
<1>2. ASSUME NEW c \in Cli, Fail(c) \/ Done(c), file' = file
      PROVE  [Reg!RegistryNext]_Table
  BY <1>2, ExitTable DEF Fail, Done
<1>3. ASSUME NEW c \in Cli, NEW j \in Task, Begin(c, j)
      PROVE  Table' = Table
  BY <1>1, <1>3 DEF Begin, storeVars, Stage
<1>4. ASSUME NEW c \in Cli, AskBefore(c)
      PROVE  Table' = Table
  BY <1>1, <1>4 DEF AskBefore, storeVars, Stage
<1>5. ASSUME NEW c \in Cli, Load(c)
      PROVE  [Reg!RegistryNext]_Table
  <2>1. file' = file
    BY <1>5 DEF Load, storeVars
  <2>2. CASE Fail(c)
    BY <1>2, <2>1, <2>2
  <2>3. CASE Go(c, "save") /\ copy' = [copy EXCEPT ![c] = file]
    BY <1>1, <1>5, <2>1, <2>3 DEF Load, Stage, KeyFileTypeOK
  <2> QED BY <1>5, <2>2, <2>3 DEF Load
<1>6. ASSUME NEW c \in Cli, Truncate(c)
      PROVE  [Reg!RegistryNext]_Table
  <2>1. CASE Fail(c) /\ file' = file
    BY <1>2, <2>1
  <2>2. CASE Go(c, "write") /\ copy' = copy
    <3>1. c \in Holding /\ stage[c] = "save"
      BY <1>6 DEF Truncate, Holding
    <3>2. Table = copy[c] /\ Writers = {}
      BY <3>1, LoneTable
    <3>3. Writers' = {c}
      BY <2>2, <3>2 DEF Writers, Go, KeyFileTypeOK
    <3> QED BY <2>2, <3>2, <3>3 DEF Table
  <2> QED BY <1>6, <2>1, <2>2 DEF Truncate
<1>7. ASSUME NEW c \in Cli, WriteAll(c)
      PROVE  [Reg!RegistryNext]_Table
  <2> DEFINE u == job[c].key
             new == [copy[c] EXCEPT ![u] = job[c].entry]
  <2>1. c \in Holding /\ stage[c] = "write"
    BY <1>7 DEF WriteAll, Holding
  <2>2. /\ Table = copy[c] /\ copy[c] \in FileMap /\ Table # Corrupt
        /\ Writers = {c} /\ file = Truncated
    BY <2>1, LoneTable DEF Alone
  <2>3. Writers' = {}
    BY <1>7, <2>2 DEF WriteAll, Go, Writers, KeyFileTypeOK
  <2>4. u \in KeyURI /\ job[c].entry \in FileEntry \cup {NoEntry}
    BY DEF KeyFileTypeOK, Job
  <2>5. file' = new
    <3>1. Overlay(Truncated, Changed(copy[c], job[c])) = {Changed(copy[c], job[c])}
      BY KeyFileAssumption DEF Overlay
    <3> QED BY <1>7, <2>2, <3>1 DEF WriteAll, Changed
  <2>6. new \in FileMap
    BY <2>2, <2>4 DEF FileMap
  <2>7. Table' = [Table EXCEPT ![u] = job[c].entry]
    BY <2>2, <2>3, <2>5, <2>6, StoreAssumption, KeyFileAssumption DEF Table, Readable
  <2>8. CASE job[c].entry = NoEntry
    BY <2>1, <2>2, <2>4, <2>7, <2>8 DEF FoundIt, Adds, Reg!RegistryNext, Reg!Drop
  <2>9. CASE job[c].entry \in FileEntry
    BY <2>2, <2>4, <2>7, <2>9 DEF Reg!RegistryNext, Reg!Put
  <2> QED BY <2>4, <2>8, <2>9
<1>8. ASSUME NEW c \in Cli, WriteBreaks(c)
      PROVE  [Reg!RegistryNext]_Table
  BY <1>8, ExitTable DEF WriteBreaks, Fail
<1>9. ASSUME NEW c \in Cli, Report(c) \/ Notify(c)
      PROVE  [Reg!RegistryNext]_Table
  <2>1. file' = file
    BY <1>9 DEF Report, Notify, storeVars
  <2>2. CASE Fail(c) \/ Done(c)
    BY <1>2, <2>1, <2>2
  <2>3. CASE (Go(c, "notify") \/ Go(c, "await")) /\ copy' = copy
    BY <1>1, <1>9, <2>1, <2>3 DEF Report, Notify, Stage
  <2> QED BY <1>9, <2>2, <2>3 DEF Report, Notify
<1>10. ASSUME NEW c \in Cli, GiveUp(c) \/ Kill(c) \/ Answer(c)
       PROVE  [Reg!RegistryNext]_Table
  <2>1. file' = file
    BY <1>10 DEF GiveUp, Kill, Answer, storeVars, DecryptAll
  <2> QED BY <1>2, <1>10, <2>1 DEF GiveUp, Kill, Answer
<1>11. ASSUME UNCHANGED cliVars, file' = file
       PROVE  Table' = Table
  BY <1>11, SameTable DEF cliVars, Writers
<1>12. CASE \/ StartLoads \/ StartNames \/ StartListens \/ BeginStop \/ DaemonEnds
            \/ SocketReload
            \/ \E S \in Prefix : SocketDisable(S) \/ SocketEnable(S)
  BY <1>11, <1>12 DEF StartLoads, StartNames, StartListens, BeginStop, Serve, DaemonEnds,
                      SocketReload, SocketDisable, SocketEnable, OnSocket, DecryptAll,
                      Disable, Enable, ClearAll, storeVars
<1>13. CASE UNCHANGED keyFileVars
  BY <1>11, <1>13 DEF keyFileVars, storeVars
<1> QED BY <1>3, <1>4, <1>5, <1>6, <1>7, <1>8, <1>9, <1>10, <1>12, <1>13
        DEF KeyFileNext, Proceed

\* Commands that do not overlap change the table as Registry does, at one key and
\* at once, whatever the daemon reads meanwhile.
THEOREM KeyFileKeepsRegistry == KeyFileSpec => KeepsRegistry
<1> DEFINE I == KeyFileTypeOK /\ FoundIt
<1>1. KeyFileInit => I
  BY InitType DEF KeyFileInit, FoundIt, Holding
<1>2. I /\ [KeyFileNext]_keyFileVars => I'
  BY KeyFileTypeStep, FoundStep
<1>3. I /\ [KeyFileNext]_keyFileVars => [Alone => [Reg!RegistryNext]_Table]_keyFileVars
  BY RegistryStep
<1> QED BY <1>1, <1>2, <1>3, PTL DEF KeyFileSpec, KeepsRegistry
=============================================================================
