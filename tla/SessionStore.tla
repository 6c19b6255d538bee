---------------------------- MODULE SessionStore ----------------------------
(***************************************************************************)
(* internal/state/store.go: how session.json is saved (SaveSession and     *)
(* writeJSON) and loaded (LoadOrCreateSession), one file-system call at a  *)
(* time, with failing calls, a process that dies between two of them, a    *)
(* machine that loses power, and a file that is damaged on disk.           *)
(*                                                                         *)
(* An error before anything has changed (the temporary file cannot be      *)
(* written, the session is invalid) leaves every variable as it is and is  *)
(* a stuttering step.                                                      *)
(***************************************************************************)
CONSTANTS Session,         \* the sessions validateSession accepts
          DefaultSession,  \* model.DefaultSession()
          Absent,          \* no such file
          Corrupt,         \* a file that does not decode
          Faults           \* what may go wrong in this environment

ASSUME SessionAssumption == /\ DefaultSession \in Session
                            /\ Absent \notin Session
                            /\ Corrupt \notin Session \cup {Absent}

\* "io": a rename or the directory sync fails; "crash": the process dies or is
\* stopped; "gap": it may die between the two renames; "strand": it may end,
\* also in good order, after a save whose second rename failed; "power": the
\* machine loses directory updates that were not synced; "corrupt": the file is
\* damaged.
ASSUME FaultsAssumption == Faults \subseteq {"io", "crash", "gap", "strand", "power", "corrupt"}

VARIABLES path,     \* session.json
          bak,      \* session.json.bak
          tmp,      \* the temporary file of the running or interrupted save
          pc,       \* where the process is: down, idle, or inside writeJSON
          booting,  \* writeJSON runs on behalf of LoadOrCreateSession
          saved,    \* history: what the last successful load or save returned
          durable,  \* history: sessions a power loss may legitimately bring back
          journal   \* directory states passed through since the last sync

vars == <<path, bak, tmp, pc, booting, saved, durable, journal>>

File == Session \cup {Absent, Corrupt}

Directory == [path : File, bak : File]

\* The session a directory stands for: session.json, or the backup when
\* session.json is not there.
StoredIn(d) == IF d.path = Absent THEN d.bak ELSE d.path

Here == [path |-> path, bak |-> bak]

Stored == StoredIn(Here)

\* session.json is moved away and only the backup is left: for a moment between
\* the two renames of a save, or, when the second one fails, until the next save.
InGap(d) == d.path = Absent /\ d.bak # Absent

\* Where an aborted writeJSON leaves the process: a failed first start ends.
Resting == IF booting THEN "down" ELSE "idle"

Init == /\ path = Absent
        /\ bak = Absent
        /\ tmp = Absent
        /\ pc = "down"
        /\ booting = FALSE
        /\ saved = Absent
        /\ durable = {Absent}
        /\ journal = {Here}
-----------------------------------------------------------------------------
(* writeJSON *)

\* The temporary file is written, synced and closed.
WriteTemporary(s) == /\ pc = "idle"
                     /\ tmp' = s
                     /\ pc' = "written"
                     /\ UNCHANGED <<path, bak, booting, saved, durable, journal>>

\* Mutant: session.json is removed instead of backed up.
BackUpRemoves == /\ pc = "written"
                 /\ path # Absent
                 /\ bak' = bak
                 /\ path' = Absent
                 /\ pc' = "moved"
                 /\ journal' = journal \cup {Here'}
                 /\ UNCHANGED <<tmp, booting, saved, durable>>

\* Mutant: a backup that is there is kept.
BackUpOnce == /\ pc = "written"
              /\ path # Absent
              /\ bak' = IF bak = Absent THEN path ELSE bak
              /\ path' = Absent
              /\ pc' = "moved"
              /\ journal' = journal \cup {Here'}
              /\ UNCHANGED <<tmp, booting, saved, durable>>

\* os.Stat finds session.json and it is renamed to session.json.bak.
BackUp == /\ pc = "written"
          /\ path # Absent
          /\ bak' = path
          /\ path' = Absent
          /\ pc' = "moved"
          /\ journal' = journal \cup {Here'}
          /\ UNCHANGED <<tmp, booting, saved, durable>>

\* There is no session.json to back up.
SkipBackUp == /\ pc = "written"
              /\ path = Absent
              /\ pc' = "moved"
              /\ UNCHANGED <<path, bak, tmp, booting, saved, durable, journal>>

\* The temporary file is renamed to session.json.
Install == /\ pc = "moved"
           /\ path' = tmp
           /\ bak' = bak
           /\ pc' = "installed"
           /\ durable' = durable \cup {tmp}
           /\ journal' = journal \cup {Here'}
           /\ UNCHANGED <<tmp, booting, saved>>

\* Mutant: the error of a failed rename is dropped.
RenameFailsSilently == /\ "io" \in Faults
                       /\ pc \in {"written", "moved"}
                       /\ saved' = tmp
                       /\ tmp' = Absent
                       /\ pc' = "idle"
                       /\ booting' = FALSE
                       /\ UNCHANGED <<path, bak, durable, journal>>

\* Either rename fails: the temporary file is removed, nothing is put back.
RenameFails == /\ "io" \in Faults
               /\ pc \in {"written", "moved"}
               /\ tmp' = Absent
               /\ pc' = Resting
               /\ booting' = FALSE
               /\ UNCHANGED <<path, bak, saved, durable, journal>>

\* SaveSession returns nil: the caller now holds this session.
Report == /\ pc = "installed"
          /\ saved' = tmp
          /\ tmp' = Absent
          /\ pc' = "idle"
          /\ booting' = FALSE
          /\ UNCHANGED <<path, bak>>

\* Mutant: the directory is not synced.
SkipSyncDirectory == Report /\ durable' = {tmp} /\ UNCHANGED journal

\* The directory sync succeeds.
SyncDirectory == /\ Report
                 /\ durable' = {tmp}
                 /\ journal' = {Here}

\* The directory cannot be opened or synced: the error is ignored.
SyncDirectoryFails == /\ "io" \in Faults
                      /\ Report
                      /\ UNCHANGED <<durable, journal>>
-----------------------------------------------------------------------------
(* LoadOrCreateSession *)

\* Mutant: the backup is read first.
LoadBackupFirst == /\ pc = "down"
                   /\ path \in Session
                   /\ saved' = IF bak \in Session THEN bak ELSE path
                   /\ pc' = "idle"
                   /\ UNCHANGED <<path, bak, tmp, booting, durable, journal>>

LoadPresent == /\ pc = "down"
               /\ path \in Session
               /\ saved' = path
               /\ pc' = "idle"
               /\ UNCHANGED <<path, bak, tmp, booting, durable, journal>>

\* Mutant: the backup is not validated.
LoadAnyBackup == /\ pc = "down"
                 /\ path = Corrupt
                 /\ bak # Absent
                 /\ saved' = bak
                 /\ pc' = "idle"
                 /\ UNCHANGED <<path, bak, tmp, booting, durable, journal>>

\* Mutant: a file that does not decode is taken for a missing one.
LoadDamagedAsMissing == /\ pc = "down"
                        /\ path = Corrupt
                        /\ tmp' = DefaultSession
                        /\ booting' = TRUE
                        /\ pc' = "written"
                        /\ UNCHANGED <<path, bak, saved, durable, journal>>

\* session.json does not decode and the backup is valid.
LoadBackup == /\ pc = "down"
              /\ path = Corrupt
              /\ bak \in Session
              /\ saved' = bak
              /\ pc' = "idle"
              /\ UNCHANGED <<path, bak, tmp, booting, durable, journal>>

\* There is no session.json: the default session is saved, whatever the
\* backup holds.
LoadMissing == /\ pc = "down"
               /\ path = Absent
               /\ tmp' = DefaultSession
               /\ booting' = TRUE
               /\ pc' = "written"
               /\ UNCHANGED <<path, bak, saved, durable, journal>>
-----------------------------------------------------------------------------
(* The environment *)

\* The process dies, its temporary file stays behind; or it stops between two
\* saves. Both may leave the next start without a session.json.
Crash == /\ "crash" \in Faults
         /\ pc # "down"
         /\ InGap(Here) => (IF pc = "moved" THEN "gap" ELSE "strand") \in Faults
         /\ pc' = "down"
         /\ booting' = FALSE
         /\ UNCHANGED <<path, bak, tmp, saved, durable, journal>>

\* The machine loses power and comes back in a directory state it passed
\* through since the last sync.
PowerLoss == /\ "power" \in Faults
             /\ \E d \in journal : /\ InGap(d) => "gap" \in Faults
                                   /\ path' = d.path
                                   /\ bak' = d.bak
             /\ journal' = {Here'}
             /\ pc' = "down"
             /\ booting' = FALSE
             /\ UNCHANGED <<tmp, saved, durable>>

\* session.json is damaged while the daemon is down.
Damage == /\ "corrupt" \in Faults
          /\ pc = "down"
          /\ path \in Session
          /\ path' = Corrupt
          /\ bak' = bak
          /\ journal' = {Here'}
          /\ UNCHANGED <<tmp, pc, booting, saved, durable>>

Next == \/ \E s \in Session : WriteTemporary(s)
        \/ BackUp
        \/ SkipBackUp
        \/ Install
        \/ RenameFails
        \/ SyncDirectory
        \/ SyncDirectoryFails
        \/ LoadPresent
        \/ LoadBackup
        \/ LoadMissing
        \/ Crash
        \/ PowerLoss
        \/ Damage

Spec == Init /\ [][Next]_vars
-----------------------------------------------------------------------------
(* Properties *)

\* Types. Only Damage makes a file corrupt; a save in progress has its
\* temporary file.
TypeOK == /\ path \in File
          /\ bak \in File
          /\ tmp \in Session \cup {Absent}
          /\ pc \in {"down", "idle", "written", "moved", "installed"}
          /\ booting \in BOOLEAN
          /\ saved \in Session \cup {Absent}
          /\ durable \subseteq Session \cup {Absent}
          /\ journal \subseteq Directory

\* At every instant the directory holds, in session.json or in its backup,
\* the session the caller last heard of or the one it is saving: writeJSON
\* leaves no instant at which both copies are something else.
OldOrNew == Stored \in {saved, tmp}

\* Whatever directory state a power loss brings back, the session in it was
\* being saved or had been saved no earlier than the last synced save, unless
\* the file was damaged since.
PowerLossBringsBackASave == \A d \in journal : StoredIn(d) \in durable \cup {Corrupt}

\* A start that finds session.json without having lost power is given the
\* session of the last successful save or the one that was being saved when
\* the process died, never an older one.
RestartKeepsSession ==
  [][pc = "down" /\ pc' = "idle" => saved' \in {saved, tmp}]_vars

\* The documented recovery: a start that cannot use session.json and finds a
\* good backup is given the backup.
RecoversFromBackup ==
  [][pc = "down" /\ pc' # "down" /\ path \notin Session /\ bak \in Session
       => saved' = bak /\ ~booting']_vars

\* The backup that a save leaves is the session it replaced, or the damaged file
\* of a daemon that was started from the backup; never an older session,
\* whatever fails, dies, loses power or is damaged before it (store.go:120-130).
\* So the first damaged file costs the last save at most. A second one may cost
\* everything: the first save of a daemon that was started from the backup puts
\* the damaged file in the place of the good backup.
BackupTrailsByOneSave ==
  [][pc = "installed" /\ pc' = "idle" /\ ~booting => bak' \in {saved, Corrupt}]_vars

\* The store implements one stored session that is replaced atomically.
SavedSession == INSTANCE SavedSession
  WITH stored <- Stored,
       pending <- IF pc \in {"written", "moved", "installed"} THEN tmp ELSE Absent,
       known <- saved

ImplementsSavedSession == SavedSession!AbstractSpec
=============================================================================
