------------------------- MODULE SessionStoreProofs -------------------------
(***************************************************************************)
(* Proofs about SessionStore, for every set of sessions: types, that no    *)
(* instant of a save leaves something other than the old or the new        *)
(* session, that a power loss brings back a session that was saved, and    *)
(* that the store implements SavedSession.                                 *)
(***************************************************************************)
EXTENDS SessionStore, TLAPS

\* A save in progress: what each step of writeJSON has achieved so far.
Writing == /\ pc \in {"written", "moved", "installed"} => tmp \in Session
           /\ pc = "moved" => path = Absent
           /\ pc = "installed" => path = tmp

\* Types, and what each step of writeJSON has achieved when the next one starts,
\* whatever fails, crashes or is damaged.
LEMMA TypedWriting == Spec => [](TypeOK /\ Writing)
<1>1. Init => TypeOK /\ Writing
  <2>1. Init => path \in File /\ bak \in File
    BY DEF Init, File
  <2>2. Init => journal \subseteq Directory
    BY <2>1 DEF Init, Directory, Here
  <2>. QED
    BY <2>1, <2>2 DEF Init, TypeOK, Writing
<1>2. TypeOK /\ Writing /\ [Next]_vars => (TypeOK /\ Writing)'
  <2> SUFFICES ASSUME TypeOK, Writing, [Next]_vars
               PROVE  (TypeOK /\ Writing)'
    OBVIOUS
  <2> USE SessionAssumption DEF TypeOK, Writing, File, Directory, Here
  <2>1. ASSUME NEW s \in Session, WriteTemporary(s) PROVE (TypeOK /\ Writing)'
    BY <2>1 DEF WriteTemporary
  <2>2. CASE BackUp
    <3>1. path' \in File /\ bak' \in File
      BY <2>2 DEF BackUp
    <3>2. Here' \in Directory
      BY <3>1
    <3>. QED
      BY <2>2, <3>1, <3>2 DEF BackUp
  <2>3. CASE SkipBackUp
    BY <2>3 DEF SkipBackUp
  <2>4. CASE Install
    <3>1. path' \in File /\ bak' \in File
      BY <2>4 DEF Install
    <3>2. Here' \in Directory
      BY <3>1
    <3>. QED
      BY <2>4, <3>1, <3>2 DEF Install
  <2>5. CASE RenameFails
    BY <2>5 DEF RenameFails, Resting
  <2>6. CASE SyncDirectory
    <3>1. Here \in Directory
      OBVIOUS
    <3>. QED
      BY <2>6, <3>1 DEF SyncDirectory, Report
  <2>7. CASE SyncDirectoryFails
    BY <2>7 DEF SyncDirectoryFails, Report
  <2>8. CASE LoadPresent
    BY <2>8 DEF LoadPresent
  <2>9. CASE LoadBackup
    BY <2>9 DEF LoadBackup
  <2>10. CASE LoadMissing
    BY <2>10 DEF LoadMissing
  <2>11. CASE Crash
    BY <2>11 DEF Crash
  <2>12. CASE PowerLoss
    <3>1. PICK d \in journal : path' = d.path /\ bak' = d.bak
      BY <2>12 DEF PowerLoss
    <3>2. path' \in File /\ bak' \in File
      BY <3>1
    <3>3. Here' \in Directory
      BY <3>2
    <3>. QED
      BY <2>12, <3>2, <3>3 DEF PowerLoss
  <2>13. CASE Damage
    <3>1. path' \in File /\ bak' \in File
      BY <2>13 DEF Damage
    <3>2. Here' \in Directory
      BY <3>1
    <3>. QED
      BY <2>13, <3>1, <3>2 DEF Damage
  <2>14. CASE UNCHANGED vars
    BY <2>14 DEF vars
  <2>. QED
    BY <2>1, <2>2, <2>3, <2>4, <2>5, <2>6, <2>7, <2>8, <2>9, <2>10, <2>11,
       <2>12, <2>13, <2>14 DEF Next
<1>. QED
  BY <1>1, <1>2, PTL DEF Spec
-----------------------------------------------------------------------------
(* No instant loses both sessions *)

\* Which of the two sessions the directory holds at each step of a save. The
\* orphaned temporary file of an interrupted save is only of interest while
\* session.json holds it.
Progress == /\ pc \in {"idle", "written", "moved"} => Stored = saved
            /\ pc = "installed" => Stored = tmp
            /\ pc = "down" /\ path = Absent => Stored = saved
            /\ Stored \in {saved, tmp}

\* Progress is inductive where no power is lost and no file is damaged.
LEMMA ProgressStep ==
  ASSUME "power" \notin Faults, "corrupt" \notin Faults,
         TypeOK, Writing, Progress, [Next]_vars
  PROVE  Progress'
<1> USE SessionAssumption DEF TypeOK, Writing, Progress, Stored, StoredIn, Here
<1>1. ASSUME NEW s \in Session, WriteTemporary(s) PROVE Progress'
  BY <1>1 DEF WriteTemporary
<1>2. CASE BackUp
  BY <1>2 DEF BackUp
<1>3. CASE SkipBackUp
  BY <1>3 DEF SkipBackUp
<1>4. CASE Install
  BY <1>4 DEF Install
<1>5. CASE RenameFails
  BY <1>5 DEF RenameFails, Resting
<1>6. CASE SyncDirectory
  BY <1>6 DEF SyncDirectory, Report
<1>7. CASE SyncDirectoryFails
  BY <1>7 DEF SyncDirectoryFails, Report
<1>8. CASE LoadPresent
  BY <1>8 DEF LoadPresent
<1>9. CASE LoadBackup
  BY <1>9 DEF LoadBackup
<1>10. CASE LoadMissing
  BY <1>10 DEF LoadMissing
<1>11. CASE Crash
  BY <1>11 DEF Crash
<1>12. CASE PowerLoss
  BY <1>12 DEF PowerLoss
<1>13. CASE Damage
  BY <1>13 DEF Damage
<1>14. CASE UNCHANGED vars
  BY <1>14 DEF vars
<1>. QED
  BY <1>1, <1>2, <1>3, <1>4, <1>5, <1>6, <1>7, <1>8, <1>9, <1>10, <1>11,
     <1>12, <1>13, <1>14 DEF Next

\* Every variable of the store keeps its type, in every environment: what is
\* loaded or saved is always a whole session.
THEOREM TypeCorrect == Spec => []TypeOK
BY TypedWriting, PTL

\* Crashes, also ones that hit the gap between the renames, and failing calls
\* never leave a directory that holds neither the old nor the new session.
THEOREM CrashSafe ==
  ASSUME "power" \notin Faults, "corrupt" \notin Faults
  PROVE  Spec => []OldOrNew
<1>1. Init => Progress
  BY DEF Init, Progress, Stored, StoredIn, Here
<1>2. TypeOK /\ Writing /\ Progress /\ [Next]_vars => Progress'
  BY ProgressStep
<1>3. Progress => OldOrNew
  BY DEF Progress, OldOrNew
<1>. QED
  BY <1>1, <1>2, <1>3, TypedWriting, PTL DEF Spec

\* No damaged file appears without damage.
NoDamage == path # Corrupt /\ bak # Corrupt

\* No step damages a file but Damage.
LEMMA NoDamageStep ==
  ASSUME "power" \notin Faults, "corrupt" \notin Faults,
         TypeOK, Writing, NoDamage, [Next]_vars
  PROVE  NoDamage'
BY SessionAssumption
   DEF TypeOK, Writing, NoDamage, Next, WriteTemporary, BackUp, SkipBackUp, Install,
       RenameFails, SyncDirectory, SyncDirectoryFails, Report, LoadPresent,
       LoadBackup, LoadMissing, Crash, PowerLoss, Damage, vars

\* A restart is given the session of the last successful save or the one that
\* was being saved when the process died, for every crash and failing call.
THEOREM RestartSafe ==
  ASSUME "power" \notin Faults, "corrupt" \notin Faults
  PROVE  Spec => RestartKeepsSession
<1>1. Init => Progress /\ NoDamage
  BY SessionAssumption DEF Init, Progress, NoDamage, Stored, StoredIn, Here
<1>2. TypeOK /\ Writing /\ (Progress /\ NoDamage) /\ [Next]_vars
        => (Progress /\ NoDamage)'
  BY ProgressStep, NoDamageStep
<1>3. Progress /\ NoDamage /\ [Next]_vars
        => [pc = "down" /\ pc' = "idle" => saved' \in {saved, tmp}]_vars
  <2> SUFFICES ASSUME Progress, NoDamage, Next, pc = "down", pc' = "idle"
               PROVE  saved' \in {saved, tmp}
    OBVIOUS
  <2>1. LoadPresent \/ LoadBackup
    BY DEF Next, WriteTemporary, BackUp, SkipBackUp, Install, RenameFails,
           SyncDirectory, SyncDirectoryFails, Report, LoadMissing, Crash,
           PowerLoss, Damage
  <2>2. CASE LoadPresent
    BY <2>2, SessionAssumption
    DEF LoadPresent, Progress, Stored, StoredIn, Here
  <2>3. CASE LoadBackup
    BY <2>3 DEF LoadBackup, NoDamage
  <2>. QED
    BY <2>1, <2>2, <2>3
<1>. QED
  BY <1>1, <1>2, <1>3, TypedWriting, PTL DEF Spec, RestartKeepsSession
-----------------------------------------------------------------------------
(* Power loss *)

\* The directory is always one of the states a power loss may bring back.
PowerInv == Here \in journal /\ PowerLossBringsBackASave

\* PowerInv is inductive.
LEMMA PowerStep ==
  ASSUME TypeOK, Writing, PowerInv, [Next]_vars
  PROVE  PowerInv'
<1> USE SessionAssumption
    DEF TypeOK, Writing, PowerInv, PowerLossBringsBackASave, StoredIn, Here
<1>1. ASSUME NEW s \in Session, WriteTemporary(s) PROVE PowerInv'
  BY <1>1 DEF WriteTemporary
<1>2. CASE BackUp
  <2>1. StoredIn(Here') = StoredIn(Here)
    BY <1>2 DEF BackUp
  <2>. QED
    BY <1>2, <2>1 DEF BackUp
<1>3. CASE SkipBackUp
  BY <1>3 DEF SkipBackUp
<1>4. CASE Install
  BY <1>4 DEF Install
<1>5. CASE RenameFails
  BY <1>5 DEF RenameFails
<1>6. CASE SyncDirectory
  BY <1>6 DEF SyncDirectory, Report
<1>7. CASE SyncDirectoryFails
  BY <1>7 DEF SyncDirectoryFails, Report
<1>8. CASE LoadPresent
  BY <1>8 DEF LoadPresent
<1>9. CASE LoadBackup
  BY <1>9 DEF LoadBackup
<1>10. CASE LoadMissing
  BY <1>10 DEF LoadMissing
<1>11. CASE Crash
  BY <1>11 DEF Crash
<1>12. CASE PowerLoss
  <2>1. PICK d \in journal : path' = d.path /\ bak' = d.bak
    BY <1>12 DEF PowerLoss
  <2>2. StoredIn(Here') = StoredIn(d)
    BY <2>1
  <2>. QED
    BY <1>12, <2>2 DEF PowerLoss
<1>13. CASE Damage
  BY <1>13 DEF Damage
<1>14. CASE UNCHANGED vars
  BY <1>14 DEF vars
<1>. QED
  BY <1>1, <1>2, <1>3, <1>4, <1>5, <1>6, <1>7, <1>8, <1>9, <1>10, <1>11,
     <1>12, <1>13, <1>14 DEF Next

\* A power loss brings back the last synced save or a later one, also when it
\* falls between the two renames of writeJSON.
THEOREM PowerSafe == Spec => []PowerLossBringsBackASave
<1>1. Init => PowerInv
  BY DEF Init, PowerInv, PowerLossBringsBackASave, StoredIn, Here
<1>2. TypeOK /\ Writing /\ PowerInv /\ [Next]_vars => PowerInv'
  BY PowerStep
<1>3. PowerInv => PowerLossBringsBackASave
  BY DEF PowerInv
<1>. QED
  BY <1>1, <1>2, <1>3, TypedWriting, PTL DEF Spec
-----------------------------------------------------------------------------
(* The backup *)

\* While a caller holds a session, session.json is that session, or the damaged
\* file the caller was started without; once it has been moved away or replaced,
\* the backup is.
Trail == /\ ~booting /\ pc \in {"idle", "written"} /\ path # Absent => path \in {saved, Corrupt}
         /\ ~booting /\ pc \in {"idle", "written", "moved"} /\ path = Absent
              => bak \in {saved, Corrupt}
         /\ ~booting /\ pc = "installed" => bak \in {saved, Corrupt}
         /\ pc \in {"down", "idle"} => ~booting

\* Trail is inductive in every environment: a start reads the file it finds, and
\* what a power loss brings back is read by the start after it.
LEMMA TrailStep ==
  ASSUME TypeOK, Writing, Trail, [Next]_vars
  PROVE  Trail'
<1> USE SessionAssumption DEF TypeOK, Writing, Trail, Here
<1>1. ASSUME NEW s \in Session, WriteTemporary(s) PROVE Trail'
  BY <1>1 DEF WriteTemporary
<1>2. CASE BackUp
  BY <1>2 DEF BackUp
<1>3. CASE SkipBackUp
  BY <1>3 DEF SkipBackUp
<1>4. CASE Install
  BY <1>4 DEF Install
<1>5. CASE RenameFails
  BY <1>5 DEF RenameFails, Resting
<1>6. CASE SyncDirectory \/ SyncDirectoryFails
  BY <1>6 DEF SyncDirectory, SyncDirectoryFails, Report
<1>7. CASE LoadPresent
  BY <1>7 DEF LoadPresent
<1>8. CASE LoadBackup
  BY <1>8 DEF LoadBackup
<1>9. CASE LoadMissing
  BY <1>9 DEF LoadMissing
<1>10. CASE Crash
  BY <1>10 DEF Crash
<1>11. CASE PowerLoss
  BY <1>11 DEF PowerLoss
<1>12. CASE Damage
  BY <1>12 DEF Damage
<1>13. CASE UNCHANGED vars
  BY <1>13 DEF vars
<1>. QED
  BY <1>1, <1>2, <1>3, <1>4, <1>5, <1>6, <1>7, <1>8, <1>9, <1>10, <1>11,
     <1>12, <1>13 DEF Next

\* A successful save leaves as its backup the session it replaced, or the damaged
\* file its daemon was started without, in every environment: whatever renames
\* failed, wherever processes died, whatever power losses brought back and
\* whatever was damaged before it.
THEOREM BackupTrails == Spec => BackupTrailsByOneSave
<1>1. Init => Trail
  BY DEF Init, Trail
<1>2. TypeOK /\ Writing /\ Trail /\ [Next]_vars => Trail'
  BY TrailStep
<1>3. Trail /\ [Next]_vars
        => [pc = "installed" /\ pc' = "idle" /\ ~booting => bak' \in {saved, Corrupt}]_vars
  <2> SUFFICES ASSUME Trail, Next, pc = "installed", pc' = "idle", ~booting
               PROVE  bak' \in {saved, Corrupt}
    OBVIOUS
  <2>1. SyncDirectory \/ SyncDirectoryFails
    BY DEF Next, WriteTemporary, BackUp, SkipBackUp, Install, RenameFails,
           LoadPresent, LoadBackup, LoadMissing, Crash, PowerLoss, Damage
  <2>. QED
    BY <2>1 DEF SyncDirectory, SyncDirectoryFails, Report, Trail
<1>. QED
  BY <1>1, <1>2, <1>3, TypedWriting, PTL DEF Spec, BackupTrailsByOneSave

\* A start never finds a backup without session.json, and a first start has
\* none to begin with.
Unparted == /\ pc = "down" /\ path = Absent => bak = Absent
            /\ booting => bak = Absent /\ (pc = "written" => path = Absent)
            /\ pc \in {"down", "idle"} => ~booting

\* Only a process that ends while session.json is moved away leaves the backup
\* alone.
LEMMA UnpartedStep ==
  ASSUME "gap" \notin Faults, "strand" \notin Faults, TypeOK, Writing, Unparted, [Next]_vars
  PROVE  Unparted'
<1> USE SessionAssumption DEF TypeOK, Writing, Unparted, Here
<1>1. ASSUME NEW s \in Session, WriteTemporary(s) PROVE Unparted'
  BY <1>1 DEF WriteTemporary
<1>2. CASE BackUp
  BY <1>2 DEF BackUp
<1>3. CASE SkipBackUp
  BY <1>3 DEF SkipBackUp
<1>4. CASE Install
  BY <1>4 DEF Install
<1>5. CASE RenameFails
  BY <1>5 DEF RenameFails, Resting
<1>6. CASE SyncDirectory \/ SyncDirectoryFails
  BY <1>6 DEF SyncDirectory, SyncDirectoryFails, Report
<1>7. CASE LoadPresent
  BY <1>7 DEF LoadPresent
<1>8. CASE LoadBackup
  BY <1>8 DEF LoadBackup
<1>9. CASE LoadMissing
  BY <1>9 DEF LoadMissing
<1>10. CASE Crash
  BY <1>10 DEF Crash, InGap
<1>11. CASE PowerLoss
  BY <1>11 DEF PowerLoss, InGap
<1>12. CASE Damage
  BY <1>12 DEF Damage
<1>13. CASE UNCHANGED vars
  BY <1>13 DEF vars
<1>. QED
  BY <1>1, <1>2, <1>3, <1>4, <1>5, <1>6, <1>7, <1>8, <1>9, <1>10, <1>11,
     <1>12, <1>13 DEF Next

\* Unless a process ended while session.json was moved away (between the two
\* renames of a save, or after a save whose second rename failed), a start that
\* cannot use session.json and finds a good backup is given the backup, after
\* any power loss, failed call and damage.
THEOREM BackupRecovers ==
  ASSUME "gap" \notin Faults, "strand" \notin Faults
  PROVE  Spec => RecoversFromBackup
<1>1. Init => Unparted
  BY DEF Init, Unparted
<1>2. TypeOK /\ Writing /\ Unparted /\ [Next]_vars => Unparted'
  BY UnpartedStep
<1>3. TypeOK /\ Unparted /\ [Next]_vars
        => [pc = "down" /\ pc' # "down" /\ path \notin Session /\ bak \in Session
              => saved' = bak /\ ~booting']_vars
  <2> SUFFICES ASSUME TypeOK, Unparted, Next, pc = "down", pc' # "down",
                      path \notin Session, bak \in Session
               PROVE  saved' = bak /\ ~booting'
    OBVIOUS
  <2>1. LoadPresent \/ LoadBackup \/ LoadMissing
    BY DEF Next, WriteTemporary, BackUp, SkipBackUp, Install, RenameFails,
           SyncDirectory, SyncDirectoryFails, Report, Crash, PowerLoss, Damage
  <2>2. CASE LoadBackup
    BY <2>2 DEF LoadBackup, Unparted
  <2>3. ~LoadPresent /\ ~LoadMissing
    BY SessionAssumption DEF LoadPresent, LoadMissing, Unparted
  <2>. QED
    BY <2>1, <2>2, <2>3
<1>. QED
  BY <1>1, <1>2, <1>3, TypedWriting, PTL DEF Spec, RecoversFromBackup
-----------------------------------------------------------------------------
(* Refinement of SavedSession *)

\* Where no process ends while session.json is moved away, one that is down or
\* still creating the default session has no backup without a session.json; a
\* caller that may save holds a session.
GapFree == /\ pc = "down" /\ path = Absent => bak = Absent
           /\ booting => bak = Absent
           /\ booting /\ pc = "written" => path = Absent
           /\ pc \in {"down", "idle"} => ~booting
           /\ pc = "idle" => saved # Absent
           /\ ~booting /\ pc \in {"written", "moved", "installed"} => saved # Absent

\* GapFree is inductive where no process ends while session.json is moved away.
LEMMA GapFreeStep ==
  ASSUME Faults \subseteq {"io", "crash"},
         TypeOK, Writing, Progress, GapFree, [Next]_vars
  PROVE  GapFree'
<1> USE SessionAssumption
    DEF TypeOK, Writing, Progress, GapFree, Stored, StoredIn, Here
<1>1. ASSUME NEW s \in Session, WriteTemporary(s) PROVE GapFree'
  BY <1>1 DEF WriteTemporary
<1>2. CASE BackUp
  BY <1>2 DEF BackUp
<1>3. CASE SkipBackUp
  BY <1>3 DEF SkipBackUp
<1>4. CASE Install
  BY <1>4 DEF Install
<1>5. CASE RenameFails
  BY <1>5 DEF RenameFails, Resting
<1>6. CASE SyncDirectory
  BY <1>6 DEF SyncDirectory, Report
<1>7. CASE SyncDirectoryFails
  BY <1>7 DEF SyncDirectoryFails, Report
<1>8. CASE LoadPresent
  BY <1>8 DEF LoadPresent
<1>9. CASE LoadBackup
  BY <1>9 DEF LoadBackup
<1>10. CASE LoadMissing
  BY <1>10 DEF LoadMissing
<1>11. CASE Crash
  BY <1>11 DEF Crash, InGap
<1>12. CASE PowerLoss
  BY <1>12 DEF PowerLoss
<1>13. CASE Damage
  BY <1>13 DEF Damage
<1>14. CASE UNCHANGED vars
  BY <1>14 DEF vars
<1>. QED
  BY <1>1, <1>2, <1>3, <1>4, <1>5, <1>6, <1>7, <1>8, <1>9, <1>10, <1>11,
     <1>12, <1>13, <1>14 DEF Next

\* Every step of the store is a step of SavedSession or leaves it unchanged.
LEMMA StoreStep ==
  ASSUME Faults \subseteq {"io", "crash"},
         TypeOK, Writing, Progress, GapFree, NoDamage, [Next]_vars
  PROVE  [SavedSession!AbstractNext]_SavedSession!abstractVars
<1> USE SessionAssumption
    DEF TypeOK, Writing, Progress, GapFree, NoDamage, Stored, StoredIn, Here,
        SavedSession!AbstractNext, SavedSession!abstractVars
<1>1. ASSUME NEW s \in Session, WriteTemporary(s)
      PROVE  SavedSession!AbstractNext
  <2>1. SavedSession!Begin(s)
    BY <1>1 DEF WriteTemporary, SavedSession!Begin
  <2>. QED
    BY <1>1, <2>1 DEF WriteTemporary
<1>2. CASE BackUp
  BY <1>2 DEF BackUp
<1>3. CASE SkipBackUp
  BY <1>3 DEF SkipBackUp
<1>4. CASE Install
  BY <1>4 DEF Install, SavedSession!Commit
<1>5. CASE RenameFails
  BY <1>5 DEF RenameFails, Resting, SavedSession!GiveUp
<1>6. CASE SyncDirectory
  BY <1>6 DEF SyncDirectory, Report, SavedSession!Acknowledge
<1>7. CASE SyncDirectoryFails
  BY <1>7 DEF SyncDirectoryFails, Report, SavedSession!Acknowledge
<1>8. CASE LoadPresent
  BY <1>8 DEF LoadPresent, SavedSession!Recover
<1>9. CASE LoadBackup
  BY <1>9 DEF LoadBackup
<1>10. CASE LoadMissing
  BY <1>10 DEF LoadMissing, SavedSession!Create, SavedSession!Begin
<1>11. CASE Crash
  BY <1>11 DEF Crash, SavedSession!GiveUp
<1>12. CASE PowerLoss
  BY <1>12 DEF PowerLoss
<1>13. CASE Damage
  BY <1>13 DEF Damage
<1>14. CASE UNCHANGED vars
  BY <1>14 DEF vars
<1>. QED
  BY <1>1, <1>2, <1>3, <1>4, <1>5, <1>6, <1>7, <1>8, <1>9, <1>10, <1>11,
     <1>12, <1>13, <1>14 DEF Next

\* As long as no process ends while session.json is moved away, session.json
\* and its backup together behave as one session that is replaced atomically.
THEOREM StoreRefinesSavedSession ==
  ASSUME Faults \subseteq {"io", "crash"}
  PROVE  Spec => ImplementsSavedSession
<1>1. Init => Progress /\ GapFree /\ NoDamage
  BY SessionAssumption DEF Init, Progress, GapFree, NoDamage, Stored, StoredIn, Here
<1>2. TypeOK /\ Writing /\ (Progress /\ GapFree /\ NoDamage) /\ [Next]_vars
        => (Progress /\ GapFree /\ NoDamage)'
  BY ProgressStep, GapFreeStep, NoDamageStep
<1>3. Init => SavedSession!AbstractInit
  BY DEF Init, SavedSession!AbstractInit, Stored, StoredIn, Here
<1>4. TypeOK /\ Writing /\ (Progress /\ GapFree /\ NoDamage) /\ [Next]_vars
        => [SavedSession!AbstractNext]_SavedSession!abstractVars
  BY StoreStep
<1>. QED
  BY <1>1, <1>2, <1>3, <1>4, TypedWriting, PTL
  DEF Spec, ImplementsSavedSession, SavedSession!AbstractSpec
=============================================================================
