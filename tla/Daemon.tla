------------------------------- MODULE Daemon -------------------------------
(***************************************************************************)
(* internal/daemon: the torrent daemon's control plane. One process keeps  *)
(* four views of every torrent in step: the saved session (session.json),  *)
(* the session in memory, the engine, and the snapshots that an actor      *)
(* goroutine serves to clients; a fifth map remembers what the scheduler   *)
(* last told the engine. RPC handlers and the one-second reconcile pass    *)
(* run one at a time under controlMu, in several steps each; cancellation, *)
(* the actor's exit, the torrents' own progress and a crash fall between   *)
(* any two of them.                                                        *)
(*                                                                         *)
(* An operation that fails before it has changed anything is a stuttering  *)
(* step and has no action. A failed save leaves session.json as it was;    *)
(* SessionStore models the save itself.                                    *)
(***************************************************************************)
EXTENDS Integers, FiniteSets, SequencesExt

CONSTANTS TorrentID,           \* info hashes
          File,                \* file indexes of a torrent
          Priority,            \* model.FilePriority
          NormalPriority,      \* model.FilePriorityNormal
          Requests,            \* the RPC requests clients send
          MaxActiveDownloads,  \* config limits, 0 for none
          MaxActiveSeeds,
          MetadataAtAdd,       \* may a source carry its metadata (.torrent), or not (magnet)?
          Faults               \* what may go wrong

\* "save": session.json cannot be written, except for a file's priority, which
\* is "savepriority"; "source": a torrent file or link no longer loads; "drift":
\* it has become another torrent; "io": verifying or removing a torrent's data
\* fails; "close": closing a torrent's storage fails when it is removed, or
\* opening it when that is undone; "listener": accepting connections fails;
\* "cancel": the daemon is told to stop; "crash": it is killed.
FaultKind == {"save", "savepriority", "source", "drift", "io", "close", "listener",
              "cancel", "crash"}

Map(S, T) == UNION {[D -> T] : D \in SUBSET S}

AddRequest == [method : {"add"}, id : TorrentID, paused : BOOLEAN, sequential : BOOLEAN]
TorrentRequest == [method : {"pause", "resume", "verify", "remove"}, id : TorrentID]
MoveRequest == [method : {"move"}, id : TorrentID, offset : {-1, 1}]
SequentialRequest == [method : {"sequential"}, id : TorrentID, enabled : BOOLEAN]
PriorityRequest == [method : {"priority"}, id : TorrentID, file : File, priority : Priority]

\* The requests that change state; an add names the torrent its source holds.
Request == AddRequest \cup TorrentRequest \cup MoveRequest \cup SequentialRequest
             \cup PriorityRequest

ASSUME RequestAssumption == Requests \subseteq Request
ASSUME LimitAssumption == MaxActiveDownloads \in Nat /\ MaxActiveSeeds \in Nat
ASSUME PriorityAssumption == NormalPriority \in Priority
ASSUME MetadataAssumption == MetadataAtAdd \subseteq BOOLEAN
ASSUME FaultsAssumption == Faults \subseteq FaultKind

VARIABLES disk,       \* session.json
          session,    \* d.session
          torrents,   \* the actor's sessionState
          engine,     \* the engine's torrents
          scheduled,  \* d.scheduled
          phase,      \* down, starting (before Listen), serving
          cancelled,  \* the daemon's context is cancelled
          actor,      \* the actor goroutine is running
          step,       \* where the holder of controlMu is
          req,        \* the request being handled
          got,        \* the snapshot its handler read
          previous,   \* the session a removal would put back
          todo,       \* torrents the restore or the pass has still to visit
          active,     \* the pass's counts of admitted downloads and seeds
          acked,      \* history: what clients were last told of each torrent
          lost        \* history: torrents whose failed removal was not undone

store == <<disk, session>>
life == <<phase, cancelled, actor>>
pass == <<todo, active>>
history == <<acked, lost>>
vars == <<disk, session, torrents, engine, scheduled, phase, cancelled, actor,
          step, req, got, previous, todo, active, acked, lost>>

Desired == {"downloading", "paused"}

TorrentRecord == [desired : Desired, sequential : BOOLEAN, priorities : Map(File, Priority)]

SessionType == [order : Seq(TorrentID), torrents : Map(TorrentID, TorrentRecord)]

TorrentState == {"fetching_metadata", "queued", "downloading", "seeding", "paused", "error"}

\* `done' stands for Progress >= 1.
TorrentSnapshot == [state : TorrentState, done : BOOLEAN, sequential : BOOLEAN]

\* The engine's torrentEntry, with what its torrent knows (info) and has (done).
\* A removal that stopped half way leaves an entry whose torrent was dropped: it
\* transfers nothing, and the torrent can be added again. Two fields are history:
\* `bare', it was added again without the priorities that its record has; `stray',
\* the add that made it could not be recorded and did not get rid of it.
TorrentEntry == [paused : BOOLEAN, sequential : BOOLEAN, priorities : Map(File, Priority),
                 info : BOOLEAN, done : BOOLEAN, dropped : BOOLEAN,
                 bare : BOOLEAN, stray : BOOLEAN]

Nothing == <<>>

EmptySession == [order |-> <<>>, torrents |-> Nothing]

NoRequest == [method |-> "none"]
ErrorSnapshot == [state |-> "error", done |-> FALSE, sequential |-> FALSE]
NoneActive == [downloads |-> 0, seeds |-> 0]

\* Go's m[k] = v and delete(m, k).
MapSet(m, k, v) == [x \in DOMAIN m \cup {k} |-> IF x = k THEN v ELSE m[x]]
MapDelete(m, k) == Restrict(m, DOMAIN m \ {k})

\* Mutant: a key that is there is appended again.
AppendedAgain(order, m, k) == Append(order, k)

\* A list that pairs an order with a map, as the session and the actor keep it:
\* a new key is appended.
Appended(order, m, k) == IF k \in DOMAIN m THEN order ELSE Append(order, k)

\* The order after torrent k has moved by offset; it stays at either end.
Moved(order, k, offset) ==
  LET i == CHOOSE i \in DOMAIN order : order[i] = k
      j == i + offset
  IN  IF Contains(order, k) /\ j \in DOMAIN order
        THEN [order EXCEPT ![i] = order[j], ![j] = order[i]]
        ELSE order

\* What session s says a client asked of a torrent.
DesiredIn(s, id) == IF id \in DOMAIN s.torrents THEN s.torrents[id].desired ELSE "none"

Init == /\ disk = EmptySession
        /\ session = EmptySession
        /\ torrents = [order |-> <<>>, snaps |-> Nothing]
        /\ engine = Nothing
        /\ scheduled = Nothing
        /\ phase = "down"
        /\ cancelled = FALSE
        /\ actor = FALSE
        /\ step = "idle"
        /\ req = NoRequest
        /\ got = ErrorSnapshot
        /\ previous = EmptySession
        /\ todo = <<>>
        /\ active = NoneActive
        /\ acked = [id \in TorrentID |-> "none"]
        /\ lost = {}
-----------------------------------------------------------------------------
(* The engine and the actor, as the daemon uses them *)

\* Every engine operation first checks its context and looks the torrent up.
CanCall(id) == ~cancelled /\ id \in DOMAIN engine

\* The engine has the torrent, and it was not dropped.
Live(id) == id \in DOMAIN engine /\ ~engine[id].dropped

\* Mutant: the priorities given to engine.Add are dropped.
NewEntryWithoutPriorities(paused, sequential, priorities, info) ==
  [paused |-> paused, sequential |-> sequential, priorities |-> Nothing,
   info |-> info, done |-> FALSE, dropped |-> FALSE,
   bare |-> FALSE, stray |-> FALSE]

NewEntry(paused, sequential, priorities, info) ==
  [paused |-> paused, sequential |-> sequential, priorities |-> priorities,
   info |-> info, done |-> FALSE, dropped |-> FALSE,
   bare |-> FALSE, stray |-> FALSE]

SnapshotOf(e) ==
  [state |-> CASE e.paused                -> "paused"
               [] ~e.paused /\ ~e.info    -> "fetching_metadata"
               [] ~e.paused /\ e.done     -> "seeding"
               [] OTHER                   -> "downloading",
   done |-> e.done,
   sequential |-> e.sequential]

\* torrentSession.put; it waits for the actor.
PutSnapshot(id, s) ==
  /\ actor
  /\ torrents' = [order |-> Appended(torrents.order, torrents.snaps, id),
                  snaps |-> MapSet(torrents.snaps, id, s)]

\* The torrent's metadata arrives.
GotInfo(id) == /\ Live(id)
               /\ ~engine[id].info
               /\ engine' = [engine EXCEPT ![id].info = TRUE]
               /\ UNCHANGED <<store, torrents, scheduled, life, step, req, got, previous,
                              pass, history>>

\* Its last piece is downloaded, or found on disk by the first hash check.
Complete(id) == /\ Live(id)
                /\ engine[id].info
                /\ ~engine[id].done
                /\ engine' = [engine EXCEPT ![id].done = TRUE]
                /\ UNCHANGED <<store, torrents, scheduled, life, step, req, got, previous,
                               pass, history>>
-----------------------------------------------------------------------------
(* Start: loadState, restoreSession, the first pass *)

Start == /\ phase = "down"
         /\ session' = disk
         /\ phase' = "starting"
         /\ actor' = TRUE
         /\ step' = "restore"
         /\ todo' = disk.order
         /\ UNCHANGED <<disk, torrents, engine, scheduled, cancelled, req, got, previous,
                        active, history>>

Restoring(id) == /\ step = "restore"
                 /\ todo # <<>>
                 /\ id = Head(todo)
                 /\ todo' = Tail(todo)
                 /\ UNCHANGED <<store, scheduled, life, step, req, got, previous, active,
                                history>>

\* engine.Add and Pause succeed. If a drifted source has already added the
\* torrent, Add leaves its entry alone.
AddRestored(id) ==
  LET record == session.torrents[id]
      paused == record.desired = "paused"
  IN  \E info \in MetadataAtAdd :
        engine' = IF id \in DOMAIN engine
                    THEN [engine EXCEPT ![id].paused = paused \/ @]
                    ELSE MapSet(engine, id, NewEntry(paused, record.sequential,
                                                     record.priorities, info))

\* So does Snapshot.
Restore(id) == /\ Restoring(id)
               /\ ~cancelled
               /\ AddRestored(id)
               /\ PutSnapshot(id, SnapshotOf(engine'[id]))

\* The source does not load, or the daemon has been told to stop, before Add or
\* between two of the calls. (A pause that is cut short after Add changes only a
\* drifted torrent; the daemon stops.)
RestoreFails(id) == /\ Restoring(id)
                    /\ \/ /\ cancelled \/ "source" \in Faults
                          /\ UNCHANGED engine
                       \/ /\ cancelled
                          /\ AddRestored(id)
                    /\ PutSnapshot(id, ErrorSnapshot)

\* The source now holds another torrent, which stays in the engine.
RestoreOther(id) ==
  LET record == session.torrents[id]
  IN  /\ Restoring(id)
      /\ ~cancelled
      /\ "drift" \in Faults
      /\ \E other \in TorrentID \ {id}, info \in MetadataAtAdd :
           engine' = IF other \in DOMAIN engine
                       THEN engine
                       ELSE MapSet(engine, other, NewEntry(record.desired = "paused",
                                     record.sequential, record.priorities, info))
      /\ PutSnapshot(id, ErrorSnapshot)

\* The first pass begins, or list fails and the daemon goes on to Listen.
Restored == /\ step = "restore"
            /\ todo = <<>>
            /\ \/ /\ actor
                  /\ step' = "pass"
                  /\ todo' = torrents.order
                  /\ UNCHANGED phase
               \/ /\ cancelled
                  /\ step' = "idle"
                  /\ phase' = "serving"
                  /\ UNCHANGED todo
            /\ UNCHANGED <<store, torrents, engine, scheduled, cancelled, actor, req, got,
                           previous, active, history>>
-----------------------------------------------------------------------------
(* reconcileSchedule, one torrent at a time *)

\* The ticker of refreshTorrents fires and list succeeds.
StartPass == /\ phase = "serving"
             /\ step = "idle"
             /\ actor
             /\ step' = "pass"
             /\ todo' = torrents.order
             /\ UNCHANGED <<store, torrents, engine, scheduled, life, req, got, previous,
                            active, history>>

\* After the first pass the daemon starts to listen.
EndPass == /\ step = "pass"
           /\ todo = <<>>
           /\ step' = "idle"
           /\ phase' = "serving"
           /\ active' = NoneActive
           /\ UNCHANGED <<store, torrents, engine, scheduled, cancelled, actor, req, got,
                          previous, todo, history>>

Visiting(id) == /\ step = "pass"
                /\ todo # <<>>
                /\ id = Head(todo)
                /\ todo' = Tail(todo)
                /\ UNCHANGED <<store, life, step, req, got, previous, history>>

\* setScheduled: the engine is only told when the cache does not say it was.
CachedAs(id, running) == id \in DOMAIN scheduled /\ scheduled[id] = running

SetScheduled(id, running) ==
  /\ CanCall(id)
  /\ ~CachedAs(id, running)
  /\ engine' = [engine EXCEPT ![id].paused = ~running]
  /\ scheduled' = MapSet(scheduled, id, running)

KeepScheduled(id, running) ==
  /\ CachedAs(id, running) \/ ~CanCall(id)
  /\ UNCHANGED <<engine, scheduled>>

\* engine.Snapshot, or the listed snapshot if it fails.
Fresh(id) == IF CanCall(id) THEN SnapshotOf(engine'[id]) ELSE torrents.snaps[id]

\* put with the daemon's context: it may give up once that is cancelled.
PutOrGiveUp(id, s) == \/ PutSnapshot(id, s)
                      \/ cancelled /\ UNCHANGED torrents

Stop(id, state) == /\ SetScheduled(id, FALSE) \/ KeepScheduled(id, FALSE)
                   /\ PutOrGiveUp(id, [Fresh(id) EXCEPT !.state = state])
                   /\ UNCHANGED active

Class(id) == IF torrents.snaps[id].done THEN "seeds" ELSE "downloads"

LimitOf(class) == IF class = "seeds" THEN MaxActiveSeeds ELSE MaxActiveDownloads

\* Mutant: off by one.
PastLimit(id) == LimitOf(Class(id)) > 0 /\ active[Class(id)] > LimitOf(Class(id))

AtLimit(id) == LimitOf(Class(id)) > 0 /\ active[Class(id)] >= LimitOf(Class(id))

\* No record: the torrent is left as it is.
PassSkips(id) == /\ Visiting(id)
                 /\ id \notin DOMAIN session.torrents
                 /\ UNCHANGED <<torrents, engine, scheduled, active>>

PassPauses(id) == /\ Visiting(id)
                  /\ DesiredIn(session, id) = "paused"
                  /\ Stop(id, "paused")

PassQueues(id) == /\ Visiting(id)
                  /\ DesiredIn(session, id) = "downloading"
                  /\ AtLimit(id)
                  /\ Stop(id, "queued")

PassRuns(id) == /\ Visiting(id)
                /\ DesiredIn(session, id) = "downloading"
                /\ ~AtLimit(id)
                /\ SetScheduled(id, TRUE) \/ (CachedAs(id, TRUE) /\ KeepScheduled(id, TRUE))
                /\ active' = [active EXCEPT ![Class(id)] = @ + 1]
                /\ PutOrGiveUp(id, Fresh(id))

\* Resume fails: not admitted, not counted, its snapshot not refreshed.
PassCannotRun(id) == /\ Visiting(id)
                     /\ DesiredIn(session, id) = "downloading"
                     /\ ~AtLimit(id)
                     /\ ~CachedAs(id, TRUE)
                     /\ KeepScheduled(id, TRUE)
                     /\ UNCHANGED <<torrents, active>>
-----------------------------------------------------------------------------
(* RPC handlers: what they share *)

\* A handler takes controlMu. Handlers of open connections still run after the
\* cancellation, until Run has waited for them.
Takes(r) == /\ phase = "serving"
            /\ step = "idle"
            /\ req' = r

\* torrents.get succeeds and the engine can be called.
Finds(id) == actor /\ id \in DOMAIN torrents.snaps /\ CanCall(id)

Finish == /\ step' = "idle"
          /\ req' = NoRequest
          /\ got' = ErrorSnapshot
          /\ previous' = EmptySession

\* SaveSession succeeds with s, which becomes the session in memory too.
Save(s) == disk' = s /\ session' = s

SaveMayFail == (IF req.method = "priority" THEN "savepriority" ELSE "save") \in Faults

\* The record changes that updateRecord is called for.
UpdatedRecord(record, r) ==
  CASE r.method = "pause" -> [record EXCEPT !.desired = "paused"]
    [] r.method = "resume" -> [record EXCEPT !.desired = "downloading"]
    [] r.method = "sequential" -> [record EXCEPT !.sequential = r.enabled]
    [] r.method = "priority" ->
         [record EXCEPT !.priorities = MapSet(@, r.file, r.priority)]

UpdatedSession == [session EXCEPT !.torrents[req.id] = UpdatedRecord(@, req)]

\* filePriority: what the session says of a file.
SavedPriority(r) ==
  LET priorities == session.torrents[r.id].priorities
  IN  IF r.file \in DOMAIN priorities THEN priorities[r.file] ELSE NormalPriority

\* engine.SetSequential and engine.SetFilePriority, which keep the other options.
WithSequential(e, enabled) == [e EXCEPT !.sequential = enabled]

WithPriority(e, file, priority) == [e EXCEPT !.priorities = MapSet(@, file, priority)]

\* The engine operation of a request, and the one its handler undoes it with.
Applied(e, r) ==
  CASE r.method = "pause" -> [e EXCEPT !.paused = TRUE]
    [] r.method = "resume" -> [e EXCEPT !.paused = FALSE]
    [] r.method = "sequential" -> WithSequential(e, r.enabled)
    [] r.method = "priority" -> WithPriority(e, r.file, r.priority)

Undone(e, r) ==
  CASE r.method = "pause" -> [e EXCEPT !.paused = FALSE]
    [] r.method = "resume" -> [e EXCEPT !.paused = TRUE]
    [] r.method = "sequential" -> WithSequential(e, got.sequential)
    [] r.method = "priority" -> WithPriority(e, r.file, SavedPriority(r))

\* The snapshot a handler puts at its end.
FinalSnapshot ==
  CASE req.method = "pause" -> [got EXCEPT !.state = "paused"]
    [] req.method = "resume" -> [got EXCEPT !.state = "downloading"]
    [] req.method = "sequential" -> [got EXCEPT !.sequential = req.enabled]
    [] req.method = "add" -> got

\* The handler answers: the client now knows what is saved for the torrent.
Acknowledge == acked' = [acked EXCEPT ![req.id] = DesiredIn(disk, req.id)]
-----------------------------------------------------------------------------
(* pauseTorrent, resumeTorrent, setSequential, setFilePriority *)

\* Mutant: pause and resume leave the scheduler's cache alone.
ApplyDesiredKeepsCache(r) == /\ r.method \in {"pause", "resume"}
                             /\ Takes(r)
                             /\ Finds(r.id)
                             /\ got' = torrents.snaps[r.id]
                             /\ engine' = [engine EXCEPT ![r.id] = Applied(@, r)]
                             /\ step' = "update"
                             /\ UNCHANGED <<store, torrents, scheduled, life, previous, pass,
                                            history>>

\* pause and resume forget what the scheduler last told the engine.
ApplyDesired(r) == /\ r.method \in {"pause", "resume"}
                   /\ Takes(r)
                   /\ Finds(r.id)
                   /\ got' = torrents.snaps[r.id]
                   /\ engine' = [engine EXCEPT ![r.id] = Applied(@, r)]
                   /\ scheduled' = MapDelete(scheduled, r.id)
                   /\ step' = "update"
                   /\ UNCHANGED <<store, torrents, life, previous, pass, history>>

ApplySequential(r) == /\ r.method = "sequential"
                      /\ Takes(r)
                      /\ Finds(r.id)
                      /\ got' = torrents.snaps[r.id]
                      /\ engine' = [engine EXCEPT ![r.id] = Applied(@, r)]
                      /\ step' = "update"
                      /\ UNCHANGED <<store, torrents, scheduled, life, previous, pass,
                                     history>>

\* It needs a record and the torrent's metadata.
ApplyPriority(r) == /\ r.method = "priority"
                    /\ Takes(r)
                    /\ Finds(r.id)
                    /\ r.id \in DOMAIN session.torrents
                    /\ engine[r.id].info
                    /\ engine' = [engine EXCEPT ![r.id] = Applied(@, r)]
                    /\ step' = "update"
                    /\ UNCHANGED <<store, torrents, scheduled, life, got, previous, pass,
                                   history>>

\* updateRecord succeeds; setFilePriority has nothing to put and is done.
UpdateRecord == /\ step = "update"
                /\ req.id \in DOMAIN session.torrents
                /\ Save(UpdatedSession)
                /\ \/ /\ req.method = "priority"
                      /\ Finish
                   \/ /\ req.method # "priority"
                      /\ step' = "put"
                      /\ UNCHANGED <<req, got, previous>>
                /\ UNCHANGED <<torrents, engine, scheduled, life, pass, history>>

\* updateRecord works on a copy of the session whose records share their
\* priority maps with it: a priority stays in d.session when the save fails,
\* unless the record had no map yet.
SharedMapUpdate ==
  IF /\ req.method = "priority"
     /\ session.torrents[req.id].priorities # Nothing
    THEN UpdatedSession
    ELSE session

\* Mutant: the record is changed in memory before the save that fails.
UpdateRecordFailsInMemory ==
  /\ step = "update"
  /\ engine' = [engine EXCEPT ![req.id] = Undone(@, req)]
  /\ req.id \in DOMAIN session.torrents
  /\ SaveMayFail
  /\ session' = UpdatedSession
  /\ Finish
  /\ UNCHANGED <<disk, torrents, scheduled, life, pass, history>>

\* updateRecord fails: the engine operation is undone.
UpdateRecordFails == /\ step = "update"
                     /\ engine' = [engine EXCEPT ![req.id] = Undone(@, req)]
                     /\ \/ /\ req.id \notin DOMAIN session.torrents
                           /\ UNCHANGED session
                        \/ /\ req.id \in DOMAIN session.torrents
                           /\ SaveMayFail
                           /\ session' = SharedMapUpdate
                     /\ Finish
                     /\ UNCHANGED <<disk, torrents, scheduled, life, pass, history>>

\* The last step of pause, resume, sequential and add.
PutTorrent == /\ step = "put"
              /\ PutSnapshot(req.id, FinalSnapshot)
              /\ Acknowledge
              /\ Finish
              /\ UNCHANGED <<store, engine, scheduled, life, pass, lost>>
-----------------------------------------------------------------------------
(* verifyTorrent *)

WasPaused == got.state = "paused"

\* Unless the snapshot says paused, the torrent is paused for the check.
StartVerify(r) ==
  /\ r.method = "verify"
  /\ Takes(r)
  /\ Finds(r.id)
  /\ got' = torrents.snaps[r.id]
  /\ \/ /\ WasPaused'
        /\ UNCHANGED <<engine, scheduled>>
     \/ /\ ~WasPaused'
        /\ engine' = [engine EXCEPT ![r.id].paused = TRUE]
        /\ scheduled' = MapDelete(scheduled, r.id)
  /\ step' = "verify"
  /\ UNCHANGED <<store, torrents, life, previous, pass, history>>

\* The hash check ends and finds the data complete or not; the torrent is
\* resumed, unless the daemon is told to stop between the two calls.
Verified == /\ step = "verify"
            /\ Live(req.id)
            /\ engine[req.id].info
            /\ \E done \in BOOLEAN, stopped \in {WasPaused, WasPaused \/ cancelled} :
                 engine' = [engine EXCEPT ![req.id].done = done,
                                          ![req.id].paused = @ /\ stopped]
            /\ Finish
            /\ UNCHANGED <<store, torrents, scheduled, life, pass, history>>

\* Mutant: a failed check resumes the torrent whatever it was before.
VerifyFailsRunning == /\ step = "verify"
                      /\ \/ cancelled \/ "io" \in Faults
                         \/ ~engine[req.id].info \/ ~Live(req.id)
                      /\ engine' = [engine EXCEPT ![req.id].paused = FALSE]
                      /\ Finish
                      /\ UNCHANGED <<store, torrents, scheduled, life, pass, history>>

\* It fails, or there is no metadata or torrent to check, or it is cut short:
\* the torrent is resumed.
VerifyFails == /\ step = "verify"
               /\ \/ cancelled \/ "io" \in Faults
                  \/ ~engine[req.id].info \/ ~Live(req.id)
               /\ engine' = [engine EXCEPT ![req.id].paused = @ /\ WasPaused]
               /\ Finish
               /\ UNCHANGED <<store, torrents, scheduled, life, pass, history>>
-----------------------------------------------------------------------------
(* torrent.add *)

\* Mutant: the record takes the state that a new torrent is in.
RecordOfState(r) ==
  [desired |-> IF r.paused THEN "paused" ELSE "fetching_metadata",
   sequential |-> r.sequential,
   priorities |-> IF r.id \in DOMAIN session.torrents
                    THEN session.torrents[r.id].priorities
                    ELSE Nothing]

\* Mutant: the download order is not recorded.
RecordOfRandom(r) ==
  [desired |-> IF r.paused THEN "paused" ELSE "downloading",
   sequential |-> FALSE,
   priorities |-> IF r.id \in DOMAIN session.torrents
                    THEN session.torrents[r.id].priorities
                    ELSE Nothing]

\* recordTorrent: a record that is already there keeps its place and its
\* priorities.
RecordOf(r) ==
  [desired |-> IF r.paused THEN "paused" ELSE "downloading",
   sequential |-> r.sequential,
   priorities |-> IF r.id \in DOMAIN session.torrents
                    THEN session.torrents[r.id].priorities
                    ELSE Nothing]

\* engine.Add creates the torrent, also in place of one that was dropped. (One
\* the library runs is reported, and its entry and its record are left alone;
\* what such an add does to the library torrent is in Engine, AddAgain.)
AddToEngine(r) ==
  /\ r.method = "add"
  /\ Takes(r)
  /\ ~cancelled
  /\ ~Live(r.id)
  /\ \E info \in MetadataAtAdd :
       engine' = MapSet(engine, r.id,
                        [NewEntry(r.paused, r.sequential, Nothing, info)
                           EXCEPT !.bare = RecordOf(r).priorities # Nothing])
  /\ step' = "added"
  /\ UNCHANGED <<store, torrents, scheduled, life, got, previous, pass, history>>

RecordTorrent ==
  /\ step = "added"
  /\ ~cancelled
  /\ got' = SnapshotOf(engine[req.id])
  /\ Save([order |-> Appended(session.order, session.torrents, req.id),
           torrents |-> MapSet(session.torrents, req.id, RecordOf(req))])
  /\ step' = "put"
  /\ UNCHANGED <<torrents, engine, scheduled, life, req, previous, pass, history>>

\* The save fails: the torrent is taken out of the engine again. Should that
\* fail, which is ignored, its entry stays, and only its torrent is dropped.
RecordTorrentFails == /\ step = "added"
                      /\ ~cancelled
                      /\ SaveMayFail
                      /\ \/ engine' = MapDelete(engine, req.id)
                         \/ /\ "close" \in Faults
                            /\ engine' = [engine EXCEPT ![req.id].dropped = TRUE,
                                                        ![req.id].stray = TRUE]
                      /\ Finish
                      /\ UNCHANGED <<store, torrents, scheduled, life, pass, history>>

\* Snapshot fails because the daemon was told to stop.
AddInterrupted == /\ step = "added"
                  /\ cancelled
                  /\ Finish
                  /\ UNCHANGED <<store, torrents, engine, scheduled, life, pass, history>>
-----------------------------------------------------------------------------
(* removeTorrent *)

RemoveRecord(r) == /\ r.method = "remove"
                   /\ Takes(r)
                   /\ r.id \in DOMAIN session.torrents
                   /\ Save([order |-> RemoveFirst(session.order, r.id),
                            torrents |-> MapDelete(session.torrents, r.id)])
                   /\ previous' = session
                   /\ step' = "remove"
                   /\ UNCHANGED <<torrents, engine, scheduled, life, got, pass, history>>

\* Mutant: the scheduler's cache keeps a removed torrent.
RemoveFromEngineOnly == /\ step = "remove"
                        /\ CanCall(req.id)
                        /\ engine' = MapDelete(engine, req.id)
                        /\ step' = "forget"
                        /\ UNCHANGED <<store, torrents, scheduled, life, req, got, previous,
                                       pass, history>>

RemoveFromEngine == /\ step = "remove"
                    /\ CanCall(req.id)
                    /\ engine' = MapDelete(engine, req.id)
                    /\ scheduled' = MapDelete(scheduled, req.id)
                    /\ step' = "forget"
                    /\ UNCHANGED <<store, torrents, life, req, got, previous, pass, history>>

\* engine.Remove fails: the torrent is not there, its data cannot be removed,
\* or the daemon has been told to stop. A torrent whose data is gone in part is
\* put back into the engine and has them to download again; one whose storage does
\* not close, or open again, is dropped and keeps its entry.
RemoveFails == /\ step = "remove"
               /\ \/ /\ ~CanCall(req.id) \/ "io" \in Faults
                     /\ UNCHANGED engine
                  \/ /\ CanCall(req.id)
                     /\ "io" \in Faults
                     /\ engine[req.id].info
                     /\ engine' = [engine EXCEPT ![req.id].done = FALSE,
                                                 ![req.id].dropped = FALSE]
                  \/ /\ CanCall(req.id)
                     /\ "close" \in Faults
                     /\ engine' = [engine EXCEPT ![req.id].dropped = TRUE]

\* Mutant: the record of a torrent that could not be removed is not put back.
RemoveAbandoned == /\ RemoveFails
                   /\ Finish
                   /\ UNCHANGED <<store, torrents, scheduled, life, pass, history>>

\* Mutant: it is put back in memory only.
RemoveUndoneInMemory == /\ RemoveFails
                        /\ session' = previous
                        /\ Finish
                        /\ UNCHANGED <<disk, torrents, scheduled, life, pass, history>>

\* Mutant: it is put back at the end of the order.
RemoveUndoneLast == /\ RemoveFails
                    /\ Save([order |-> Append(session.order, req.id),
                             torrents |-> previous.torrents])
                    /\ Finish
                    /\ UNCHANGED <<torrents, scheduled, life, pass, history>>

RemoveUndone == /\ RemoveFails
                /\ Save(previous)
                /\ Finish
                /\ UNCHANGED <<torrents, scheduled, life, pass, history>>

\* replaceSession fails too, and its error is dropped.
RemoveNotUndone == /\ RemoveFails
                   /\ SaveMayFail
                   /\ lost' = lost \cup {req.id}
                   /\ Finish
                   /\ UNCHANGED <<store, torrents, scheduled, life, pass, acked>>

ForgetTorrent == /\ step = "forget"
                 /\ actor
                 /\ torrents' = [order |-> RemoveFirst(torrents.order, req.id),
                                 snaps |-> MapDelete(torrents.snaps, req.id)]
                 /\ Acknowledge
                 /\ Finish
                 /\ UNCHANGED <<store, engine, scheduled, life, pass, lost>>
-----------------------------------------------------------------------------
(* moveTorrent *)

MoveRecord(r) == /\ r.method = "move"
                 /\ Takes(r)
                 /\ r.id \in DOMAIN session.torrents
                 /\ Save([session EXCEPT !.order = Moved(@, r.id, r.offset)])
                 /\ step' = "move"
                 /\ UNCHANGED <<torrents, engine, scheduled, life, got, previous, pass,
                                history>>

MoveSnapshot == /\ step = "move"
                /\ actor
                /\ torrents' = [torrents EXCEPT !.order = Moved(@, req.id, req.offset)]
                /\ Finish
                /\ UNCHANGED <<store, engine, scheduled, life, pass, history>>
-----------------------------------------------------------------------------
(* Stopping and dying *)

Cancel == /\ "cancel" \in Faults
          /\ phase # "down"
          /\ ~cancelled
          /\ cancelled' = TRUE
          /\ UNCHANGED <<store, torrents, engine, scheduled, phase, actor, step, req, got,
                         previous, pass, history>>

ActorExits == /\ cancelled
              /\ actor
              /\ actor' = FALSE
              /\ UNCHANGED <<store, torrents, engine, scheduled, phase, cancelled, step, req,
                             got, previous, pass, history>>

\* Everything but session.json is gone. What a client without an answer may
\* believe is what the file now says.
GoDown == /\ phase' = "down"
          /\ session' = EmptySession
          /\ torrents' = [order |-> <<>>, snaps |-> Nothing]
          /\ engine' = Nothing
          /\ scheduled' = Nothing
          /\ cancelled' = FALSE
          /\ actor' = FALSE
          /\ todo' = <<>>
          /\ active' = NoneActive
          /\ acked' = [id \in TorrentID |->
                         IF id \in lost \/ (req # NoRequest /\ req.id = id)
                           THEN DesiredIn(disk, id)
                           ELSE acked[id]]
          /\ lost' = {}
          /\ Finish
          /\ UNCHANGED disk

\* Mutant: Run does not watch its context.
ReturnOnFailureOnly == /\ "listener" \in Faults
                       /\ phase = "serving"
                       /\ step \in {"idle", "pass"}
                       /\ GoDown

\* Run returns once the handlers are done; it does not wait for a pass.
Return == /\ cancelled \/ "listener" \in Faults
          /\ phase = "serving"
          /\ step \in {"idle", "pass"}
          /\ GoDown

Crash == /\ "crash" \in Faults
         /\ phase # "down"
         /\ GoDown
-----------------------------------------------------------------------------
(* The specification *)

\* A request arrives and its handler takes controlMu.
Arrival == \E r \in Requests : \/ ApplyDesired(r)
                               \/ ApplySequential(r)
                               \/ ApplyPriority(r)
                               \/ StartVerify(r)
                               \/ AddToEngine(r)
                               \/ RemoveRecord(r)
                               \/ MoveRecord(r)

\* The holder of controlMu goes on.
Continue == \/ UpdateRecord
            \/ UpdateRecordFails
            \/ PutTorrent
            \/ Verified
            \/ VerifyFails
            \/ RecordTorrent
            \/ RecordTorrentFails
            \/ AddInterrupted
            \/ RemoveFromEngine
            \/ RemoveUndone
            \/ RemoveNotUndone
            \/ ForgetTorrent
            \/ MoveSnapshot

Restoration == \/ \E id \in TorrentID : Restore(id) \/ RestoreFails(id) \/ RestoreOther(id)
               \/ Restored

Pass == \/ StartPass
        \/ EndPass
        \/ \E id \in TorrentID : \/ PassSkips(id)
                                 \/ PassPauses(id)
                                 \/ PassQueues(id)
                                 \/ PassRuns(id)
                                 \/ PassCannotRun(id)

\* What the daemon does of itself.
Server == Restoration \/ Pass \/ Continue

Environment == \/ Start
               \/ Cancel
               \/ ActorExits
               \/ Return
               \/ Crash
               \/ \E id \in TorrentID : GotInfo(id) \/ Complete(id)

Next == Server \/ Arrival \/ Environment

Spec == Init /\ [][Next]_vars
=============================================================================
