# torrcli: formal models and proofs

TLA+ models of the torrent daemon `torrd`, the TLC runs that check them on
small instances, and TLAPS proofs of the properties that matter most. All
definitions are translated from the Go sources; `PROJECT.json` maps each one to
the lines it stands for.

    tlc -config DaemonSave.cfg MCDaemon      # check a run
    tlapm DaemonProofs.tla                   # check a module's proofs

Contents: [the system](#the-system) · [hard behaviours](#what-is-hard) ·
[modules](#modules) · [runs](#runs) · [fairness](#fairness) ·
[proofs](#proofs) · [findings](#findings) · [abstractions](#abstractions) ·
[not modelled](#not-modelled) · [plan](#plan)

## The system

`torrd` is a daemon that downloads torrents through the anacrolix library;
`torrcli` (commands and a terminal interface) talks to it over a Unix socket
with one JSON-RPC call per connection.

| Component | State | Operations | Correct when |
| --- | --- | --- | --- |
| Session store (`state/store.go`) | `session.json`, its `.bak`, a temporary file | `SaveSession`, `LoadOrCreateSession` | a save is all or nothing, a restart finds the last save, a first damaged file costs at most the last save |
| Control plane (`daemon/rpc.go`, `controls.go`, `daemon.go`) | `d.session`, and indirectly all views below; `controlMu` | add, pause, resume, verify, remove, move, set sequential, set priority; restore at start | session valid, answered requests survive, the views agree, a paused torrent stays paused |
| Scheduler (`daemon/scheduler.go`) | `d.scheduled`, what it last told the engine | `reconcileSchedule` every second and at start | limits are kept, every torrent ends in the state its record and place call for |
| Snapshot actor (`daemon/session.go`) | `sessionState`: order and snapshots | put, get, list, remove, move, run by one goroutine fed by a channel | same order as the session; never waited for in vain |
| Life cycle (`daemon/daemon.go`, `platform/lock_unix.go`, `transport/unix.go`) | lock file, socket path, engine | load, lock, start engine, listen, serve, deferred releases | one daemon at a time, reachable, no acknowledged change lost at a hand-over |
| Connections (`daemon/daemon.go`, `rpc/server.go`) | accept loop, `activeConnections`, wait group | accept, register, serve, close all, wait | `Run` returns, and no handler outlives it |
| Engine adapter (`engine/anacrolix`) | `torrentEntry` per torrent, the library's torrents, boosted pieces | Add and its goroutine, Pause, Resume, Verify, Remove, SetSequential, SetFilePriority, Snapshot, Close | options reach the library, now or when the metadata comes; the library runs no torrent the engine has lost; what was boosted is taken back |
| Data removal, part files (`remove.go`, `storage.go`) | files on disk | delete a torrent's data, rename the partial files of older versions | deletes no file that another torrent has; loses no partial file, wherever it stops |
| RPC protocol, client (`rpc`, `client`) | none; one connection per call, with a time-out | call | a call that timed out may still be carried out; what depends on it recovers |
| Terminal interface (`tui`) | list, selection, details, dialog, pending mark; commands in flight | keys, results, ticks | the selection is shown, no mark blocks the keys for good, commands do not overlap, the screen catches up |
| Configuration, paths, commands | none | parsing | – |

How they interact: a connection's goroutine calls `handleRPC`, which takes
`controlMu`, calls the engine (a direct call, under the engine's own lock),
saves the session (a file system call), and puts a snapshot through the actor's
channel. `reconcileSchedule` runs under the same `controlMu` from a ticker. The
context's cancellation reaches the actor, the refresh loop and `Run`
independently of one another. In the engine, one goroutine per torrent waits
for its metadata and then takes the lock to apply the priorities. The terminal
interface handles one message at a time, but its calls run beside it, each on
its own connection, so their results arrive in any order.

## What is hard

Every torrent has five records: the file, the session in memory, the engine,
the actor's snapshot, and the scheduler's cache. `controlMu` keeps handlers and
passes apart, but each of them changes the records one after the other and can
fail, be cancelled or die in between; each undoes what it did in its own way;
and the torrents themselves change (metadata arrives, downloads complete)
without any lock. A save is six file system calls, the process can die between
any two of them, and several processes may be started on the same files. At
the end, `Run` waits for goroutines that wait for clients, or for an actor that
may be gone. Below the daemon, an engine entry can outlive its library torrent
and the other way round, metadata can arrive before, during or after the
operations that depend on it, and a removal deletes files one by one while
other torrents have files in the same directories. Above it, a list read before
a command can arrive after its result. `PROJECT.json` lists each hazard at its line with the properties
about it.

## Modules

| Module | What it is |
| --- | --- |
| `SavedSession` | abstract: one stored session, replaced atomically |
| `SessionStore` | `store.go` call by call, with failing calls, crashes, power loss and damage; implements `SavedSession` |
| `TorrentList` | abstract: the list of torrents that clients are promised, changed by one request at a time, whole or not at all |
| `Daemon` | the control plane, scheduler, actor and the daemon's use of the engine: one action per step under `controlMu`; implements `TorrentList` |
| `DaemonProperties` | its properties and fairness |
| `DaemonProofs` | maps and orders, what the daemon's operators do with them; types and validity |
| `DaemonStateProofs` | durability of answers, the scheduler's cache, the refinement of `TorrentList` |
| `DaemonViewProofs` | orders, orphans, limits, pauses, download orders, priorities |
| `Launch`, `LaunchProofs` | several `torrd` processes on the same files |
| `Connections`, `ConnectionsProofs` | accept loop, connection goroutines and the end of `Run` |
| `DataFiles` | the files on disk: migration of partial files, deleting a torrent's data; pure operators |
| `Engine` | the engine adapter over `DataFiles` and the library: one action per operation |
| `EngineProperties`, `EngineProofs` | its properties, fairness and theorems |
| `Tui` | the event loop of the terminal interface, its calls in flight, and the daemon's list behind them |
| `TuiProperties`, `TuiProofs` | its properties, fairness and theorems |
| `SessionStoreProofs` | theorems about the store |
| `MC*` | the small instances TLC checks |

`Daemon` and `Engine` meet at `engine.Engine`'s interface: `Daemon` takes each
operation as one step on a torrent's options that succeeds or fails, `Engine`
shows what such a step does to the library and the disk, and that it is sound.
`Daemon` and `SessionStore` meet at `SaveSession`, one step in `Daemon` because
`SessionStore` implements `SavedSession`. `Tui` sees the daemon as an order of
torrents that calls change at once.

Each component module also holds a few operators marked `Mutant:`. They are
deliberately broken variants of the definition that follows them, written the
way a plausible bug would look (a forgotten cache entry, a rollback in memory
only, a connection that is not closed). Nothing uses them; `PROJECT.json`
("mutants") pairs each with the property that fails when it takes the place of
the real definition, as a check that the property has teeth.

### SessionStore

`path`, `bak` and `tmp` are the three files, each a session, absent or corrupt.
`pc` walks through `writeJSON`: *written* (temporary file synced and closed),
*moved* (`session.json` renamed to `.bak`, or absent in the first place),
*installed* (second rename), then the directory sync and the return. `booting`
says that `writeJSON` runs for `LoadOrCreateSession`. `journal` is the set of
directory states passed through since the last successful directory sync: a
power loss may bring back any of them. `saved` and `durable` are history:
what the last load or save returned, and which sessions a power loss may
legitimately bring back. A process can go down with only the backup in place in
two ways, which are two faults: `gap`, it dies between the renames, and
`strand`, the second rename fails and it then stops, in whatever way, before the
next save. Loading the backup leaves the damaged file where it is, so the next
save backs *that* up, over the good backup (`store.go:121`); that is why
`BackupTrailsByOneSave` says "or the damaged file".

### Daemon

`disk`, `session`, `torrents` (the actor's state), `engine` and `scheduled` are
the five records; `phase`, `cancelled` and `actor` the life of the process;
`step`, `req`, `got`, `previous`, `todo` and `active` are the local variables
of whoever holds `controlMu` (a handler, the restore, or a pass). A handler
enters with `Takes` when `step = "idle"`, and each further action is the part
of its code up to the next point where something may come in between:

| Handler | Actions, in order |
| --- | --- |
| pause, resume | `ApplyDesired` (engine, cache) → `UpdateRecord` or `UpdateRecordFails` (undo) → `PutTorrent` |
| sequential | `ApplySequential` → the same |
| priority | `ApplyPriority` → `UpdateRecord` or `UpdateRecordFails` |
| verify | `StartVerify` (pause unless paused) → `Verified` or `VerifyFails` (resume) |
| add | `AddToEngine` → `RecordTorrent`, `RecordTorrentFails` or `AddInterrupted` → `PutTorrent` |
| remove | `RemoveRecord` → `RemoveFromEngine`, `RemoveUndone` or `RemoveNotUndone` → `ForgetTorrent` |
| move | `MoveRecord` → `MoveSnapshot` |
| restore | `Start`, then `Restore`, `RestoreFails` or `RestoreOther` per torrent, `Restored` |
| pass | `StartPass`, then one of `PassSkips`, `PassPauses`, `PassQueues`, `PassRuns`, `PassCannotRun` per torrent, `EndPass` |

`PutSnapshot` needs the actor: that is the channel nobody reads once the actor
has left its loop. `PutOrGiveUp` is the same with the daemon's own context.
`Save` writes the file and the memory together, since `SessionStore` has shown
a save to be atomic for a restart. In the view of `TorrentList` the session
that counts is the file, or, while a removal can still be undone, `previous`
(`Kept`); a request is carried out when its change is saved and can no longer be
undone. `TorrentList` has no file priorities, which the code does not keep
atomically (`daemon_priority`), and one promise with an exception: a removal
whose undoing fails too is reported to have failed, and is done (`Misreport`).

An engine entry can be left with a torrent that was dropped (`dropped`): its
storage did not close when it was removed, or could not be opened again when the
removal was undone (fault `close`). Such a torrent transfers nothing and can be
added again. History: `acked` is what clients were last told of each torrent,
`lost` the torrents whose removal failed and could not be undone; an entry is
`bare` when it was added while its torrent had a record with priorities, which
`engine.Add` is not given, and `stray` when its add could not be saved and the
removal after that, whose error `rpc.go:43` drops, failed too.

### Launch

Per process: where it is in `Run`, and its session, here a set of changes, so
that "lost" means "not contained". A save is two steps, because another process
may look between the two renames. Handlers that were waiting for one another
still save after the listener has been closed: *draining* and *finishing* are
*saving* and *installing* by then. `overtaken` processes have read the file
before somebody saved over it; `trespass` records that one of those went on,
which the code allows, since it loads before it locks; `HandOverKeepsChanges`
then says nothing more.

### Connections

`run` is where `Run` stands, `acceptor` the accept loop, `conn` where each
connection is: in the backlog, accepted, counted by the wait group, registered
and reading, handling a request, done. Accept, `connections.Add`, and the
registration are three steps, as in the code.

### DataFiles and Engine

A location is a real directory and a name; `RealDirOf` maps the save paths that
users write to the directories they lead to, so that two paths can be one
directory. A location holds nothing, something that is not a regular file, a
file left by an older version, or a new one. `Migrated` and `Deleted` are the
disk after `migratePartFiles` and `removeDataFiles`; `Interrupted` and
`Deleted(.., k)` what they leave when they stop or the process dies inside.

`entries` is `Engine.torrents`, `lib` the newest library torrent of each id,
`waiting` the goroutines of `Add`. Adding an id that was removed or dropped, or
restoring it after a failed removal, makes a new library torrent: `gen` tells
them apart, as the pointer comparison in the goroutine does. Adding one that the
client still runs makes none, but by the time the adapter sees that
(`engine.go:89`) `AddTorrentSpec` has applied the metadata and what may be
transferred to the running torrent (`AddAgain`); `overridden` is the history of
that. `layout` says which pieces each file
has; `Window` is what `updateSequential` wants boosted, `Boosted` what the
library has after being told the differences.

| Operation | Actions |
| --- | --- |
| Add | `Add`, `AddFails`; of a torrent the client has, `AddAgain`, `AddAgainFails`; then `MetadataGoroutine` at any later time |
| Pause, Resume, SetSequential, SetFilePriority, Snapshot | one action each; `Snapshot` also moves the window |
| Remove, keeping the data | `RemoveKeepingData`, `RemoveCloseFails` |
| Remove with the data | `RemoveWithData`; `RemoveFails` (restored), `RestoreFails` (not), after k files |
| Close, end of the process | `CloseEngine`, `Restart`; `Crash`, `DiesOpening`, `DiesDeleting` |
| the library and the user | `MetadataArrives`, `MetadataFails`, `PieceCompletes`, `Verify`, `DirectoryGoes` |

### Tui

`list`, `selected`, `details`, `dialog` and `pending` are the fields of `model`
that decide what a key does; `commands`, `lists`, `fetching` and `previews` are
the calls and results in flight, `late` the calls that timed out at the client
and that the daemon may still carry out. A key that starts a command is
`Start`; `Perform` or `Refuse` is the daemon's part, `TimeOut` the client's, and
`CommandDone` or `CommandFailed` the message that comes back. `habits` is what
the user does; none when everybody has stopped. `lost` remembers that a pending
mark was set in a model that was thrown away: the actions dialog returns
`m, m.toggleSelected()`, where Go does not say whether `m` is copied before or
after the call, so both are offered.

## Runs

| Run | Instance | Shows |
| --- | --- | --- |
| `store_crash` | three sessions; failing calls; crashes except while only the backup is there | `OldOrNew`: at every instant one of the two files is the old or the new session. `RestartKeepsSession`, `ImplementsSavedSession` |
| `store_damage` | the same with power loss and damaged files | `PowerLossBringsBackASave`: the directory never comes back to something older than the last synced save. `RecoversFromBackup`: a start that finds `session.json` damaged gets the backup. `BackupTrailsByOneSave`: what a save leaves as the backup is what it replaced, damaged or not, and nothing older. `TypeOK` |
| `store_gap` | failing calls, crashes and stops anywhere | *fails* `RecoversFromBackup`, see [findings](#findings) |
| `daemon_control` | two torrents, limits of one, all control requests, failing sources, failing checks and removals, cancellation, crashes, fairness | `PausedStaysPaused`, `Settles`, `StopsUnlessItWaitsForActor` |
| `daemon_save` | the same requests and moves, every fault but storage that does not close | `SessionsValid`, `ScheduleCacheRight`, `AnswersAreDurable`, `OrdersAgree`, `PassRespectsLimits`; `ImplementsTorrentList`: what clients asked changes only as the request under way says, all of it or nothing |
| `daemon_options` | one torrent, every request but moves, metadata late or at once; failing saves (not of priorities), sources, checks and removals, storage that does not close, cancellation, crashes | `NoOrphans`: the engine runs nothing that clients do not see. `SequentialAgrees`: engine, snapshot, session and file have the same download order. `PrioritiesAgree`, `TypeOK` |
| `daemon_stop` | one torrent, add and pause | *fails* `StopsWhenTold` |
| `daemon_priority` | one torrent, saves of priorities that fail | *fails* `PrioritiesAgree` |
| `launches` | three processes, bounded changes, failing starts, crashes | `ServerIsReachable`, `HandOverKeepsChanges` (types are proved: `LaunchTyped`) |
| `connections` | three connections, failing listener, fairness | `OneConnectionEscapes`, `FailureCutsAll`, `StopsOrAwaitsEscaped`, `StopsWithPoliteClients`, `TypeOK` |
| `engine` | two torrents that share a file through two save paths, one whose middle piece is in two files, or one with every option; every fault, crashes, fairness | `EntriesFollowTorrents`: the library runs nothing the engine has lost. `OptionsReachLibrary` (until a duplicate add overrides an option), `BoostsAreAccountedFor`, `RemovalSparesOthers`, `LegacyDataIsKept`, `SequentialGetsFirstPiece`, `TypeOK` |
| `tui` | two torrents, two commands at once, five kinds of user, other clients, time-outs, fairness | `SelectionIsListed`, `OneCommandAtATime` (no mark without a command; until a mark is lost no two commands), `PreviewIsOfSource`, `CatchesUp`: in the end the screen shows the daemon's list and the details of the selection. `TypeOK` |

Which faults a run leaves out is part of what it says.

- `PausedStaysPaused` and `Settles` are checked without failing saves: the
  rollback of a pause whose save failed resumes the torrent, also when it was
  paused before, until the next pass.
- `daemon_control` and `daemon_save` are checked without storage that does not
  close (`close`): a removal that leaves a dropped torrent returns before it
  clears the scheduler's cache (`controls.go:123`), and when the torrent is added
  again with another state the cache is wrong about it, until it is paused,
  resumed, checked or removed. The repository does not say what should happen,
  so this is a hazard and no finding.
- `daemon_options` is checked without drifting sources: `restoreSession` leaves
  the other torrent in the engine. Its saves fail, but not those of priorities
  (`savepriority`, a fault of its own): with them `PrioritiesAgree` fails, and
  `daemon_priority` is about that.
- `SequentialAgrees` and `PrioritiesAgree` leave out `stray` and `bare` entries
  (see [Daemon](#daemon)): the options of an add that was not recorded, and the
  priorities that a torrent added again over its record does not get before the
  next start.
- `OldOrNew`, `RestartKeepsSession` and the refinement are checked where no
  process goes down while only the backup is there, which `store_gap` is about.

### Bounds

- Two torrents and limits of one give every decision of a pass: admitted,
  queued behind another, paused, without record. Moves, removals and rollbacks
  of an order of two reach all orders of two; `SessionsValid` holds for any
  number by proof.
- One file with the normal priority and one other: a priority is there, absent,
  or the default, which is all the code distinguishes per file.
- Three sessions tell the backup, the current and the next one apart.
- Three processes: one that stops, one that takes over, one that is refused.
- Three connections: one that escapes, one that is cut, one that has left.
- `MaxChanges` bounds the changes clients make in `Launch`; a change is made
  once.
- Engine: `MaxGen` is 2, a torrent and its successor, which is what the
  goroutine of the first has to tell apart; a crash starts again from none.
  Three contents are checked apart, because each is about another question: in
  `Shared` what removing does to the files of the other torrent, over all disks
  that hold a partial file, its link or a foreign file; in `Pieces` skipped files and
  boosts, with a window of two of three pieces, so that it moves, fills and
  shrinks; in `Paused` every option together, on one piece. Their fields say which save paths, options and priorities users give
  to a torrent (`dirs`, `uses`, `offered`) and which pieces may be found on the
  disk (`found`).
- Tui: two torrents, so that a list can lose the selected one, keep it, or swap
  its place; two commands at once (`Slots`), which is one more than the pending
  mark is meant to allow; `MaxAway` bounds the results under way at 2, an older
  and a newer one. The texts are empty, "x", and "x" with a space that is
  trimmed. Five kinds of user keep the keys apart that do not interact.
- Nothing else is bounded: crashes, restarts, requests and passes repeat
  without limit.

Every run checks deadlock too, except `daemon_stop`, where waiting for good is
the point, and `connections`, whose daemon stops.

## Fairness

`Daemon`: the server's own steps (`WF_vars(Server)`: the goroutine holding
`controlMu`, the ticker, the restore) are weakly fair, since goroutines are
scheduled, the ticker keeps ticking, and a hash check of finite data ends. The
actor's select sees the cancellation (`WF_vars(ActorExits)`; while it still
serves puts it may be delayed, not for good). `Return` after a cancellation is
strongly fair, because requests of connections that are still open can delay it
but `Run` closes those connections. Clients, the network, faults and restarts
are not fair. `Settles` is stated under its own premise: from some point on
clients and torrents are silent (`<>[][Server]_vars`) and the daemon serves.

`Connections`: each connection's goroutine and `Run` are weakly fair; the
accept loop's end is too. Clients are not: `StopsWithPoliteClients` makes their
hanging up its premise.

`Engine`: the goroutine of `Add` gets the lock, and the daemon asks for a
snapshot of every torrent once a second (`daemon.go`'s refresh loop); both are
weakly fair. Peers, metadata, pieces and users are not.

`Tui`: the list is asked for every second and some answer arrives (weak); the
details of a torrent that are asked for again and again are loaded at some time
(strong: a single load may fail). Users, commands and the calls that timed out
are not fair.

## Proofs

Theorems hold for every set of torrents, files, contents, requests, processes,
connections and sessions, every limit, and every combination of faults but for
those a theorem excludes by an assumption of its own.

| Theorem | Says | Argument |
| --- | --- | --- |
| `SessionStoreProofs!TypeCorrect` | types | with `Writing`: what each step of `writeJSON` has achieved when the next starts |
| `CrashSafe`, `RestartSafe` | `OldOrNew`, `RestartKeepsSession` | `Progress`: which of the two files holds which session at each `pc`; assumes neither damage nor power loss |
| `PowerSafe` | `PowerLossBringsBackASave` | `PowerInv`: every directory in the journal is accounted for; no assumption on faults |
| `BackupTrails` | `BackupTrailsByOneSave` | `Trail`: at each `pc`, which file holds what the last run held, or is damaged; no assumption on faults |
| `BackupRecovers` | `RecoversFromBackup` | `Unparted`: a start never finds a backup without `session.json`; assumes that no process goes down while only the backup is there (`gap`, `strand`) |
| `StoreRefinesSavedSession` | the store implements `SavedSession` | every step maps to an abstract step or a stutter, under `GapFree`; assumes only failing calls and crashes, and none while only the backup is there |
| `DaemonProofs!TypeCorrect`, `SessionsStayValid` | types; `validateSession` never refuses a session | one invariant, `TypeInv`: types, validity of the three sessions, and what each `step` of a handler may rely on (its torrent is in the engine, in the record, in the actor's list) |
| `AnswersDurable` | `AnswersAreDurable` | `AnswerInv`: relates `acked` to the file through every step, including a removal under way and its rollback |
| `NothingDropped` | no entry keeps a dropped torrent | inductive; assumes that storage closes (`close`), as the next one does |
| `CacheCorrect` | `ScheduleCacheRight` | `CacheInv`: also, no handler in mid-air has a cache entry for its torrent; with `NothingDropped` |
| `ListImplemented` | the daemon implements `TorrentList` | `CopiesListed`: memory and file list the same torrents and ask the same of them, and what a removal would put back is the file's list with its torrent; then every action is a step of the list or a stutter; no assumption on faults |
| `OrdersStayTogether` | `OrdersAgree` | `OrderInv`: at each step, which operation separates the actor's order from the saved one (appended, removed, moved, still to be restored) |
| `NoneOrphaned` | `NoOrphans` | `OrphanInv`: the live torrents of the engine are those recorded and the one (`Held`) a handler answers for; assumes no source turns into another torrent |
| `LimitsRespected` | `PassRespectsLimits` | `PassInv`: the count equals the running torrents the pass has visited (`Counted`), with `ListInv`, `CacheInv`; a visit changes no other torrent; assumes that storage closes |
| `PausesKept` | `PausedStaysPaused` | `PausedInv`: engine and snapshot agree that a torrent recorded as paused is paused (`Calm`), but for the one whose request is under way; with `AnswerInv`, `ListInv`, and `FirstCacheInv` for the first pass; assumes saves succeed (those of priorities may fail) |
| `SequentialOrdersAgree` | `SequentialAgrees` | `SequentialInv`: what entry, snapshot, session, file and the handler's own copy say at each step; with `FreshInv` (a restore finds an engine without the torrents it has still to add); assumes only that no source turns into another torrent |
| `PrioritiesStayTogether` | `PrioritiesAgree` | `PriorityInv` with `FreshInv`; assumes also that priorities can be saved |
| `LaunchTyped`, `ServerReachable` | types; `ServerIsReachable` | `LaunchInv`: only the lock's holder is beyond *locked*, and the socket leads to it from *serving* to *closing* |
| `HandOverSafe` | `HandOverKeepsChanges` | `KeptInv`: who knows what clients were told: the holder, the file, and whoever has read it since it was last saved |
| `ConnectionsTyped`, `OneEscapes`, `NoneEscapesFailure` | types; `OneConnectionEscapes`; `FailureCutsAll` | `LoopInv` (one connection is being accepted at a time), `ClosingInv`, `EscapeInv` |
| `EngineProofs!TypeCorrect`, `NoStrayTorrent`, `OptionsApplied`, `BoostsAccounted` | types; `EntriesFollowTorrents`; `OptionsReachLibrary`; `BoostsAreAccountedFor` | `EngineInv`: each id's entry and library torrent are `Sound` on their own, including that one without metadata has a goroutine that will set its priorities. That the window never exceeds its length is `WindowFacts`, for any number of pieces |
| `RemovalSpares`, `LegacyKept` | `RemovalSparesOthers`, `LegacyDataIsKept` | `DiskInv`: a deleted directory is empty, a torrent whose files are known has no partial file left, an entry is of the newest library torrent, and names stay apart; then every step moves partial files (`Moves`), deletes a torrent's (`Deletes`), downloads, or loses a directory; assumes `PartsApart` of contents and disk at the start |
| `TuiProofs!TypeCorrect`, `SelectionListed`, `OneCommand`, `PreviewOfSource` | `TypeOK` and the safety properties of `Tui` | facts about lists (upserting and removing keep them free of repetitions, `Show` selects what is shown), and how a command starts alone and ends alone |

None of the daemon's properties is inductive by itself. Validity, for example,
does not follow from validity: a rollback restores `previous`, an add appends an
entry that must not be in the order yet, and both rest on what the earlier step
of the same handler established. The invariants about the five records all have
the same form: what agrees between requests, and for each step of a handler how
far its own torrent is from that. `DaemonProofs` begins with the facts about
maps and orders (appending, removing the first occurrence, swapping neighbours)
that those proofs share.

The assumptions of the conditional theorems are faults that the runs leave out
too, for the reasons given there, and mostly fewer of them: `PausesKept` allows
storage that does not close and drifting sources, `NoneOrphaned`,
`SequentialOrdersAgree` and `PrioritiesStayTogether` a failing listener, and
`CrashSafe`, `RestartSafe` and `BackupTrails` hold also when processes die
between the two renames. All other assumptions are those on the constants, named
in the modules and evaluated by TLC in each run.

`PartsApart`, which `RemovalSpares` and `LegacyKept` assume, says of the
torrents and the disk at the start that what is called like a partial file
(`NAME.part`) is one, unless a torrent has a file of that name that all torrents
with NAME have too. The code goes by names alone (`storage.go:56`) and renames
another torrent's `NAME.part` if it finds one, as the hazards say; without the
assumption both properties are false. The comment at `storage.go:55` has only the
torrent's own names in mind (a real `.part` name of its own is left alone, which
`Legacy` models); nothing promises it for another torrent's. TLC
evaluates it for the contents and disks of `engine`.

Every safety property that a run is expected to satisfy is the subject of a
theorem. Checked by TLC only are the six liveness properties: `Settles`,
`StopsUnlessItWaitsForActor`, `StopsOrAwaitsEscaped`, `StopsWithPoliteClients`,
`SequentialGetsFirstPiece` and `CatchesUp`. Fairness and ENABLED are out of the
prover's reach, as is what a recursive definition computes for every input
(induction over data); there are no recursive operators in these modules.

## Findings

1. **A save that stops between its two renames loses the session**
   (`store_gap`). `writeJSON` moves `session.json` to `.bak` before it moves
   the new file into place, and puts nothing back when the second rename fails.
   So a crash between the two, or an orderly stop after such a failure, leaves
   only the backup. A start that finds only the backup takes it for a
   first start and saves an empty session; the next save buries the backup. The
   store's test says that a start which cannot use the file recovers from the
   backup; that is so for a damaged file only.
2. **A handler can wait for good for the actor** (`daemon_stop`). The last put
   of a handler ignores the cancellation, the actor does not; if it leaves
   first, the handler and with it `Run` block, and the daemon keeps its lock.
   `StopsUnlessItWaitsForActor` shows that nothing else within the control plane
   holds it up (a client of an escaped connection can: `Connections`).
3. **A failed save changes a priority in memory** (`daemon_priority`).
   `cloneSession` shares the priority maps, so the record the engine was rolled
   back to is not the one left in memory, and the next save of anything
   persists it.

## Abstractions

- A handler that fails before it has changed anything is a stuttering step.
- Reads (list, get, info, ping) and `find_peers` change no state and are no
  actions.
- Steps that nothing visible can separate are merged: a torrent's restore (Add,
  Pause, Snapshot, put), a pass's visit (setScheduled, Snapshot, put), a check's
  end and the resume after it. Where the cancellation can fall between the
  merged calls and the outcome differs, the action offers both outcomes.
- Branches that cannot be taken are left out: a put that fails in `torrent.add`
  or a move that fails in the actor after the record was found, and a session
  without an order.
- In `Daemon` a failed save leaves the file as it was. The save whose second
  rename fails belongs to `SessionStore`.
- Progress is one bit, complete or not. A torrent without data is complete as
  soon as it has metadata, like one whose data was found on disk.
- Priorities are keyed by file; the conversion of the index to a string and
  back is exact for the indexes a torrent has.
- `Launch` merges the look for an old file with its rename.
- A connection that escapes `Run`'s closing is in `Connections`; that its
  handler could still call the daemon after `Return` is not in `Daemon`.
- Names, sizes, rates, peers, source paths and error texts are left out.
- In `Engine` the library is external, modelled from the calls the adapter
  makes: adding a torrent opens its storage when the metadata is known, a
  dropped torrent does nothing more. That adding a torrent the client already
  has applies metadata and transfer options to it (`MergeSpec`) is the library's
  behaviour, which `engine.go:77-92` does not guard against. `Daemon`, whose
  entries are what the adapter remembers, is not changed by such an add. Files that are known have no priority until the adapter
  gives them one.
- Directories and symbolic links inside a save path are left out; a removed
  directory is a real directory as a whole. A rate is a difference of two
  counters of one torrent, and only whose counters they are is kept.
- Nothing is modelled between `Close` and the end of the process.
- In `Tui` a torrent is its id. Keys that mark an option or a button are left
  out and the choice is made when Enter is pressed. An option (pause, resume,
  recheck, peers, sequential) is one kind of command, without its torrent,
  because its result changes only what the view shows. Two loads of the same
  torrent's details, or two equal lists, are as good as one.
- What only the view reads is left out of `Tui`: notices and their timers,
  marks for loading and errors, cursors and scrolling, window sizes, panes.

## Not modelled

- `tui/view.go`, `styles.go` and the view-only state above: they compute text
  from the state that `Tui` has and change none.
- The sizes of the pieces and the arithmetic on bytes in `sequential.go`: a
  window is a number of pieces.
- `Details` and `FindPeers` of the engine: they read, or announce, and change
  nothing of the adapter's.
- Configuration loading (same functions as the session; written once), paths,
  command line parsing and printing: no state of interest.
- JSON encoding and its error codes: no state changes.
- The anacrolix library, beyond what the adapter relies on.

Seen while modelling, and stated by no property because nothing in the
repository promises otherwise or because the code plainly does it
(`PROJECT.json`, hazards without properties):

- a duplicate add makes a paused torrent transfer, or stops a running one, while
  its entry, record and snapshot say otherwise (`engine.go:77`, `AddAgain`);
- a removal whose storage does not close, or that can be neither finished nor
  undone, leaves an entry with a dropped torrent although the comment at
  `engine.go:257` says it must not (`RemoveCloseFails`, `RestoreFails`), and the
  scheduler's cache keeps what it knew of it (`controls.go:123`);
- a torrent added again over its record gets none of its priorities before the
  next start (`rpc.go:28`);
- the remove dialog follows the selection: a list without its torrent makes it
  ask about, and remove, another one (`update.go:218`, `actions.go:287`);
- the details can show one torrent's name over another's files after a late
  priority result (`update.go:146`);
- a file called like another torrent's partial file is renamed
  (`storage.go:56`);
- a torrent that could not be restored cannot be removed (`controls.go:119`).

## Plan

Done, in this order: `SavedSession`, `SessionStore`, `Daemon`, `Launch`,
`Connections`, `DataFiles`, `Engine`, `Tui`; then the proofs of the store, of
the daemon, of `Launch`, `Connections`, `Engine` and `Tui`; then `TorrentList`
and its refinement, and the proofs about the backup and about files on disk.
What could follow:

1. What `Daemon` assumes of an engine operation (a torrent's options change as
   a whole or not at all) as an abstract module that `Engine` implements.
2. `Daemon` over `Engine` instead of the interface between them: too large for
   TLC with both torrents and both fault models, but a candidate for a proof.
