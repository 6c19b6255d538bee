------------------------------- MODULE Engine -------------------------------
(***************************************************************************)
(* internal/engine/anacrolix: the adapter between the daemon and the       *)
(* torrent library. Its map has an entry for each torrent: the options the *)
(* daemon asked for, the library torrent they were applied to, and what    *)
(* sequential mode has changed in it. The library's torrents are modelled  *)
(* from the calls the adapter makes; an id gets a new library torrent each *)
(* time it is added, or restored after a removal that failed, and `gen`    *)
(* tells them apart.                                                       *)
(*                                                                         *)
(* Every operation holds e.mu throughout, so each is one step; it may stop *)
(* half way with an error, and the process may die in it. What is not      *)
(* under the mutex is the goroutine that waits for a torrent's metadata.   *)
(***************************************************************************)
EXTENDS DataFiles

CONSTANTS Torrent,   \* torrent ids
          NoEntry,   \* an id that has no entry in the engine's map
          Starts,    \* what the torrents are, with what is on the disk
          MaxGen     \* bound on the library torrents made for an id

Priority == {"skip", "normal", "high"}
Unset == "unset"
PiecePriority == {"none", "normal", "high", "readahead", "now"}

ASSUME MaxGenAssumption == MaxGen \in Nat
\* File f has the pieces first[f] .. end[f] - 1, in the order of the files.
\* `window` is the number of pieces sequential mode boosts: 16 MiB of them.
\* What users do with a torrent is bounded by the save paths they give it
\* (dirs; none, and it is never added), the priorities they ask for (offered)
\* and the options they touch (uses); `found` bounds the pieces that may be on
\* the disk when the library opens it.
Content == [names : Seq(Name), first : Seq(Nat), end : Seq(Nat),
            pieces : Nat, window : Nat \ {0}, dirs : SUBSET Dir,
            offered : SUBSET Priority, uses : SUBSET {"pause", "sequential"},
            found : SUBSET SUBSET Nat]

ASSUME StartsAssumption ==
    \A s \in Starts : /\ s.torrents \in [Torrent -> Content]
                      /\ \A id \in Torrent :
                           /\ Len(s.torrents[id].first) = Len(s.torrents[id].names)
                           /\ Len(s.torrents[id].end) = Len(s.torrents[id].names)
                           /\ s.torrents[id].found \subseteq SUBSET (0..(s.torrents[id].pieces - 1))
                      /\ s.disk \in [Location -> Contents]

\* torrentEntry of a torrent with content c
EntryOf(c) == [gen : 1..MaxGen, dir : Dir, paused : BOOLEAN, sequential : BOOLEAN,
               priorities : [DOMAIN c.names -> Priority \union {Unset}],
               boosted : [0..(c.pieces - 1) -> PiecePriority], sampled : 0..MaxGen]

ASSUME NoEntryAssumption ==
    \A s \in Starts : \A id \in Torrent : NoEntry \notin EntryOf(s.torrents[id])

VARIABLES open,     \* the process runs and Close has not been called
          entries,  \* Engine.torrents
          lib,      \* the newest library torrent of each id
          waiting,  \* <<id, gen>>: goroutines that wait for metadata
          disk,     \* Location -> Contents
          gone,     \* real directories the user has deleted
          layout    \* what the torrents contain; never changes

vars == <<open, entries, lib, waiting, disk, gone, layout>>

File(id) == DOMAIN layout[id].names
Piece(id) == 0..(layout[id].pieces - 1)

\* piecePriority
PieceOf(p) == CASE p = "skip" -> "none" [] p = "high" -> "high" [] OTHER -> "normal"

\* Mutant: the daemon's priority is handed to the library as it is.
WishedAsSaved(saved) == IF saved = Unset THEN "normal" ELSE saved

\* The priority a file is to have: the saved one, normal without one.
Wished(saved) == PieceOf(IF saved = Unset THEN "normal" ELSE saved)

(***************************************************************************)
(* updateSequential                                                        *)
(***************************************************************************)
\* Unfinished pieces of files that are not skipped.
Wanted(id, t) ==
    {p \in Piece(id) : /\ p \notin t.complete
                       /\ \E f \in File(id) : /\ t.filePrio[f] # "none"
                                              /\ layout[id].first[f] <= p /\ p < layout[id].end[f]}

\* The window: the first wanted pieces, the very first one at once.
Window(id, sequential, t) ==
    LET ahead(p) == {q \in Wanted(id, t) : q < p}
    IN  [p \in Piece(id) |->
            IF ~sequential \/ p \notin Wanted(id, t) THEN "none"
            ELSE IF ahead(p) = {} THEN "now"
            ELSE IF Cardinality(ahead(p)) < layout[id].window THEN "readahead"
            ELSE "none"]

\* Mutant: pieces that left the window keep their boost.
BoostedForever(id, boosted, next, t) ==
    [p \in Piece(id) |-> IF next[p] = "none" THEN t.piecePrio[p] ELSE next[p]]

\* Only what differs from what was boosted before is told to the library.
Boosted(id, boosted, next, t) ==
    [p \in Piece(id) |-> IF next[p] = boosted[p] THEN t.piecePrio[p] ELSE next[p]]

\* entry e with library torrent t, after updateSequential
EntryUpdated(id, e, t) ==
    IF t.info THEN [e EXCEPT !.boosted = Window(id, e.sequential, t)] ELSE e
TorrentUpdated(id, e, t) ==
    IF t.info
    THEN [t EXCEPT !.piecePrio = Boosted(id, e.boosted, Window(id, e.sequential, t), t)]
    ELSE t

Put(id, e, t) == /\ entries' = [entries EXCEPT ![id] = EntryUpdated(id, e, t)]
                 /\ lib' = [lib EXCEPT ![id] = TorrentUpdated(id, e, t)]

(***************************************************************************)
(* The library torrent                                                     *)
(***************************************************************************)
NoBoost(id) == [p \in Piece(id) |-> "none"]

\* A library torrent made by AddTorrentSpec. With the metadata it starts with
\* pieces it finds on the disk, and with none of its files wanted. `overridden`
\* is history: a later add of the same torrent asked for another option than
\* its entry has, and it is the later one that is in force.
Fresh(id, gen, info, paused, complete) ==
    [gen |-> gen, closed |-> FALSE, info |-> info,
     allowed |-> ~paused, overridden |-> FALSE,
     filePrio |-> [f \in File(id) |-> "none"], piecePrio |-> NoBoost(id),
     complete |-> complete]

\* No library torrent yet: like one that was dropped.
Never(id) == [Fresh(id, 0, FALSE, TRUE, {}) EXCEPT !.closed = TRUE]

Dropped(t) == [t EXCEPT !.closed = TRUE]

MayHave(id, info) == IF info THEN layout[id].found ELSE {{}}

Names(id) == layout[id].names

\* The library has the metadata of its torrent t and calls OpenTorrent, which
\* succeeds. `absent` are the directories that are not there.
Learns(id, t, absent) ==
    LET d == entries[id].dir IN
    /\ RealDirOf[d] \notin absent /\ Migrates(disk, d, Names(id))
    /\ disk' = Migrated(disk, d, Names(id))
    /\ \E complete \in MayHave(id, TRUE) :
         lib' = [lib EXCEPT ![id] = [t EXCEPT !.info = TRUE, !.complete = complete]]

\* The disk after an OpenTorrent that failed.
OpenFailed(id, absent) ==
    LET d == entries[id].dir
    IN  IF RealDirOf[d] \in absent THEN {disk} ELSE Interrupted(disk, d, Names(id))

(***************************************************************************)
(* Add                                                                     *)
(***************************************************************************)
\* A .torrent file or a magnet link (without info) of a torrent the client
\* does not have. MkdirAll makes the directory first.
Add(id, d, info, paused, sequential, priorities) ==
    /\ open /\ lib[id].closed /\ lib[id].gen < MaxGen
    /\ gone' = gone \ {RealDirOf[d]}
    /\ IF info THEN /\ Migrates(disk, d, Names(id))
                    /\ disk' = Migrated(disk, d, Names(id))
               ELSE UNCHANGED disk
    /\ \E complete \in MayHave(id, info) :
         lib' = [lib EXCEPT ![id] = Fresh(id, lib[id].gen + 1, info, paused, complete)]
    /\ entries' = [entries EXCEPT ![id] =
                     [gen |-> lib[id].gen + 1, dir |-> d, paused |-> paused,
                      sequential |-> sequential, priorities |-> priorities,
                      boosted |-> NoBoost(id), sampled |-> 0]]
    /\ waiting' = waiting \union {<<id, lib[id].gen + 1>>}
    /\ UNCHANGED <<open, layout>>

\* The library refuses it: its storage could not be opened.
AddFails(id, d) ==
    /\ open /\ lib[id].closed
    /\ gone' = gone \ {RealDirOf[d]}
    /\ disk' \in Interrupted(disk, d, Names(id))
    /\ UNCHANGED <<open, entries, lib, waiting, layout>>

\* A torrent the client already has. AddTorrentSpec applies the metadata and
\* what may be transferred to the torrent it runs, which keeps its storage;
\* the adapter then finds that none was created and leaves the entry alone.
AddAgain(id, d, info, paused) ==
    LET t == [lib[id] EXCEPT !.allowed = ~paused,
                             !.overridden = paused # entries[id].paused]
    IN  /\ open /\ ~lib[id].closed
        /\ gone' = gone \ {RealDirOf[d]}
        /\ IF info /\ ~lib[id].info THEN Learns(id, t, gone')
           ELSE lib' = [lib EXCEPT ![id] = t] /\ UNCHANGED disk
        /\ UNCHANGED <<open, entries, waiting, layout>>

\* Its storage cannot be opened with the metadata: no option is applied.
AddAgainFails(id, d) ==
    /\ open /\ ~lib[id].closed /\ ~lib[id].info
    /\ gone' = gone \ {RealDirOf[d]}
    /\ disk' \in OpenFailed(id, gone')
    /\ UNCHANGED <<open, entries, lib, waiting, layout>>

(***************************************************************************)
(* The goroutine of Add                                                    *)
(***************************************************************************)
MetadataGoroutine(id, gen) ==
    /\ open /\ <<id, gen>> \in waiting
    /\ waiting' = waiting \ {<<id, gen>>}
    /\ \/ /\ entries[id] # NoEntry /\ entries[id].gen = gen /\ lib[id].info
          /\ LET e == entries[id]
                 t == [lib[id] EXCEPT !.filePrio = [f \in File(id) |-> Wished(e.priorities[f])]]
             IN  Put(id, e, t)
       \/ \* its torrent was dropped: <-added.Closed(), or an entry not its own
          /\ gen # lib[id].gen \/ lib[id].closed
          /\ UNCHANGED <<entries, lib>>
    /\ UNCHANGED <<open, disk, gone, layout>>

(***************************************************************************)
(* Pause, Resume, SetSequential, SetFilePriority, Snapshot                 *)
(***************************************************************************)
SetPaused(id, paused) ==
    /\ open /\ entries[id] # NoEntry
    /\ entries' = [entries EXCEPT ![id].paused = paused]
    /\ lib' = [lib EXCEPT ![id].allowed = ~paused, ![id].overridden = FALSE]
    /\ UNCHANGED <<open, waiting, disk, gone, layout>>

Pause(id) == SetPaused(id, TRUE)
Resume(id) == SetPaused(id, FALSE)

SetSequential(id, enabled) ==
    /\ open /\ entries[id] # NoEntry
    /\ Put(id, [entries[id] EXCEPT !.sequential = enabled], lib[id])
    /\ UNCHANGED <<open, waiting, disk, gone, layout>>

SetFilePriority(id, f, priority) ==
    /\ open /\ entries[id] # NoEntry /\ lib[id].info
    /\ Put(id, [entries[id] EXCEPT !.priorities[f] = priority],
               [lib[id] EXCEPT !.filePrio[f] = PieceOf(priority)])
    /\ UNCHANGED <<open, waiting, disk, gone, layout>>

\* Mutant: the window moves only when an option is set.
SnapshotOnly(id) ==
    /\ open /\ entries[id] # NoEntry
    /\ entries' = [entries EXCEPT ![id].sampled = entries[id].gen]
    /\ UNCHANGED <<open, lib, waiting, disk, gone, layout>>

\* Snapshot also moves the window. The rates come from the difference to the
\* counters of the last sample; `sampled` is the torrent they were read from.
Snapshot(id) ==
    /\ open /\ entries[id] # NoEntry
    /\ Put(id, [entries[id] EXCEPT !.sampled = entries[id].gen], lib[id])
    /\ UNCHANGED <<open, waiting, disk, gone, layout>>

(***************************************************************************)
(* Remove                                                                  *)
(***************************************************************************)
\* Mutant: the library is not told.
ForgetEntry(id) == /\ entries' = [entries EXCEPT ![id] = NoEntry]
                   /\ UNCHANGED lib

RemoveEntry(id) == /\ entries' = [entries EXCEPT ![id] = NoEntry]
                   /\ lib' = [lib EXCEPT ![id] = Dropped(lib[id])]

RemoveKeepingData(id) ==
    /\ open /\ entries[id] # NoEntry
    /\ RemoveEntry(id)
    /\ UNCHANGED <<open, waiting, disk, gone, layout>>

\* Closing its storage fails: the entry stays, with a dropped torrent.
RemoveCloseFails(id) ==
    /\ open /\ entries[id] # NoEntry
    /\ lib' = [lib EXCEPT ![id] = Dropped(lib[id])]
    /\ UNCHANGED <<open, entries, waiting, disk, gone, layout>>

\* checkSharedFiles: no other torrent with metadata has one of the files.
Others(id) == {o \in Torrent \ {id} : entries[o] # NoEntry /\ lib[o].info}

\* Mutant: the save paths are compared as they are written.
NotSharedAsWritten(id) ==
    \A o \in Others(id) : \/ entries[o].dir # entries[id].dir
                         \/ ToSet(Names(o)) \intersect ToSet(Names(id)) = {}

NotShared(id) ==
    \A o \in Others(id) :
        FilesAt(entries[o].dir, Names(o)) \intersect FilesAt(entries[id].dir, Names(id)) = {}

\* prepareDataRemoval has no files when the directory is gone.
MayDelete(id) ==
    /\ open /\ entries[id] # NoEntry /\ lib[id].info
    /\ RealDirOf[entries[id].dir] \notin gone => NotShared(id)
    /\ Deletable(disk, entries[id].dir, Names(id))

RemoveWithData(id) ==
    /\ MayDelete(id)
    /\ disk' = Deleted(disk, entries[id].dir, Names(id), Len(Names(id)))
    /\ RemoveEntry(id)
    /\ UNCHANGED <<open, waiting, gone, layout>>

\* What is left when deleting stops after k files; k = 0 also when closing the
\* storage failed and nothing was deleted.
LeftAfter(id, k) == Deleted(disk, entries[id].dir, Names(id), k)
MayStop(id, k) == k = 0 \/ StopsAfter(disk, entries[id].dir, Names(id), k)

\* Mutant: the goroutine of Add is trusted to set the priorities again.
RestoredBare(id, complete) ==
    Put(id, [entries[id] EXCEPT !.gen = lib[id].gen + 1, !.boosted = NoBoost(id), !.sampled = 0],
            Fresh(id, lib[id].gen + 1, TRUE, entries[id].paused, complete))

\* The entry gets a new library torrent, with the options of the old one.
Restored(id, complete) ==
    LET e == [entries[id] EXCEPT !.gen = lib[id].gen + 1, !.boosted = NoBoost(id), !.sampled = 0]
        t == [Fresh(id, lib[id].gen + 1, TRUE, e.paused, complete)
                EXCEPT !.filePrio = [f \in File(id) |-> Wished(e.priorities[f])]]
    IN  Put(id, e, t)

RemoveFails(id, k) ==
    LET d == entries[id].dir IN
    /\ MayDelete(id) /\ MayStop(id, k) /\ lib[id].gen < MaxGen
    /\ RealDirOf[d] \notin gone /\ Migrates(LeftAfter(id, k), d, Names(id))
    /\ disk' = Migrated(LeftAfter(id, k), d, Names(id))
    /\ \E complete \in MayHave(id, TRUE) : Restored(id, complete)
    /\ UNCHANGED <<open, waiting, gone, layout>>

\* The torrent cannot be restored either: the entry keeps the dropped one.
RestoreFails(id, k) ==
    LET d == entries[id].dir IN
    /\ MayDelete(id) /\ MayStop(id, k)
    /\ disk' \in IF RealDirOf[d] \in gone THEN {disk}
                 ELSE Interrupted(LeftAfter(id, k), d, Names(id))
    /\ lib' = [lib EXCEPT ![id] = Dropped(lib[id])]
    /\ UNCHANGED <<open, entries, waiting, gone, layout>>

(***************************************************************************)
(* Close, and the end of the process                                       *)
(***************************************************************************)
\* Torrents are closed in any order; a storage that fails stops it. Nothing
\* is modelled between Close and the end of the process.
Close(closed, failed) ==
    /\ open
    /\ open' = FALSE
    /\ \A id \in closed \union failed : entries[id] # NoEntry
    /\ failed = {} => \A id \in Torrent \ closed : entries[id] = NoEntry
    /\ entries' = [id \in Torrent |-> IF id \in closed THEN NoEntry ELSE entries[id]]
    /\ lib' = [id \in Torrent |->
                 IF id \in closed \union failed THEN Dropped(lib[id]) ELSE lib[id]]
    /\ UNCHANGED <<waiting, disk, gone, layout>>

CloseEngine ==
    \E closed \in SUBSET Torrent, failed \in {{}} \union {{id} : id \in Torrent} :
        closed \intersect failed = {} /\ Close(closed, failed)

\* The process ends or dies, and its successor starts with an empty engine.
NewProcess == /\ open' = TRUE
              /\ entries' = [id \in Torrent |-> NoEntry]
              /\ lib' = [id \in Torrent |-> Never(id)]
              /\ waiting' = {}
              /\ UNCHANGED <<gone, layout>>

Restart == ~open /\ NewProcess /\ UNCHANGED disk

Crash == open /\ NewProcess /\ UNCHANGED disk

DiesOpening(id, d) == /\ open /\ RealDirOf[d] \notin gone
                      /\ disk' \in Interrupted(disk, d, Names(id))
                      /\ NewProcess

DiesDeleting(id, k) == /\ MayDelete(id)
                       /\ disk' = LeftAfter(id, k)
                       /\ NewProcess

(***************************************************************************)
(* The library and the user                                                *)
(***************************************************************************)
\* The metadata of a magnet link arrives, and its storage can be opened.
MetadataArrives(id) ==
    /\ open /\ ~lib[id].closed /\ ~lib[id].info
    /\ Learns(id, lib[id], gone)
    /\ UNCHANGED <<open, entries, waiting, gone, layout>>

MetadataFails(id) ==
    /\ open /\ ~lib[id].closed /\ ~lib[id].info
    /\ disk' \in OpenFailed(id, gone)
    /\ UNCHANGED <<open, entries, lib, waiting, gone, layout>>

\* A wanted piece is downloaded, or found by a check, into the files it
\* belongs to; the library makes the directory and the files that are missing.
PieceCompletes(id, p) ==
    LET d == entries[id].dir
        into == {At(d, Names(id)[f]) : f \in {g \in File(id) : /\ layout[id].first[g] <= p
                                                              /\ p < layout[id].end[g]}}
    IN  /\ open /\ ~lib[id].closed /\ lib[id].info /\ lib[id].allowed /\ p \in Wanted(id, lib[id])
        /\ lib' = [lib EXCEPT ![id].complete = @ \union {p}]
        /\ disk' = [l \in Location |-> IF l \in into /\ disk[l] = "nothing" THEN "new" ELSE disk[l]]
        /\ gone' = gone \ {RealDirOf[d]}
        /\ UNCHANGED <<open, entries, waiting, layout>>

\* A check (Verify) finds that pieces are no longer right.
Verify(id) ==
    /\ open /\ entries[id] # NoEntry /\ ~lib[id].closed /\ lib[id].info
    /\ \E right \in SUBSET lib[id].complete : lib' = [lib EXCEPT ![id].complete = right]
    /\ UNCHANGED <<open, entries, waiting, disk, gone, layout>>

DirectoryGoes(r) ==
    /\ open /\ r \notin gone
    /\ gone' = gone \union {r}
    /\ disk' = [l \in Location |-> IF l[1] = r THEN "nothing" ELSE disk[l]]
    /\ UNCHANGED <<open, entries, lib, waiting, layout>>

-----------------------------------------------------------------------------
Init == /\ open = TRUE
        /\ \E s \in Starts : layout = s.torrents /\ disk = s.disk
        /\ entries = [id \in Torrent |-> NoEntry]
        /\ lib = [id \in Torrent |-> Never(id)]
        /\ waiting = {}
        /\ gone = {}

Saved(id) == [File(id) -> layout[id].offered \union {Unset}]
Asked(id, option) == IF option \in layout[id].uses THEN BOOLEAN ELSE {FALSE}

AddTorrent(id) ==
    \E d \in layout[id].dirs :
        \/ \E info \in BOOLEAN, priorities \in Saved(id),
              paused \in Asked(id, "pause"), sequential \in Asked(id, "sequential") :
                Add(id, d, info, paused, sequential, priorities)
        \/ AddFails(id, d)
        \/ \E info \in BOOLEAN, paused \in Asked(id, "pause") : AddAgain(id, d, info, paused)
        \/ AddAgainFails(id, d)

SetOption(id) == \/ "pause" \in layout[id].uses /\ (Pause(id) \/ Resume(id))
                 \/ \E enabled \in Asked(id, "sequential") : SetSequential(id, enabled)
                 \/ \E f \in File(id), priority \in layout[id].offered :
                      SetFilePriority(id, f, priority)

RemoveTorrent(id) == \/ RemoveKeepingData(id)
              \/ RemoveCloseFails(id)
              \/ RemoveWithData(id)
              \/ \E k \in 0..Len(Names(id)) : RemoveFails(id, k) \/ RestoreFails(id, k)

Dies(id) == \/ \E d \in layout[id].dirs : DiesOpening(id, d)
            \/ \E k \in 0..Len(Names(id)) : DiesDeleting(id, k)

Library(id) == \/ MetadataArrives(id)
               \/ MetadataFails(id)
               \/ \E p \in Piece(id) : PieceCompletes(id, p)
               \/ Verify(id)

Operations(id) == \/ AddTorrent(id) \/ SetOption(id) \/ Snapshot(id)
                  \/ RemoveTorrent(id) \/ Dies(id) \/ Library(id)
                  \/ \E gen \in 1..MaxGen : MetadataGoroutine(id, gen)

Next == \/ \E id \in Torrent : Operations(id)
        \/ CloseEngine
        \/ Restart \/ Crash
        \/ \E r \in RealDir : DirectoryGoes(r)

Spec == Init /\ [][Next]_vars
=============================================================================
