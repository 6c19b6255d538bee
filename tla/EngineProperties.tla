-------------------------- MODULE EngineProperties --------------------------
(***************************************************************************)
(* What the engine adapter is relied on for.                               *)
(***************************************************************************)
EXTENDS Engine

Has(id) == entries[id] # NoEntry
Live(id) == ~lib[id].closed

\* The records and sequences of the model have their types.
Entry(id) == EntryOf(layout[id])

LibraryTorrent(id) == [gen : 0..MaxGen, closed : BOOLEAN, info : BOOLEAN,
                       allowed : BOOLEAN, overridden : BOOLEAN,
                       filePrio : [File(id) -> {"none", "normal", "high"}],
                       piecePrio : [Piece(id) -> PiecePriority],
                       complete : SUBSET Piece(id)]

TypeOK == /\ open \in BOOLEAN
          /\ \A id \in Torrent : /\ entries[id] \in Entry(id) \union {NoEntry}
                                 /\ lib[id] \in LibraryTorrent(id)
          /\ DOMAIN entries = Torrent /\ DOMAIN lib = Torrent
          /\ waiting \subseteq Torrent \X (1..MaxGen)
          /\ disk \in [Location -> Contents]
          /\ gone \subseteq RealDir

\* Every torrent the library runs is the one its entry refers to: there is
\* none that the daemon can no longer pause or remove, however removals fail
\* (engine.go:249-285) and whatever is added again meanwhile. And what an
\* entry remembers of the counters is of that torrent: those of a new one
\* start again from zero, and a rate is a difference (engine.go:270, 375).
EntriesFollowTorrents ==
    \A id \in Torrent :
        /\ Live(id) => Has(id) /\ entries[id].gen = lib[id].gen
        /\ Has(id) => entries[id].sampled \in {0, entries[id].gen}

\* The library does what the entry says: it transfers unless the torrent is
\* paused, and, once the goroutine of Add has run, each file has its saved
\* priority, also one set before the goroutine (engine.go:103-109) and also in
\* a torrent restored after its removal failed (engine.go:261-277). Only a later
\* add of a torrent the client already has makes it transfer, or stop, against
\* its entry (engine.go:77), and that lasts until the torrent is paused,
\* resumed or restored.
OptionsReachLibrary ==
    \A id \in Torrent : Has(id) /\ Live(id) =>
        /\ lib[id].overridden \/ lib[id].allowed = ~entries[id].paused
        /\ lib[id].info /\ <<id, lib[id].gen>> \notin waiting =>
             \A f \in File(id) : lib[id].filePrio[f] = Wished(entries[id].priorities[f])

\* The engine knows every piece it has boosted, so that turning sequential
\* mode off, or skipping a file, restores normal policy (sequential.go:26-27):
\* what is boosted is within the window of a sequential torrent and belongs to
\* a file that is not skipped.
BoostsAreAccountedFor ==
    \A id \in Torrent : Has(id) =>
        LET e == entries[id]
            t == lib[id]
            b == {p \in Piece(id) : t.piecePrio[p] # "none"}
        IN  /\ t.piecePrio = e.boosted
            /\ Cardinality(b) <= layout[id].window
            /\ \A p \in b : /\ e.sequential
                            /\ \E f \in File(id) : /\ t.filePrio[f] # "none"
                                                   /\ layout[id].first[f] <= p
                                                   /\ p < layout[id].end[f]

Owned(id) == FilesAt(entries[id].dir, Names(id))

\* id is removed in this step, or was and is restored, or its process died.
Removed(id) == \/ entries'[id] = NoEntry
               \/ entries'[id].gen # entries[id].gen
               \/ lib'[id].closed

\* What is called like a partial file is one, unless a torrent has a file of
\* that name: then every torrent that could take it for a partial file of its
\* own has that file too, and no older version has left anything there. This is
\* what the code goes by (storage.go:56): it cannot tell a partial file from
\* another torrent's file of that name.
PartsApart(torrents, files) ==
    \A n \in DOMAIN PartOf :
        IF \E id \in Torrent : PartOf[n] \in ToSet(torrents[id].names)
        THEN /\ \A id \in Torrent : n \in ToSet(torrents[id].names)
                                       => PartOf[n] \in ToSet(torrents[id].names)
             /\ PartOf[n] \notin DOMAIN PartOf
             /\ \A r \in RealDir : files[<<r, PartOf[n]>>] # "old"
        ELSE \A r \in RealDir : files[<<r, PartOf[n]>>] # "new"

\* A file disappears only because the user deleted the directory, because it
\* was a partial file that now has its own name, or because a torrent it
\* belongs to was removed with its data; and then it is a regular file that no
\* other torrent with metadata has (remove.go:43, 127). A torrent that is
\* still looking for its metadata is not protected: its files are not known.
Vanishes(l) == disk[l] # "nothing" /\ disk'[l] = "nothing"

RemovalSparesOthers ==
    [][\A l \in Location : Vanishes(l) =>
         \/ l[1] \in gone'
         \/ \E n \in DOMAIN PartOf : PartOf[n] = l[2] /\ disk[l] = "old" /\ disk'[<<l[1], n>>] = "old"
         \/ /\ disk[l] # "odd"
            /\ \E id \in Torrent : /\ Has(id) /\ l \in Owned(id) /\ Removed(id)
                                   /\ \A o \in Others(id) : l \notin Owned(o)]_vars

\* Data of an older version is never lost: a partial file goes away only when
\* its data has the final name, at whatever point the migration stops, and
\* no file is replaced by another (storage.go:69-79).
LegacyDataIsKept ==
    [][\A r \in RealDir \ gone' :
         /\ \A n \in DOMAIN PartOf :
              disk[<<r, PartOf[n]>>] = "old" =>
                 disk'[<<r, PartOf[n]>>] = "old" \/ disk'[<<r, n>>] = "old"
         /\ \A n \in Name : disk[<<r, n>>] = "new" => disk'[<<r, n>>] # "old"]_vars

-----------------------------------------------------------------------------
\* The goroutine of Add gets the mutex, and the daemon asks for a snapshot of
\* every torrent once a second.
Fairness == \A id \in Torrent : /\ WF_vars(Snapshot(id))
                                /\ \A gen \in 1..MaxGen : WF_vars(MetadataGoroutine(id, gen))

FairSpec == Spec /\ Fairness

\* p is the first unfinished piece of the files that are not to be skipped.
FirstNeeded(id, p) ==
    LET wished == [lib[id] EXCEPT !.filePrio =
                     [f \in File(id) |-> Wished(entries[id].priorities[f])]]
    IN  p \in Wanted(id, wished) /\ \A q \in Wanted(id, wished) : p <= q

GetsFirstPiece(id) ==
    open /\ Has(id) /\ Live(id) /\ lib[id].info /\ entries[id].sequential =>
        \A p \in Piece(id) : FirstNeeded(id, p) => lib[id].piecePrio[p] = "now"

\* A sequential torrent with metadata gets its first unfinished piece next,
\* again and again, whatever is finished, skipped, checked or added anew in
\* between: the window never stays behind (sequential.go:26).
SequentialGetsFirstPiece == \A id \in Torrent : []<>GetsFirstPiece(id)
=============================================================================
