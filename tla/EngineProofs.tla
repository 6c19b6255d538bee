---------------------------- MODULE EngineProofs ----------------------------
(***************************************************************************)
(* Theorems about the engine adapter: for any torrents, contents, save     *)
(* paths and files on the disk.                                            *)
(***************************************************************************)
EXTENDS EngineProperties, FiniteSetTheorems, TLAPS

(***************************************************************************)
(* The invariant. What holds of an entry e and a library torrent t of id   *)
(* does not depend on other torrents; w are the goroutines that wait.      *)
(***************************************************************************)
\* What the torrents contain is as the constants say.
LayoutOK == /\ layout \in [Torrent -> Content]
            /\ \A id \in Torrent : /\ layout[id].found \subseteq SUBSET Piece(id)
                                   /\ NoEntry \notin Entry(id)

\* The options reach the torrent, unless a later add has overridden them; before
\* the metadata there is a goroutine that will set the priorities.
Follows(id, e, t, w) ==
    ~t.closed => /\ e # NoEntry /\ e.gen = t.gen
                 /\ t.overridden \/ t.allowed = ~e.paused
                 /\ ~t.info => <<id, t.gen>> \in w
                 /\ t.info /\ <<id, t.gen>> \notin w =>
                      \A f \in File(id) : t.filePrio[f] = Wished(e.priorities[f])

BoostedPieces(id, t) == {p \in Piece(id) : t.piecePrio[p] # "none"}

\* Piece p is of a file that is not skipped.
OfWanted(id, t, p) == \E f \in File(id) : /\ t.filePrio[f] # "none"
                                          /\ layout[id].first[f] <= p
                                          /\ p < layout[id].end[f]

\* The engine knows what it has boosted; nothing before the metadata.
Accounts(id, e, t) == /\ t.piecePrio = e.boosted
                      /\ ~t.info => e.boosted = NoBoost(id)

Accounted(id, e, t) ==
    /\ Accounts(id, e, t)
    /\ Cardinality(BoostedPieces(id, t)) <= layout[id].window
    /\ \A p \in BoostedPieces(id, t) : e.sequential /\ OfWanted(id, t, p)

Sound(id, e, t, w) ==
    /\ e \in Entry(id) \union {NoEntry} /\ t \in LibraryTorrent(id)
    /\ Follows(id, e, t, w)
    /\ e # NoEntry => e.sampled \in {0, e.gen} /\ Accounted(id, e, t)

EngineInv ==
    /\ LayoutOK
    /\ open \in BOOLEAN
    /\ entries = [id \in Torrent |-> entries[id]]
    /\ lib = [id \in Torrent |-> lib[id]]
    /\ \A id \in Torrent : Sound(id, entries[id], lib[id], waiting)
    /\ waiting \subseteq Torrent \X (1..MaxGen)
    /\ disk \in [Location -> Contents]
    /\ gone \subseteq RealDir

(***************************************************************************)
(* Sequential mode                                                         *)
(***************************************************************************)
\* The facts about a content that the lemmas below use.
LEMMA ContentFacts ==
  ASSUME LayoutOK, NEW id \in Torrent
  PROVE  /\ Names(id) \in Seq(Name)
         /\ Piece(id) \subseteq Nat /\ IsFiniteSet(Piece(id))
         /\ layout[id].window \in Nat /\ layout[id].window # 0
         /\ layout[id].dirs \subseteq Dir /\ layout[id].offered \subseteq Priority
         /\ layout[id].found \subseteq SUBSET Piece(id)
         /\ NoEntry \notin Entry(id)
<1>1. layout[id] \in Content
  BY DEF LayoutOK
<1>2. Piece(id) \subseteq Nat /\ IsFiniteSet(Piece(id))
  <2>1. layout[id].pieces \in Nat
    BY <1>1 DEF Content
  <2>2. layout[id].pieces - 1 \in Int /\ 0 \in Int
    BY <2>1
  <2>. QED
    BY <2>2, FS_Interval DEF Piece
<1>. QED
  BY <1>1, <1>2 DEF LayoutOK, Content, Names

\* What is before piece p in what is wanted.
AheadOf(id, t, p) == {q \in Wanted(id, t) : q < p}

\* The window never boosts more pieces than it is long, only wanted ones, and
\* only in sequential mode (sequential.go:32-47).
LEMMA WindowFacts ==
  ASSUME LayoutOK, NEW id \in Torrent, NEW sequential \in BOOLEAN, NEW t
  PROVE  LET next == Window(id, sequential, t)
             b == {p \in Piece(id) : next[p] # "none"}
         IN  /\ next \in [Piece(id) -> PiecePriority]
             /\ Cardinality(b) <= layout[id].window
             /\ b \subseteq Wanted(id, t)
             /\ b # {} => sequential
<1> DEFINE next == Window(id, sequential, t)
           b == {p \in Piece(id) : next[p] # "none"}
           w == layout[id].window
           size == [p \in b |-> Cardinality(AheadOf(id, t, p))]
<1>. Piece(id) \subseteq Nat /\ IsFiniteSet(Piece(id)) /\ w \in Nat /\ w # 0
  BY ContentFacts
<1>1. next \in [Piece(id) -> PiecePriority]
  BY DEF Window, PiecePriority
<1>2. \A p \in Piece(id) : IsFiniteSet(AheadOf(id, t, p)) /\ Cardinality(AheadOf(id, t, p)) \in Nat
  <2>1. \A p \in Piece(id) : AheadOf(id, t, p) \in SUBSET Piece(id)
    BY DEF AheadOf, Wanted
  <2>. QED
    BY <2>1, FS_Subset, FS_CardinalityType
<1>3. ASSUME NEW p \in b
      PROVE  sequential /\ p \in Wanted(id, t) /\ Cardinality(AheadOf(id, t, p)) < w
  <2>1. next[p] = IF ~sequential \/ p \notin Wanted(id, t) THEN "none"
                  ELSE IF AheadOf(id, t, p) = {} THEN "now"
                  ELSE IF Cardinality(AheadOf(id, t, p)) < w THEN "readahead"
                  ELSE "none"
    BY DEF Window, AheadOf
  <2>2. Cardinality({}) = 0
    BY FS_EmptySet
  <2>. QED
    BY <1>3, <2>1, <2>2
<1>4. ASSUME NEW p \in b, NEW q \in b, p < q PROVE size[p] < size[q]
  <2>1. AheadOf(id, t, p) \union {p} \in SUBSET AheadOf(id, t, q) /\ p \notin AheadOf(id, t, p)
    <3> DEFINE wanted == Wanted(id, t)
    <3>1. wanted \subseteq Nat /\ p \in wanted /\ q \in wanted
      BY <1>3 DEF Wanted
    <3>2. AheadOf(id, t, p) = {r \in wanted : r < p} /\ AheadOf(id, t, q) = {r \in wanted : r < q}
      BY DEF AheadOf
    <3> HIDE DEF wanted
    <3>3. ~(p < p) /\ \A r \in wanted : r < p => r < q
      BY <1>4, <3>1
    <3>4. p \in AheadOf(id, t, q) /\ p \notin AheadOf(id, t, p)
      BY <1>4, <3>1, <3>2, <3>3
    <3>5. AheadOf(id, t, p) \subseteq AheadOf(id, t, q)
      BY <3>2, <3>3
    <3>. QED
      BY <3>4, <3>5
  <2>2. Cardinality(AheadOf(id, t, p) \union {p}) = Cardinality(AheadOf(id, t, p)) + 1
    BY <1>2, <2>1, FS_AddElement
  <2>3. Cardinality(AheadOf(id, t, p) \union {p}) <= Cardinality(AheadOf(id, t, q))
    BY <1>2, <2>1, FS_Subset
  <2>4. Cardinality(AheadOf(id, t, p)) \in Nat /\ Cardinality(AheadOf(id, t, q)) \in Nat
    BY <1>2
  <2>5. size[p] = Cardinality(AheadOf(id, t, p)) /\ size[q] = Cardinality(AheadOf(id, t, q))
    OBVIOUS
  <2> HIDE DEF size
  <2>. QED
    BY <2>2, <2>3, <2>4, <2>5
<1>5. size \in Injection(b, 0..(w - 1))
  <2>1. size \in [b -> 0..(w - 1)]
    BY <1>2, <1>3
  <2>2. \A p, q \in b : p < q \/ q < p \/ p = q
    OBVIOUS
  <2>3. \A p \in b : size[p] \in Nat
    BY <1>2
  <2> HIDE DEF b, size
  <2>4. \A p, q \in b : size[p] = size[q] => p = q
    BY <1>4, <2>2, <2>3
  <2>. QED
    BY <2>1, <2>4 DEF Injection, IsInjective
<1>6. Cardinality(b) <= w
  <2> HIDE DEF b, size, w
  <2>1. w - 1 \in Int /\ 0 \in Int /\ ~(0 > w - 1) /\ (w - 1) - 0 + 1 = w
    OBVIOUS
  <2>2. IsFiniteSet(0..(w - 1)) /\ Cardinality(0..(w - 1)) = w
    <3>1. /\ IsFiniteSet(0..(w - 1))
          /\ Cardinality(0..(w - 1)) = IF 0 > w - 1 THEN 0 ELSE (w - 1) - 0 + 1
      BY <2>1, FS_Interval
    <3>. QED
      BY <2>1, <3>1
  <2>3. Cardinality(b) <= Cardinality(0..(w - 1))
    BY <1>5, <2>2, FS_Injection
  <2>. QED
    BY <2>2, <2>3
<1>. QED
  BY <1>1, <1>3, <1>6

\* Nothing is boosted: nothing needs an account.
LEMMA NoBoostFacts ==
  ASSUME LayoutOK, NEW id \in Torrent, NEW e, NEW t,
         t.piecePrio = NoBoost(id), e.boosted = NoBoost(id)
  PROVE  Accounted(id, e, t)
<1>1. BoostedPieces(id, t) = {}
  BY DEF BoostedPieces, NoBoost
<1>2. Cardinality({}) = 0
  BY FS_EmptySet
<1>. QED
  BY <1>1, <1>2, ContentFacts DEF Accounted, Accounts

\* updateSequential accounts for what it boosts, and touches nothing else
\* (sequential.go:27).
LEMMA PutFacts ==
  ASSUME LayoutOK, NEW id \in Torrent, NEW e \in Entry(id), NEW t \in LibraryTorrent(id),
         Accounts(id, e, t), e.sampled \in {0, e.gen},
         NEW w, Follows(id, e, t, w)
  PROVE  Sound(id, EntryUpdated(id, e, t), TorrentUpdated(id, e, t), w)
<1> DEFINE next == Window(id, e.sequential, t)
           e2 == [e EXCEPT !.boosted = next]
           t2 == [t EXCEPT !.piecePrio = next]
<1>. e.sequential \in BOOLEAN
  BY DEF Entry, EntryOf
<1>1. CASE ~t.info
  <2>1. Accounted(id, e, t)
    BY <1>1, NoBoostFacts DEF Accounts
  <2>. QED
    BY <1>1, <2>1 DEF EntryUpdated, TorrentUpdated, Sound
<1>2. CASE t.info
  <2> DEFINE b == {p \in Piece(id) : next[p] # "none"}
  <2>1. /\ next \in [Piece(id) -> PiecePriority]
        /\ Cardinality(b) <= layout[id].window
        /\ b \subseteq Wanted(id, t) /\ (b # {} => e.sequential)
    BY WindowFacts
  <2>2. Boosted(id, e.boosted, next, t) = next
    <3>1. \A p \in Piece(id) : next[p] = e.boosted[p] => t.piecePrio[p] = next[p]
      BY DEF Accounts
    <3> HIDE DEF next
    <3>. QED
      BY <2>1, <3>1 DEF Boosted
  <2>3. EntryUpdated(id, e, t) = e2 /\ TorrentUpdated(id, e, t) = t2
    BY <1>2, <2>2 DEF EntryUpdated, TorrentUpdated
  <2> HIDE DEF next
  <2>4. /\ e2 \in Entry(id) /\ e2.gen = e.gen /\ e2.paused = e.paused
        /\ e2.sampled = e.sampled /\ e2.priorities = e.priorities
        /\ e2.sequential = e.sequential /\ e2.boosted = next
    BY <2>1 DEF Entry, EntryOf, Piece
  <2>5. /\ t2 \in LibraryTorrent(id) /\ t2.gen = t.gen /\ t2.closed = t.closed
        /\ t2.info = t.info /\ t2.allowed = t.allowed /\ t2.overridden = t.overridden
        /\ t2.filePrio = t.filePrio
        /\ t2.piecePrio = next
    BY <2>1 DEF LibraryTorrent
  <2> HIDE DEF e2, t2
  <2>6. Follows(id, e2, t2, w)
    <3>1. e2 # NoEntry
      BY <2>4, ContentFacts
    <3>. QED
      BY <2>4, <2>5, <3>1 DEF Follows
  <2>7. Accounted(id, e2, t2)
    <3>1. BoostedPieces(id, t2) = b
      BY <2>5 DEF BoostedPieces
    <3>2. \A p \in Wanted(id, t) : OfWanted(id, t2, p)
      BY <2>5 DEF Wanted, OfWanted
    <3>3. Accounts(id, e2, t2)
      BY <1>2, <2>4, <2>5 DEF Accounts
    <3> HIDE DEF b
    <3>. QED
      BY <2>1, <2>4, <3>1, <3>2, <3>3 DEF Accounted
  <2>. QED
    BY <2>3, <2>4, <2>5, <2>6, <2>7 DEF Sound
<1>. QED
  BY <1>1, <1>2

(***************************************************************************)
(* The disk                                                                *)
(***************************************************************************)
\* Moving partial files, whole or in part, leaves files of the known kinds.
LEMMA UnlinkedFacts ==
  ASSUME NEW d \in Dir, NEW files \in [Location -> Contents], NEW moved \in SUBSET DOMAIN PartOf
  PROVE  /\ Unlinked(files, d, moved) \in [Location -> Contents]
         /\ \A n \in DOMAIN PartOf :
              files[At(d, PartOf[n])] \in Contents
              /\ Link(Unlinked(files, d, moved), d, n) \in [Location -> Contents]
<1>1. \A n \in DOMAIN PartOf : At(d, PartOf[n]) \in Location /\ At(d, n) \in Location
  BY DirAssumption, PartAssumption DEF At, Location
<1>2. Unlinked(files, d, moved) \in [Location -> Contents]
  <2>1. "nothing" \in Contents
    BY DEF Contents
  <2>2. ASSUME NEW l \in Location, \E n \in moved : l = At(d, n)
        PROVE  files[At(d, PartOf[CHOOSE n \in moved : l = At(d, n)])] \in Contents
    BY <1>1, <2>2
  <2>. QED
    BY <2>1, <2>2 DEF Unlinked
<1>3. \A n \in DOMAIN PartOf : Link(Unlinked(files, d, moved), d, n) \in [Location -> Contents]
  BY <1>1, <1>2 DEF Link
<1>. QED
  BY <1>1, <1>2, <1>3

\* Whatever is moved or deleted, whole or in part, the disk keeps its type.
LEMMA DiskFacts ==
  ASSUME NEW d \in Dir, NEW files \in [Location -> Contents], NEW names, NEW k
  PROVE  /\ Migrated(files, d, names) \in [Location -> Contents]
         /\ Interrupted(files, d, names) \subseteq [Location -> Contents]
         /\ Deleted(files, d, names, k) \in [Location -> Contents]
<1>1. Legacy(files, d, names) \subseteq DOMAIN PartOf
  BY DEF Legacy
<1>2. Interrupted(files, d, names) \subseteq [Location -> Contents]
  BY <1>1, UnlinkedFacts DEF Interrupted
<1>. QED
  BY <1>1, <1>2, UnlinkedFacts DEF Migrated, Deleted, Contents

(***************************************************************************)
(* Steps                                                                   *)
(***************************************************************************)
\* What a torrent contains never changes, so what is sound stays so.
LEMMA SoundStays ==
  ASSUME UNCHANGED layout, NEW id \in Torrent,
         Sound(id, entries'[id], lib'[id], waiting')
  PROVE  Sound(id, entries[id], lib[id], waiting)'
BY DEF Sound, Follows, Accounted, Accounts, BoostedPieces, OfWanted, Entry, EntryOf,
       LibraryTorrent, File, Piece, NoBoost

\* A step that changes the entry or the library torrent of one id only.
LEMMA OneChanges ==
  ASSUME EngineInv, NEW id \in Torrent, NEW e, NEW t,
         entries' = [entries EXCEPT ![id] = e], lib' = [lib EXCEPT ![id] = t],
         Sound(id, e, t, waiting'), UNCHANGED layout, open' \in BOOLEAN,
         waiting' \subseteq Torrent \X (1..MaxGen),
         \A o \in Torrent \ {id} : \A g : <<o, g>> \in waiting' <=> <<o, g>> \in waiting,
         disk' \in [Location -> Contents], gone' \subseteq RealDir
  PROVE  EngineInv'
<1>1. LayoutOK'
  BY DEF EngineInv, LayoutOK, Piece, Entry
<1>2. ASSUME NEW o \in Torrent PROVE Sound(o, entries[o], lib[o], waiting)'
  <2>1. CASE o = id
    <3>1. entries'[o] = e /\ lib'[o] = t
      BY <2>1 DEF EngineInv
    <3>. QED
      BY <2>1, <3>1, SoundStays
  <2>2. CASE o # id
    <3>1. entries'[o] = entries[o] /\ lib'[o] = lib[o]
      BY <2>2 DEF EngineInv
    <3>2. Sound(o, entries[o], lib[o], waiting)
      BY DEF EngineInv
    <3>3. Sound(o, entries[o], lib[o], waiting')
      BY <2>2, <3>2 DEF Sound, Follows
    <3>. QED
      BY <3>1, <3>3, SoundStays
  <2>. QED
    BY <2>1, <2>2
<1>3. /\ entries' = [o \in Torrent |-> entries'[o]]
      /\ lib' = [o \in Torrent |-> lib'[o]]
  BY DEF EngineInv
<1>. QED
  BY <1>1, <1>2, <1>3 DEF EngineInv

\* A step that changes none.
LEMMA NoneChanges ==
  ASSUME EngineInv, UNCHANGED <<entries, lib, waiting, layout>>, open' \in BOOLEAN,
         disk' \in [Location -> Contents], gone' \subseteq RealDir
  PROVE  EngineInv'
<1>1. LayoutOK'
  BY DEF EngineInv, LayoutOK, Piece, Entry
<1>2. ASSUME NEW id \in Torrent PROVE Sound(id, entries[id], lib[id], waiting)'
  BY SoundStays DEF EngineInv
<1>. QED
  BY <1>1, <1>2 DEF EngineInv

\* The entry and the library torrent of one id, before a step.
LEMMA SoundFacts ==
  ASSUME EngineInv, NEW id \in Torrent
  PROVE  /\ LayoutOK
         /\ Sound(id, entries[id], lib[id], waiting)
         /\ entries[id] \in Entry(id) \union {NoEntry} /\ lib[id] \in LibraryTorrent(id)
         /\ NoEntry \notin Entry(id)
         /\ entries = [entries EXCEPT ![id] = entries[id]]
         /\ lib = [lib EXCEPT ![id] = lib[id]]
BY ContentFacts DEF EngineInv, Sound

\* A torrent that the library makes.
LEMMA FreshFacts ==
  ASSUME LayoutOK, NEW id \in Torrent, NEW gen \in 0..MaxGen, NEW info \in BOOLEAN,
         NEW paused \in BOOLEAN, NEW complete \in SUBSET Piece(id)
  PROVE  Fresh(id, gen, info, paused, complete) \in LibraryTorrent(id)
BY DEF Fresh, LibraryTorrent, NoBoost, PiecePriority

\* The pieces found on the disk are pieces of the torrent.
LEMMA MayHaveFacts ==
  ASSUME LayoutOK, NEW id \in Torrent, NEW info, NEW complete \in MayHave(id, info)
  PROVE  complete \in SUBSET Piece(id)
BY ContentFacts DEF MayHave

\* The goroutine of Add sets the priorities the entry has by then
\* (engine.go:94), or finds that its torrent was dropped.
LEMMA GoroutineKeeps ==
  ASSUME EngineInv, NEW id \in Torrent, NEW gen \in 1..MaxGen, MetadataGoroutine(id, gen)
  PROVE  EngineInv'
<1>. LayoutOK
  BY SoundFacts
<1>1. /\ waiting' = waiting \ {<<id, gen>>}
      /\ UNCHANGED <<open, disk, gone, layout>>
  BY DEF MetadataGoroutine
<1>2. CASE entries[id] # NoEntry /\ entries[id].gen = gen /\ lib[id].info /\ UNCHANGED layout
           /\ LET e == entries[id]
                  t == [lib[id] EXCEPT !.filePrio = [f \in File(id) |-> Wished(e.priorities[f])]]
              IN  Put(id, e, t)
  <2> DEFINE e == entries[id]
             prio == [f \in File(id) |-> Wished(e.priorities[f])]
             t == [lib[id] EXCEPT !.filePrio = prio]
  <2>1. e \in Entry(id) /\ lib[id] \in LibraryTorrent(id) /\ e # NoEntry
    BY <1>2, SoundFacts
  <2>2. prio \in [File(id) -> {"none", "normal", "high"}]
    BY DEF Wished, PieceOf
  <2>3. /\ t \in LibraryTorrent(id) /\ t.filePrio = prio
        /\ t.gen = lib[id].gen /\ t.closed = lib[id].closed /\ t.info = lib[id].info
        /\ t.allowed = lib[id].allowed /\ t.overridden = lib[id].overridden
        /\ t.piecePrio = lib[id].piecePrio
    <3> HIDE DEF prio
    <3>. QED
      BY <2>1, <2>2 DEF LibraryTorrent
  <2>4. e.sampled \in {0, e.gen} /\ Accounts(id, e, lib[id]) /\ Follows(id, e, lib[id], waiting)
    BY <2>1, SoundFacts DEF Sound, Accounted
  <2>5. Accounts(id, e, t) /\ Follows(id, e, t, waiting')
    BY <1>2, <2>1, <2>3, <2>4 DEF Accounts, Follows
  <2>6. /\ entries' = [entries EXCEPT ![id] = EntryUpdated(id, e, t)]
        /\ lib' = [lib EXCEPT ![id] = TorrentUpdated(id, e, t)]
    BY <1>2 DEF Put
  <2> HIDE DEF e, t
  <2>7. Sound(id, EntryUpdated(id, e, t), TorrentUpdated(id, e, t), waiting')
    BY <2>1, <2>3, <2>4, <2>5, PutFacts
  <2>. QED
    BY <1>1, <2>6, <2>7, OneChanges DEF EngineInv
<1>3. CASE (gen # lib[id].gen \/ lib[id].closed) /\ UNCHANGED <<entries, lib>>
  <2>1. Sound(id, entries[id], lib[id], waiting')
    BY <1>1, <1>3, SoundFacts DEF Sound, Follows
  <2>2. entries' = [entries EXCEPT ![id] = entries[id]] /\ lib' = [lib EXCEPT ![id] = lib[id]]
    BY <1>3, SoundFacts
  <2>. QED
    BY <1>1, <2>1, <2>2, OneChanges DEF EngineInv
<1>. QED
  BY <1>1, <1>2, <1>3 DEF MetadataGoroutine

\* An option that is set, or a sample that is taken: updateSequential follows.
LEMMA PutKeeps ==
  ASSUME EngineInv, NEW id \in Torrent, NEW e \in Entry(id), NEW t \in LibraryTorrent(id),
         Put(id, e, t), UNCHANGED <<open, waiting, disk, gone, layout>>,
         Accounts(id, e, t), e.sampled \in {0, e.gen}, Follows(id, e, t, waiting)
  PROVE  EngineInv'
<1>1. Sound(id, EntryUpdated(id, e, t), TorrentUpdated(id, e, t), waiting')
  BY SoundFacts, PutFacts
<1>. QED
  BY <1>1, OneChanges DEF Put, EngineInv

\* The options, and the sample: the entry and its library torrent change alike.
LEMMA OptionKeeps ==
  ASSUME EngineInv, NEW id \in Torrent, SetOption(id) \/ Snapshot(id)
  PROVE  EngineInv'
<1> DEFINE e0 == entries[id]
           t0 == lib[id]
<1>. LayoutOK /\ layout[id].offered \subseteq Priority
  BY SoundFacts, ContentFacts
<1>1. ASSUME e0 # NoEntry
      PROVE  /\ e0 \in Entry(id) /\ t0 \in LibraryTorrent(id)
             /\ e0.sampled \in {0, e0.gen} /\ Accounted(id, e0, t0) /\ Accounts(id, e0, t0)
             /\ Follows(id, e0, t0, waiting)
  BY <1>1, SoundFacts DEF Sound, Accounted
<1>2. ASSUME NEW paused \in BOOLEAN, SetPaused(id, paused) PROVE EngineInv'
  <2> DEFINE e == [e0 EXCEPT !.paused = paused]
             t == [t0 EXCEPT !.allowed = ~paused, !.overridden = FALSE]
  <2>1. e0 # NoEntry
    BY <1>2 DEF SetPaused
  <2>2. /\ e \in Entry(id) /\ e.gen = e0.gen /\ e.paused = paused /\ e.sampled = e0.sampled
        /\ e.sequential = e0.sequential /\ e.boosted = e0.boosted
        /\ e.priorities = e0.priorities
    BY <1>1, <2>1 DEF Entry, EntryOf
  <2>3. /\ t \in LibraryTorrent(id) /\ t.gen = t0.gen /\ t.allowed = ~paused
        /\ t.closed = t0.closed /\ t.info = t0.info /\ t.filePrio = t0.filePrio
        /\ t.piecePrio = t0.piecePrio
    BY <1>1, <2>1 DEF LibraryTorrent
  <2>4. entries' = [entries EXCEPT ![id] = e] /\ lib' = [lib EXCEPT ![id] = t]
    BY <1>2 DEF SetPaused
  <2>5. UNCHANGED <<open, waiting, disk, gone, layout>>
    BY <1>2 DEF SetPaused
  <2>6. e # NoEntry
    BY <2>2, SoundFacts
  <2> HIDE DEF e, t
  <2>7. Follows(id, e, t, waiting')
    BY <1>1, <2>1, <2>2, <2>3, <2>5, <2>6 DEF Follows
  <2>8. Accounted(id, e, t)
    BY <1>1, <2>1, <2>2, <2>3 DEF Accounted, Accounts, BoostedPieces, OfWanted
  <2>9. Sound(id, e, t, waiting')
    BY <1>1, <2>1, <2>2, <2>3, <2>7, <2>8 DEF Sound
  <2>. QED
    BY <2>4, <2>5, <2>9, OneChanges DEF EngineInv
<1>3. ASSUME NEW enabled \in BOOLEAN, SetSequential(id, enabled) PROVE EngineInv'
  <2> DEFINE e == [e0 EXCEPT !.sequential = enabled]
  <2>1. e0 # NoEntry /\ Put(id, e, t0) /\ UNCHANGED <<open, waiting, disk, gone, layout>>
    BY <1>3 DEF SetSequential
  <2>2. /\ e \in Entry(id) /\ e.gen = e0.gen /\ e.paused = e0.paused /\ e.sampled = e0.sampled
        /\ e.boosted = e0.boosted /\ e.priorities = e0.priorities
    BY <1>1, <2>1 DEF Entry, EntryOf
  <2>3. e # NoEntry
    BY <2>2, SoundFacts
  <2> HIDE DEF e
  <2>4. Follows(id, e, t0, waiting) /\ Accounts(id, e, t0)
    BY <1>1, <2>1, <2>2, <2>3 DEF Follows, Accounts
  <2>. QED
    BY <1>1, <2>1, <2>2, <2>4, PutKeeps
<1>4. CASE Snapshot(id)
  <2> DEFINE e == [e0 EXCEPT !.sampled = e0.gen]
  <2>1. e0 # NoEntry /\ Put(id, e, t0) /\ UNCHANGED <<open, waiting, disk, gone, layout>>
    BY <1>4 DEF Snapshot
  <2>2. /\ e \in Entry(id) /\ e.gen = e0.gen /\ e.paused = e0.paused /\ e.sampled = e0.gen
        /\ e.boosted = e0.boosted /\ e.priorities = e0.priorities
    BY <1>1, <2>1, MaxGenAssumption DEF Entry, EntryOf
  <2>3. e # NoEntry
    BY <2>2, SoundFacts
  <2> HIDE DEF e
  <2>4. Follows(id, e, t0, waiting) /\ Accounts(id, e, t0)
    BY <1>1, <2>1, <2>2, <2>3 DEF Follows, Accounts
  <2>. QED
    BY <1>1, <2>1, <2>2, <2>4, PutKeeps
<1>5. ASSUME NEW f \in File(id), NEW priority \in Priority, SetFilePriority(id, f, priority)
      PROVE  EngineInv'
  <2> DEFINE e == [e0 EXCEPT !.priorities[f] = priority]
             t == [t0 EXCEPT !.filePrio[f] = PieceOf(priority)]
  <2>1. /\ e0 # NoEntry /\ t0.info
        /\ Put(id, e, t) /\ UNCHANGED <<open, waiting, disk, gone, layout>>
    BY <1>5 DEF SetFilePriority
  <2>2. /\ e \in Entry(id) /\ e.gen = e0.gen /\ e.paused = e0.paused /\ e.sampled = e0.sampled
        /\ e.boosted = e0.boosted /\ e.priorities = [e0.priorities EXCEPT ![f] = priority]
    BY <1>1, <2>1 DEF Entry, EntryOf, File
  <2>3. PieceOf(priority) \in {"none", "normal", "high"} /\ Wished(priority) = PieceOf(priority)
    BY DEF PieceOf, Wished, Priority, Unset
  <2>4. /\ t \in LibraryTorrent(id) /\ t.gen = t0.gen /\ t.allowed = t0.allowed
        /\ t.overridden = t0.overridden /\ t.closed = t0.closed /\ t.info = t0.info /\ t.piecePrio = t0.piecePrio
        /\ t.filePrio = [t0.filePrio EXCEPT ![f] = PieceOf(priority)]
    BY <1>1, <2>1, <2>3 DEF LibraryTorrent
  <2>5. e # NoEntry
    BY <2>2, SoundFacts
  <2>6. /\ e0.priorities \in [File(id) -> Priority \union {Unset}]
        /\ t0.filePrio \in [File(id) -> {"none", "normal", "high"}]
    BY <1>1, <2>1 DEF Entry, EntryOf, File, LibraryTorrent
  <2>7. \A g \in File(id) : t0.filePrio[g] = Wished(e0.priorities[g])
                              => t.filePrio[g] = Wished(e.priorities[g])
    BY <2>2, <2>3, <2>4, <2>6
  <2> HIDE DEF e, t
  <2>8. Follows(id, e, t, waiting) /\ Accounts(id, e, t)
    BY <1>1, <2>1, <2>2, <2>4, <2>5, <2>7 DEF Follows, Accounts
  <2>. QED
    BY <1>1, <2>1, <2>2, <2>4, <2>8, PutKeeps
<1>. QED
  BY <1>2, <1>3, <1>4, <1>5 DEF SetOption, Pause, Resume, Asked

(***************************************************************************)
(* Removals                                                                *)
(***************************************************************************)
\* The torrent of an entry is dropped; the entry goes, or stays.
LEMMA DropKeeps ==
  ASSUME EngineInv, NEW id \in Torrent, NEW e \in {NoEntry, entries[id]},
         entries' = [entries EXCEPT ![id] = e],
         lib' = [lib EXCEPT ![id] = Dropped(lib[id])],
         UNCHANGED <<open, waiting, layout>>,
         disk' \in [Location -> Contents], gone' \subseteq RealDir
  PROVE  EngineInv'
<1> DEFINE t == Dropped(lib[id])
<1>1. /\ t \in LibraryTorrent(id) /\ t.closed
      /\ t.info = lib[id].info /\ t.filePrio = lib[id].filePrio /\ t.piecePrio = lib[id].piecePrio
  BY SoundFacts DEF Dropped, LibraryTorrent
<1> HIDE DEF t
<1>2. Sound(id, e, t, waiting')
  <2>1. e \in Entry(id) \union {NoEntry} /\ Follows(id, e, t, waiting')
    BY <1>1, SoundFacts DEF Follows
  <2>2. ASSUME e # NoEntry PROVE e.sampled \in {0, e.gen} /\ Accounted(id, e, t)
    <3>1. e = entries[id]
      BY <2>2
    <3>2. e.sampled \in {0, e.gen} /\ Accounted(id, e, lib[id])
      BY <2>2, <3>1, SoundFacts DEF Sound
    <3>. QED
      BY <1>1, <3>2 DEF Accounted, Accounts, BoostedPieces, OfWanted
  <2>. QED
    BY <1>1, <2>1, <2>2 DEF Sound
<1>. QED
  BY <1>2, OneChanges DEF EngineInv, t

\* A torrent whose removal failed gets a new library torrent with the options
\* of the old one (engine.go:261).
LEMMA RestoredKeeps ==
  ASSUME EngineInv, NEW id \in Torrent, entries[id] # NoEntry, lib[id].gen < MaxGen,
         NEW complete \in MayHave(id, TRUE), Restored(id, complete),
         UNCHANGED <<open, waiting, gone, layout>>, disk' \in [Location -> Contents]
  PROVE  EngineInv'
<1> DEFINE e0 == entries[id]
           gen == lib[id].gen + 1
           e == [e0 EXCEPT !.gen = gen, !.boosted = NoBoost(id), !.sampled = 0]
           fresh == Fresh(id, gen, TRUE, e0.paused, complete)
           prio == [f \in File(id) |-> Wished(e0.priorities[f])]
           t == [fresh EXCEPT !.filePrio = prio]
<1>. LayoutOK
  BY SoundFacts
<1>1. gen \in 1..MaxGen /\ e0 \in Entry(id)
  BY SoundFacts, MaxGenAssumption DEF LibraryTorrent
<1>2. NoBoost(id) \in [0..(layout[id].pieces - 1) -> PiecePriority] /\ 0 \in 0..MaxGen
  BY MaxGenAssumption DEF NoBoost, Piece, PiecePriority
<1> HIDE DEF gen, e0
<1>3. /\ e \in Entry(id) /\ e.gen = gen /\ e.paused = e0.paused /\ e.sampled = 0
      /\ e.boosted = NoBoost(id) /\ e.priorities = e0.priorities
  BY <1>1, <1>2 DEF Entry, EntryOf
<1>4. prio \in [File(id) -> {"none", "normal", "high"}]
  BY DEF Wished, PieceOf
<1>5. fresh \in LibraryTorrent(id)
  <2>1. e0.paused \in BOOLEAN
    BY <1>1 DEF Entry, EntryOf
  <2>2. complete \in SUBSET Piece(id)
    BY MayHaveFacts
  <2>3. gen \in 0..MaxGen
    BY <1>1, MaxGenAssumption
  <2>. QED
    BY <2>1, <2>2, <2>3, FreshFacts
<1>6. /\ fresh.gen = gen /\ ~fresh.closed /\ fresh.info /\ fresh.allowed = ~e0.paused
      /\ fresh.piecePrio = NoBoost(id)
  BY DEF Fresh
<1> HIDE DEF fresh
<1>7. /\ t \in LibraryTorrent(id) /\ t.gen = gen /\ ~t.closed /\ t.info
      /\ t.allowed = ~e0.paused /\ t.piecePrio = NoBoost(id) /\ t.filePrio = prio
  <2> HIDE DEF prio
  <2>. QED
    BY <1>4, <1>5, <1>6 DEF LibraryTorrent
<1>8. Put(id, e, t)
  <2>1. /\ e = [entries[id] EXCEPT !.gen = lib[id].gen + 1, !.boosted = NoBoost(id), !.sampled = 0]
        /\ e.paused = e0.paused /\ e.priorities = e0.priorities
    BY <1>3 DEF e0, gen
  <2>. QED
    BY <2>1 DEF Restored, e0, gen, fresh
<1>9. e # NoEntry
  BY <1>3, SoundFacts
<1>10. Follows(id, e, t, waiting)
  <2> HIDE DEF e, t
  <2>. QED
    BY <1>3, <1>7, <1>9 DEF Follows
<1>11. Accounts(id, e, t)
  BY <1>3, <1>7 DEF Accounts
<1> HIDE DEF e, t
<1>12. Sound(id, EntryUpdated(id, e, t), TorrentUpdated(id, e, t), waiting')
  BY <1>3, <1>7, <1>10, <1>11, PutFacts
<1>. QED
  BY <1>8, <1>12, OneChanges DEF Put, EngineInv

\* A removal, done, failed or half done (engine.go:227-285).
LEMMA RemoveKeeps ==
  ASSUME EngineInv, NEW id \in Torrent, RemoveTorrent(id)
  PROVE  EngineInv'
<1> DEFINE d == entries[id].dir
<1>. LayoutOK /\ disk \in [Location -> Contents] /\ gone \subseteq RealDir
  BY DEF EngineInv
<1>1. ASSUME entries[id] # NoEntry, NEW k
      PROVE  d \in Dir /\ LeftAfter(id, k) \in [Location -> Contents]
  <2>1. d \in Dir
    BY <1>1, SoundFacts DEF Entry, EntryOf
  <2>. QED
    BY <2>1, DiskFacts DEF LeftAfter
<1>2. CASE RemoveKeepingData(id)
  BY <1>2, DropKeeps DEF RemoveKeepingData, RemoveEntry
<1>3. CASE RemoveCloseFails(id)
  <2>1. entries' = [entries EXCEPT ![id] = entries[id]]
    BY <1>3, SoundFacts DEF RemoveCloseFails
  <2>. QED
    BY <1>3, <2>1, DropKeeps DEF RemoveCloseFails
<1>4. CASE RemoveWithData(id)
  <2>1. disk' \in [Location -> Contents]
    BY <1>1, <1>4, DiskFacts DEF RemoveWithData, MayDelete
  <2>. QED
    BY <1>4, <2>1, DropKeeps DEF RemoveWithData, RemoveEntry
<1>5. ASSUME NEW k, RemoveFails(id, k) PROVE EngineInv'
  <2>1. entries[id] # NoEntry /\ lib[id].gen < MaxGen
    BY <1>5 DEF RemoveFails, MayDelete
  <2>2. disk' \in [Location -> Contents]
    BY <1>1, <1>5, <2>1, DiskFacts DEF RemoveFails
  <2>3. UNCHANGED <<open, waiting, gone, layout>>
    BY <1>5 DEF RemoveFails
  <2>. QED
    BY <1>5, <2>1, <2>2, <2>3, RestoredKeeps DEF RemoveFails
<1>6. ASSUME NEW k, RestoreFails(id, k) PROVE EngineInv'
  <2>1. entries[id] # NoEntry
    BY <1>6 DEF RestoreFails, MayDelete
  <2>2. disk' \in [Location -> Contents]
    BY <1>1, <1>6, <2>1, DiskFacts DEF RestoreFails
  <2>3. entries' = [entries EXCEPT ![id] = entries[id]]
    BY <1>6, SoundFacts DEF RestoreFails
  <2>4. lib' = [lib EXCEPT ![id] = Dropped(lib[id])] /\ UNCHANGED <<open, waiting, gone, layout>>
    BY <1>6 DEF RestoreFails
  <2>. QED
    BY <2>2, <2>3, <2>4, DropKeeps
<1>. QED
  BY <1>2, <1>3, <1>4, <1>5, <1>6 DEF RemoveTorrent

(***************************************************************************)
(* The library, the process and the user                                   *)
(***************************************************************************)
\* The library torrent's metadata or pieces change, or a later add overrides
\* what the entry says.
LEMMA LibraryChanges ==
  ASSUME EngineInv, NEW id \in Torrent, NEW t \in LibraryTorrent(id),
         lib' = [lib EXCEPT ![id] = t], UNCHANGED <<open, entries, waiting, layout>>,
         t.gen = lib[id].gen, t.closed = lib[id].closed,
         t.overridden \/ t.allowed = ~entries[id].paused
           \/ (t.allowed = lib[id].allowed /\ t.overridden = lib[id].overridden),
         t.filePrio = lib[id].filePrio, t.piecePrio = lib[id].piecePrio,
         t.info = lib[id].info \/ (t.info /\ <<id, t.gen>> \in waiting),
         disk' \in [Location -> Contents], gone' \subseteq RealDir
  PROVE  EngineInv'
<1>1. Follows(id, entries[id], t, waiting')
  BY SoundFacts DEF Sound, Follows
<1>2. ASSUME entries[id] # NoEntry
      PROVE  entries[id].sampled \in {0, entries[id].gen} /\ Accounted(id, entries[id], t)
  <2>1. entries[id].sampled \in {0, entries[id].gen} /\ Accounted(id, entries[id], lib[id])
    BY <1>2, SoundFacts DEF Sound
  <2>2. BoostedPieces(id, t) = BoostedPieces(id, lib[id])
    BY DEF BoostedPieces
  <2>3. \A p : OfWanted(id, t, p) <=> OfWanted(id, lib[id], p)
    BY DEF OfWanted
  <2>. QED
    BY <2>1, <2>2, <2>3 DEF Accounted, Accounts
<1>3. Sound(id, entries[id], t, waiting')
  BY <1>1, <1>2, SoundFacts DEF Sound
<1>4. entries' = [entries EXCEPT ![id] = entries[id]]
  BY SoundFacts
<1>. QED
  BY <1>3, <1>4, OneChanges DEF EngineInv

\* The library torrent gets its metadata, while what may be transferred is as
\* it was or as a later add asks.
LEMMA LearnsKeeps ==
  ASSUME EngineInv, NEW id \in Torrent, NEW t \in LibraryTorrent(id), NEW absent,
         ~lib[id].closed, Learns(id, t, absent),
         t.gen = lib[id].gen, t.closed = lib[id].closed, t.info = lib[id].info,
         t.overridden \/ t.allowed = ~entries[id].paused
           \/ (t.allowed = lib[id].allowed /\ t.overridden = lib[id].overridden),
         t.filePrio = lib[id].filePrio, t.piecePrio = lib[id].piecePrio,
         UNCHANGED <<open, entries, waiting, layout>>, gone' \subseteq RealDir
  PROVE  EngineInv'
<1>1. PICK complete \in MayHave(id, TRUE) :
        lib' = [lib EXCEPT ![id] = [t EXCEPT !.info = TRUE, !.complete = complete]]
  BY DEF Learns
<1> DEFINE u == [t EXCEPT !.info = TRUE, !.complete = complete]
<1>2. complete \in SUBSET Piece(id)
  BY SoundFacts, MayHaveFacts
<1>3. /\ u \in LibraryTorrent(id) /\ u.gen = t.gen /\ u.closed = t.closed /\ u.info
      /\ u.allowed = t.allowed /\ u.overridden = t.overridden
      /\ u.filePrio = t.filePrio /\ u.piecePrio = t.piecePrio
  BY <1>2 DEF LibraryTorrent
<1>4. t.info \/ <<id, t.gen>> \in waiting
  BY SoundFacts DEF Sound, Follows
<1>5. entries[id].dir \in Dir /\ disk \in [Location -> Contents]
  BY SoundFacts DEF Sound, Follows, Entry, EntryOf, EngineInv
<1>6. disk' \in [Location -> Contents]
  BY <1>5, DiskFacts DEF Learns
<1>7. lib' = [lib EXCEPT ![id] = u]
  BY <1>1
<1>8. t.info \in BOOLEAN /\ u.info \in BOOLEAN
  BY <1>3 DEF LibraryTorrent
<1> HIDE DEF u
<1>. QED
  BY <1>3, <1>4, <1>6, <1>7, <1>8, LibraryChanges

\* A later add of the same torrent (engine.go:77-91).
LEMMA AgainKeeps ==
  ASSUME EngineInv, NEW id \in Torrent, NEW d,
         \/ \E info \in BOOLEAN, paused \in BOOLEAN : AddAgain(id, d, info, paused)
         \/ AddAgainFails(id, d)
  PROVE  EngineInv'
<1> DEFINE t0 == lib[id]
<1>. t0 \in LibraryTorrent(id) /\ gone \subseteq RealDir /\ open \in BOOLEAN
     /\ disk \in [Location -> Contents]
  BY SoundFacts DEF EngineInv
<1>1. ~t0.closed => entries[id].dir \in Dir
  BY SoundFacts DEF Sound, Follows, Entry, EntryOf
<1>2. ASSUME NEW info \in BOOLEAN, NEW paused \in BOOLEAN, AddAgain(id, d, info, paused)
      PROVE  EngineInv'
  <2> DEFINE t == [t0 EXCEPT !.allowed = ~paused, !.overridden = paused # entries[id].paused]
  <2>1. /\ t \in LibraryTorrent(id) /\ t.gen = t0.gen /\ t.closed = t0.closed
        /\ t.info = t0.info /\ t.filePrio = t0.filePrio /\ t.piecePrio = t0.piecePrio
        /\ t.allowed = ~paused /\ t.overridden = (paused # entries[id].paused)
    BY DEF LibraryTorrent
  <2>2. t.overridden \/ t.allowed = ~entries[id].paused
    <3>1. entries[id] \in Entry(id)
      BY <1>2, SoundFacts DEF AddAgain, Sound, Follows
    <3>2. entries[id].paused \in BOOLEAN
      BY <3>1 DEF Entry, EntryOf
    <3> HIDE DEF t
    <3>. QED
      BY <2>1, <3>2
  <2>3. /\ ~t0.closed /\ UNCHANGED <<open, entries, waiting, layout>> /\ gone' \subseteq RealDir
        /\ \/ Learns(id, t, gone')
           \/ lib' = [lib EXCEPT ![id] = t] /\ UNCHANGED disk
    BY <1>2 DEF AddAgain
  <2>4. t.info \in BOOLEAN /\ t0.info \in BOOLEAN
    BY <2>1 DEF LibraryTorrent
  <2> HIDE DEF t
  <2>5. CASE Learns(id, t, gone')
    BY <2>1, <2>2, <2>3, <2>5, LearnsKeeps
  <2>6. CASE lib' = [lib EXCEPT ![id] = t] /\ UNCHANGED disk
    BY <2>1, <2>2, <2>3, <2>4, <2>6, LibraryChanges
  <2>. QED
    BY <2>3, <2>5, <2>6
<1>3. CASE AddAgainFails(id, d)
  <2>1. disk' \in [Location -> Contents]
    BY <1>1, <1>3, DiskFacts DEF AddAgainFails, OpenFailed
  <2>2. UNCHANGED <<open, entries, lib, waiting, layout>> /\ gone' \subseteq RealDir
    BY <1>3 DEF AddAgainFails
  <2>. QED
    BY <2>1, <2>2, NoneChanges
<1>. QED
  BY <1>2, <1>3

\* A torrent that is added.
LEMMA AddKeeps ==
  ASSUME EngineInv, NEW id \in Torrent, AddTorrent(id)
  PROVE  EngineInv'
<1>. LayoutOK /\ layout[id].dirs \subseteq Dir /\ layout[id].offered \subseteq Priority
  BY SoundFacts, ContentFacts
<1>1. PICK d \in layout[id].dirs :
        \/ \E info \in BOOLEAN, priorities \in Saved(id),
              paused \in Asked(id, "pause"), sequential \in Asked(id, "sequential") :
                Add(id, d, info, paused, sequential, priorities)
        \/ AddFails(id, d)
        \/ \E info \in BOOLEAN, paused \in Asked(id, "pause") : AddAgain(id, d, info, paused)
        \/ AddAgainFails(id, d)
  BY DEF AddTorrent
<1>. d \in Dir /\ disk \in [Location -> Contents]
  BY DEF EngineInv
<1>2. ASSUME NEW info \in BOOLEAN, NEW priorities \in Saved(id),
             NEW paused \in Asked(id, "pause"), NEW sequential \in Asked(id, "sequential"),
             Add(id, d, info, paused, sequential, priorities)
      PROVE  EngineInv'
  <2>1. PICK complete \in MayHave(id, info) :
          lib' = [lib EXCEPT ![id] = Fresh(id, lib[id].gen + 1, info, paused, complete)]
    BY <1>2 DEF Add
  <2> DEFINE gen == lib[id].gen + 1
             e == [gen |-> gen, dir |-> d, paused |-> paused, sequential |-> sequential,
                   priorities |-> priorities, boosted |-> NoBoost(id), sampled |-> 0]
             t == Fresh(id, gen, info, paused, complete)
  <2>2. gen \in 1..MaxGen
    BY <1>2, SoundFacts, MaxGenAssumption DEF Add, LibraryTorrent
  <2>3. paused \in BOOLEAN /\ sequential \in BOOLEAN
        /\ priorities \in [File(id) -> Priority \union {Unset}]
    BY DEF Asked, Saved
  <2>4. e \in Entry(id)
    BY <2>2, <2>3, MaxGenAssumption DEF Entry, EntryOf, File, Piece, NoBoost, PiecePriority
  <2>5. t \in LibraryTorrent(id)
    BY <2>2, <2>3, MayHaveFacts, FreshFacts
  <2>6. <<id, gen>> \in waiting'
    BY <1>2 DEF Add
  <2>7. Sound(id, e, t, waiting')
    <3>1. Accounted(id, e, t)
      BY NoBoostFacts DEF Fresh
    <3>2. e # NoEntry
      BY <2>4, SoundFacts
    <3>. QED
      BY <2>4, <2>5, <2>6, <3>1, <3>2 DEF Sound, Follows, Fresh
  <2>8. entries' = [entries EXCEPT ![id] = e] /\ lib' = [lib EXCEPT ![id] = t]
    BY <1>2, <2>1 DEF Add
  <2>9. disk' \in [Location -> Contents]
    BY <1>2, DiskFacts DEF Add
  <2>10. /\ UNCHANGED <<layout, open>> /\ gone' \subseteq RealDir
         /\ waiting' = waiting \union {<<id, gen>>}
    BY <1>2 DEF Add, EngineInv
  <2> HIDE DEF e, t, gen
  <2>11. /\ open' \in BOOLEAN /\ waiting' \subseteq Torrent \X (1..MaxGen)
         /\ \A o \in Torrent \ {id} : \A g : <<o, g>> \in waiting' <=> <<o, g>> \in waiting
    BY <2>2, <2>10 DEF EngineInv
  <2>. QED
    BY <2>7, <2>8, <2>9, <2>10, <2>11, OneChanges
<1>3. CASE AddFails(id, d)
  <2>1. disk' \in [Location -> Contents] /\ gone' \subseteq RealDir
    BY <1>3, DiskFacts DEF AddFails, EngineInv
  <2>2. UNCHANGED <<open, entries, lib, waiting, layout>>
    BY <1>3 DEF AddFails
  <2>3. open' \in BOOLEAN
    BY <2>2 DEF EngineInv
  <2>. QED
    BY <2>1, <2>2, <2>3, NoneChanges
<1>. QED
  BY <1>1, <1>2, <1>3, AgainKeeps DEF Asked

\* Metadata, pieces and checks (engine.go:94, 202).
LEMMA LibraryKeeps ==
  ASSUME EngineInv, NEW id \in Torrent, Library(id)
  PROVE  EngineInv'
<1> DEFINE t0 == lib[id]
           d == entries[id].dir
<1>. LayoutOK /\ disk \in [Location -> Contents] /\ gone \subseteq RealDir /\ open \in BOOLEAN
  BY DEF EngineInv
<1>. t0 \in LibraryTorrent(id)
  BY SoundFacts
<1>1. ~t0.closed => d \in Dir
  BY SoundFacts DEF Sound, Follows, Entry, EntryOf
<1>2. CASE MetadataArrives(id)
  <2>1. ~t0.closed /\ Learns(id, t0, gone) /\ UNCHANGED <<open, entries, waiting, gone, layout>>
    BY <1>2 DEF MetadataArrives
  <2>. QED
    BY <2>1, LearnsKeeps
<1>3. CASE MetadataFails(id)
  <2>1. disk' \in [Location -> Contents]
    BY <1>1, <1>3, DiskFacts DEF MetadataFails, OpenFailed
  <2>2. UNCHANGED <<open, entries, lib, waiting, gone, layout>>
    BY <1>3 DEF MetadataFails
  <2>. QED
    BY <2>1, <2>2, NoneChanges
<1>4. ASSUME NEW complete \in SUBSET Piece(id),
             lib' = [lib EXCEPT ![id].complete = complete],
             UNCHANGED <<open, entries, waiting, layout>>,
             disk' \in [Location -> Contents], gone' \subseteq RealDir
      PROVE  EngineInv'
  <2> DEFINE t == [t0 EXCEPT !.complete = complete]
  <2>1. /\ t \in LibraryTorrent(id) /\ t.gen = t0.gen /\ t.closed = t0.closed
        /\ t.info = t0.info /\ t.allowed = t0.allowed /\ t.overridden = t0.overridden
        /\ t.filePrio = t0.filePrio /\ t.piecePrio = t0.piecePrio
    BY <1>4 DEF LibraryTorrent
  <2>2. lib' = [lib EXCEPT ![id] = t]
    BY <1>4
  <2> HIDE DEF t
  <2>. QED
    BY <1>4, <2>1, <2>2, LibraryChanges
<1>5. ASSUME NEW p \in Piece(id), PieceCompletes(id, p) PROVE EngineInv'
  <2>1. t0.complete \union {p} \in SUBSET Piece(id)
    BY DEF LibraryTorrent
  <2>2. lib' = [lib EXCEPT ![id].complete = t0.complete \union {p}]
    BY <1>5 DEF PieceCompletes, EngineInv
  <2>3. disk' \in [Location -> Contents]
    BY <1>5 DEF PieceCompletes, Contents
  <2>4. gone' \subseteq RealDir /\ UNCHANGED <<open, entries, waiting, layout>>
    BY <1>5 DEF PieceCompletes
  <2>. QED
    BY <1>4, <2>1, <2>2, <2>3, <2>4
<1>6. CASE Verify(id)
  <2>1. PICK right \in SUBSET t0.complete : lib' = [lib EXCEPT ![id].complete = right]
    BY <1>6 DEF Verify
  <2>2. right \in SUBSET Piece(id)
    BY DEF LibraryTorrent
  <2>3. UNCHANGED <<open, entries, waiting, disk, gone, layout>>
    BY <1>6 DEF Verify
  <2>. QED
    BY <1>4, <2>1, <2>2, <2>3
<1>. QED
  BY <1>2, <1>3, <1>5, <1>6 DEF Library

\* An engine without torrents.
LEMMA NeverSound ==
  ASSUME LayoutOK, NEW id \in Torrent
  PROVE  Sound(id, NoEntry, Never(id), {})
<1>1. Fresh(id, 0, FALSE, TRUE, {}) \in LibraryTorrent(id)
  <2>1. 0 \in 0..MaxGen /\ {} \in SUBSET Piece(id) /\ FALSE \in BOOLEAN /\ TRUE \in BOOLEAN
    BY MaxGenAssumption
  <2>. QED
    BY <2>1, FreshFacts
<1>2. Never(id) \in LibraryTorrent(id) /\ Never(id).closed
  BY <1>1 DEF Never, LibraryTorrent
<1>. QED
  BY <1>2 DEF Sound, Follows

\* A process that starts has no torrents.
LEMMA NewProcessKeeps ==
  ASSUME EngineInv, NewProcess, disk' \in [Location -> Contents]
  PROVE  EngineInv'
<1>1. LayoutOK'
  BY DEF EngineInv, LayoutOK, Piece, Entry, NewProcess
<1>2. ASSUME NEW id \in Torrent PROVE Sound(id, entries[id], lib[id], waiting)'
  <2>1. entries'[id] = NoEntry /\ lib'[id] = Never(id) /\ waiting' = {} /\ UNCHANGED layout
    BY DEF NewProcess
  <2>. QED
    BY <2>1, NeverSound, SoundStays DEF EngineInv
<1>. QED
  BY <1>1, <1>2 DEF EngineInv, NewProcess

\* A process that dies while it moves or deletes files.
LEMMA DiesKeeps ==
  ASSUME EngineInv, NEW id \in Torrent, Dies(id)
  PROVE  EngineInv'
<1>. LayoutOK /\ disk \in [Location -> Contents]
  BY DEF EngineInv
<1>1. ASSUME NEW d \in layout[id].dirs, DiesOpening(id, d) PROVE EngineInv'
  <2>1. d \in Dir
    BY ContentFacts
  <2>2. disk' \in [Location -> Contents]
    BY <1>1, <2>1, DiskFacts DEF DiesOpening
  <2>. QED
    BY <1>1, <2>2, NewProcessKeeps DEF DiesOpening
<1>2. ASSUME NEW k, DiesDeleting(id, k) PROVE EngineInv'
  <2>1. entries[id].dir \in Dir
    BY <1>2, SoundFacts DEF DiesDeleting, MayDelete, Entry, EntryOf
  <2>2. disk' \in [Location -> Contents]
    BY <1>2, <2>1, DiskFacts DEF DiesDeleting, LeftAfter
  <2>. QED
    BY <1>2, <2>2, NewProcessKeeps DEF DiesDeleting
<1>. QED
  BY <1>1, <1>2 DEF Dies

\* Closing drops torrents; those that fail keep their entries.
LEMMA CloseKeeps ==
  ASSUME EngineInv, CloseEngine
  PROVE  EngineInv'
<1>1. PICK closed \in SUBSET Torrent, failed \in {{}} \union {{id} : id \in Torrent} :
        Close(closed, failed)
  BY DEF CloseEngine
<1>2. LayoutOK'
  BY <1>1 DEF EngineInv, LayoutOK, Piece, Entry, Close
<1>3. ASSUME NEW id \in Torrent PROVE Sound(id, entries[id], lib[id], waiting)'
  <2>1. UNCHANGED <<waiting, layout>>
    BY <1>1 DEF Close
  <2>2. CASE id \notin closed \union failed
    <3>1. entries'[id] = entries[id] /\ lib'[id] = lib[id]
      BY <1>1, <2>2 DEF Close
    <3>. QED
      BY <2>1, <3>1, SoundFacts, SoundStays
  <2>3. CASE id \in closed \union failed
    <3> DEFINE e == entries'[id]
               t == Dropped(lib[id])
    <3>1. e \in {NoEntry, entries[id]} /\ lib'[id] = t
      BY <1>1, <2>3 DEF Close
    <3>2. Sound(id, e, t, waiting')
      <4>1. /\ t \in LibraryTorrent(id) /\ t.closed
            /\ t.info = lib[id].info /\ t.filePrio = lib[id].filePrio
            /\ t.piecePrio = lib[id].piecePrio
        BY SoundFacts DEF Dropped, LibraryTorrent
      <4> HIDE DEF e, t
      <4>2. e \in Entry(id) \union {NoEntry} /\ Follows(id, e, t, waiting')
        BY <3>1, <4>1, SoundFacts DEF Follows
      <4>3. ASSUME e # NoEntry PROVE e.sampled \in {0, e.gen} /\ Accounted(id, e, t)
        <5>1. e.sampled \in {0, e.gen} /\ Accounted(id, e, lib[id])
          BY <3>1, <4>3, SoundFacts DEF Sound
        <5>. QED
          BY <4>1, <5>1 DEF Accounted, Accounts, BoostedPieces, OfWanted
      <4>. QED
        BY <4>1, <4>2, <4>3 DEF Sound
    <3>. QED
      BY <2>1, <3>1, <3>2, SoundStays
  <2>. QED
    BY <2>2, <2>3
<1>4. /\ open' \in BOOLEAN /\ UNCHANGED <<waiting, disk, gone>>
      /\ entries' = [id \in Torrent |-> entries'[id]] /\ lib' = [id \in Torrent |-> lib'[id]]
  BY <1>1 DEF Close
<1>. QED
  BY <1>2, <1>3, <1>4 DEF EngineInv

-----------------------------------------------------------------------------
(***************************************************************************)
(* The theorems                                                            *)
(***************************************************************************)
\* The invariant holds at first.
LEMMA EngineInvInit == Init => EngineInv
<1> SUFFICES ASSUME Init PROVE EngineInv
  OBVIOUS
<1>1. PICK s \in Starts : layout = s.torrents /\ disk = s.disk
  BY DEF Init
<1>2. LayoutOK /\ disk \in [Location -> Contents]
  BY <1>1, StartsAssumption, NoEntryAssumption DEF LayoutOK, Piece, Entry
<1>3. \A id \in Torrent : Sound(id, NoEntry, Never(id), {})
  BY <1>2, NeverSound
<1>. QED
  BY <1>2, <1>3 DEF Init, EngineInv

\* The invariant is inductive.
LEMMA EngineInvStep == EngineInv /\ [Next]_vars => EngineInv'
<1> SUFFICES ASSUME EngineInv, [Next]_vars PROVE EngineInv'
  OBVIOUS
<1>. disk \in [Location -> Contents] /\ gone \subseteq RealDir /\ open \in BOOLEAN
  BY DEF EngineInv
<1>1. ASSUME NEW id \in Torrent, Operations(id) PROVE EngineInv'
  BY <1>1, AddKeeps, OptionKeeps, RemoveKeeps, DiesKeeps, LibraryKeeps, GoroutineKeeps
  DEF Operations
<1>2. CASE Restart \/ Crash
  BY <1>2, NewProcessKeeps DEF Restart, Crash
<1>3. ASSUME NEW r \in RealDir, DirectoryGoes(r) PROVE EngineInv'
  <2>1. disk' \in [Location -> Contents] /\ gone' \subseteq RealDir
    BY <1>3 DEF DirectoryGoes, Contents
  <2>. QED
    BY <1>3, <2>1, NoneChanges DEF DirectoryGoes
<1>4. CASE UNCHANGED vars
  BY <1>4, NoneChanges DEF vars
<1>. QED
  BY <1>1, <1>2, <1>3, <1>4, CloseKeeps DEF Next

\* The invariant holds in every reachable state.
THEOREM EngineSound == Spec => []EngineInv
BY EngineInvInit, EngineInvStep, PTL DEF Spec

\* Whatever fails, stops half way or dies, entries and library torrents keep
\* their types, and a priority is always of a file of its torrent.
THEOREM TypeCorrect == Spec => []TypeOK
<1>1. EngineInv => TypeOK
  BY DEF EngineInv, Sound, TypeOK
<1>. QED
  BY <1>1, EngineSound, PTL

\* The library runs no torrent that the engine does not refer to, however
\* removals fail (engine.go:249-285), and rates are differences of one
\* torrent's counters.
THEOREM NoStrayTorrent == Spec => []EntriesFollowTorrents
<1>1. EngineInv => EntriesFollowTorrents
  BY DEF EngineInv, Sound, Follows, EntriesFollowTorrents, Live, Has
<1>. QED
  BY <1>1, EngineSound, PTL

\* What the daemon asked for is what the library does, for every file, also
\* after a restored removal (engine.go:261-277), until a later add of the same
\* torrent overrides what it may transfer (engine.go:77).
THEOREM OptionsApplied == Spec => []OptionsReachLibrary
<1>1. EngineInv => OptionsReachLibrary
  BY DEF EngineInv, Sound, Follows, OptionsReachLibrary, Live, Has
<1>. QED
  BY <1>1, EngineSound, PTL

\* For any number of pieces and any window: no piece is boosted that the
\* engine does not know of, and never more than the window is long
\* (sequential.go:26).
THEOREM BoostsAccounted == Spec => []BoostsAreAccountedFor
<1>1. EngineInv => BoostsAreAccountedFor
  BY DEF EngineInv, Sound, Accounted, Accounts, BoostedPieces, OfWanted,
         BoostsAreAccountedFor, Has
<1>. QED
  BY <1>1, EngineSound, PTL
-----------------------------------------------------------------------------
(***************************************************************************)
(* What the steps do to the disk                                           *)
(***************************************************************************)
\* Moving no partial file changes nothing.
LEMMA NothingMoved ==
  ASSUME NEW d \in Dir, NEW files \in [Location -> Contents], NEW names
  PROVE  /\ Unlinked(files, d, {}) = files
         /\ files \in Interrupted(files, d, names)
         /\ Legacy(files, d, names) = {} => Interrupted(files, d, names) = {files}
                                            /\ Migrated(files, d, names) = files
<1>1. Unlinked(files, d, {}) = files
  BY DEF Unlinked
<1>2. files \in Interrupted(files, d, names)
  BY <1>1 DEF Interrupted
<1>3. ASSUME Legacy(files, d, names) = {}
      PROVE  Interrupted(files, d, names) = {files} /\ Migrated(files, d, names) = files
  BY <1>1, <1>3 DEF Interrupted, Migrated
<1>. QED
  BY <1>1, <1>2, <1>3

\* What an interrupted migration has done: some partial files have moved, and
\* perhaps one is linked and not removed.
LEMMA InterruptedFacts ==
  ASSUME NEW d \in Dir, NEW files \in [Location -> Contents], NEW names,
         NEW new \in Interrupted(files, d, names)
  PROVE  \E moved \in SUBSET {n \in Legacy(files, d, names) : Linkable(files, d, n)} :
            \/ new = Unlinked(files, d, moved)
            \/ \E n \in Legacy(files, d, names) :
                  Linkable(files, d, n) /\ n \notin moved
                  /\ new = Link(Unlinked(files, d, moved), d, n)
BY DEF Interrupted

\* A migration that succeeds is one that was interrupted at its end.
LEMMA MigratedInterrupted ==
  ASSUME NEW d \in Dir, NEW files \in [Location -> Contents], NEW names,
         Migrates(files, d, names)
  PROVE  Migrated(files, d, names) \in Interrupted(files, d, names)
<1> DEFINE good == {n \in Legacy(files, d, names) : Linkable(files, d, n)}
<1>1. Legacy(files, d, names) \in SUBSET good
  BY DEF Migrates
<1>. QED
  BY <1>1 DEF Migrated, Interrupted

\* Where a partial file of a torrent is, and where it goes, is not the place
\* of another partial file.
LEMMA LegacyFacts ==
  ASSUME NEW d \in Dir, NEW files \in [Location -> Contents], NEW names
  PROVE  /\ Legacy(files, d, names) \subseteq DOMAIN PartOf
         /\ \A n \in DOMAIN PartOf : At(d, n) \in Location /\ At(d, PartOf[n]) \in Location
         /\ \A n \in Legacy(files, d, names) :
              /\ n \in ToSet(names) /\ PartOf[n] \notin ToSet(names)
              /\ files[At(d, PartOf[n])] # "nothing"
         /\ \A m, n \in Legacy(files, d, names) :
              /\ At(d, m) # At(d, PartOf[n])
              /\ At(d, m) = At(d, n) => m = n
              /\ At(d, PartOf[m]) = At(d, PartOf[n]) => m = n
<1>1. Legacy(files, d, names) \subseteq DOMAIN PartOf
  BY DEF Legacy
<1>2. \A n \in Legacy(files, d, names) : /\ n \in ToSet(names) /\ PartOf[n] \notin ToSet(names)
                                         /\ files[At(d, PartOf[n])] # "nothing"
  BY DEF Legacy
<1>3. \A n \in DOMAIN PartOf : At(d, n) \in Location /\ At(d, PartOf[n]) \in Location
  BY DirAssumption, PartAssumption DEF At, Location
<1>. QED
  BY <1>1, <1>2, <1>3, PartAssumption DEF At

\* What is at each place after some partial files have moved.
LEMMA UnlinkedPlaces ==
  ASSUME NEW d \in Dir, NEW files \in [Location -> Contents], NEW names,
         NEW moved \in SUBSET Legacy(files, d, names)
  PROVE  LET new == Unlinked(files, d, moved)
         IN  /\ \A n \in moved : /\ new[At(d, PartOf[n])] = "nothing"
                                 /\ new[At(d, n)] = files[At(d, PartOf[n])]
             /\ \A l \in Location : \/ new[l] = files[l]
                                    \/ \E n \in moved : l = At(d, PartOf[n]) \/ l = At(d, n)
             /\ new \in [Location -> Contents]
<1> DEFINE new == Unlinked(files, d, moved)
<1>1. DOMAIN files = Location
  OBVIOUS
<1>2. ASSUME NEW n \in moved PROVE new[At(d, PartOf[n])] = "nothing"
  BY <1>1, <1>2, LegacyFacts DEF Unlinked
<1>3. ASSUME NEW n \in moved PROVE new[At(d, n)] = files[At(d, PartOf[n])]
  <2>1. At(d, n) \in Location /\ \A m \in moved : At(d, n) # At(d, PartOf[m])
    BY <1>3, LegacyFacts
  <2>2. (CHOOSE m \in moved : At(d, n) = At(d, m)) = n
    BY <1>3, LegacyFacts
  <2>. QED
    BY <1>1, <1>3, <2>1, <2>2 DEF Unlinked
<1>4. \A l \in Location : \/ new[l] = files[l]
                          \/ \E n \in moved : l = At(d, PartOf[n]) \/ l = At(d, n)
  BY <1>1 DEF Unlinked
<1>5. new \in [Location -> Contents]
  BY LegacyFacts, UnlinkedFacts
<1>. QED
  BY <1>2, <1>3, <1>4, <1>5

\* Each place that a migration changes is that of a partial file that is now
\* called by its own name, or that name.
LEMMA MigrationPlaces ==
  ASSUME NEW d \in Dir, NEW files \in [Location -> Contents], NEW names,
         NEW new \in Interrupted(files, d, names), NEW l \in Location, new[l] # files[l]
  PROVE  \E n \in Legacy(files, d, names) :
            /\ Linkable(files, d, n)
            /\ new[At(d, n)] = files[At(d, PartOf[n])]
            /\ \/ l = At(d, PartOf[n]) /\ new[l] = "nothing"
               \/ l = At(d, n)
<1> DEFINE legacy == Legacy(files, d, names)
<1>1. PICK moved \in SUBSET {n \in legacy : Linkable(files, d, n)} :
        \/ new = Unlinked(files, d, moved)
        \/ \E n \in legacy : Linkable(files, d, n) /\ n \notin moved
                             /\ new = Link(Unlinked(files, d, moved), d, n)
  BY InterruptedFacts
<1> DEFINE u == Unlinked(files, d, moved)
<1>2. moved \in SUBSET legacy /\ \A n \in moved : Linkable(files, d, n)
  OBVIOUS
<1>3. /\ \A n \in moved : u[At(d, PartOf[n])] = "nothing" /\ u[At(d, n)] = files[At(d, PartOf[n])]
      /\ \A k \in Location : \/ u[k] = files[k]
                             \/ \E n \in moved : k = At(d, PartOf[n]) \/ k = At(d, n)
      /\ u \in [Location -> Contents]
  BY <1>2, UnlinkedPlaces
<1> HIDE DEF u, legacy
<1>4. CASE new = u
  BY <1>2, <1>3, <1>4 DEF legacy
<1>5. ASSUME NEW n \in legacy, Linkable(files, d, n), n \notin moved, new = Link(u, d, n)
      PROVE  \E m \in legacy : /\ Linkable(files, d, m)
                               /\ new[At(d, m)] = files[At(d, PartOf[m])]
                               /\ \/ l = At(d, PartOf[m]) /\ new[l] = "nothing"
                                  \/ l = At(d, m)
  <2>1. /\ At(d, n) \in Location /\ At(d, PartOf[n]) \in Location
        /\ \A m \in moved : /\ At(d, PartOf[n]) # At(d, PartOf[m]) /\ At(d, PartOf[n]) # At(d, m)
                            /\ At(d, n) # At(d, m) /\ At(d, n) # At(d, PartOf[m])
    BY <1>2, <1>5, LegacyFacts DEF legacy
  <2>2. u[At(d, PartOf[n])] = files[At(d, PartOf[n])]
    BY <1>3, <2>1
  <2>3. /\ new[At(d, n)] = files[At(d, PartOf[n])]
        /\ \A k \in Location : k # At(d, n) => new[k] = u[k]
    BY <1>3, <1>5, <2>1, <2>2 DEF Link
  <2>4. \A m \in moved : At(d, m) \in Location /\ At(d, PartOf[m]) \in Location
    BY <1>2, LegacyFacts DEF legacy
  <2>5. \A m \in moved : /\ new[At(d, m)] = files[At(d, PartOf[m])]
                         /\ new[At(d, PartOf[m])] = "nothing"
    BY <1>3, <2>1, <2>3, <2>4
  <2>. QED
    BY <1>2, <1>3, <1>5, <2>3, <2>5
<1>. QED
  BY <1>1, <1>4, <1>5 DEF u, legacy

\* After a migration that succeeds there is no partial file left.
LEMMA MigratedLeavesNone ==
  ASSUME NEW d \in Dir, NEW files \in [Location -> Contents], NEW names
  PROVE  Legacy(Migrated(files, d, names), d, names) = {}
<1> DEFINE legacy == Legacy(files, d, names)
           new == Migrated(files, d, names)
<1>1. /\ \A n \in legacy : new[At(d, PartOf[n])] = "nothing"
      /\ \A l \in Location : \/ new[l] = files[l]
                             \/ \E n \in legacy : l = At(d, PartOf[n]) \/ l = At(d, n)
  BY UnlinkedPlaces DEF Migrated
<1>2. ASSUME NEW n \in ToSet(names) \intersect DOMAIN PartOf, PartOf[n] \notin ToSet(names),
             new[At(d, PartOf[n])] # "nothing"
      PROVE  FALSE
  <2>1. n \notin legacy
    BY <1>1, <1>2
  <2>2. files[At(d, PartOf[n])] = "nothing"
    BY <1>2, <2>1 DEF Legacy
  <2>3. PICK m \in legacy : At(d, PartOf[n]) = At(d, PartOf[m]) \/ At(d, PartOf[n]) = At(d, m)
    BY <1>1, <1>2, <2>2, LegacyFacts
  <2>4. m \in DOMAIN PartOf /\ m \in ToSet(names)
    BY LegacyFacts
  <2>. QED
    BY <1>1, <1>2, <2>1, <2>2, <2>3, <2>4 DEF At
<1>. QED
  BY <1>2 DEF Legacy

(***************************************************************************)
(* The invariant about the disk                                            *)
(***************************************************************************)
\* The engine has a torrent whose files are known.
Known(id) == Has(id) /\ lib[id].info

\* There is nothing in a directory that the user has deleted.
Emptied == \A l \in Location : l[1] \in gone => disk[l] = "nothing"

\* No torrent with metadata has partial files left: its storage was opened.
Cleared == \A id \in Torrent : Known(id) => Legacy(disk, entries[id].dir, Names(id)) = {}

\* An entry is of the newest library torrent, also of one that was dropped.
Paired == \A id \in Torrent : Has(id) => entries[id].gen = lib[id].gen

DiskInv == Emptied /\ PartsApart(layout, disk) /\ Cleared /\ Paired

(***************************************************************************)
(* What a step does to the disk, and what it does to an entry              *)
(***************************************************************************)
\* Partial files of a torrent move, all of them or some.
Moves == \E id \in Torrent, d \in Dir :
            /\ disk' \in Interrupted(disk, d, Names(id))
            /\ gone' \subseteq gone

\* Files of a torrent are deleted, all of them or some.
Deletes == \E id \in Torrent : /\ MayDelete(id) /\ Removed(id) /\ UNCHANGED gone
                               /\ \E k \in 0..Len(Names(id)) : disk' = LeftAfter(id, k)

Downloads == \E id \in Torrent : \E p \in Piece(id) : PieceCompletes(id, p)

Goes == \E r \in RealDir : DirectoryGoes(r)

DiskStep == Moves \/ Deletes \/ Downloads \/ Goes \/ UNCHANGED <<disk, gone>>

\* An entry stays that of the newest library torrent. When the files of its
\* torrent are known, they were, in the same place, or its storage was opened.
EntryStep(id) ==
    entries'[id] # NoEntry =>
        /\ entries'[id].gen = lib'[id].gen
        /\ lib'[id].info =>
             \/ Known(id) /\ entries'[id].dir = entries[id].dir
             \/ /\ entries'[id].dir \in Dir
                /\ disk' = Migrated(disk, entries'[id].dir, Names(id))

Steps == UNCHANGED layout /\ DiskStep /\ \A id \in Torrent : EntryStep(id)

\* An entry that stays as it is.
LEMMA EntryStays ==
  ASSUME Paired, NEW id \in Torrent, entries'[id] = entries[id],
         lib'[id].gen = lib[id].gen, lib'[id].info = lib[id].info
  PROVE  EntryStep(id)
BY DEF Paired, EntryStep, Known, Has

\* A step that changes one entry does nothing to the others.
LEMMA OthersStay ==
  ASSUME EngineInv, Paired, NEW id \in Torrent, NEW e, NEW t,
         entries' = [entries EXCEPT ![id] = e], lib' = [lib EXCEPT ![id] = t],
         EntryStep(id)
  PROVE  /\ \A o \in Torrent : EntryStep(o)
         /\ entries'[id] = e /\ lib'[id] = t
<1>1. \A o \in Torrent \ {id} : entries'[o] = entries[o] /\ lib'[o] = lib[o]
  BY DEF EngineInv
<1>2. entries'[id] = e /\ lib'[id] = t
  BY DEF EngineInv
<1>. QED
  BY <1>1, <1>2, EntryStays

\* What updateSequential leaves alone in an entry and its library torrent.
LEMMA PutLeaves ==
  ASSUME EngineInv, NEW id \in Torrent, NEW e \in Entry(id), NEW t \in LibraryTorrent(id),
         Put(id, e, t)
  PROVE  /\ entries'[id].gen = e.gen /\ entries'[id].dir = e.dir
         /\ lib'[id].gen = t.gen /\ lib'[id].info = t.info /\ lib'[id].closed = t.closed
         /\ entries' = [entries EXCEPT ![id] = entries'[id]]
         /\ lib' = [lib EXCEPT ![id] = lib'[id]]
<1>1. /\ entries'[id] = EntryUpdated(id, e, t) /\ lib'[id] = TorrentUpdated(id, e, t)
      /\ entries' = [entries EXCEPT ![id] = entries'[id]]
      /\ lib' = [lib EXCEPT ![id] = lib'[id]]
  BY DEF EngineInv, Put
<1>2. \A b : [e EXCEPT !.boosted = b].gen = e.gen /\ [e EXCEPT !.boosted = b].dir = e.dir
  BY DEF Entry, EntryOf
<1>3. \A b : /\ [t EXCEPT !.piecePrio = b].gen = t.gen
             /\ [t EXCEPT !.piecePrio = b].info = t.info
             /\ [t EXCEPT !.piecePrio = b].closed = t.closed
  BY DEF LibraryTorrent
<1>. QED
  BY <1>1, <1>2, <1>3 DEF EntryUpdated, TorrentUpdated

\* The same entry, of the same library torrent, with other options.
LEMMA PutSteps ==
  ASSUME EngineInv, Paired, NEW id \in Torrent, Has(id),
         NEW e \in Entry(id), NEW t \in LibraryTorrent(id), Put(id, e, t),
         e.gen = entries[id].gen, e.dir = entries[id].dir,
         t.gen = lib[id].gen, t.info = lib[id].info,
         UNCHANGED <<disk, gone, layout>>
  PROVE  Steps
<1>1. EntryStep(id)
  BY PutLeaves DEF EntryStep, Paired, Known
<1>2. \A o \in Torrent : EntryStep(o)
  BY <1>1, PutLeaves, OthersStay
<1>. QED
  BY <1>2 DEF Steps, DiskStep

\* A torrent that gets its metadata has its storage opened.
LEMMA LearnsSteps ==
  ASSUME EngineInv, Paired, NEW id \in Torrent, NEW t \in LibraryTorrent(id), NEW absent,
         ~lib[id].closed, Learns(id, t, absent), t.gen = lib[id].gen,
         UNCHANGED <<entries, layout>>, gone' \subseteq gone
  PROVE  Steps
<1> DEFINE d == entries[id].dir
<1>1. Has(id) /\ d \in Dir /\ entries[id].gen = lib[id].gen /\ disk \in [Location -> Contents]
  BY SoundFacts DEF Sound, Follows, Entry, EntryOf, Has, EngineInv
<1>2. PICK complete \in MayHave(id, TRUE) :
        lib' = [lib EXCEPT ![id] = [t EXCEPT !.info = TRUE, !.complete = complete]]
  BY DEF Learns
<1>3. Migrates(disk, d, Names(id)) /\ disk' = Migrated(disk, d, Names(id))
  BY DEF Learns
<1> DEFINE u == [t EXCEPT !.info = TRUE, !.complete = complete]
<1>4. lib' = [lib EXCEPT ![id] = u] /\ lib'[id] = u
  BY <1>2 DEF EngineInv
<1>5. u.gen = t.gen
  BY DEF LibraryTorrent
<1> HIDE DEF u
<1>6. EntryStep(id)
  BY <1>1, <1>3, <1>4, <1>5 DEF EntryStep
<1>7. entries' = [entries EXCEPT ![id] = entries[id]]
  BY SoundFacts
<1>8. \A o \in Torrent : EntryStep(o)
  BY <1>4, <1>6, <1>7, OthersStay
<1>9. Moves
  BY <1>1, <1>3, MigratedInterrupted DEF Moves
<1>. QED
  BY <1>8, <1>9 DEF Steps, DiskStep

\* A later add opens it when it brings the metadata.
LEMMA AgainSteps ==
  ASSUME EngineInv, Paired, NEW id \in Torrent, NEW d,
         \/ \E info \in BOOLEAN, paused \in BOOLEAN : AddAgain(id, d, info, paused)
         \/ AddAgainFails(id, d)
  PROVE  Steps
<1> DEFINE t0 == lib[id]
           dir == entries[id].dir
<1>. t0 \in LibraryTorrent(id) /\ disk \in [Location -> Contents]
  BY SoundFacts DEF EngineInv
<1>1. ASSUME ~t0.closed PROVE dir \in Dir
  BY <1>1, SoundFacts DEF Sound, Follows, Entry, EntryOf
<1>2. ASSUME NEW info \in BOOLEAN, NEW paused \in BOOLEAN, AddAgain(id, d, info, paused)
      PROVE  Steps
  <2> DEFINE t == [t0 EXCEPT !.allowed = ~paused, !.overridden = paused # entries[id].paused]
  <2>1. t \in LibraryTorrent(id) /\ t.gen = t0.gen /\ t.info = t0.info
    BY DEF LibraryTorrent
  <2>2. /\ ~t0.closed /\ UNCHANGED <<entries, layout>> /\ gone' \subseteq gone
        /\ \/ Learns(id, t, gone')
           \/ lib' = [lib EXCEPT ![id] = t] /\ UNCHANGED disk
    BY <1>2 DEF AddAgain
  <2> HIDE DEF t
  <2>3. CASE Learns(id, t, gone')
    BY <2>1, <2>2, <2>3, LearnsSteps
  <2>4. CASE lib' = [lib EXCEPT ![id] = t] /\ UNCHANGED disk
    <3>1. /\ lib'[id] = t /\ \A o \in Torrent \ {id} : lib'[o] = lib[o]
      BY <2>4 DEF EngineInv
    <3>2. \A o \in Torrent : EntryStep(o)
      BY <2>1, <2>2, <3>1, EntryStays
    <3>3. disk' \in Interrupted(disk, dir, Names(id))
      BY <1>1, <2>2, <2>4, NothingMoved
    <3>. QED
      BY <1>1, <2>2, <3>2, <3>3 DEF Steps, DiskStep, Moves
  <2>. QED
    BY <2>2, <2>3, <2>4
<1>3. CASE AddAgainFails(id, d)
  <2>1. /\ ~t0.closed /\ UNCHANGED <<entries, lib, layout>> /\ gone' \subseteq gone
        /\ disk' \in OpenFailed(id, gone')
    BY <1>3 DEF AddAgainFails
  <2>2. disk' \in Interrupted(disk, dir, Names(id))
    BY <1>1, <2>1, NothingMoved DEF OpenFailed
  <2>. QED
    BY <1>1, <2>1, <2>2, EntryStays DEF Steps, DiskStep, Moves
<1>. QED
  BY <1>2, <1>3

\* Adding a torrent opens its storage once its metadata is known.
LEMMA AddSteps ==
  ASSUME EngineInv, Paired, NEW id \in Torrent, AddTorrent(id)
  PROVE  Steps
<1>. layout[id].dirs \subseteq Dir /\ disk \in [Location -> Contents]
  BY SoundFacts, ContentFacts DEF EngineInv
<1>1. PICK d \in layout[id].dirs :
        \/ \E info \in BOOLEAN, priorities \in Saved(id),
              paused \in Asked(id, "pause"), sequential \in Asked(id, "sequential") :
                Add(id, d, info, paused, sequential, priorities)
        \/ AddFails(id, d)
        \/ \E info \in BOOLEAN, paused \in Asked(id, "pause") : AddAgain(id, d, info, paused)
        \/ AddAgainFails(id, d)
  BY DEF AddTorrent
<1>2. ASSUME NEW info \in BOOLEAN, NEW priorities, NEW paused, NEW sequential,
             Add(id, d, info, paused, sequential, priorities)
      PROVE  Steps
  <2>1. PICK complete \in MayHave(id, info) :
          lib' = [lib EXCEPT ![id] = Fresh(id, lib[id].gen + 1, info, paused, complete)]
    BY <1>2 DEF Add
  <2> DEFINE e == [gen |-> lib[id].gen + 1, dir |-> d, paused |-> paused,
                   sequential |-> sequential, priorities |-> priorities,
                   boosted |-> NoBoost(id), sampled |-> 0]
             t == Fresh(id, lib[id].gen + 1, info, paused, complete)
  <2>2. entries' = [entries EXCEPT ![id] = e] /\ lib' = [lib EXCEPT ![id] = t]
    BY <1>2, <2>1 DEF Add
  <2>3. entries'[id] = e /\ lib'[id] = t
    BY <2>2 DEF EngineInv
  <2>4. e.gen = t.gen /\ e.dir = d /\ t.info = info
    BY DEF Fresh
  <2>5. info => Migrates(disk, d, Names(id)) /\ disk' = Migrated(disk, d, Names(id))
    BY <1>2 DEF Add
  <2>6. disk' \in Interrupted(disk, d, Names(id))
    <3>1. CASE info
      BY <2>5, <3>1, MigratedInterrupted
    <3>2. CASE ~info
      BY <1>2, <3>2, NothingMoved DEF Add
    <3>. QED
      BY <3>1, <3>2
  <2>7. gone' = gone \ {RealDirOf[d]} /\ UNCHANGED layout
    BY <1>2 DEF Add
  <2> HIDE DEF e, t
  <2>8. EntryStep(id)
    BY <2>3, <2>4, <2>5 DEF EntryStep
  <2>9. \A o \in Torrent : EntryStep(o)
    BY <2>2, <2>8, OthersStay
  <2>10. Moves
    BY <2>6, <2>7 DEF Moves
  <2>. QED
    BY <2>7, <2>9, <2>10 DEF Steps, DiskStep
<1>3. CASE AddFails(id, d)
  <2>1. Moves /\ UNCHANGED <<entries, lib, layout>>
    BY <1>3 DEF AddFails, Moves
  <2>. QED
    BY <2>1, EntryStays DEF Steps, DiskStep
<1>. QED
  BY <1>1, <1>2, <1>3, AgainSteps DEF Asked

\* The options, a sample and the goroutine of Add leave the disk alone.
LEMMA OptionSteps ==
  ASSUME EngineInv, Paired, NEW id \in Torrent,
         SetOption(id) \/ Snapshot(id) \/ \E gen \in 1..MaxGen : MetadataGoroutine(id, gen)
  PROVE  Steps
<1> DEFINE e0 == entries[id]
           t0 == lib[id]
<1>. layout[id].offered \subseteq Priority /\ t0 \in LibraryTorrent(id)
  BY SoundFacts, ContentFacts
<1>1. ASSUME e0 # NoEntry PROVE e0 \in Entry(id) /\ Has(id)
  BY <1>1, SoundFacts DEF Has
<1>2. ASSUME NEW paused, SetPaused(id, paused) PROVE Steps
  <2>1. e0 # NoEntry /\ UNCHANGED <<disk, gone, layout>>
    BY <1>2 DEF SetPaused
  <2> DEFINE e == [e0 EXCEPT !.paused = paused]
             t == [t0 EXCEPT !.allowed = ~paused, !.overridden = FALSE]
  <2>2. /\ entries' = [entries EXCEPT ![id] = e] /\ lib' = [lib EXCEPT ![id] = t]
        /\ entries'[id] = e /\ lib'[id] = t
    BY <1>2 DEF SetPaused, EngineInv
  <2>3. e.gen = e0.gen /\ e.dir = e0.dir
    BY <1>1, <2>1 DEF Entry, EntryOf
  <2>4. t.gen = t0.gen /\ t.info = t0.info
    BY DEF LibraryTorrent
  <2> HIDE DEF e, t
  <2>5. EntryStep(id)
    BY <1>1, <2>1, <2>2, <2>3, <2>4 DEF EntryStep, Paired, Known
  <2>6. \A o \in Torrent : EntryStep(o)
    BY <2>2, <2>5, OthersStay
  <2>. QED
    BY <2>1, <2>6 DEF Steps, DiskStep
<1>3. ASSUME NEW enabled \in BOOLEAN, SetSequential(id, enabled) PROVE Steps
  <2> DEFINE e == [e0 EXCEPT !.sequential = enabled]
  <2>1. e0 # NoEntry /\ Put(id, e, t0) /\ UNCHANGED <<disk, gone, layout>>
    BY <1>3 DEF SetSequential
  <2>2. e \in Entry(id) /\ e.gen = e0.gen /\ e.dir = e0.dir
    BY <1>1, <2>1 DEF Entry, EntryOf
  <2> HIDE DEF e
  <2>. QED
    BY <1>1, <2>1, <2>2, PutSteps
<1>4. CASE Snapshot(id)
  <2> DEFINE e == [e0 EXCEPT !.sampled = e0.gen]
  <2>1. e0 # NoEntry /\ Put(id, e, t0) /\ UNCHANGED <<disk, gone, layout>>
    BY <1>4 DEF Snapshot
  <2>2. e \in Entry(id) /\ e.gen = e0.gen /\ e.dir = e0.dir
    BY <1>1, <2>1, MaxGenAssumption DEF Entry, EntryOf
  <2> HIDE DEF e
  <2>. QED
    BY <1>1, <2>1, <2>2, PutSteps
<1>5. ASSUME NEW f \in File(id), NEW priority \in Priority, SetFilePriority(id, f, priority)
      PROVE  Steps
  <2> DEFINE prio == [e0.priorities EXCEPT ![f] = priority]
             fp == [t0.filePrio EXCEPT ![f] = PieceOf(priority)]
             e == [e0 EXCEPT !.priorities = prio]
             t == [t0 EXCEPT !.filePrio = fp]
  <2>1. e0 # NoEntry /\ Put(id, e, t) /\ UNCHANGED <<disk, gone, layout>>
    BY <1>5 DEF SetFilePriority
  <2>2. prio \in [File(id) -> Priority \union {Unset}]
    BY <1>1, <2>1 DEF Entry, EntryOf, File
  <2>3. fp \in [File(id) -> {"none", "normal", "high"}]
    BY DEF PieceOf, LibraryTorrent
  <2> HIDE DEF prio, fp
  <2>4. e \in Entry(id) /\ e.gen = e0.gen /\ e.dir = e0.dir
    BY <1>1, <2>1, <2>2 DEF Entry, EntryOf, File
  <2>5. t \in LibraryTorrent(id) /\ t.gen = t0.gen /\ t.info = t0.info
    BY <2>3 DEF LibraryTorrent
  <2> HIDE DEF e, t
  <2>. QED
    BY <1>1, <2>1, <2>4, <2>5, PutSteps
<1>6. ASSUME NEW gen \in 1..MaxGen, MetadataGoroutine(id, gen) PROVE Steps
  <2>1. UNCHANGED <<disk, gone, layout>>
    BY <1>6 DEF MetadataGoroutine
  <2>2. CASE UNCHANGED <<entries, lib>>
    BY <2>1, <2>2, EntryStays DEF Steps, DiskStep
  <2>3. CASE /\ e0 # NoEntry
             /\ LET t == [t0 EXCEPT !.filePrio = [f \in File(id) |-> Wished(e0.priorities[f])]]
                IN  Put(id, e0, t)
    <3> DEFINE prio == [f \in File(id) |-> Wished(e0.priorities[f])]
               t == [t0 EXCEPT !.filePrio = prio]
    <3>1. prio \in [File(id) -> {"none", "normal", "high"}]
      BY DEF Wished, PieceOf
    <3>2. e0 # NoEntry /\ Put(id, e0, t)
      BY <2>3
    <3> HIDE DEF prio
    <3>3. t \in LibraryTorrent(id) /\ t.gen = t0.gen /\ t.info = t0.info
      BY <3>1 DEF LibraryTorrent
    <3> HIDE DEF t
    <3>. QED
      BY <1>1, <2>1, <3>2, <3>3, PutSteps
  <2>. QED
    BY <1>6, <2>2, <2>3 DEF MetadataGoroutine
<1>. QED
  BY <1>2, <1>3, <1>4, <1>5, <1>6 DEF SetOption, Pause, Resume, Asked

\* What deleting leaves has no partial files when there were none.
LEMMA DeletedClear ==
  ASSUME NEW d \in Dir, NEW files \in [Location -> Contents], NEW names, NEW k,
         Legacy(files, d, names) = {}
  PROVE  Legacy(Deleted(files, d, names, k), d, names) = {}
<1>1. \A n \in DOMAIN PartOf : At(d, PartOf[n]) \in Location
  BY LegacyFacts
<1>2. \A l \in Location : Deleted(files, d, names, k)[l] \in {"nothing", files[l]}
  BY DEF Deleted
<1>. QED
  BY <1>1, <1>2 DEF Legacy

\* When the engine may delete a torrent's files, no partial file is among
\* them, and opening what is left of them moves nothing.
LEMMA MayDeleteFacts ==
  ASSUME EngineInv, DiskInv, NEW id \in Torrent, MayDelete(id), NEW k
  PROVE  /\ Known(id) /\ entries[id] \in Entry(id) /\ entries[id].dir \in Dir
         /\ Interrupted(LeftAfter(id, k), entries[id].dir, Names(id)) = {LeftAfter(id, k)}
         /\ Migrated(LeftAfter(id, k), entries[id].dir, Names(id)) = LeftAfter(id, k)
<1>1. Known(id) /\ entries[id] \in Entry(id)
  BY SoundFacts DEF MayDelete, Known, Has
<1>2. entries[id].dir \in Dir
  BY <1>1 DEF Entry, EntryOf
<1>3. disk \in [Location -> Contents] /\ Legacy(disk, entries[id].dir, Names(id)) = {}
  BY <1>1 DEF EngineInv, DiskInv, Cleared
<1>4. LeftAfter(id, k) \in [Location -> Contents]
  BY <1>2, <1>3, DiskFacts DEF LeftAfter
<1>5. Legacy(LeftAfter(id, k), entries[id].dir, Names(id)) = {}
  BY <1>2, <1>3, DeletedClear DEF LeftAfter
<1>. QED
  BY <1>1, <1>2, <1>4, <1>5, NothingMoved

\* Removing a torrent deletes files of it or none; a removal that fails gives
\* the entry a new library torrent or leaves it a dropped one.
LEMMA RemoveSteps ==
  ASSUME EngineInv, DiskInv, NEW id \in Torrent, RemoveTorrent(id)
  PROVE  Steps
<1> DEFINE e0 == entries[id]
           t0 == lib[id]
           d == e0.dir
<1>. t0 \in LibraryTorrent(id) /\ Paired
  BY SoundFacts DEF DiskInv
<1>1. ASSUME e0 # NoEntry PROVE e0 \in Entry(id) /\ Has(id)
  BY <1>1, SoundFacts DEF Has
<1>2. ASSUME RemoveEntry(id), UNCHANGED layout
      PROVE  entries'[id] = NoEntry /\ \A o \in Torrent : EntryStep(o)
  <2>1. /\ entries' = [entries EXCEPT ![id] = NoEntry] /\ lib' = [lib EXCEPT ![id] = Dropped(t0)]
        /\ entries'[id] = NoEntry
    BY <1>2 DEF RemoveEntry, EngineInv
  <2>2. EntryStep(id)
    BY <2>1 DEF EntryStep
  <2>. QED
    BY <2>1, <2>2, OthersStay
<1>3. CASE RemoveKeepingData(id)
  <2>1. RemoveEntry(id) /\ UNCHANGED <<disk, gone, layout>>
    BY <1>3 DEF RemoveKeepingData
  <2>. QED
    BY <1>2, <2>1 DEF Steps, DiskStep
<1>4. ASSUME lib' = [lib EXCEPT ![id] = Dropped(t0)], UNCHANGED <<entries, layout>>
      PROVE  lib'[id].closed /\ \A o \in Torrent : EntryStep(o)
  <2>1. lib'[id] = Dropped(t0) /\ \A o \in Torrent \ {id} : lib'[o] = lib[o]
    BY <1>4 DEF EngineInv
  <2>2. /\ Dropped(t0).closed /\ Dropped(t0).gen = t0.gen
        /\ Dropped(t0).info = t0.info
    BY DEF Dropped, LibraryTorrent
  <2>. QED
    BY <1>4, <2>1, <2>2, EntryStays
<1>5. CASE RemoveCloseFails(id)
  <2>1. /\ lib' = [lib EXCEPT ![id] = Dropped(t0)]
        /\ UNCHANGED <<entries, disk, gone, layout>>
    BY <1>5 DEF RemoveCloseFails
  <2>. QED
    BY <1>4, <2>1 DEF Steps, DiskStep
<1>6. CASE RemoveWithData(id)
  <2>1. /\ MayDelete(id) /\ RemoveEntry(id) /\ UNCHANGED <<gone, layout>>
        /\ disk' = LeftAfter(id, Len(Names(id)))
    BY <1>6 DEF RemoveWithData, LeftAfter
  <2>2. Names(id) \in Seq(Name)
    BY SoundFacts, ContentFacts
  <2>3. Len(Names(id)) \in 0..Len(Names(id))
    BY <2>2
  <2>4. Removed(id) /\ \A o \in Torrent : EntryStep(o)
    BY <1>2, <2>1 DEF Removed
  <2>5. Deletes
    BY <2>1, <2>3, <2>4 DEF Deletes
  <2>. QED
    BY <2>1, <2>4, <2>5 DEF Steps, DiskStep
<1>7. ASSUME NEW k \in 0..Len(Names(id)), RemoveFails(id, k) PROVE Steps
  <2>1. /\ MayDelete(id) /\ lib[id].gen < MaxGen
        /\ disk' = Migrated(LeftAfter(id, k), d, Names(id))
        /\ UNCHANGED <<open, waiting, gone, layout>>
    BY <1>7 DEF RemoveFails
  <2>2. /\ Known(id) /\ e0 \in Entry(id) /\ d \in Dir /\ disk' = LeftAfter(id, k)
    BY <2>1, MayDeleteFacts
  <2>3. PICK complete \in MayHave(id, TRUE) : Restored(id, complete)
    BY <1>7 DEF RemoveFails
  <2> DEFINE gen == lib[id].gen + 1
             e == [e0 EXCEPT !.gen = gen, !.boosted = NoBoost(id), !.sampled = 0]
             prio == [f \in File(id) |-> Wished(e.priorities[f])]
             t == [Fresh(id, gen, TRUE, e.paused, complete) EXCEPT !.filePrio = prio]
  <2>4. Put(id, e, t)
    BY <2>3 DEF Restored
  <2>5. gen \in 1..MaxGen /\ gen \in 0..MaxGen /\ 0 \in 0..MaxGen /\ t0.gen # gen
    BY <2>1, MaxGenAssumption DEF LibraryTorrent
  <2>6. NoBoost(id) \in [Piece(id) -> PiecePriority]
    BY DEF NoBoost, PiecePriority
  <2> HIDE DEF gen
  <2>7. e \in Entry(id) /\ e.gen = gen /\ e.dir = d /\ e.paused \in BOOLEAN
    BY <2>2, <2>5, <2>6 DEF Entry, EntryOf, Piece
  <2>8. prio \in [File(id) -> {"none", "normal", "high"}]
    BY DEF Wished, PieceOf
  <2>9. Fresh(id, gen, TRUE, e.paused, complete) \in LibraryTorrent(id)
    <3> HIDE DEF e
    <3>. QED
      BY <2>5, <2>7, SoundFacts, MayHaveFacts, FreshFacts
  <2>10. Fresh(id, gen, TRUE, e.paused, complete).gen = gen
    BY DEF Fresh
  <2> HIDE DEF e, prio
  <2>11. t \in LibraryTorrent(id) /\ t.gen = gen
    BY <2>8, <2>9, <2>10 DEF LibraryTorrent
  <2> HIDE DEF t
  <2>12. entries'[id].gen = gen /\ entries'[id].dir = d /\ lib'[id].gen = gen
    BY <2>4, <2>7, <2>11, PutLeaves
  <2>13. EntryStep(id)
    BY <2>2, <2>12 DEF EntryStep
  <2>14. \A o \in Torrent : EntryStep(o)
    BY <2>4, <2>7, <2>11, <2>13, PutLeaves, OthersStay
  <2>15. e0.gen = t0.gen
    BY <2>2 DEF Paired, Known
  <2>16. Removed(id)
    BY <2>5, <2>12, <2>15 DEF Removed
  <2>17. Deletes
    BY <2>1, <2>2, <2>16 DEF Deletes
  <2>. QED
    BY <2>1, <2>14, <2>17 DEF Steps, DiskStep
<1>8. ASSUME NEW k \in 0..Len(Names(id)), RestoreFails(id, k) PROVE Steps
  <2>1. /\ MayDelete(id) /\ lib' = [lib EXCEPT ![id] = Dropped(t0)]
        /\ UNCHANGED <<entries, gone, layout>>
        /\ disk' \in IF RealDirOf[d] \in gone THEN {disk}
                     ELSE Interrupted(LeftAfter(id, k), d, Names(id))
    BY <1>8 DEF RestoreFails
  <2>2. disk' = disk \/ disk' = LeftAfter(id, k)
    BY <2>1, MayDeleteFacts
  <2>3. Removed(id) /\ \A o \in Torrent : EntryStep(o)
    BY <1>4, <2>1 DEF Removed
  <2>4. CASE disk' = disk
    BY <2>1, <2>3, <2>4 DEF Steps, DiskStep
  <2>5. CASE disk' = LeftAfter(id, k)
    <3>1. Deletes
      BY <2>1, <2>3, <2>5 DEF Deletes
    <3>. QED
      BY <2>1, <2>3, <3>1 DEF Steps, DiskStep
  <2>. QED
    BY <2>2, <2>4, <2>5
<1>. QED
  BY <1>3, <1>5, <1>6, <1>7, <1>8 DEF RemoveTorrent

\* Metadata opens the storage, which is moving partial files; pieces are
\* downloaded; a check changes no file.
LEMMA LibrarySteps ==
  ASSUME EngineInv, Paired, NEW id \in Torrent, Library(id)
  PROVE  Steps
<1> DEFINE t0 == lib[id]
           d == entries[id].dir
<1>. t0 \in LibraryTorrent(id) /\ disk \in [Location -> Contents]
  BY SoundFacts DEF EngineInv
<1>1. ASSUME ~t0.closed PROVE Has(id) /\ d \in Dir /\ entries[id].gen = t0.gen
  BY <1>1, SoundFacts DEF Sound, Follows, Entry, EntryOf, Has
<1>2. CASE MetadataArrives(id)
  <2>1. ~t0.closed /\ Learns(id, t0, gone) /\ UNCHANGED <<entries, gone, layout>>
    BY <1>2 DEF MetadataArrives
  <2>. QED
    BY <2>1, LearnsSteps
<1>3. CASE MetadataFails(id)
  <2>1. /\ ~t0.closed /\ UNCHANGED <<entries, lib, gone, layout>>
        /\ disk' \in OpenFailed(id, gone)
    BY <1>3 DEF MetadataFails
  <2>2. disk' \in Interrupted(disk, d, Names(id))
    BY <1>1, <2>1, NothingMoved DEF OpenFailed
  <2>3. Moves
    BY <1>1, <2>1, <2>2 DEF Moves
  <2>. QED
    BY <2>1, <2>3, EntryStays DEF Steps, DiskStep
<1>4. ASSUME NEW complete, lib' = [lib EXCEPT ![id].complete = complete], UNCHANGED entries
      PROVE  \A o \in Torrent : EntryStep(o)
  <2>1. /\ lib'[id] = [t0 EXCEPT !.complete = complete]
        /\ \A o \in Torrent \ {id} : lib'[o] = lib[o]
    BY <1>4 DEF EngineInv
  <2>2. lib'[id].gen = t0.gen /\ lib'[id].info = t0.info
    BY <2>1 DEF LibraryTorrent
  <2>. QED
    BY <1>4, <2>1, <2>2, EntryStays
<1>5. ASSUME NEW p \in Piece(id), PieceCompletes(id, p) PROVE Steps
  <2>1. Downloads
    BY <1>5 DEF Downloads
  <2>2. lib' = [lib EXCEPT ![id].complete = t0.complete \union {p}]
    BY <1>5 DEF PieceCompletes, EngineInv
  <2>3. UNCHANGED <<entries, layout>>
    BY <1>5 DEF PieceCompletes
  <2>. QED
    BY <1>4, <2>1, <2>2, <2>3 DEF Steps, DiskStep
<1>6. CASE Verify(id)
  <2>1. UNCHANGED <<entries, disk, gone, layout>>
    BY <1>6 DEF Verify
  <2>. QED
    BY <1>4, <1>6, <2>1 DEF Verify, Steps, DiskStep
<1>. QED
  BY <1>2, <1>3, <1>5, <1>6 DEF Library

\* A process that starts has no entries; one that dies may have moved or
\* deleted files.
LEMMA ProcessSteps ==
  ASSUME EngineInv, DiskInv, Restart \/ Crash \/ \E id \in Torrent : Dies(id)
  PROVE  Steps
<1>. disk \in [Location -> Contents]
  BY DEF EngineInv
<1>1. ASSUME NewProcess
      PROVE  /\ UNCHANGED <<gone, layout>>
             /\ \A id \in Torrent : entries'[id] = NoEntry /\ EntryStep(id)
  BY <1>1 DEF NewProcess, EntryStep
<1>2. CASE Restart \/ Crash
  BY <1>1, <1>2 DEF Restart, Crash, Steps, DiskStep
<1>3. ASSUME NEW id \in Torrent, NEW d \in layout[id].dirs, DiesOpening(id, d) PROVE Steps
  <2>1. d \in Dir
    BY SoundFacts, ContentFacts
  <2>2. Moves
    BY <1>1, <1>3, <2>1 DEF DiesOpening, Moves
  <2>. QED
    BY <1>1, <1>3, <2>2 DEF DiesOpening, Steps, DiskStep
<1>4. ASSUME NEW id \in Torrent, NEW k \in 0..Len(Names(id)), DiesDeleting(id, k) PROVE Steps
  <2>1. Deletes
    BY <1>1, <1>4 DEF DiesDeleting, Deletes, Removed
  <2>. QED
    BY <1>1, <1>4, <2>1 DEF DiesDeleting, Steps, DiskStep
<1>. QED
  BY <1>2, <1>3, <1>4 DEF Dies

\* Close drops torrents and leaves the disk alone.
LEMMA CloseSteps ==
  ASSUME EngineInv, Paired, CloseEngine
  PROVE  Steps
<1>1. PICK closed \in SUBSET Torrent, failed \in {{}} \union {{id} : id \in Torrent} :
        Close(closed, failed)
  BY DEF CloseEngine
<1>2. UNCHANGED <<disk, gone, layout>>
  BY <1>1 DEF Close
<1>3. ASSUME NEW id \in Torrent PROVE EntryStep(id)
  <2>1. entries'[id] \in {NoEntry, entries[id]} /\ lib'[id] \in {lib[id], Dropped(lib[id])}
    BY <1>1 DEF Close
  <2>2. lib'[id].gen = lib[id].gen /\ lib'[id].info = lib[id].info
    BY <2>1, SoundFacts DEF Dropped, LibraryTorrent
  <2>3. CASE entries'[id] = NoEntry
    BY <2>3 DEF EntryStep
  <2>. QED
    BY <2>1, <2>2, <2>3, EntryStays
<1>. QED
  BY <1>2, <1>3 DEF Steps, DiskStep

\* Every step is of one of these kinds.
LEMMA NextSteps ==
  ASSUME EngineInv, DiskInv, [Next]_vars
  PROVE  Steps
<1>. Paired
  BY DEF DiskInv
<1>1. ASSUME NEW id \in Torrent, Operations(id) PROVE Steps
  BY <1>1, AddSteps, OptionSteps, RemoveSteps, LibrarySteps, ProcessSteps DEF Operations
<1>2. ASSUME NEW r \in RealDir, DirectoryGoes(r) PROVE Steps
  BY <1>2, EntryStays DEF DirectoryGoes, Goes, Steps, DiskStep
<1>3. CASE UNCHANGED vars
  BY <1>3, EntryStays DEF vars, Steps, DiskStep
<1>. QED
  BY <1>1, <1>2, <1>3, ProcessSteps, CloseSteps DEF Next

(***************************************************************************)
(* The invariant about the disk is kept                                    *)
(***************************************************************************)
\* Something appears at a place only when a torrent has a file of that name;
\* as a file of an older version, only when the name may have a partial file.
\* Nothing appears in a directory that is not there.
Appears(l) == /\ l[1] \notin gone'
              /\ \E id \in Torrent : l[2] \in ToSet(Names(id))
              /\ disk'[l] = "old" => l[2] \in DOMAIN PartOf

\* While partial files are told apart by their names, the one of a torrent
\* has no name of any torrent's file, and what an older version has left.
LEMMA LegacyApart ==
  ASSUME EngineInv, PartsApart(layout, disk), NEW id \in Torrent, NEW d \in Dir,
         NEW n \in Legacy(disk, d, Names(id))
  PROVE  /\ n \in DOMAIN PartOf /\ n \in ToSet(Names(id))
         /\ \A o \in Torrent : PartOf[n] \notin ToSet(Names(o))
         /\ disk[At(d, PartOf[n])] \in {"old", "odd"}
         /\ At(d, n) \in Location /\ At(d, PartOf[n]) \in Location
<1>1. /\ n \in DOMAIN PartOf /\ n \in ToSet(Names(id)) /\ PartOf[n] \notin ToSet(Names(id))
      /\ disk[At(d, PartOf[n])] # "nothing"
      /\ At(d, n) \in Location /\ At(d, PartOf[n]) \in Location
  BY LegacyFacts DEF EngineInv
<1>2. \A o \in Torrent : PartOf[n] \notin ToSet(Names(o))
  BY <1>1 DEF PartsApart, Names
<1>3. disk[At(d, PartOf[n])] # "new"
  BY <1>1, <1>2, DirAssumption DEF PartsApart, Names, At
<1>4. disk[At(d, PartOf[n])] \in Contents
  BY <1>1 DEF EngineInv
<1>. QED
  BY <1>1, <1>2, <1>3, <1>4 DEF Contents

\* A place that moving partial files changes: the partial file's, which is
\* empty now and was of an older version, or that of its own name.
LEMMA MovesPlaces ==
  ASSUME EngineInv, DiskInv, Moves, NEW l \in Location, disk'[l] # disk[l]
  PROVE  \E n \in DOMAIN PartOf :
            /\ disk[<<l[1], PartOf[n]>>] = "old" /\ disk'[<<l[1], n>>] = "old"
            /\ l[1] \notin gone
            /\ disk[<<l[1], n>>] \in {"nothing", "old"}
            /\ \E id \in Torrent : n \in ToSet(Names(id))
            /\ \/ l[2] = PartOf[n] /\ disk'[l] = "nothing"
               \/ l[2] = n
<1>1. PICK id \in Torrent, d \in Dir : disk' \in Interrupted(disk, d, Names(id))
  BY DEF Moves
<1>2. PICK n \in Legacy(disk, d, Names(id)) :
        /\ Linkable(disk, d, n)
        /\ disk'[At(d, n)] = disk[At(d, PartOf[n])]
        /\ \/ l = At(d, PartOf[n]) /\ disk'[l] = "nothing"
           \/ l = At(d, n)
  BY <1>1, MigrationPlaces DEF EngineInv
<1>3. /\ n \in DOMAIN PartOf /\ n \in ToSet(Names(id))
      /\ disk[At(d, PartOf[n])] \in {"old", "odd"}
      /\ At(d, n) \in Location /\ At(d, PartOf[n]) \in Location
  BY LegacyApart DEF DiskInv
<1>4. disk[At(d, PartOf[n])] = "old" /\ disk[At(d, n)] \in {"nothing", "old"}
  BY <1>2, <1>3 DEF Linkable
<1>5. l[1] = RealDirOf[d] /\ RealDirOf[d] \notin gone
  BY <1>2, <1>3, <1>4 DEF At, DiskInv, Emptied
<1>. QED
  BY <1>2, <1>3, <1>4, <1>5 DEF At

\* A place that deleting a torrent's files changes is one of those files, a
\* regular one, in a directory that is there.
LEMMA DeletesPlaces ==
  ASSUME EngineInv, DiskInv, Deletes, NEW l \in Location, disk'[l] # disk[l]
  PROVE  /\ disk'[l] = "nothing" /\ disk[l] # "odd" /\ l[1] \notin gone
         /\ \E id \in Torrent : /\ MayDelete(id) /\ Removed(id)
                                /\ l \in Owned(id) /\ l[2] \in ToSet(Names(id))
<1>1. PICK id \in Torrent :
        MayDelete(id) /\ Removed(id) /\ \E k \in 0..Len(Names(id)) : disk' = LeftAfter(id, k)
  BY DEF Deletes
<1>2. PICK k \in 0..Len(Names(id)) : disk' = LeftAfter(id, k)
  BY <1>1
<1>3. PICK i \in 1..k : l = At(entries[id].dir, Names(id)[i])
  BY <1>2 DEF LeftAfter, Deleted, EngineInv
<1>4. disk'[l] = "nothing"
  BY <1>2, <1>3 DEF LeftAfter, Deleted, EngineInv
<1>5. Names(id) \in Seq(Name) /\ i \in DOMAIN Names(id)
  <2>1. Names(id) \in Seq(Name)
    BY SoundFacts, ContentFacts
  <2>2. Len(Names(id)) \in Nat /\ DOMAIN Names(id) = 1..Len(Names(id))
    BY <2>1
  <2>3. k \in Int /\ i \in Int /\ 1 <= i /\ i <= Len(Names(id))
    BY <2>2
  <2>. QED
    BY <2>1, <2>2, <2>3
<1>6. l \in Owned(id) /\ l[2] \in ToSet(Names(id))
  BY <1>3, <1>5 DEF Owned, FilesAt, ToSet, At
<1>7. disk[l] # "odd"
  BY <1>1, <1>3, <1>5 DEF MayDelete, Deletable
<1>8. l[1] \notin gone
  BY <1>4 DEF DiskInv, Emptied
<1>. QED
  BY <1>1, <1>4, <1>6, <1>7, <1>8

\* A place that a download changes is an empty one, of a torrent's file.
LEMMA DownloadsPlaces ==
  ASSUME EngineInv, Downloads
  PROVE  /\ gone' \subseteq gone
         /\ \A l \in Location : disk'[l] # disk[l] =>
              /\ disk[l] = "nothing" /\ disk'[l] = "new" /\ l[1] \notin gone'
              /\ \E id \in Torrent : l[2] \in ToSet(Names(id))
<1>1. PICK id \in Torrent : \E p \in Piece(id) : PieceCompletes(id, p)
  BY DEF Downloads
<1>2. PICK p \in Piece(id) : PieceCompletes(id, p)
  BY <1>1
<1> DEFINE d == entries[id].dir
<1>3. gone' = gone \ {RealDirOf[d]}
  BY <1>2 DEF PieceCompletes
<1>4. ASSUME NEW l \in Location, disk'[l] # disk[l]
      PROVE  /\ disk[l] = "nothing" /\ disk'[l] = "new" /\ l[1] \notin gone'
             /\ l[2] \in ToSet(Names(id))
  <2>1. /\ disk[l] = "nothing" /\ disk'[l] = "new"
        /\ \E f \in File(id) : l = At(d, Names(id)[f])
    BY <1>2, <1>4 DEF PieceCompletes
  <2>2. PICK f \in File(id) : l = At(d, Names(id)[f])
    BY <2>1
  <2>3. Names(id)[f] \in ToSet(Names(id))
    BY DEF File, Names, ToSet
  <2>. QED
    BY <1>3, <2>1, <2>2, <2>3 DEF At
<1>. QED
  BY <1>3, <1>4

\* What appears on the disk in a step.
LEMMA StepAppears ==
  ASSUME EngineInv, DiskInv, DiskStep
  PROVE  /\ \A l \in Location : disk'[l] = disk[l] \/ disk'[l] = "nothing" \/ Appears(l)
         /\ \A l \in Location : l[1] \in gone' => l[1] \in gone \/ disk'[l] = "nothing"
         /\ \A l \in Location : disk'[l] = "new" /\ disk[l] # "new" => Downloads
<1>1. CASE Moves
  <2>1. gone' \subseteq gone
    BY <1>1 DEF Moves
  <2>2. \A l \in Location : disk'[l] # disk[l] =>
          disk'[l] = "nothing" \/ (Appears(l) /\ disk'[l] = "old")
    <3>1. SUFFICES ASSUME NEW l \in Location, disk'[l] # disk[l]
                   PROVE  disk'[l] = "nothing" \/ (Appears(l) /\ disk'[l] = "old")
      OBVIOUS
    <3>2. PICK n \in DOMAIN PartOf :
            /\ disk'[<<l[1], n>>] = "old" /\ l[1] \notin gone
            /\ \E id \in Torrent : n \in ToSet(Names(id))
            /\ \/ l[2] = PartOf[n] /\ disk'[l] = "nothing"
               \/ l[2] = n
      BY <1>1, <3>1, MovesPlaces
    <3>3. l = <<l[1], l[2]>>
      BY DEF Location
    <3>. QED
      BY <2>1, <3>2, <3>3 DEF Appears
  <2>. QED
    BY <2>1, <2>2
<1>2. CASE Deletes
  <2>1. \A l \in Location : disk'[l] # disk[l] => disk'[l] = "nothing"
    BY <1>2, DeletesPlaces
  <2>2. gone' = gone
    BY <1>2 DEF Deletes
  <2>. QED
    BY <2>1, <2>2
<1>3. CASE Downloads
  BY <1>3, DownloadsPlaces DEF Appears
<1>4. CASE Goes
  BY <1>4 DEF Goes, DirectoryGoes
<1>5. CASE UNCHANGED <<disk, gone>>
  BY <1>5
<1>. QED
  BY <1>1, <1>2, <1>3, <1>4, <1>5 DEF DiskStep

\* The partial files of a torrent do not become more.
LEMMA LegacyShrinks ==
  ASSUME EngineInv, DiskInv, DiskStep, NEW id \in Torrent, NEW d \in Dir
  PROVE  Legacy(disk', d, Names(id)) \subseteq Legacy(disk, d, Names(id))
<1>1. SUFFICES ASSUME NEW n \in Legacy(disk', d, Names(id)) PROVE n \in Legacy(disk, d, Names(id))
  OBVIOUS
<1>. /\ n \in ToSet(Names(id)) \intersect DOMAIN PartOf
     /\ PartOf[n] \notin ToSet(Names(id)) /\ disk'[At(d, PartOf[n])] # "nothing"
  BY <1>1 DEF Legacy
<1>2. At(d, PartOf[n]) \in Location
  BY DirAssumption, PartAssumption DEF At, Location
<1>3. \A o \in Torrent : PartOf[n] \notin ToSet(Names(o))
  BY <1>1 DEF DiskInv, PartsApart, Names
<1>4. ~Appears(At(d, PartOf[n]))
  BY <1>3 DEF Appears, At
<1>5. disk[At(d, PartOf[n])] # "nothing"
  BY <1>2, <1>4, StepAppears
<1>. QED
  BY <1>5 DEF Legacy

\* The invariant is kept.
LEMMA DiskInvStep ==
  ASSUME EngineInv, EngineInv', DiskInv, [Next]_vars
  PROVE  DiskInv'
<1>1. UNCHANGED layout /\ DiskStep /\ \A id \in Torrent : EntryStep(id)
  BY NextSteps DEF Steps
<1>2. Emptied'
  <2>1. SUFFICES ASSUME NEW l \in Location, l[1] \in gone' PROVE disk'[l] = "nothing"
    BY DEF Emptied
  <2>2. ~Appears(l)
    BY <2>1 DEF Appears
  <2>3. l[1] \in gone => disk[l] = "nothing"
    BY DEF DiskInv, Emptied
  <2>. QED
    BY <1>1, <2>1, <2>2, <2>3, StepAppears
<1>3. PartsApart(layout, disk)'
  <2>1. SUFFICES ASSUME NEW n \in DOMAIN PartOf
                 PROVE  IF \E id \in Torrent : PartOf[n] \in ToSet(layout[id].names)
                        THEN /\ \A id \in Torrent : n \in ToSet(layout[id].names)
                                                      => PartOf[n] \in ToSet(layout[id].names)
                             /\ PartOf[n] \notin DOMAIN PartOf
                             /\ \A r \in RealDir : disk'[<<r, PartOf[n]>>] # "old"
                        ELSE \A r \in RealDir : disk'[<<r, PartOf[n]>>] # "new"
    BY <1>1 DEF PartsApart
  <2>2. \A r \in RealDir : /\ <<r, PartOf[n]>> \in Location
                           /\ \/ disk'[<<r, PartOf[n]>>] = disk[<<r, PartOf[n]>>]
                              \/ disk'[<<r, PartOf[n]>>] = "nothing"
                              \/ Appears(<<r, PartOf[n]>>)
    BY <1>1, PartAssumption, StepAppears DEF Location
  <2>3. CASE \E id \in Torrent : PartOf[n] \in ToSet(layout[id].names)
    BY <2>2, <2>3 DEF DiskInv, PartsApart, Appears
  <2>4. CASE ~ \E id \in Torrent : PartOf[n] \in ToSet(layout[id].names)
    BY <2>2, <2>4 DEF DiskInv, PartsApart, Appears, Names
  <2>. QED
    BY <2>3, <2>4
<1>4. Cleared'
  <2>1. SUFFICES ASSUME NEW id \in Torrent, Known(id)'
                 PROVE  Legacy(disk', entries'[id].dir, Names(id)) = {}
    BY <1>1 DEF Cleared, Names
  <2>2. \/ Known(id) /\ entries'[id].dir = entries[id].dir
        \/ /\ entries'[id].dir \in Dir
           /\ disk' = Migrated(disk, entries'[id].dir, Names(id))
    BY <1>1, <2>1 DEF EntryStep, Known, Has
  <2>3. CASE Known(id) /\ entries'[id].dir = entries[id].dir
    <3>1. entries[id].dir \in Dir
      BY <2>3, SoundFacts DEF Known, Has, Entry, EntryOf
    <3>2. Legacy(disk, entries[id].dir, Names(id)) = {}
      BY <2>3 DEF DiskInv, Cleared
    <3>. QED
      BY <1>1, <2>3, <3>1, <3>2, LegacyShrinks
  <2>4. CASE /\ entries'[id].dir \in Dir
             /\ disk' = Migrated(disk, entries'[id].dir, Names(id))
    <3>1. disk \in [Location -> Contents]
      BY DEF EngineInv
    <3>. QED
      BY <2>4, <3>1, MigratedLeavesNone
  <2>. QED
    BY <2>2, <2>3, <2>4
<1>5. Paired'
  BY <1>1 DEF EntryStep, Paired, Has
<1>. QED
  BY <1>2, <1>3, <1>4, <1>5 DEF DiskInv

-----------------------------------------------------------------------------
(***************************************************************************)
(* The theorems about the disk                                             *)
(***************************************************************************)
\* The invariant about the disk holds at first.
LEMMA DiskInvInit ==
  ASSUME \A s \in Starts : PartsApart(s.torrents, s.disk), Init
  PROVE  DiskInv
BY DEF Init, DiskInv, Emptied, Cleared, Paired, Known, Has

\* It holds in every reachable state.
THEOREM DiskSound ==
  ASSUME \A s \in Starts : PartsApart(s.torrents, s.disk)
  PROVE  Spec => [](EngineInv /\ DiskInv)
<1>1. Init => EngineInv /\ DiskInv
  BY EngineInvInit, DiskInvInit
<1>2. EngineInv /\ DiskInv /\ [Next]_vars => (EngineInv /\ DiskInv)'
  BY EngineInvStep, DiskInvStep
<1>. QED
  BY <1>1, <1>2, PTL DEF Spec

\* What a removal may make disappear.
Spared(l) ==
    \/ l[1] \in gone'
    \/ \E n \in DOMAIN PartOf : PartOf[n] = l[2] /\ disk[l] = "old" /\ disk'[<<l[1], n>>] = "old"
    \/ /\ disk[l] # "odd"
       /\ \E id \in Torrent : /\ Has(id) /\ l \in Owned(id) /\ Removed(id)
                              /\ \A o \in Others(id) : l \notin Owned(o)

\* What disappears in a step.
LEMMA VanishesSpared ==
  ASSUME EngineInv, DiskInv, [Next]_vars, NEW l \in Location, Vanishes(l)
  PROVE  Spared(l)
<1>1. DiskStep
  BY NextSteps DEF Steps
<1>2. disk'[l] # disk[l] /\ l = <<l[1], l[2]>>
  BY DEF Vanishes, Location
<1>3. CASE Moves
  BY <1>2, <1>3, MovesPlaces DEF Vanishes, Spared
<1>4. CASE Deletes
  <2>1. PICK id \in Torrent : MayDelete(id) /\ Removed(id) /\ l \in Owned(id)
    BY <1>2, <1>4, DeletesPlaces
  <2>2. disk[l] # "odd" /\ l[1] \notin gone
    BY <1>2, <1>4, DeletesPlaces
  <2>3. l[1] = RealDirOf[entries[id].dir]
    BY <2>1 DEF Owned, FilesAt, At
  <2>4. NotShared(id)
    BY <2>1, <2>2, <2>3 DEF MayDelete
  <2>5. \A o \in Others(id) : l \notin Owned(o)
    BY <2>1, <2>4 DEF NotShared, Owned
  <2>. QED
    BY <2>1, <2>2, <2>5 DEF Spared, MayDelete, Has
<1>5. CASE Downloads
  BY <1>2, <1>5, DownloadsPlaces DEF Vanishes
<1>6. CASE Goes
  BY <1>2, <1>6 DEF Goes, DirectoryGoes, Spared
<1>7. CASE UNCHANGED <<disk, gone>>
  BY <1>2, <1>7
<1>. QED
  BY <1>1, <1>3, <1>4, <1>5, <1>6, <1>7 DEF DiskStep

\* Whatever the torrents contain, wherever they are saved, and at whatever
\* point removing, adding or the process stops, a file is deleted only with a
\* torrent it belongs to, when it is a regular file and no other torrent whose
\* files are known has it (remove.go:43, 127), as long as files that are
\* called like partial files are told apart by their names (storage.go:56).
THEOREM RemovalSpares ==
  ASSUME \A s \in Starts : PartsApart(s.torrents, s.disk)
  PROVE  Spec => RemovalSparesOthers
<1> DEFINE Step == \A l \in Location : Vanishes(l) => Spared(l)
<1>1. EngineInv /\ DiskInv /\ [Next]_vars => [Step]_vars
  BY VanishesSpared
<1>2. Spec => [][Step]_vars
  BY <1>1, DiskSound, PTL DEF Spec
<1>. QED
  BY <1>2 DEF RemovalSparesOthers, Spared

\* What a step does to the files of older versions and to others.
Kept == \A r \in RealDir \ gone' :
            /\ \A n \in DOMAIN PartOf :
                 disk[<<r, PartOf[n]>>] = "old" =>
                    disk'[<<r, PartOf[n]>>] = "old" \/ disk'[<<r, n>>] = "old"
            /\ \A n \in Name : disk[<<r, n>>] = "new" => disk'[<<r, n>>] # "old"

\* A step keeps them.
LEMMA StepKeeps ==
  ASSUME EngineInv, DiskInv, [Next]_vars
  PROVE  Kept
<1>1. DiskStep
  BY NextSteps DEF Steps
<1>2. ASSUME NEW r \in RealDir \ gone', NEW n \in DOMAIN PartOf,
             disk[<<r, PartOf[n]>>] = "old", disk'[<<r, PartOf[n]>>] # "old"
      PROVE  disk'[<<r, n>>] = "old"
  <2> DEFINE l == <<r, PartOf[n]>>
  <2>1. l \in Location /\ disk'[l] # disk[l] /\ l[1] = r /\ l[2] = PartOf[n]
    BY <1>2, PartAssumption DEF Location
  <2> HIDE DEF l
  <2>2. CASE Moves
    <3>1. PICK m \in DOMAIN PartOf :
            /\ disk'[<<r, m>>] = "old"
            /\ \/ l[2] = PartOf[m] /\ disk'[l] = "nothing"
               \/ l[2] = m
      BY <2>1, <2>2, MovesPlaces
    <3>2. l[2] # m
      BY <1>2, <2>1, <3>1
    <3>3. m = n
      BY <2>1, <3>1, <3>2, PartAssumption
    <3>. QED
      BY <3>1, <3>3
  <2>3. CASE Deletes
    <3>1. \E id \in Torrent : PartOf[n] \in ToSet(layout[id].names)
      BY <2>1, <2>3, DeletesPlaces DEF Names
    <3>. QED
      BY <1>2, <3>1 DEF DiskInv, PartsApart
  <2>4. CASE Downloads
    BY <1>2, <2>1, <2>4, DownloadsPlaces DEF l
  <2>5. CASE Goes
    BY <1>2, <2>1, <2>5 DEF Goes, DirectoryGoes
  <2>. QED
    BY <1>1, <2>1, <2>2, <2>3, <2>4, <2>5 DEF DiskStep
<1>3. ASSUME NEW r \in RealDir \ gone', NEW n \in Name,
             disk[<<r, n>>] = "new", disk'[<<r, n>>] = "old"
      PROVE  FALSE
  <2> DEFINE l == <<r, n>>
  <2>1. l \in Location /\ disk'[l] # disk[l] /\ l[1] = r /\ l[2] = n
        /\ disk[l] = "new" /\ disk'[l] = "old"
    BY <1>3 DEF Location
  <2> HIDE DEF l
  <2>2. CASE Moves
    <3>1. PICK m \in DOMAIN PartOf :
            /\ disk[<<l[1], m>>] \in {"nothing", "old"}
            /\ \/ l[2] = PartOf[m] /\ disk'[l] = "nothing"
               \/ l[2] = m
      BY <2>1, <2>2, MovesPlaces
    <3>. QED
      BY <2>1, <3>1 DEF l
  <2>3. CASE Deletes
    BY <2>1, <2>3, DeletesPlaces
  <2>4. CASE Downloads
    BY <2>1, <2>4, DownloadsPlaces
  <2>5. CASE Goes
    BY <2>1, <2>5 DEF Goes, DirectoryGoes
  <2>. QED
    BY <1>1, <2>1, <2>2, <2>3, <2>4, <2>5 DEF DiskStep
<1>. QED
  BY <1>2, <1>3 DEF Kept

\* Data of an older version is never lost, and no file is replaced by another,
\* at whatever point the migration stops (storage.go:69-79), as long as files
\* that are called like partial files are told apart by their names.
THEOREM LegacyKept ==
  ASSUME \A s \in Starts : PartsApart(s.torrents, s.disk)
  PROVE  Spec => LegacyDataIsKept
<1>1. EngineInv /\ DiskInv /\ [Next]_vars => [Kept]_vars
  BY StepKeeps
<1>2. Spec => [][Kept]_vars
  BY <1>1, DiskSound, PTL DEF Spec
<1>. QED
  BY <1>2 DEF LegacyDataIsKept, Kept
=============================================================================
