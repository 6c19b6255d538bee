------------------------------ MODULE MCEngine ------------------------------
(***************************************************************************)
(* Three contents. In `Shared`, two torrents of one piece each, which have *)
(* a file in common when they are saved to one directory; two save paths   *)
(* lead to it. In `Pieces`, one torrent whose middle piece belongs to two  *)
(* files, with a window of two of its pieces. In `Paused`, one torrent of  *)
(* one piece, with every option.                                           *)
(***************************************************************************)
EXTENDS EngineProperties

CONSTANTS t1, t2

MCTorrent == {t1, t2}
MCDir == {"home", "link"}
MCRealDirOf == [d \in MCDir |-> "disk"]
MCName == {"a", "b", "a.part"}
MCPartOf == [n \in {"a"} |-> "a.part"]

Nothing == [names |-> <<>>, first |-> <<>>, end |-> <<>>, pieces |-> 0, window |-> 1,
            dirs |-> {}, offered |-> {}, uses |-> {}, found |-> {{}}]

Shared == [id \in MCTorrent |->
    IF id = t1 THEN [names |-> <<"a", "b">>, first |-> <<0, 0>>, end |-> <<1, 1>>,
                     pieces |-> 1, window |-> 1, dirs |-> {"home"},
                     offered |-> {}, uses |-> {}, found |-> {{}}]
    ELSE [names |-> <<"b">>, first |-> <<0>>, end |-> <<1>>,
          pieces |-> 1, window |-> 1, dirs |-> {"link"}, offered |-> {}, uses |-> {},
          found |-> {{}}]]

Pieces == [id \in MCTorrent |->
    IF id = t1 THEN [names |-> <<"a", "a.part">>, first |-> <<0, 1>>, end |-> <<2, 3>>,
                     pieces |-> 3, window |-> 2, dirs |-> {"home"},
                     offered |-> {"skip"}, uses |-> {"sequential"},
                     found |-> {{}, {0}}]
    ELSE Nothing]

Paused == [id \in MCTorrent |->
    IF id = t1 THEN [names |-> <<"b">>, first |-> <<0>>, end |-> <<1>>,
                     pieces |-> 1, window |-> 1, dirs |-> {"home"},
                     offered |-> {"skip", "high"}, uses |-> {"pause", "sequential"},
                     found |-> {{}, {0}}]
    ELSE Nothing]

On(name) == <<"disk", name>>

\* Partial files of an older version, perhaps linked by a migration that was
\* cut short, beside files of any kind.
SharedDisks ==
    {d \in [Location -> Contents] :
        /\ d[On("a.part")] \in {"nothing", "old"}
        /\ d[On("a")] \in {"nothing", "new", d[On("a.part")]}
        /\ d[On("b")] \in {"new", "odd"}}

PiecesDisk == [l \in Location |-> IF l = On("a.part") THEN "new" ELSE "nothing"]

EmptyDisk == [l \in Location |-> "nothing"]

MCStarts == {[torrents |-> Shared, disk |-> d] : d \in SharedDisks}
            \union {[torrents |-> Pieces, disk |-> PiecesDisk],
                    [torrents |-> Paused, disk |-> EmptyDisk]}

ASSUME PartsAssumption == \A s \in MCStarts : PartsApart(s.torrents, s.disk)
=============================================================================
