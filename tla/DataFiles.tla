----------------------------- MODULE DataFiles -----------------------------
(***************************************************************************)
(* The downloaded files: what moving the partial files of older versions   *)
(* (storage.go) and deleting a torrent's data (remove.go) do to the disk.  *)
(*                                                                         *)
(* A location is a real directory and a name relative to it. Save paths    *)
(* are written by users and may be symbolic links, so two of them can lead *)
(* to one real directory. Directories within a save path are left out: the *)
(* code removes one only when nothing is in it. Metadata whose names leave *)
(* the save path never gets this far (storage.go:48 refuses it first).    *)
(***************************************************************************)
EXTENDS Naturals, FiniteSets, Sequences, SequencesExt

CONSTANTS Dir,        \* save paths as they are written in records
          RealDirOf,  \* the directory each of them leads to
          Name,       \* file names
          PartOf      \* the names that may have a partial file: name -> name.part

\* What a location holds: nothing; a link, directory or device; a file that
\* an older version left as NAME.part; a file written at its own name.
Contents == {"nothing", "odd", "old", "new"}

RealDir == {RealDirOf[d] : d \in Dir}
Location == RealDir \X Name

ASSUME DirAssumption == RealDirOf \in [Dir -> RealDir]
ASSUME PartAssumption == /\ DOMAIN PartOf \subseteq Name
                         /\ \A n \in DOMAIN PartOf : PartOf[n] \in Name /\ PartOf[n] # n
                         /\ \A m, n \in DOMAIN PartOf : PartOf[m] = PartOf[n] => m = n

At(d, n) == <<RealDirOf[d], n>>

\* The locations of the files `names` of a torrent saved to d.
FilesAt(d, names) == {At(d, names[i]) : i \in DOMAIN names}

(***************************************************************************)
(* migratePartFiles: NAME.part becomes NAME by a hard link and a removal,  *)
(* so that nothing is overwritten and no step leaves the data nameless.    *)
(***************************************************************************)
\* The names that have a partial file. One that is itself a file of the
\* torrent is left alone.
Legacy(disk, d, names) ==
    {n \in ToSet(names) \intersect DOMAIN PartOf :
        PartOf[n] \notin ToSet(names) /\ disk[At(d, PartOf[n])] # "nothing"}

\* Mutant: the partial file is renamed.
Renamable(disk, d, n) == disk[At(d, PartOf[n])] \notin {"nothing", "odd"}

\* The link succeeds, or fails because it was made before.
Linkable(disk, d, n) == /\ disk[At(d, PartOf[n])] \notin {"nothing", "odd"}
                        /\ \/ disk[At(d, n)] = "nothing"
                           \/ disk[At(d, n)] = "old" /\ disk[At(d, PartOf[n])] = "old"

Link(disk, d, n) == [disk EXCEPT ![At(d, n)] = disk[At(d, PartOf[n])]]

Unlinked(disk, d, moved) ==
    [l \in DOMAIN disk |->
        IF \E n \in moved : l = At(d, PartOf[n]) THEN "nothing"
        ELSE IF \E n \in moved : l = At(d, n)
             THEN disk[At(d, PartOf[CHOOSE n \in moved : l = At(d, n)])]
        ELSE disk[l]]

\* All partial files moved. The directory is there: Add makes it.
Migrates(disk, d, names) == \A n \in Legacy(disk, d, names) : Linkable(disk, d, n)

Migrated(disk, d, names) == Unlinked(disk, d, Legacy(disk, d, names))

\* What a migration that fails, or a process that dies in it, may leave: some
\* files moved, in any order, and at most one linked but not yet removed.
Interrupted(disk, d, names) ==
    LET legacy == Legacy(disk, d, names)
        good   == {n \in legacy : Linkable(disk, d, n)}
    IN  UNION {{Unlinked(disk, d, moved)}
                  \union {Link(Unlinked(disk, d, moved), d, n) : n \in good \ moved}
                  : moved \in SUBSET good}

(***************************************************************************)
(* prepareDataRemoval, removeDataFiles                                     *)
(***************************************************************************)
\* Only regular files are deleted, and none unless all that exist are.
Deletable(disk, d, names) == \A i \in DOMAIN names : disk[At(d, names[i])] # "odd"

\* The first k files of the torrent are gone.
Deleted(disk, d, names, k) ==
    [l \in DOMAIN disk |-> IF \E i \in 1..k : l = At(d, names[i]) THEN "nothing" ELSE disk[l]]

\* Deleting stops with an error at file k + 1, which is there.
StopsAfter(disk, d, names, k) == k < Len(names) /\ disk[At(d, names[k + 1])] # "nothing"
=============================================================================
