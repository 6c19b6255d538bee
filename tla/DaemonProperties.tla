-------------------------- MODULE DaemonProperties --------------------------
(***************************************************************************)
(* What the daemon's control plane should guarantee, over the state and    *)
(* the actions of Daemon.                                                  *)
(***************************************************************************)
EXTENDS Daemon

Step == {"idle", "restore", "pass", "update", "put", "verify", "added", "remove",
         "forget", "move"}

\* Types.
TypeOK ==
  /\ disk \in SessionType
  /\ session \in SessionType
  /\ previous \in SessionType
  /\ torrents \in [order : Seq(TorrentID), snaps : Map(TorrentID, TorrentSnapshot)]
  /\ engine \in Map(TorrentID, TorrentEntry)
  /\ scheduled \in Map(TorrentID, BOOLEAN)
  /\ phase \in {"down", "starting", "serving"}
  /\ cancelled \in BOOLEAN
  /\ actor \in BOOLEAN
  /\ step \in Step
  /\ req \in Request \cup {NoRequest}
  /\ got \in TorrentSnapshot
  /\ todo \in Seq(TorrentID)
  /\ active \in [downloads : Nat, seeds : Nat]
  /\ acked \in [TorrentID -> Desired \cup {"none"}]
  /\ lost \subseteq TorrentID

\* validateSession's rules: an order without repetitions that lists exactly
\* the torrents that have a record.
Valid(s) == IsInjective(s.order) /\ Range(s.order) = DOMAIN s.torrents

\* The session is valid in memory, on disk and in the copy a removal would put
\* back, after every sequence of adds, moves, removals and rollbacks: no save
\* is ever refused by validateSession, and no restart refuses the file.
SessionsValid == Valid(session) /\ Valid(disk) /\ Valid(previous)

\* The scheduler's cache is right: what it remembers to have told the engine
\* is what the engine does. A stale entry would keep a paused torrent running,
\* or a resumed one stopped, for good, because setScheduled trusts it. (It holds
\* as long as a removal that fails leaves no dropped torrent, which the cache
\* would remember when it is added again: controls.go:123.)
ScheduleCacheRight ==
  \A id \in DOMAIN scheduled : id \in DOMAIN engine
                            /\ engine[id].paused = ~scheduled[id]

InFlight(id) == req # NoRequest /\ req.id = id

\* What the daemon has told a client about a torrent survives in session.json,
\* through crashes, refused removals and failed saves: outside the handling of
\* a request for it, the file says what the last answer said.
AnswersAreDurable ==
  \A id \in TorrentID \ lost : ~InFlight(id) => DesiredIn(disk, id) = acked[id]

\* A torrent whose pause was answered stays paused in the engine while the
\* daemon serves, whatever restarts, passes and checks come in between. (A daemon
\* that is stopping may leave behind a torrent that was being added again to run.
\* What a paused entry means for the library is OptionsReachLibrary of Engine.)
PausedStaysPaused ==
  phase = "serving" /\ ~cancelled =>
    \A id \in DOMAIN engine :
      acked[id] = "paused" /\ ~InFlight(id) => engine[id].paused \/ engine[id].dropped

\* The order clients see is the order that is saved: a move, an add or a
\* removal changes both or neither.
OrdersAgree ==
  phase = "serving" /\ step = "idle" /\ lost = {} => torrents.order = session.order

\* The engine runs no torrent that clients cannot see and control: an add that
\* could not be saved and a removal that failed leave none behind, or one that
\* was dropped. (A daemon that is stopping may leave a torrent it was adding.)
NoOrphans ==
  phase = "serving" /\ step = "idle" /\ lost = {} /\ ~cancelled =>
    \A id \in DOMAIN engine : Live(id) => id \in DOMAIN session.torrents

\* Recorded torrents that transfer data.
Running == {id \in DOMAIN engine \cap DOMAIN session.torrents : ~engine[id].paused}

\* A completed pass has counted every torrent it leaves running, and no more of
\* either class than its limit allows, whatever was resumed, added or verified
\* before it, whatever its cache made it skip, and whatever finishes or loses
\* data during it.
PassRespectsLimits ==
  step = "pass" /\ todo = <<>> /\ ~cancelled =>
    /\ Cardinality(Running) = active.downloads + active.seeds
    /\ \A class \in {"downloads", "seeds"} :
         LimitOf(class) = 0 \/ active[class] <= LimitOf(class)

\* With no request under way the engine, the snapshot that clients see, the
\* session and the file agree on a torrent's download order, also after a save
\* failed and the handler went back to the order the snapshot had
\* (controls.go:242). (Two kinds of entry may have the order of an add that was
\* not recorded: one that a stopping daemon leaves, and one that such an add could
\* not remove again, rpc.go:43.)
SequentialAgrees ==
  phase = "serving" /\ step = "idle" /\ ~cancelled =>
    \A id \in DOMAIN session.torrents : Live(id) /\ ~engine[id].stray =>
      /\ engine[id].sequential = session.torrents[id].sequential
      /\ engine[id].sequential = disk.torrents[id].sequential
      /\ id \in DOMAIN torrents.snaps =>
           torrents.snaps[id].sequential = engine[id].sequential

\* With no request under way the priority of each file is the same in the
\* engine, in the session and in the file, unless the torrent was added again
\* while it had a record: the record keeps its priorities, and the engine is not
\* told of them before the next start (daemon.go:201, rpc.go:32). When a priority
\* cannot be saved the handler sets the engine back (controls.go:110); the record
\* should have kept the old one too.
PriorityOf(priorities, f) == IF f \in DOMAIN priorities THEN priorities[f] ELSE NormalPriority

PrioritiesAgree ==
  phase = "serving" /\ step = "idle" =>
    \A id \in DOMAIN engine \cap DOMAIN session.torrents, f \in File :
      engine[id].bare
        \/ /\ PriorityOf(engine[id].priorities, f)
                = PriorityOf(session.torrents[id].priorities, f)
           /\ PriorityOf(engine[id].priorities, f)
                = PriorityOf(disk.torrents[id].priorities, f)
-----------------------------------------------------------------------------
(* The list of torrents that clients are promised *)

\* The session that counts: while a removal can be undone, the one from before.
Kept == IF step = "remove" THEN previous ELSE disk

AskedIn(s) == [id \in TorrentID |->
                 IF id \in DOMAIN s.torrents
                   THEN [desired |-> s.torrents[id].desired,
                         sequential |-> s.torrents[id].sequential]
                   ELSE [desired |-> "none", sequential |-> FALSE]]

\* A request has been carried out when its change is saved and, for a removal,
\* can no longer be undone.
TorrentList == INSTANCE TorrentList
  WITH order <- Kept.order,
       asked <- AskedIn(Kept),
       request <- req,
       carried <- step \in {"put", "forget", "move"},
       told <- acked,
       doubt <- lost

\* The daemon implements that list, whatever fails: handlers that save, fail to
\* save, undo and fail to undo, passes, restores and restarts change what
\* clients asked only as the request under way says, all of it or nothing; and
\* a request that is refused has changed nothing (daemon.go, controls.go). File
\* priorities are not part of it: a failed save can leave one behind
\* (PrioritiesAgree).
ImplementsTorrentList == TorrentList!ListSpec
-----------------------------------------------------------------------------
(* Liveness *)

\* The daemon's goroutines are scheduled, and a hash check ends. A daemon that
\* was told to stop closes its connections, so that its requests come to an
\* end: Return, which they put off, is strongly fair.
FairSpec == Spec /\ WF_vars(Server) /\ WF_vars(ActorExits) /\ SF_vars(cancelled /\ Return)

\* Torrents the pass would count: they want to run and the engine has them.
Eligible(id) == id \in DOMAIN engine /\ DesiredIn(session, id) = "downloading"

Before(id) == {torrents.order[i] : i \in {i \in DOMAIN torrents.order :
                 \E j \in DOMAIN torrents.order : i < j /\ torrents.order[j] = id}}

\* The first torrents of each class, in the clients' order, are admitted.
Admitted(id) ==
  LET class == Class(id)
      ahead == {other \in Before(id) : Eligible(other) /\ Class(other) = class}
  IN  LimitOf(class) = 0 \/ Cardinality(ahead) < LimitOf(class)

\* Every torrent does, and is shown to do, what its record and the limits say.
Settled ==
  /\ DOMAIN engine \cap DOMAIN session.torrents \subseteq DOMAIN torrents.snaps
  /\ \A id \in DOMAIN engine \cap DOMAIN session.torrents :
       LET e == engine[id]
           s == torrents.snaps[id]
       IN  \/ ~Eligible(id) /\ e.paused /\ s.state = "paused"
           \/ Eligible(id) /\ Admitted(id) /\ ~e.paused /\ s = SnapshotOf(e)
           \/ Eligible(id) /\ ~Admitted(id) /\ e.paused /\ s.state = "queued"

\* When clients and torrents fall silent, the passes bring every torrent into
\* the state its record, its place and the limits call for, and keep it there.
Settles ==
  <>[][Server]_vars /\ <>[](phase = "serving" /\ ~cancelled) => <>[]Settled

\* A daemon that is told to stop does stop.
StopsWhenTold == cancelled ~> phase = "down"

\* The one thing that keeps it from stopping: a handler, or the restore, that
\* has work left for an actor that has already exited.
WaitsForActor == /\ ~actor
                 /\ step \in {"put", "forget", "move"} \/ (step = "restore" /\ todo # <<>>)

StopsUnlessItWaitsForActor == cancelled ~> (phase = "down" \/ WaitsForActor)
=============================================================================
