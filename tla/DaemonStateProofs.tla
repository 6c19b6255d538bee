------------------------- MODULE DaemonStateProofs -------------------------
(***************************************************************************)
(* What clients were told survives in session.json, the scheduler's cache  *)
(* never contradicts the engine, and the daemon implements the list of     *)
(* torrents that clients are promised: proofs.                             *)
(***************************************************************************)
EXTENDS DaemonProofs

\* Memory and file say the same of what every torrent should do, and so does
\* the copy a removal would put back, but for the torrent being removed.
CopiesAgree ==
  /\ phase # "down" => \A id \in TorrentID : DesiredIn(session, id) = DesiredIn(disk, id)
  /\ step = "remove" =>
       \A id \in TorrentID : id # req.id => DesiredIn(previous, id) = DesiredIn(disk, id)

\* Until it has saved, a handler can still give up without having changed what
\* clients were told; a removal can while it holds the session from before.
CanGiveUp ==
  /\ step \in {"update", "added", "verify", "move"} /\ req.id \notin lost =>
       DesiredIn(disk, req.id) = acked[req.id]
  /\ step = "remove" /\ req.id \notin lost => DesiredIn(previous, req.id) = acked[req.id]

AnswerInv == AnswersAreDurable /\ CopiesAgree /\ CanGiveUp

\* A step that touches neither the sessions nor what clients know.
Silent == UNCHANGED <<disk, session, previous, acked, lost>>

\* A handler that gives up where it can.
LEMMA GivesUp ==
  ASSUME TypeInv, AnswerInv, Finish, UNCHANGED <<disk, acked, lost>>,
         step \in {"update", "added", "verify", "move"},
         \A id \in TorrentID : DesiredIn(session', id) = DesiredIn(session, id)
  PROVE  AnswerInv'
<1>1. /\ req' = NoRequest /\ step' = "idle" /\ phase # "down"
  BY DEF Finish, TypeInv, HandlerValid
<1>2. \A id \in TorrentID : DesiredIn(session', id) = DesiredIn(disk', id)
  BY <1>1 DEF AnswerInv, CopiesAgree
<1>3. \A id \in TorrentID \ lost' : DesiredIn(disk', id) = acked'[id]
  BY DEF AnswerInv, AnswersAreDurable, CanGiveUp, InFlight
<1>. QED
  BY <1>1, <1>2, <1>3 DEF AnswerInv, AnswersAreDurable, CopiesAgree, CanGiveUp

\* A step between requests, or of a request that leaves the sessions alone.
LEMMA StaysSilent ==
  ASSUME AnswerInv, Silent, phase' # "down" => phase # "down",
         \/ req' = req /\ (step' = step \/ step' \notin {"update", "added", "verify", "move", "remove"})
         \/ req = NoRequest /\ req' \in Request /\ step' # "remove"
  PROVE  AnswerInv'
<1>1. \A id \in TorrentID \ lost' : ~InFlight(id)' => DesiredIn(disk', id) = acked'[id]
  BY DEF AnswerInv, AnswersAreDurable, InFlight, Silent
<1>2. req' \in Request => req'.id \in TorrentID
  BY DEF Request, AddRequest, TorrentRequest, MoveRequest, SequentialRequest,
         PriorityRequest
<1>3. CanGiveUp'
  BY <1>2 DEF AnswerInv, AnswersAreDurable, InFlight, CanGiveUp, Silent
<1>4. CopiesAgree'
  BY DEF AnswerInv, CopiesAgree, Silent
<1>. QED
  BY <1>1, <1>3, <1>4 DEF AnswerInv, AnswersAreDurable

\* A handler answers with what the file says.
LEMMA Answers ==
  ASSUME TypeInv, AnswerInv, Acknowledge, Finish, UNCHANGED <<store, phase, lost>>,
         step \in {"put", "forget"}
  PROVE  AnswerInv'
<1>1. req' = NoRequest /\ step' = "idle" /\ req.id \in TorrentID
  BY RequestFacts DEF Finish, TypeInv, HandlerValid
<1>2. acked \in [TorrentID -> Desired \cup {"none"}]
  BY DEF TypeInv, TypeOK
<1>3. \A id \in TorrentID \ lost' : DesiredIn(disk', id) = acked'[id]
  BY <1>2 DEF AnswerInv, AnswersAreDurable, InFlight, Acknowledge, store
<1>4. phase' # "down" => \A id \in TorrentID : DesiredIn(session', id) = DesiredIn(disk', id)
  BY DEF AnswerInv, CopiesAgree, store
<1>. QED
  BY <1>1, <1>3, <1>4 DEF AnswerInv, AnswersAreDurable, CopiesAgree, CanGiveUp

\* The saves of pause, resume, sequential and priority keep the answers true:
\* they change the record of the request's own torrent only.
LEMMA UpdateKeepsAnswers ==
  ASSUME TypeInv, AnswerInv, UpdateRecord \/ UpdateRecordFails
  PROVE  AnswerInv'
<1>1. /\ req \in Request /\ req.id \in TorrentID
      /\ req.method \in {"pause", "resume", "sequential", "priority"}
      /\ step = "update" /\ phase # "down"
  BY RequestFacts DEF UpdateRecord, UpdateRecordFails, TypeInv, HandlerValid
<1>2. ASSUME req.id \in DOMAIN session.torrents
      PROVE  /\ \A id : id # req.id => DesiredIn(UpdatedSession, id) = DesiredIn(session, id)
             /\ req.method = "priority" =>
                  \A id : DesiredIn(UpdatedSession, id) = DesiredIn(session, id)
  <2>1. session \in [order : Seq(TorrentID), torrents : Map(TorrentID, TorrentRecord)]
    BY DEF TypeInv, TypeOK, SessionType
  <2>2. session.torrents[req.id] \in TorrentRecord
    <3>1. session.torrents \in Map(TorrentID, TorrentRecord)
      BY <2>1
    <3>. QED
      BY <1>2, <3>1, MapGet
  <2> DEFINE record == UpdatedRecord(session.torrents[req.id], req)
  <2>3. req.method = "priority" => record.desired = session.torrents[req.id].desired
    BY <2>2 DEF UpdatedRecord, TorrentRecord
  <2>4. /\ DOMAIN UpdatedSession.torrents = DOMAIN session.torrents
        /\ UpdatedSession.torrents[req.id] = record
        /\ \A id \in DOMAIN session.torrents :
             id # req.id => UpdatedSession.torrents[id] = session.torrents[id]
    BY <1>2, <2>1 DEF UpdatedSession
  <2> HIDE DEF record
  <2>. QED
    BY <1>2, <2>3, <2>4 DEF DesiredIn
<1>3. CASE UpdateRecord
  <2>1. /\ req.id \in DOMAIN session.torrents
        /\ disk' = UpdatedSession /\ session' = UpdatedSession
        /\ UNCHANGED <<phase, acked, lost>>
    BY <1>3 DEF UpdateRecord, Save, life, history
  <2>2. CopiesAgree'
    BY <1>3, <2>1 DEF CopiesAgree, UpdateRecord, Finish
  <2>3. \A id \in TorrentID \ lost : id # req.id => DesiredIn(disk', id) = acked[id]
    BY <1>1, <1>2, <2>1 DEF AnswerInv, CopiesAgree, AnswersAreDurable, InFlight
  <2>4. CASE req.method = "priority"
    <3>1. req.id \notin lost => DesiredIn(disk', req.id) = acked[req.id]
      BY <1>1, <1>2, <2>1, <2>4 DEF AnswerInv, CopiesAgree, CanGiveUp
    <3>2. step' = "idle"
      BY <1>3, <2>4 DEF UpdateRecord, Finish
    <3>. QED
      BY <2>1, <2>2, <2>3, <3>1, <3>2 DEF AnswerInv, AnswersAreDurable, CanGiveUp
  <2>5. CASE req.method # "priority"
    <3>1. step' = "put" /\ req' = req
      BY <1>3, <2>5 DEF UpdateRecord
    <3>2. AnswersAreDurable'
      BY <1>1, <2>1, <2>3, <3>1 DEF AnswersAreDurable, InFlight, Request, AddRequest,
         TorrentRequest, MoveRequest, SequentialRequest, PriorityRequest, NoRequest
    <3>. QED
      BY <2>2, <3>1, <3>2 DEF AnswerInv, CanGiveUp
  <2>. QED
    BY <2>4, <2>5
<1>4. CASE UpdateRecordFails
  <2>1. \A id \in TorrentID : DesiredIn(session', id) = DesiredIn(session, id)
    BY <1>2, <1>4 DEF UpdateRecordFails, SharedMapUpdate
  <2>. QED
    BY <1>1, <1>4, <2>1, GivesUp DEF UpdateRecordFails, history
<1>. QED
  BY <1>3, <1>4

\* The handler has saved what it is going to answer, or would put back.
LEMMA SavesItsOwn ==
  ASSUME TypeInv, AnswerInv, phase # "down", UNCHANGED <<phase, acked, lost>>,
         disk' = session', req' \in Request,
         req = NoRequest \/ req' = req,
         \A id \in TorrentID : id # req'.id => DesiredIn(disk', id) = DesiredIn(session, id),
         step' \in {"put", "remove", "move"},
         step' # "put" => req = NoRequest,
         step' = "remove" => previous' = session,
         step' = "move" => \A id : DesiredIn(disk', id) = DesiredIn(session, id)
  PROVE  AnswerInv'
<1>1. req'.id \in TorrentID /\ req' # NoRequest
  BY RequestFacts
<1>2. \A id \in TorrentID : DesiredIn(session, id) = DesiredIn(disk, id)
  BY DEF AnswerInv, CopiesAgree
<1>3. \A id \in TorrentID \ lost' : ~InFlight(id)' => DesiredIn(disk', id) = acked'[id]
  BY <1>1, <1>2 DEF AnswerInv, AnswersAreDurable, InFlight
<1>4. CopiesAgree'
  BY <1>1 DEF CopiesAgree
<1>5. CanGiveUp'
  BY <1>1, <1>2 DEF CanGiveUp, AnswerInv, AnswersAreDurable, InFlight
<1>. QED
  BY <1>3, <1>4, <1>5 DEF AnswerInv, AnswersAreDurable

\* Every further step of a handler keeps the answers true.
LEMMA ContinueKeepsAnswers ==
  ASSUME TypeInv, AnswerInv, Continue
  PROVE  AnswerInv'
<1>1. phase # "down" /\ UNCHANGED phase
  BY DEF Continue, UpdateRecord, UpdateRecordFails, PutTorrent, Verified, VerifyFails,
         RecordTorrent, RecordTorrentFails, AddInterrupted, RemoveFromEngine, RemoveUndone,
         RemoveNotUndone, RemoveFails, ForgetTorrent, MoveSnapshot, TypeInv, HandlerValid, life
<1>2. CASE UpdateRecord \/ UpdateRecordFails
  BY <1>2, UpdateKeepsAnswers
<1>3. CASE PutTorrent
  BY <1>3, Answers DEF PutTorrent, life
<1>4. CASE Verified \/ VerifyFails \/ RecordTorrentFails \/ AddInterrupted \/ MoveSnapshot
  BY <1>4, GivesUp
  DEF Verified, VerifyFails, RecordTorrentFails, AddInterrupted, MoveSnapshot, store, history
<1>5. CASE RecordTorrent
  <2>1. /\ req \in Request /\ req' = req /\ step' = "put" /\ session' = disk'
        /\ UNCHANGED <<acked, lost>>
    BY <1>5 DEF RecordTorrent, Save, history, TypeInv, HandlerValid
  <2>2. disk'.torrents = MapSet(session.torrents, req.id, RecordOf(req))
    BY <1>5 DEF RecordTorrent, Save
  <2>3. \A id : id # req.id => DesiredIn(disk', id) = DesiredIn(session, id)
    BY <2>2 DEF DesiredIn, MapSet
  <2>. QED
    BY <1>1, <2>1, <2>3, SavesItsOwn
<1>6. CASE RemoveFromEngine
  <2>1. Silent /\ req' = req /\ step' = "forget"
    BY <1>6 DEF RemoveFromEngine, Silent, store, history
  <2>. QED
    BY <1>1, <2>1, StaysSilent
<1>7. CASE RemoveUndone
  <2>1. /\ disk' = previous /\ session' = previous /\ req' = NoRequest /\ step' = "idle"
        /\ UNCHANGED <<acked, lost>> /\ step = "remove"
    BY <1>7 DEF RemoveUndone, RemoveFails, Save, Finish, history
  <2>2. \A id \in TorrentID \ lost : DesiredIn(previous, id) = acked[id]
    BY <2>1 DEF AnswerInv, AnswersAreDurable, CopiesAgree, CanGiveUp, InFlight
  <2>. QED
    BY <2>1, <2>2 DEF AnswerInv, AnswersAreDurable, CopiesAgree, CanGiveUp
<1>8. CASE RemoveNotUndone
  <2>1. /\ UNCHANGED <<store, acked>> /\ req' = NoRequest /\ step' = "idle"
        /\ lost' = lost \cup {req.id}
    BY <1>8 DEF RemoveNotUndone, RemoveFails, Finish
  <2>2. \A id \in TorrentID \ lost' : DesiredIn(disk', id) = acked'[id]
    BY <2>1 DEF AnswerInv, AnswersAreDurable, InFlight, store
  <2>. QED
    BY <1>1, <2>1, <2>2 DEF AnswerInv, AnswersAreDurable, CopiesAgree, CanGiveUp, store
<1>9. CASE ForgetTorrent
  BY <1>9, Answers DEF ForgetTorrent, life
<1>. QED
  BY <1>2, <1>3, <1>4, <1>5, <1>6, <1>7, <1>8, <1>9 DEF Continue

\* A request that arrives keeps the answers true: what it saves at once is in
\* flight until it is answered.
LEMMA ArrivalKeepsAnswers ==
  ASSUME TypeInv, AnswerInv, NEW r \in Requests,
         \/ ApplyDesired(r) \/ ApplySequential(r) \/ ApplyPriority(r) \/ StartVerify(r)
         \/ AddToEngine(r) \/ RemoveRecord(r) \/ MoveRecord(r)
  PROVE  AnswerInv'
<1>1. /\ req = NoRequest /\ req' = r /\ r \in Request
      /\ phase' = phase /\ phase # "down"
  BY RequestAssumption
  DEF ApplyDesired, ApplySequential, ApplyPriority, StartVerify, AddToEngine,
      RemoveRecord, MoveRecord, Takes, TypeInv, HandlerValid, life
<1>2. CASE ApplyDesired(r) \/ ApplySequential(r) \/ ApplyPriority(r) \/ StartVerify(r)
             \/ AddToEngine(r)
  <2>1. Silent /\ step' # "remove"
    BY <1>2 DEF ApplyDesired, ApplySequential, ApplyPriority, StartVerify, AddToEngine,
                Silent, store, history
  <2>. QED
    BY <1>1, <2>1, StaysSilent
<1>3. CASE RemoveRecord(r)
  <2>1. /\ disk' = session' /\ previous' = session /\ step' = "remove"
        /\ UNCHANGED <<acked, lost>>
        /\ disk'.torrents = MapDelete(session.torrents, r.id)
    BY <1>3 DEF RemoveRecord, Save, history
  <2>2. \A id : id # r.id => DesiredIn(disk', id) = DesiredIn(session, id)
    BY <2>1 DEF DesiredIn, MapDelete, Restrict
  <2>. QED
    BY <1>1, <2>1, <2>2, SavesItsOwn
<1>4. CASE MoveRecord(r)
  <2>1. session \in [order : Seq(TorrentID), torrents : Map(TorrentID, TorrentRecord)]
    BY DEF TypeInv, TypeOK, SessionType
  <2>2. /\ disk' = session' /\ step' = "move" /\ UNCHANGED <<acked, lost>>
        /\ disk'.torrents = session.torrents
    BY <1>4, <2>1 DEF MoveRecord, Save, history
  <2>3. \A id : DesiredIn(disk', id) = DesiredIn(session, id)
    BY <2>2 DEF DesiredIn
  <2>. QED
    BY <1>1, <2>2, <2>3, SavesItsOwn
<1>. QED
  BY <1>2, <1>3, <1>4

\* The restore and the passes keep the answers true.
LEMMA ServerKeepsAnswers ==
  ASSUME TypeInv, AnswerInv, Restoration \/ Pass
  PROVE  AnswerInv'
<1>1. /\ Silent /\ req' = req /\ step' \in {"restore", "pass", "idle"} /\ phase # "down"
  <2>1. CASE Restoration
    BY <2>1 DEF Restoration, Restore, RestoreFails, RestoreOther, Restoring, Restored,
                Silent, store, life, history, TypeInv, HandlerValid
  <2>2. CASE Pass
    BY <2>2 DEF Pass, StartPass, EndPass, PassSkips, PassPauses, PassQueues, PassRuns,
                PassCannotRun, Visiting, Silent, store, life, history, TypeInv, HandlerValid
  <2>. QED
    BY <2>1, <2>2
<1>. QED
  BY <1>1, StaysSilent

\* A restart, a crash and a stop keep the answers true: the file survives them.
LEMMA EnvironmentKeepsAnswers ==
  ASSUME TypeInv, AnswerInv, Environment
  PROVE  AnswerInv'
<1>1. CASE Start
  <2>1. /\ disk' = disk /\ session' = disk /\ step' = "restore"
        /\ UNCHANGED <<req, acked, lost>>
    BY <1>1 DEF Start, history
  <2>. QED
    BY <2>1 DEF AnswerInv, AnswersAreDurable, CopiesAgree, CanGiveUp, InFlight
<1>2. CASE Cancel \/ ActorExits
  <2>1. Silent /\ req' = req /\ step' = step /\ phase' = phase
    BY <1>2 DEF Cancel, ActorExits, Silent, store, history
  <2>. QED
    BY <2>1, StaysSilent
<1>3. CASE Return \/ Crash
  <2>1. /\ disk' = disk /\ phase' = "down" /\ step' = "idle" /\ req' = NoRequest
        /\ \A id \in TorrentID :
             acked'[id] = IF id \in lost \/ (req # NoRequest /\ req.id = id)
                            THEN DesiredIn(disk, id) ELSE acked[id]
    BY <1>3 DEF Return, Crash, GoDown, Finish
  <2>2. \A id \in TorrentID : DesiredIn(disk', id) = acked'[id]
    BY <2>1 DEF AnswerInv, AnswersAreDurable, InFlight
  <2>. QED
    BY <2>1, <2>2 DEF AnswerInv, AnswersAreDurable, CopiesAgree, CanGiveUp
<1>4. ASSUME NEW id \in TorrentID, GotInfo(id) \/ Complete(id) PROVE AnswerInv'
  <2>1. Silent /\ req' = req /\ step' = step /\ phase' = phase
    BY <1>4 DEF GotInfo, Complete, Silent, store, life, history
  <2>. QED
    BY <2>1, StaysSilent
<1>. QED
  BY <1>1, <1>2, <1>3, <1>4 DEF Environment

\* AnswerInv is inductive.
LEMMA StepKeepsAnswers == TypeInv /\ AnswerInv /\ [Next]_vars => AnswerInv'
<1> SUFFICES ASSUME TypeInv, AnswerInv, [Next]_vars PROVE AnswerInv'
  OBVIOUS
<1>1. CASE Restoration \/ Pass
  BY <1>1, ServerKeepsAnswers
<1>2. CASE Continue
  BY <1>2, ContinueKeepsAnswers
<1>3. CASE Arrival
  BY <1>3, ArrivalKeepsAnswers DEF Arrival
<1>4. CASE Environment
  BY <1>4, EnvironmentKeepsAnswers
<1>5. CASE UNCHANGED vars
  BY <1>5, StaysSilent DEF vars, Silent
<1>. QED
  BY <1>1, <1>2, <1>3, <1>4, <1>5 DEF Next, Server

\* AnswerInv always holds.
THEOREM AnswersHold == Spec => []AnswerInv
<1>1. Init => AnswerInv
  BY DEF Init, AnswerInv, AnswersAreDurable, CopiesAgree, CanGiveUp, DesiredIn,
         EmptySession, Nothing
<1>. QED
  BY <1>1, TypesHold, StepKeepsAnswers, PTL DEF Spec

\* What the daemon last told a client about a torrent is what session.json says
\* of it, through failed saves, undone operations and removals, cancellation and
\* crashes between any two steps. (Torrents in `lost' are the exception the code
\* has: a removal that failed and whose undoing could not be saved either.)
THEOREM AnswersDurable == Spec => []AnswersAreDurable
<1>1. AnswerInv => AnswersAreDurable
  BY DEF AnswerInv
<1>. QED
  BY <1>1, AnswersHold, PTL

-----------------------------------------------------------------------------
(* What becomes of an entry's marks: dropped, bare and stray *)

\* A torrent the engine holds has an entry of the right type.
LEMMA EntryType ==
  ASSUME TypeInv, NEW id \in DOMAIN engine
  PROVE  engine[id] \in TorrentEntry
<1>1. engine \in Map(TorrentID, TorrentEntry)
  BY DEF TypeInv, TypeOK
<1>. QED
  BY <1>1, MapGet

SameMarks(e, f) == e.dropped = f.dropped /\ e.bare = f.bare /\ e.stray = f.stray

\* The engine holds the same torrents, with the same marks.
MarksKept == DOMAIN engine' = DOMAIN engine
               /\ \A x \in DOMAIN engine : SameMarks(engine'[x], engine[x])

\* They stay when the engine changes other fields of one entry.
LEMMA MarksByEntry ==
  ASSUME TypeInv, NEW id, NEW e, engine' = [engine EXCEPT ![id] = e],
         id \in DOMAIN engine => SameMarks(e, engine[id])
  PROVE  MarksKept
BY DEF MarksKept, SameMarks

\* The operations on a torrent's options and its pause keep its marks.
LEMMA OperationMarks ==
  ASSUME NEW e \in TorrentEntry, NEW r,
         r.method \in {"pause", "resume", "sequential", "priority"}
  PROVE  SameMarks(Applied(e, r), e) /\ SameMarks(Undone(e, r), e)
<1> USE DEF SameMarks, Applied, Undone, TorrentEntry
<1>1. CASE r.method \in {"pause", "resume"}
  BY <1>1
<1>2. CASE r.method = "sequential"
  BY <1>2 DEF WithSequential
<1>3. CASE r.method = "priority"
  BY <1>3 DEF WithPriority
<1>. QED
  BY <1>1, <1>2, <1>3

\* So do the handlers, but for the end of an add and a removal.
LEMMA ContinueMarks ==
  ASSUME TypeInv,
         \/ UpdateRecord \/ UpdateRecordFails \/ PutTorrent \/ Verified \/ VerifyFails
         \/ RecordTorrent \/ AddInterrupted \/ ForgetTorrent \/ MoveSnapshot
  PROVE  MarksKept
<1>1. CASE UNCHANGED engine
  BY <1>1 DEF MarksKept, SameMarks
<1>2. CASE UpdateRecordFails
  <2>1. req.id \in DOMAIN engine
          /\ req.method \in {"pause", "resume", "sequential", "priority"}
    BY <1>2 DEF UpdateRecordFails, TypeInv, HandlerValid
  <2>2. engine[req.id] \in TorrentEntry
    BY <2>1, EntryType
  <2>3. SameMarks(Undone(engine[req.id], req), engine[req.id])
    BY <2>1, <2>2, OperationMarks
  <2>4. engine' = [engine EXCEPT ![req.id] = Undone(engine[req.id], req)]
    BY <1>2 DEF UpdateRecordFails
  <2>. QED
    BY <2>3, <2>4, MarksByEntry
<1>3. CASE Verified \/ VerifyFails
  <2>1. req.id \in DOMAIN engine
    BY <1>3 DEF Verified, VerifyFails, TypeInv, HandlerValid
  <2>2. engine[req.id] \in TorrentEntry
    BY <2>1, EntryType
  <2>3. ASSUME NEW done, NEW stopped,
               engine' = [engine EXCEPT ![req.id].done = done,
                                        ![req.id].paused = @ /\ stopped]
        PROVE  MarksKept
    BY <2>1, <2>2, <2>3 DEF MarksKept, SameMarks, TorrentEntry
  <2>4. ASSUME engine' = [engine EXCEPT ![req.id].paused = @ /\ WasPaused]
        PROVE  MarksKept
    BY <2>1, <2>2, <2>4 DEF MarksKept, SameMarks, TorrentEntry
  <2>. QED
    BY <1>3, <2>3, <2>4 DEF Verified, VerifyFails
<1>. QED
  BY <1>1, <1>2, <1>3
  DEF UpdateRecord, PutTorrent, RecordTorrent, AddInterrupted, ForgetTorrent, MoveSnapshot

\* A request that arrives keeps them, unless it adds a torrent.
LEMMA ArrivalMarks ==
  ASSUME TypeInv, NEW r \in Requests,
         \/ ApplyDesired(r) \/ ApplySequential(r) \/ ApplyPriority(r) \/ StartVerify(r)
         \/ RemoveRecord(r) \/ MoveRecord(r)
  PROVE  MarksKept
<1>1. CASE UNCHANGED engine
  BY <1>1 DEF MarksKept, SameMarks
<1>2. CASE ApplyDesired(r) \/ ApplySequential(r) \/ ApplyPriority(r)
  <2>1. /\ r.id \in DOMAIN engine
        /\ r.method \in {"pause", "resume", "sequential", "priority"}
        /\ engine' = [engine EXCEPT ![r.id] = Applied(engine[r.id], r)]
    BY <1>2 DEF ApplyDesired, ApplySequential, ApplyPriority, Finds, CanCall
  <2>2. engine[r.id] \in TorrentEntry
    BY <2>1, EntryType
  <2>3. SameMarks(Applied(engine[r.id], r), engine[r.id])
    BY <2>1, <2>2, OperationMarks
  <2>. QED
    BY <2>1, <2>3, MarksByEntry
<1>3. CASE StartVerify(r) /\ ~UNCHANGED engine
  <2>1. r.id \in DOMAIN engine /\ engine' = [engine EXCEPT ![r.id].paused = TRUE]
    BY <1>3 DEF StartVerify, Finds, CanCall
  <2>2. engine[r.id] \in TorrentEntry
    BY <2>1, EntryType
  <2>. QED
    BY <2>1, <2>2 DEF MarksKept, SameMarks, TorrentEntry
<1>. QED
  BY <1>1, <1>2, <1>3 DEF RemoveRecord, MoveRecord

\* A pass keeps them.
LEMMA VisitMarks ==
  ASSUME TypeInv, NEW id \in TorrentID,
         PassSkips(id) \/ PassPauses(id) \/ PassQueues(id) \/ PassRuns(id) \/ PassCannotRun(id)
  PROVE  MarksKept
<1>1. CASE UNCHANGED engine
  BY <1>1 DEF MarksKept, SameMarks
<1>2. ASSUME NEW running \in BOOLEAN, SetScheduled(id, running) PROVE MarksKept
  <2>1. id \in DOMAIN engine /\ engine' = [engine EXCEPT ![id].paused = ~running]
    BY <1>2 DEF SetScheduled, CanCall
  <2>2. engine[id] \in TorrentEntry
    BY <2>1, EntryType
  <2>. QED
    BY <2>1, <2>2 DEF MarksKept, SameMarks, TorrentEntry
<1>. QED
  BY <1>1, <1>2
  DEF PassSkips, PassPauses, PassQueues, PassRuns, PassCannotRun, Stop, KeepScheduled

\* So does the environment, until the process ends.
LEMMA EnvironmentMarks ==
  ASSUME TypeInv, Environment
  PROVE  GoDown \/ MarksKept
<1>1. CASE UNCHANGED engine
  BY <1>1 DEF MarksKept, SameMarks
<1>2. ASSUME NEW id \in TorrentID, GotInfo(id) \/ Complete(id) PROVE MarksKept
  <2>1. id \in DOMAIN engine
    BY <1>2 DEF GotInfo, Complete, Live
  <2>2. engine[id] \in TorrentEntry
    BY <2>1, EntryType
  <2>. QED
    BY <1>2, <2>1, <2>2 DEF GotInfo, Complete, MarksKept, SameMarks, TorrentEntry
<1>. QED
  BY <1>1, <1>2 DEF Environment, Start, Cancel, ActorExits, Return, Crash

\* Restoring a torrent adds one without marks, if any.
LEMMA RestoreMarks ==
  ASSUME TypeInv, NEW id \in TorrentID, Restore(id) \/ RestoreFails(id) \/ RestoreOther(id)
  PROVE  /\ DOMAIN engine \subseteq DOMAIN engine'
         /\ \A x \in DOMAIN engine : SameMarks(engine'[x], engine[x])
         /\ \A x \in DOMAIN engine' \ DOMAIN engine :
              ~engine'[x].dropped /\ ~engine'[x].bare /\ ~engine'[x].stray
<1>1. CASE UNCHANGED engine
  BY <1>1 DEF SameMarks
<1>2. ASSUME NEW k, NEW p, NEW s, NEW priorities, NEW info, k \notin DOMAIN engine,
             engine' = MapSet(engine, k, NewEntry(p, s, priorities, info))
      PROVE  /\ DOMAIN engine \subseteq DOMAIN engine'
             /\ \A x \in DOMAIN engine : SameMarks(engine'[x], engine[x])
             /\ \A x \in DOMAIN engine' \ DOMAIN engine :
                  ~engine'[x].dropped /\ ~engine'[x].bare /\ ~engine'[x].stray
  BY <1>2 DEF MapSet, NewEntry, SameMarks
<1>3. CASE AddRestored(id)
  <2>1. CASE id \in DOMAIN engine
    <3>1. engine[id] \in TorrentEntry
      BY <2>1, EntryType
    <3>2. engine' = [engine EXCEPT ![id].paused =
                       (session.torrents[id].desired = "paused") \/ @]
      BY <1>3, <2>1 DEF AddRestored
    <3>. QED
      BY <2>1, <3>1, <3>2 DEF SameMarks, TorrentEntry
  <2>2. CASE id \notin DOMAIN engine
    BY <1>2, <1>3, <2>2 DEF AddRestored
  <2>. QED
    BY <2>1, <2>2
<1>4. CASE RestoreOther(id)
  <2>1. PICK other, info :
          engine' = IF other \in DOMAIN engine
                      THEN engine
                      ELSE MapSet(engine, other,
                                  NewEntry(session.torrents[id].desired = "paused",
                                           session.torrents[id].sequential,
                                           session.torrents[id].priorities, info))
    BY <1>4 DEF RestoreOther
  <2>2. CASE other \in DOMAIN engine
    BY <1>1, <2>1, <2>2
  <2>3. CASE other \notin DOMAIN engine
    BY <1>2, <2>1, <2>3
  <2>. QED
    BY <2>2, <2>3
<1>. QED
  BY <1>1, <1>3, <1>4 DEF Restore, RestoreFails
-----------------------------------------------------------------------------
(* As long as storage opens and closes, no entry outlives its torrent *)

AllLive == \A id \in DOMAIN engine : ~engine[id].dropped /\ ~engine[id].stray

\* AllLive is inductive.
LEMMA StepKeepsLive ==
  ASSUME "close" \notin Faults, TypeInv, AllLive, [Next]_vars
  PROVE  AllLive'
<1>1. CASE MarksKept \/ UNCHANGED engine
  BY <1>1 DEF MarksKept, SameMarks, AllLive
<1>2. ASSUME NEW id \in TorrentID, Restore(id) \/ RestoreFails(id) \/ RestoreOther(id)
      PROVE  AllLive'
  BY <1>2, RestoreMarks DEF AllLive, SameMarks
<1>3. CASE RecordTorrentFails \/ RemoveFromEngine
  <2>1. engine' = MapDelete(engine, req.id)
    BY <1>3 DEF RecordTorrentFails, RemoveFromEngine
  <2>. QED
    BY <2>1 DEF MapDelete, Restrict, AllLive
<1>4. CASE RemoveUndone \/ RemoveNotUndone
  <2>1. CASE UNCHANGED engine
    BY <1>1, <2>1
  <2>2. CASE /\ req.id \in DOMAIN engine
             /\ engine' = [engine EXCEPT ![req.id].done = FALSE, ![req.id].dropped = FALSE]
    <3>1. engine[req.id] \in TorrentEntry
      BY <2>2, EntryType
    <3>. QED
      BY <2>2, <3>1 DEF AllLive, TorrentEntry
  <2>. QED
    BY <1>4, <2>1, <2>2 DEF RemoveUndone, RemoveNotUndone, RemoveFails, CanCall
<1>5. ASSUME NEW r \in Requests, AddToEngine(r) PROVE AllLive'
  <2>1. PICK info \in MetadataAtAdd :
          engine' = MapSet(engine, r.id,
                           [NewEntry(r.paused, r.sequential, Nothing, info)
                              EXCEPT !.bare = RecordOf(r).priorities # Nothing])
    BY <1>5 DEF AddToEngine
  <2>. QED
    BY <2>1 DEF MapSet, NewEntry, AllLive
<1>6. CASE GoDown
  BY <1>6 DEF GoDown, Nothing, AllLive
<1>. QED
  BY <1>1, <1>2, <1>3, <1>4, <1>5, <1>6,
     ContinueMarks, ArrivalMarks, VisitMarks, EnvironmentMarks
  DEF Next, Server, Restoration, Restored, Pass, StartPass, EndPass, Continue, Arrival, vars

\* Where storage opens and closes, every entry of the engine has its torrent.
THEOREM NothingDropped ==
  ASSUME "close" \notin Faults
  PROVE  Spec => []AllLive
<1>1. Init => AllLive
  BY DEF Init, Nothing, AllLive
<1>2. TypeInv /\ AllLive /\ [Next]_vars => AllLive'
  BY StepKeepsLive
<1>. QED
  BY <1>1, <1>2, TypesHold, PTL DEF Spec

-----------------------------------------------------------------------------
\* The scheduler has no opinion on a torrent that a handler has just paused,
\* resumed or added, nor before the first pass.
Unscheduled ==
  /\ phase = "down" => DOMAIN scheduled = {}
  /\ step = "restore" => DOMAIN scheduled = {}
  /\ step = "added" => req.id \notin DOMAIN scheduled
  /\ step = "update" /\ req.method \in {"pause", "resume"} => req.id \notin DOMAIN scheduled
  /\ step = "verify" /\ ~WasPaused => req.id \notin DOMAIN scheduled

CacheInv == ScheduleCacheRight /\ Unscheduled

-----------------------------------------------------------------------------
(* The scheduler's cache is right *)

\* It stays right when entries only disappear and the torrents of those that
\* stay neither pause, resume nor leave the engine.
LEMMA CacheKept ==
  ASSUME ScheduleCacheRight,
         \A id \in DOMAIN scheduled' : /\ id \in DOMAIN scheduled
                                       /\ scheduled'[id] = scheduled[id]
                                       /\ id \in DOMAIN engine'
                                       /\ engine'[id].paused = engine[id].paused
  PROVE  ScheduleCacheRight'
BY DEF ScheduleCacheRight

\* Entries of other torrents are not touched by an operation on one.
LEMMA OthersKept ==
  ASSUME TypeInv, NEW id, NEW e
  PROVE  /\ DOMAIN [engine EXCEPT ![id] = e] = DOMAIN engine
         /\ id \in DOMAIN engine => [engine EXCEPT ![id] = e][id] = e
         /\ \A x \in DOMAIN engine : x # id => [engine EXCEPT ![id] = e][x] = engine[x]
OBVIOUS

\* Setting an option does not pause or resume a torrent.
LEMMA OptionsKeepPaused ==
  ASSUME NEW e \in TorrentEntry, NEW r, r.method \in {"sequential", "priority"}
  PROVE  Applied(e, r).paused = e.paused /\ Undone(e, r).paused = e.paused
<1>1. CASE r.method = "sequential"
  BY <1>1 DEF Applied, Undone, WithSequential, TorrentEntry
<1>2. CASE r.method = "priority"
  BY <1>2 DEF Applied, Undone, WithPriority, TorrentEntry
<1>. QED
  BY <1>1, <1>2

\* The engine changes one torrent, which the cache does not know or whose
\* transfer goes on as it was.
LEMMA CacheKeptByEntry ==
  ASSUME TypeInv, ScheduleCacheRight, NEW id, NEW e,
         engine' = [engine EXCEPT ![id] = e],
         \A x \in DOMAIN scheduled' : x \in DOMAIN scheduled /\ scheduled'[x] = scheduled[x],
         id \in DOMAIN scheduled' => e.paused = engine[id].paused
  PROVE  ScheduleCacheRight'
<1>1. \A x \in DOMAIN scheduled' : x \in DOMAIN engine
  BY DEF ScheduleCacheRight
<1>2. \A x \in DOMAIN scheduled' : x \in DOMAIN engine' /\ engine'[x].paused = engine[x].paused
  BY <1>1, OthersKept
<1>. QED
  BY <1>2, CacheKept

\* The further steps of a handler change `paused' only of a torrent whose cache
\* entry its first step deleted.
LEMMA ContinueKeepsCache ==
  ASSUME TypeInv, CacheInv, Continue
  PROVE  CacheInv'
<1> USE DEF CacheInv, Unscheduled, HandlerValid, TypeInv, store, life, pass, history
<1>1. Finish => Unscheduled' \/ phase' = "down"
  BY DEF Finish
<1>2. phase # "down" /\ phase' = phase
  BY DEF Continue, UpdateRecord, UpdateRecordFails, PutTorrent, Verified, VerifyFails,
         RecordTorrent, RecordTorrentFails, AddInterrupted, RemoveFromEngine, RemoveUndone,
         RemoveNotUndone, RemoveFails, ForgetTorrent, MoveSnapshot
<1>3. CASE UNCHANGED <<engine, scheduled>> /\ (Finish \/ step' = "put")
  <2>1. ScheduleCacheRight'
    BY <1>3 DEF ScheduleCacheRight
  <2>. QED
    BY <1>1, <1>2, <1>3, <2>1
<1>4. CASE UpdateRecordFails
  <2>1. Undone(engine[req.id], req).paused = engine[req.id].paused
          \/ req.id \notin DOMAIN scheduled
    <3>1. CASE req.method \in {"pause", "resume"}
      BY <1>4, <3>1 DEF UpdateRecordFails
    <3>2. CASE req.method \in {"sequential", "priority"}
      <4>1. engine[req.id] \in TorrentEntry
        BY <1>4, EntryType DEF UpdateRecordFails
      <4>. QED
        BY <3>2, <4>1, OptionsKeepPaused
    <3>. QED
      BY <1>4, <3>1, <3>2 DEF UpdateRecordFails
  <2>2. /\ engine' = [engine EXCEPT ![req.id] = Undone(engine[req.id], req)]
        /\ scheduled' = scheduled
        /\ Finish
    BY <1>4 DEF UpdateRecordFails
  <2>3. ScheduleCacheRight'
    BY <2>1, <2>2, CacheKeptByEntry
  <2>. QED
    BY <1>1, <1>2, <2>2, <2>3
<1>5. CASE Verified \/ VerifyFails
  <2>1. Finish /\ scheduled' = scheduled /\ step = "verify"
    BY <1>5 DEF Verified, VerifyFails
  <2>2. CASE WasPaused
    <3>1. engine[req.id] \in TorrentEntry
      BY <2>1, EntryType
    <3>2. \A x \in DOMAIN engine : x \in DOMAIN engine' /\ engine'[x].paused = engine[x].paused
      <4>1. CASE Verified
        <5>1. PICK done \in BOOLEAN :
                engine' = [engine EXCEPT ![req.id].done = done, ![req.id].paused = @ /\ TRUE]
          BY <2>2, <4>1 DEF Verified
        <5>. QED
          BY <3>1, <5>1 DEF TorrentEntry
      <4>2. CASE VerifyFails
        BY <2>2, <3>1, <4>2 DEF VerifyFails, TorrentEntry
      <4>. QED
        BY <1>5, <4>1, <4>2
    <3>. QED
      BY <1>1, <1>2, <2>1, <3>2, CacheKept DEF ScheduleCacheRight
  <2>3. CASE ~WasPaused
    <3>1. req.id \notin DOMAIN scheduled
      BY <2>1, <2>3
    <3>2. \A x \in DOMAIN engine \ {req.id} : x \in DOMAIN engine' /\ engine'[x] = engine[x]
      BY <1>5 DEF Verified, VerifyFails
    <3>3. ScheduleCacheRight'
      BY <2>1, <3>1, <3>2 DEF ScheduleCacheRight
    <3>. QED
      BY <1>1, <1>2, <2>1, <3>3
  <2>. QED
    BY <2>2, <2>3
<1>6. CASE RecordTorrentFails
  <2>1. scheduled' = scheduled /\ req.id \notin DOMAIN scheduled /\ Finish
    BY <1>6 DEF RecordTorrentFails
  <2>2. \A x \in DOMAIN engine \ {req.id} : x \in DOMAIN engine' /\ engine'[x] = engine[x]
    BY <1>6 DEF RecordTorrentFails, MapDelete, Restrict
  <2>3. ScheduleCacheRight'
    BY <2>1, <2>2 DEF ScheduleCacheRight
  <2>. QED
    BY <1>1, <1>2, <2>1, <2>3
<1>7. CASE RemoveFromEngine
  <2>1. /\ engine' = MapDelete(engine, req.id)
        /\ scheduled' = MapDelete(scheduled, req.id)
        /\ step' = "forget"
    BY <1>7 DEF RemoveFromEngine
  <2>2. ScheduleCacheRight'
    BY <2>1 DEF ScheduleCacheRight, MapDelete, Restrict
  <2>. QED
    BY <1>2, <2>1, <2>2
<1>8. CASE RemoveUndone \/ RemoveNotUndone
  <2>1. Finish /\ scheduled' = scheduled /\ RemoveFails
    BY <1>8 DEF RemoveUndone, RemoveNotUndone
  <2>2. \A x \in DOMAIN engine : x \in DOMAIN engine' /\ engine'[x].paused = engine[x].paused
    <3>1. CASE UNCHANGED engine
      BY <3>1
    <3>2. CASE /\ req.id \in DOMAIN engine
               /\ \/ engine' = [engine EXCEPT ![req.id].done = FALSE,
                                              ![req.id].dropped = FALSE]
                  \/ engine' = [engine EXCEPT ![req.id].dropped = TRUE]
      <4>1. engine[req.id] \in TorrentEntry
        BY <3>2, EntryType
      <4>. QED
        BY <3>2, <4>1 DEF TorrentEntry
    <3>. QED
      BY <2>1, <3>1, <3>2 DEF RemoveFails, CanCall
  <2>. QED
    BY <1>1, <1>2, <2>1, <2>2, CacheKept DEF ScheduleCacheRight
<1>. QED
  BY <1>3, <1>4, <1>5, <1>6, <1>7, <1>8
  DEF Continue, UpdateRecord, PutTorrent, RecordTorrent, AddInterrupted, ForgetTorrent,
      MoveSnapshot

\* A request that starts an engine operation deletes the cache entry with it.
LEMMA ArrivalKeepsCache ==
  ASSUME TypeInv, AllLive, CacheInv, NEW r \in Requests,
         \/ ApplyDesired(r) \/ ApplySequential(r) \/ ApplyPriority(r) \/ StartVerify(r)
         \/ AddToEngine(r) \/ RemoveRecord(r) \/ MoveRecord(r)
  PROVE  CacheInv'
<1> USE DEF CacheInv, Unscheduled, store, life, pass, history
<1>1. req' = r /\ phase' = phase /\ phase # "down"
  BY DEF ApplyDesired, ApplySequential, ApplyPriority, StartVerify, AddToEngine,
         RemoveRecord, MoveRecord, Takes
<1>2. CASE ApplyDesired(r)
  <2>1. /\ engine' = [engine EXCEPT ![r.id] = Applied(engine[r.id], r)]
        /\ scheduled' = MapDelete(scheduled, r.id)
        /\ step' = "update"
    BY <1>2 DEF ApplyDesired
  <2>2. r.id \notin DOMAIN scheduled'
        /\ \A x \in DOMAIN scheduled' : x \in DOMAIN scheduled /\ scheduled'[x] = scheduled[x]
    BY <2>1 DEF MapDelete, Restrict
  <2>3. ScheduleCacheRight'
    BY <2>1, <2>2, CacheKeptByEntry
  <2>. QED
    BY <1>1, <2>1, <2>2, <2>3
<1>3. CASE ApplySequential(r) \/ ApplyPriority(r)
  <2>1. /\ engine' = [engine EXCEPT ![r.id] = Applied(engine[r.id], r)]
        /\ scheduled' = scheduled
        /\ step' = "update"
        /\ r.method \in {"sequential", "priority"}
    BY <1>3 DEF ApplySequential, ApplyPriority
  <2>2. Applied(engine[r.id], r).paused = engine[r.id].paused
    <3>1. engine[r.id] \in TorrentEntry
      BY <1>3, EntryType DEF ApplySequential, ApplyPriority, Finds, CanCall
    <3>. QED
      BY <2>1, <3>1, OptionsKeepPaused
  <2>3. ScheduleCacheRight'
    BY <2>1, <2>2, CacheKeptByEntry
  <2>. QED
    BY <1>1, <2>1, <2>3
<1>4. CASE StartVerify(r)
  <2>1. step' = "verify"
    BY <1>4 DEF StartVerify
  <2>2. CASE WasPaused' /\ UNCHANGED <<engine, scheduled>>
    BY <1>1, <2>1, <2>2 DEF ScheduleCacheRight
  <2>3. CASE ~WasPaused'
    <3> DEFINE e == [engine[r.id] EXCEPT !.paused = TRUE]
    <3>1. /\ engine' = [engine EXCEPT ![r.id] = e]
          /\ scheduled' = MapDelete(scheduled, r.id)
      BY <1>4, <2>3 DEF StartVerify
    <3>2. r.id \notin DOMAIN scheduled'
          /\ \A x \in DOMAIN scheduled' : x \in DOMAIN scheduled /\ scheduled'[x] = scheduled[x]
      BY <3>1 DEF MapDelete, Restrict
    <3>3. ScheduleCacheRight'
      BY <3>1, <3>2, CacheKeptByEntry
    <3>. QED
      BY <1>1, <2>1, <3>2, <3>3
  <2>. QED
    BY <1>4, <2>2, <2>3 DEF StartVerify
<1>5. CASE AddToEngine(r)
  <2>1. PICK e : engine' = MapSet(engine, r.id, e)
    BY <1>5 DEF AddToEngine
  <2>2. r.id \notin DOMAIN scheduled /\ scheduled' = scheduled /\ step' = "added"
    BY <1>5 DEF AddToEngine, ScheduleCacheRight, AllLive, Live
  <2>3. \A x \in DOMAIN engine : x # r.id => x \in DOMAIN engine' /\ engine'[x] = engine[x]
    BY <2>1 DEF MapSet
  <2>4. ScheduleCacheRight'
    BY <2>2, <2>3 DEF ScheduleCacheRight
  <2>. QED
    BY <1>1, <2>2, <2>4
<1>6. CASE RemoveRecord(r) \/ MoveRecord(r)
  <2>1. UNCHANGED <<engine, scheduled>> /\ step' \in {"remove", "move"}
    BY <1>6 DEF RemoveRecord, MoveRecord
  <2>. QED
    BY <1>1, <2>1 DEF ScheduleCacheRight
<1>. QED
  BY <1>2, <1>3, <1>4, <1>5, <1>6

\* setScheduled writes down what it tells the engine.
LEMMA SetScheduledCache ==
  ASSUME TypeInv, ScheduleCacheRight, NEW id \in TorrentID, NEW running \in BOOLEAN,
         SetScheduled(id, running) \/ KeepScheduled(id, running)
  PROVE  ScheduleCacheRight'
<1>1. CASE KeepScheduled(id, running)
  BY <1>1 DEF KeepScheduled, ScheduleCacheRight
<1>2. CASE SetScheduled(id, running)
  <2>1. id \in DOMAIN engine
    BY <1>2 DEF SetScheduled, CanCall
  <2>2. engine[id] \in TorrentEntry
    BY <2>1, EntryType
  <2>3. id \in DOMAIN engine' /\ engine'[id].paused = ~running
    BY <1>2, <2>1, <2>2 DEF SetScheduled, TorrentEntry
  <2>4. \A x \in DOMAIN engine : x # id => x \in DOMAIN engine' /\ engine'[x] = engine[x]
    BY <1>2 DEF SetScheduled
  <2>5. /\ DOMAIN scheduled' = DOMAIN scheduled \cup {id}
        /\ scheduled'[id] = running
        /\ \A x \in DOMAIN scheduled : x # id => scheduled'[x] = scheduled[x]
    BY <1>2 DEF SetScheduled, MapSet
  <2>. QED
    BY <2>3, <2>4, <2>5 DEF ScheduleCacheRight
<1>. QED
  BY <1>1, <1>2

\* A pass writes the cache and the engine together.
LEMMA PassKeepsCache ==
  ASSUME TypeInv, CacheInv, Pass
  PROVE  CacheInv'
<1> USE DEF CacheInv, Unscheduled, TypeInv, HandlerValid, store, life, pass, history
<1>1. CASE StartPass \/ EndPass
  <2>1. UNCHANGED <<engine, scheduled>> /\ step' \in {"pass", "idle"} /\ phase' = "serving"
    BY <1>1 DEF StartPass, EndPass
  <2>. QED
    BY <2>1 DEF ScheduleCacheRight
<1>2. ASSUME NEW id \in TorrentID, Visiting(id), ScheduleCacheRight' PROVE CacheInv'
  BY <1>2 DEF Visiting
<1>3. ASSUME NEW id \in TorrentID, Visiting(id), NEW running \in BOOLEAN,
             SetScheduled(id, running) \/ KeepScheduled(id, running)
      PROVE  CacheInv'
  BY <1>2, <1>3, SetScheduledCache
<1>4. ASSUME NEW id \in TorrentID, PassSkips(id) PROVE CacheInv'
  <2>1. ScheduleCacheRight'
    BY <1>4 DEF PassSkips, ScheduleCacheRight
  <2>. QED
    BY <1>2, <1>4, <2>1 DEF PassSkips
<1>5. ASSUME NEW id \in TorrentID, PassPauses(id) \/ PassQueues(id) PROVE CacheInv'
  BY <1>3, <1>5 DEF PassPauses, PassQueues, Stop
<1>6. ASSUME NEW id \in TorrentID, PassRuns(id) \/ PassCannotRun(id) PROVE CacheInv'
  BY <1>3, <1>6 DEF PassRuns, PassCannotRun
<1>. QED
  BY <1>1, <1>4, <1>5, <1>6 DEF Pass

\* The restore works with an empty cache.
LEMMA RestorationKeepsCache ==
  ASSUME TypeInv, CacheInv, Restoration
  PROVE  CacheInv'
<1>1. step = "restore" /\ UNCHANGED scheduled
  BY DEF Restoration, Restore, RestoreFails, RestoreOther, Restoring, Restored
<1>2. DOMAIN scheduled' = {}
  BY <1>1 DEF CacheInv, Unscheduled
<1>. QED
  BY <1>2 DEF CacheInv, Unscheduled, ScheduleCacheRight

\* The end of the process empties engine and cache; progress leaves both alone.
LEMMA EnvironmentKeepsCache ==
  ASSUME TypeInv, CacheInv, Environment
  PROVE  CacheInv'
<1> USE DEF CacheInv, Unscheduled, TypeInv, HandlerValid, store, life, pass, history
<1>1. CASE Start
  BY <1>1 DEF Start, ScheduleCacheRight
<1>2. CASE Cancel \/ ActorExits
  BY <1>2 DEF Cancel, ActorExits, ScheduleCacheRight, WasPaused
<1>3. CASE Return \/ Crash
  <2>1. DOMAIN scheduled' = {}
    BY <1>3 DEF Return, Crash, GoDown, Nothing
  <2>. QED
    BY <2>1 DEF ScheduleCacheRight
<1>4. ASSUME NEW id \in TorrentID, GotInfo(id) \/ Complete(id) PROVE CacheInv'
  <2>1. /\ UNCHANGED <<phase, step, req, got, scheduled>>
        /\ id \in DOMAIN engine
    BY <1>4 DEF GotInfo, Complete, Live
  <2>2. engine[id] \in TorrentEntry
    BY <2>1, EntryType
  <2>3. \A x \in DOMAIN engine : x \in DOMAIN engine' /\ engine'[x].paused = engine[x].paused
    BY <1>4, <2>2 DEF GotInfo, Complete, TorrentEntry
  <2>4. ScheduleCacheRight'
    BY <2>1, <2>3 DEF ScheduleCacheRight
  <2>. QED
    BY <2>1, <2>4 DEF WasPaused
<1>. QED
  BY <1>1, <1>2, <1>3, <1>4 DEF Environment

\* CacheInv is inductive while every entry has its torrent.
LEMMA StepKeepsCache == TypeInv /\ AllLive /\ CacheInv /\ [Next]_vars => CacheInv'
<1> SUFFICES ASSUME TypeInv, AllLive, CacheInv, [Next]_vars PROVE CacheInv'
  OBVIOUS
<1>1. CASE Restoration
  BY <1>1, RestorationKeepsCache
<1>2. CASE Pass
  BY <1>2, PassKeepsCache
<1>3. CASE Continue
  BY <1>3, ContinueKeepsCache
<1>4. CASE Arrival
  BY <1>4, ArrivalKeepsCache DEF Arrival
<1>5. CASE Environment
  BY <1>5, EnvironmentKeepsCache
<1>6. CASE UNCHANGED vars
  BY <1>6 DEF vars, CacheInv, Unscheduled, ScheduleCacheRight, WasPaused
<1>. QED
  BY <1>1, <1>2, <1>3, <1>4, <1>5, <1>6 DEF Next, Server

\* setScheduled skips the engine when its cache says the engine was told. The
\* cache is never wrong, however requests, failed saves, checks, removals,
\* re-adds and restarts fall between two passes, so no skip is ever a mistake:
\* unless a removal could not close a torrent's storage, and left an entry that
\* the torrent's next add replaces.
THEOREM CacheCorrect ==
  ASSUME "close" \notin Faults
  PROVE  Spec => []ScheduleCacheRight
<1>1. Init => CacheInv
  <2>1. Init => DOMAIN scheduled = {} /\ step = "idle"
    BY DEF Init, Nothing
  <2>. QED
    BY <2>1 DEF CacheInv, ScheduleCacheRight, Unscheduled
<1>2. CacheInv => ScheduleCacheRight
  BY DEF CacheInv
<1>. QED
  BY <1>1, <1>2, TypesHold, NothingDropped, StepKeepsCache, PTL DEF Spec
-----------------------------------------------------------------------------
(* The daemon implements the list that clients are promised *)

\* Two sessions list the same torrents, of which the same is asked.
SameList(s, t) == s.order = t.order /\ AskedIn(s) = AskedIn(t)

\* Memory and file have the same list; what a removal would put back is the
\* list with the torrent it removes.
CopiesListed ==
  /\ phase # "down" => SameList(session, disk)
  /\ step = "remove" =>
       /\ req.id \in DOMAIN previous.torrents
       /\ disk.order = RemoveFirst(previous.order, req.id)
       /\ AskedIn(disk) = [AskedIn(previous) EXCEPT ![req.id] = TorrentList!Unlisted]

\* What is asked of a torrent says whether it has a record, and which.
LEMMA AskedFacts ==
  ASSUME NEW s \in SessionType, NEW id \in TorrentID
  PROVE  /\ AskedIn(s)[id] # TorrentList!Unlisted <=> id \in DOMAIN s.torrents
         /\ id \in DOMAIN s.torrents =>
              AskedIn(s)[id] = [desired |-> s.torrents[id].desired,
                                sequential |-> s.torrents[id].sequential]
         /\ AskedIn(s)[id].desired = DesiredIn(s, id)
<1>1. s.torrents \in Map(TorrentID, TorrentRecord)
  BY DEF SessionType
<1>2. CASE id \in DOMAIN s.torrents
  <2>1. s.torrents[id] \in TorrentRecord
    BY <1>1, <1>2, MapGet
  <2>2. s.torrents[id].desired # "none"
    BY <2>1 DEF TorrentRecord, Desired
  <2>. QED
    BY <1>2, <2>2 DEF AskedIn, DesiredIn, TorrentList!Unlisted
<1>3. CASE id \notin DOMAIN s.torrents
  BY <1>3 DEF AskedIn, DesiredIn, TorrentList!Unlisted
<1>. QED
  BY <1>2, <1>3

\* Setting a record changes what is asked of its torrent only.
LEMMA AskedSet ==
  ASSUME NEW s, NEW t, NEW id \in TorrentID,
         DOMAIN t.torrents = DOMAIN s.torrents \cup {id},
         \A x \in DOMAIN s.torrents : x # id => t.torrents[x] = s.torrents[x]
  PROVE  AskedIn(t) = [AskedIn(s) EXCEPT ![id] = [desired |-> t.torrents[id].desired,
                                                 sequential |-> t.torrents[id].sequential]]
BY DEF AskedIn

\* Deleting one too.
LEMMA AskedDelete ==
  ASSUME NEW s, NEW t, NEW id \in TorrentID,
         DOMAIN t.torrents = DOMAIN s.torrents \ {id},
         \A x \in DOMAIN s.torrents : x # id => t.torrents[x] = s.torrents[x]
  PROVE  AskedIn(t) = [AskedIn(s) EXCEPT ![id] = TorrentList!Unlisted]
BY DEF AskedIn, TorrentList!Unlisted

\* What updateRecord changes in what is asked.
LEMMA AskedUpdated ==
  ASSUME session \in SessionType, req \in Request, req.id \in DOMAIN session.torrents,
         req.method \in {"pause", "resume", "sequential", "priority"}
  PROVE  LET asked == AskedIn(session)
             new == AskedIn(UpdatedSession)
         IN  /\ UpdatedSession.order = session.order
             /\ req.method \in {"pause", "resume"} =>
                  new = [asked EXCEPT ![req.id].desired =
                           IF req.method = "pause" THEN "paused" ELSE "downloading"]
             /\ req.method = "sequential" =>
                  new = [asked EXCEPT ![req.id].sequential = req.enabled]
             /\ req.method = "priority" => new = asked
<1> DEFINE id == req.id
           old == session.torrents[id]
           record == UpdatedRecord(old, req)
           asked == AskedIn(session)
           was == [desired |-> old.desired, sequential |-> old.sequential]
           is == [desired |-> record.desired, sequential |-> record.sequential]
<1>1. session.torrents \in Map(TorrentID, TorrentRecord) /\ id \in TorrentID
  BY RequestFacts DEF SessionType
<1>2. old \in TorrentRecord
  BY <1>1, MapGet
<1>3. /\ UpdatedSession.order = session.order
      /\ DOMAIN UpdatedSession.torrents = DOMAIN session.torrents \cup {id}
      /\ UpdatedSession.torrents[id] = record
      /\ \A x \in DOMAIN session.torrents :
           x # id => UpdatedSession.torrents[x] = session.torrents[x]
  BY DEF UpdatedSession, SessionType
<1>4. AskedIn(UpdatedSession) = [asked EXCEPT ![id] = is]
  BY <1>1, <1>3, AskedSet
<1>5. asked[id] = was /\ asked \in [TorrentID -> {asked[x] : x \in TorrentID}]
  BY <1>1, AskedFacts DEF AskedIn
<1>6. CASE req.method \in {"pause", "resume"}
  <2>1. is = [was EXCEPT !.desired = IF req.method = "pause" THEN "paused" ELSE "downloading"]
    BY <1>2, <1>6 DEF UpdatedRecord, TorrentRecord
  <2> HIDE DEF is, was, asked
  <2>. QED
    BY <1>3, <1>4, <1>5, <1>6, <2>1 DEF asked
<1>7. CASE req.method = "sequential"
  <2>1. is = [was EXCEPT !.sequential = req.enabled]
    BY <1>2, <1>7 DEF UpdatedRecord, TorrentRecord
  <2> HIDE DEF is, was, asked
  <2>. QED
    BY <1>3, <1>4, <1>5, <1>7, <2>1 DEF asked
<1>8. CASE req.method = "priority"
  <2>1. is = was
    BY <1>2, <1>8 DEF UpdatedRecord, TorrentRecord
  <2> HIDE DEF is, was, asked
  <2>2. [asked EXCEPT ![id] = was] = asked
    BY <1>5
  <2>. QED
    BY <1>3, <1>4, <1>8, <2>1, <2>2 DEF asked
<1>. QED
  BY <1>6, <1>7, <1>8

\* A save that is no removal leaves the same list in memory and in the file.
LEMMA SavedListed ==
  ASSUME disk' = session', step' # "remove"
  PROVE  CopiesListed'
BY DEF CopiesListed, SameList

\* A step that leaves the sessions alone.
LEMMA ListedStays ==
  ASSUME CopiesListed, UNCHANGED <<disk, session>>, phase' # "down" => phase # "down",
         step' = "remove" => step = "remove" /\ UNCHANGED <<previous, req>>
  PROVE  CopiesListed'
BY DEF CopiesListed, SameList

\* The list is saved and, for a removal, kept to be put back.
LEMMA ContinueListed ==
  ASSUME TypeInv, CopiesListed, Continue
  PROVE  CopiesListed'
<1>1. phase # "down" /\ UNCHANGED phase
  BY DEF Continue, UpdateRecord, UpdateRecordFails, PutTorrent, Verified, VerifyFails,
         RecordTorrent, RecordTorrentFails, AddInterrupted, RemoveFromEngine, RemoveUndone,
         RemoveNotUndone, RemoveFails, ForgetTorrent, MoveSnapshot, TypeInv, HandlerValid, life
<1>2. CASE UpdateRecord \/ RecordTorrent \/ RemoveUndone
  <2>1. disk' = session' /\ step' # "remove"
    BY <1>2 DEF UpdateRecord, RecordTorrent, RemoveUndone, Save, Finish
  <2>. QED
    BY <2>1, SavedListed
<1>3. CASE UpdateRecordFails
  <2>1. /\ step = "update" /\ session \in SessionType /\ req \in Request
        /\ req.method \in {"pause", "resume", "sequential", "priority"}
    BY <1>3 DEF UpdateRecordFails, TypeInv, TypeOK, HandlerValid
  <2>2. SameList(session', session)
    <3>1. CASE session' = session
      BY <3>1 DEF SameList
    <3>2. CASE session' # session
      <4>1. session' = UpdatedSession /\ req.id \in DOMAIN session.torrents
            /\ req.method = "priority"
        BY <1>3, <3>2 DEF UpdateRecordFails, SharedMapUpdate
      <4>. QED
        BY <2>1, <4>1, AskedUpdated DEF SameList
    <3>. QED
      BY <3>1, <3>2
  <2>3. disk' = disk /\ step' = "idle"
    BY <1>3 DEF UpdateRecordFails, Finish
  <2>. QED
    BY <1>1, <2>2, <2>3 DEF CopiesListed, SameList
<1>4. CASE PutTorrent \/ Verified \/ VerifyFails \/ RecordTorrentFails \/ AddInterrupted
           \/ RemoveFromEngine \/ RemoveNotUndone \/ ForgetTorrent \/ MoveSnapshot
  <2>1. UNCHANGED <<disk, session>> /\ step' # "remove"
    BY <1>4 DEF PutTorrent, Verified, VerifyFails, RecordTorrentFails, AddInterrupted,
       RemoveFromEngine, RemoveNotUndone, ForgetTorrent, MoveSnapshot, store, Finish
  <2>. QED
    BY <1>1, <2>1, ListedStays
<1>. QED
  BY <1>2, <1>3, <1>4 DEF Continue

\* A removal saves the list without its torrent and keeps it as it was.
LEMMA RemoveListed ==
  ASSUME TypeInv, NEW r \in Requests, RemoveRecord(r)
  PROVE  /\ previous' = session
         /\ disk' = session' /\ disk'.order = RemoveFirst(session.order, r.id)
         /\ AskedIn(disk') = [AskedIn(session) EXCEPT ![r.id] = TorrentList!Unlisted]
<1>1. /\ session \in SessionType /\ r.id \in TorrentID /\ r.id \in DOMAIN session.torrents
      /\ disk' = [order |-> RemoveFirst(session.order, r.id),
                  torrents |-> MapDelete(session.torrents, r.id)]
      /\ session' = disk' /\ previous' = session
  BY RequestAssumption, RequestFacts DEF RemoveRecord, Save, TypeInv, TypeOK
<1>2. /\ DOMAIN disk'.torrents = DOMAIN session.torrents \ {r.id}
      /\ \A x \in DOMAIN session.torrents : x # r.id => disk'.torrents[x] = session.torrents[x]
  BY <1>1 DEF MapDelete, Restrict
<1>3. AskedIn(disk') = [AskedIn(session) EXCEPT ![r.id] = TorrentList!Unlisted]
  BY <1>1, <1>2, AskedDelete
<1>. QED
  BY <1>1, <1>3

\* CopiesListed is inductive.
LEMMA StepListed == TypeInv /\ CopiesListed /\ [Next]_vars => CopiesListed'
<1> SUFFICES ASSUME TypeInv, CopiesListed, [Next]_vars PROVE CopiesListed'
  OBVIOUS
<1>1. CASE Restoration \/ Pass
  <2>1. UNCHANGED <<disk, session>> /\ step' # "remove" /\ phase # "down"
    <3>1. CASE Restoration
      BY <3>1 DEF Restoration, Restore, RestoreFails, RestoreOther, Restoring, Restored,
                  store, TypeInv, HandlerValid
    <3>2. CASE Pass
      BY <3>2 DEF Pass, StartPass, EndPass, PassSkips, PassPauses, PassQueues, PassRuns,
                  PassCannotRun, Visiting, store, TypeInv, HandlerValid
    <3>. QED
      BY <1>1, <3>1, <3>2
  <2>. QED
    BY <2>1, ListedStays
<1>2. CASE Continue
  BY <1>2, ContinueListed
<1>3. ASSUME NEW r \in Requests, RemoveRecord(r) PROVE CopiesListed'
  <2>1. req' = r /\ r.id \in DOMAIN session.torrents
    BY <1>3 DEF RemoveRecord, Takes
  <2>. QED
    BY <1>3, <2>1, RemoveListed DEF CopiesListed, SameList
<1>4. ASSUME NEW r \in Requests, MoveRecord(r) PROVE CopiesListed'
  BY <1>4, SavedListed DEF MoveRecord, Save
<1>5. ASSUME NEW r \in Requests,
             ApplyDesired(r) \/ ApplySequential(r) \/ ApplyPriority(r) \/ StartVerify(r)
               \/ AddToEngine(r)
      PROVE  CopiesListed'
  <2>1. UNCHANGED <<disk, session, phase>> /\ step' # "remove"
    BY <1>5 DEF ApplyDesired, ApplySequential, ApplyPriority, StartVerify, AddToEngine,
                store, life
  <2>. QED
    BY <2>1, ListedStays
<1>6. CASE Environment
  <2>1. CASE Start
    BY <2>1 DEF Start, CopiesListed, SameList
  <2>2. CASE Return \/ Crash
    BY <2>2 DEF Return, Crash, GoDown, Finish, CopiesListed
  <2>3. CASE Cancel \/ ActorExits \/ \E id \in TorrentID : GotInfo(id) \/ Complete(id)
    <3>1. UNCHANGED <<disk, session, phase, step, previous, req>>
      BY <2>3 DEF Cancel, ActorExits, GotInfo, Complete, store, life
    <3>. QED
      BY <3>1, ListedStays
  <2>. QED
    BY <1>6, <2>1, <2>2, <2>3 DEF Environment
<1>7. CASE UNCHANGED vars
  BY <1>7, ListedStays DEF vars
<1>. QED
  BY <1>1, <1>2, <1>3, <1>4, <1>5, <1>6, <1>7 DEF Next, Server, Arrival
-----------------------------------------------------------------------------
\* A step that leaves the list, the request and the answers alone.
LEMMA StepUnseen ==
  ASSUME UNCHANGED <<Kept, req, acked, lost>>,
         step' \in {"put", "forget", "move"} <=> step \in {"put", "forget", "move"}
  PROVE  UNCHANGED TorrentList!listVars
<1>1. (step' \in {"put", "forget", "move"}) = (step \in {"put", "forget", "move"})
  OBVIOUS
<1>. QED
  BY <1>1 DEF TorrentList!listVars, AskedIn

\* A request is taken and nothing is saved of it yet.
LEMMA StepBegins ==
  ASSUME NEW r \in Requests, req = NoRequest, req' = r, SameList(Kept', Kept),
         step' \notin {"put", "forget", "move"}, UNCHANGED <<acked, lost>>
  PROVE  TorrentList!Begin(r)
<1>1. (step \in {"put", "forget", "move"})' = FALSE
  OBVIOUS
<1>2. Kept'.order = Kept.order /\ AskedIn(Kept') = AskedIn(Kept)
  BY DEF SameList
<1>. QED
  BY <1>1, <1>2 DEF TorrentList!Begin, TorrentList!NoRequest, NoRequest

\* A request ends, and the list is as it was.
LEMMA StepConcludes ==
  ASSUME req \in Request, step \notin {"put", "forget", "move"}, Finish,
         SameList(Kept', Kept), UNCHANGED <<acked, lost>>
  PROVE  TorrentList!Conclude
<1>1. /\ (step \in {"put", "forget", "move"}) = FALSE
      /\ (step \in {"put", "forget", "move"})' = FALSE
  BY DEF Finish
<1>2. Kept'.order = Kept.order /\ AskedIn(Kept') = AskedIn(Kept)
  BY DEF SameList
<1>3. req # TorrentList!NoRequest /\ req' = TorrentList!NoRequest
  BY RequestFacts DEF Finish, NoRequest, TorrentList!NoRequest
<1>. QED
  BY <1>1, <1>2, <1>3 DEF TorrentList!Conclude

\* A request is carried out, and its answer is still to come.
LEMMA StepPerforms ==
  ASSUME TorrentList!CarryOut(req), step \notin {"put", "forget", "move"},
         step' \in {"put", "forget", "move"}, UNCHANGED <<req, acked, lost>>
  PROVE  TorrentList!Perform
<1>1. /\ (step \in {"put", "forget", "move"}) = FALSE
      /\ (step \in {"put", "forget", "move"})' = TRUE
  OBVIOUS
<1>. QED
  BY <1>1 DEF TorrentList!Perform

\* The list that counts has the torrents that the session in memory has.
LEMMA KeptFacts ==
  ASSUME TypeInv, CopiesListed
  PROVE  /\ Kept \in SessionType
         /\ step # "remove" => Kept = disk
         /\ step # "remove" /\ phase # "down" => SameList(Kept, session)
         /\ req \in Request => (TorrentList!Listed(req.id) <=> req.id \in DOMAIN Kept.torrents)
<1>1. Kept \in SessionType
  BY DEF Kept, TypeInv, TypeOK
<1>2. ASSUME req \in Request
      PROVE  TorrentList!Listed(req.id) <=> req.id \in DOMAIN Kept.torrents
  BY <1>1, <1>2, RequestFacts, AskedFacts DEF TorrentList!Listed
<1>. QED
  BY <1>1, <1>2 DEF Kept, CopiesListed, SameList

\* updateRecord carries its request out, or concludes one about a priority.
LEMMA UpdateSeen ==
  ASSUME TypeInv, CopiesListed, UpdateRecord
  PROVE  TorrentList!ListNext
<1>1. /\ step = "update" /\ phase # "down" /\ session \in SessionType
      /\ req \in Request /\ req.id \in DOMAIN session.torrents /\ req.id \in TorrentID
      /\ req.method \in {"pause", "resume", "sequential", "priority"}
      /\ disk' = UpdatedSession /\ UNCHANGED <<acked, lost>>
  BY RequestFacts DEF UpdateRecord, Save, TypeInv, TypeOK, HandlerValid, history
<1>2. SameList(Kept, session)
  BY <1>1, KeptFacts
<1>3. step' # "remove" /\ Kept' = UpdatedSession
  BY <1>1 DEF UpdateRecord, Finish, Kept
<1>4. CASE req.method = "priority"
  <2>1. Finish /\ SameList(Kept', Kept)
    BY <1>1, <1>2, <1>3, <1>4, AskedUpdated DEF UpdateRecord, SameList
  <2>. QED
    BY <1>1, <2>1, StepConcludes DEF TorrentList!ListNext
<1>5. CASE req.method # "priority"
  <2>1. step' = "put" /\ UNCHANGED req
    BY <1>5 DEF UpdateRecord
  <2>2. AskedIn(session)[req.id] # TorrentList!Unlisted
    BY <1>1, AskedFacts
  <2>3. TorrentList!Listed(req.id) /\ Kept'.order = Kept.order
    BY <1>1, <1>2, <1>3, <2>2, AskedUpdated DEF SameList, TorrentList!Listed
  <2>4. CASE req.method \in {"pause", "resume"}
    BY <1>1, <1>2, <1>3, <2>1, <2>3, <2>4, AskedUpdated, StepPerforms
    DEF SameList, TorrentList!ListNext, TorrentList!CarryOut, TorrentList!SetDesired
  <2>5. CASE req.method = "sequential"
    BY <1>1, <1>2, <1>3, <2>1, <2>3, <2>5, AskedUpdated, StepPerforms
    DEF SameList, TorrentList!ListNext, TorrentList!CarryOut, TorrentList!SetSequential
  <2>. QED
    BY <1>1, <1>5, <2>4, <2>5
<1>. QED
  BY <1>4, <1>5

\* recordTorrent lists the torrent, at its old place or at the end.
LEMMA AddSeen ==
  ASSUME TypeInv, CopiesListed, RecordTorrent
  PROVE  TorrentList!ListNext
<1> DEFINE id == req.id
<1>1. /\ step = "added" /\ phase # "down" /\ session \in SessionType
      /\ req \in Request /\ id \in TorrentID /\ req.method = "add"
      /\ disk' = [order |-> Appended(session.order, session.torrents, id),
                  torrents |-> MapSet(session.torrents, id, RecordOf(req))]
      /\ step' = "put" /\ UNCHANGED <<req, acked, lost>>
  BY RequestFacts DEF RecordTorrent, Save, TypeInv, TypeOK, HandlerValid, history
<1>2. SameList(Kept, session) /\ Kept' = disk'
  BY <1>1, KeptFacts DEF Kept
<1>3. /\ DOMAIN disk'.torrents = DOMAIN session.torrents \cup {id}
      /\ disk'.torrents[id] = RecordOf(req)
      /\ \A x \in DOMAIN session.torrents : x # id => disk'.torrents[x] = session.torrents[x]
  BY <1>1 DEF MapSet
<1>4. AskedIn(disk') = [AskedIn(session) EXCEPT ![id] =
        [desired |-> IF req.paused THEN "paused" ELSE "downloading",
         sequential |-> req.sequential]]
  <2>1. /\ RecordOf(req).desired = IF req.paused THEN "paused" ELSE "downloading"
        /\ RecordOf(req).sequential = req.sequential
    BY DEF RecordOf
  <2>2. AskedIn(disk') = [AskedIn(session) EXCEPT ![id] =
          [desired |-> disk'.torrents[id].desired, sequential |-> disk'.torrents[id].sequential]]
    BY <1>1, <1>3 DEF AskedIn
  <2>. QED
    BY <1>3, <2>1, <2>2
<1>5. TorrentList!Listed(id) <=> id \in DOMAIN session.torrents
  <2>1. AskedIn(session)[id] # TorrentList!Unlisted <=> id \in DOMAIN session.torrents
    BY <1>1, AskedFacts
  <2>. QED
    BY <1>2, <2>1 DEF SameList, TorrentList!Listed
<1>6. TorrentList!CarryOut(req)
  BY <1>1, <1>2, <1>4, <1>5 DEF SameList, Appended, TorrentList!CarryOut, TorrentList!List
<1>. QED
  BY <1>1, <1>6, StepPerforms DEF TorrentList!ListNext

\* The two modules remove an element alike.
LEMMA RemovalAlike == \A s, k : TorrentList!RemoveFirst(s, k) = RemoveFirst(s, k)
BY DEF RemoveFirst, TorrentList!RemoveFirst, SelectInSeq, TorrentList!SelectInSeq,
       RemoveAt, TorrentList!RemoveAt, Min, TorrentList!Min

\* What is left when a removal can no longer be undone.
LEMMA RemovalUnlists ==
  ASSUME TypeInv, CopiesListed, step = "remove", UNCHANGED disk, step' # "remove"
  PROVE  TorrentList!Unlist(req) /\ req \in Request
<1>1. /\ req \in Request /\ req.id \in TorrentID /\ req.method = "remove"
      /\ Kept = previous /\ Kept' = disk /\ previous \in SessionType
  BY RequestFacts DEF TypeInv, TypeOK, HandlerValid, Kept
<1>2. TorrentList!Listed(req.id)
  BY <1>1, AskedFacts DEF CopiesListed, TorrentList!Listed
<1>. QED
  BY <1>1, <1>2, RemovalAlike DEF CopiesListed, TorrentList!Unlist

\* The further steps of the handlers are steps of the list.
LEMMA ContinueSeen ==
  ASSUME TypeInv, CopiesListed, Continue
  PROVE  TorrentList!ListNext
<1>1. CASE UpdateRecord
  BY <1>1, UpdateSeen
<1>2. CASE RecordTorrent
  BY <1>2, AddSeen
<1>3. CASE UpdateRecordFails \/ Verified \/ VerifyFails \/ RecordTorrentFails \/ AddInterrupted
  <2>1. /\ step \in {"update", "verify", "added"} /\ req \in Request
        /\ UNCHANGED <<disk, acked, lost>> /\ Finish
    BY <1>3 DEF UpdateRecordFails, Verified, VerifyFails, RecordTorrentFails, AddInterrupted,
       TypeInv, HandlerValid, store, history
  <2>2. Kept = disk /\ Kept' = disk
    BY <2>1 DEF Kept, Finish
  <2>. QED
    BY <2>1, <2>2, StepConcludes DEF SameList, TorrentList!ListNext
<1>4. CASE RemoveFromEngine
  <2>1. step = "remove" /\ step' = "forget" /\ UNCHANGED <<disk, req, acked, lost>>
    BY <1>4 DEF RemoveFromEngine, store, history
  <2>2. TorrentList!CarryOut(req)
    BY <2>1, RemovalUnlists DEF TorrentList!CarryOut
  <2>. QED
    BY <2>1, <2>2, StepPerforms DEF TorrentList!ListNext
<1>5. CASE RemoveUndone
  <2>1. /\ step = "remove" /\ req \in Request /\ disk' = previous
        /\ UNCHANGED <<acked, lost>> /\ Finish
    BY <1>5 DEF RemoveUndone, RemoveFails, Save, TypeInv, HandlerValid, history
  <2>2. Kept = previous /\ Kept' = previous
    BY <2>1 DEF Kept, Finish
  <2>. QED
    BY <2>1, <2>2, StepConcludes DEF SameList, TorrentList!ListNext
<1>6. CASE RemoveNotUndone
  <2>1. /\ step = "remove" /\ step' = "idle" /\ req' = TorrentList!NoRequest
        /\ lost' = lost \cup {req.id} /\ UNCHANGED <<disk, acked>>
    BY <1>6 DEF RemoveNotUndone, RemoveFails, Finish, NoRequest, TorrentList!NoRequest, store
  <2>2. TorrentList!CarryOut(req) /\ req.method = "remove"
    BY <2>1, RemovalUnlists DEF TorrentList!CarryOut, TorrentList!Unlist
  <2>3. /\ (step \in {"put", "forget", "move"}) = FALSE
        /\ (step \in {"put", "forget", "move"})' = FALSE
    BY <2>1
  <2>. QED
    BY <2>1, <2>2, <2>3 DEF TorrentList!Misreport, TorrentList!ListNext
<1>7. CASE PutTorrent \/ ForgetTorrent \/ MoveSnapshot
  <2>1. /\ step \in {"put", "forget", "move"} /\ step' = "idle" /\ req \in Request
        /\ req' = TorrentList!NoRequest /\ UNCHANGED <<disk, lost>>
        /\ req.method = "move" <=> step = "move"
    BY <1>7 DEF PutTorrent, ForgetTorrent, MoveSnapshot, Finish, NoRequest,
       TorrentList!NoRequest, store, history, TypeInv, HandlerValid
  <2>2. Kept = disk /\ Kept' = disk /\ disk \in SessionType /\ req.id \in TorrentID
    BY <2>1, RequestFacts DEF Kept, TypeInv, TypeOK
  <2>3. /\ (step \in {"put", "forget", "move"}) = TRUE
        /\ (step \in {"put", "forget", "move"})' = FALSE
    BY <2>1
  <2>4. acked' = IF req.method = "move" THEN acked
                 ELSE [acked EXCEPT ![req.id] = AskedIn(disk)[req.id].desired]
    <3>1. CASE MoveSnapshot
      BY <2>1, <3>1 DEF MoveSnapshot, history
    <3>2. CASE PutTorrent \/ ForgetTorrent
      <4>1. acked' = [acked EXCEPT ![req.id] = DesiredIn(disk, req.id)] /\ step # "move"
        BY <3>2 DEF PutTorrent, ForgetTorrent, Acknowledge
      <4>2. AskedIn(disk)[req.id].desired = DesiredIn(disk, req.id)
        BY <2>2, AskedFacts
      <4>. QED
        BY <2>1, <4>1, <4>2
    <3>. QED
      BY <1>7, <3>1, <3>2
  <2>. QED
    BY <2>1, <2>2, <2>3, <2>4 DEF TorrentList!Answer, TorrentList!ListNext
<1>. QED
  BY <1>1, <1>2, <1>3, <1>4, <1>5, <1>6, <1>7 DEF Continue

\* A move that is saved when it is taken is carried out at once.
LEMMA MoveSeen ==
  ASSUME TypeInv, CopiesListed, NEW r \in Requests, MoveRecord(r)
  PROVE  TorrentList!Begin(r)
<1> DEFINE moved == Moved(session.order, r.id, r.offset)
<1>1. /\ step = "idle" /\ req = NoRequest /\ req' = r /\ step' = "move" /\ phase # "down"
      /\ r.method = "move" /\ r.id \in DOMAIN session.torrents /\ r.id \in TorrentID
      /\ session \in SessionType /\ Valid(session)
      /\ disk' = [session EXCEPT !.order = moved] /\ UNCHANGED <<acked, lost>>
  BY RequestAssumption, RequestFacts DEF MoveRecord, Takes, Save, TypeInv, TypeOK,
     SessionsValid, HandlerValid, history
<1>2. SameList(Kept, session) /\ Kept' = disk'
  BY <1>1, KeptFacts DEF Kept
<1>3. disk'.order = moved /\ AskedIn(disk') = AskedIn(session)
  BY <1>1 DEF AskedIn, SessionType
<1>4. TorrentList!Listed(r.id)
  <2>1. AskedIn(session)[r.id] # TorrentList!Unlisted
    BY <1>1, AskedFacts
  <2>. QED
    BY <1>2, <2>1 DEF SameList, TorrentList!Listed
<1>5. \E i \in DOMAIN session.order :
        LET j == i + r.offset
        IN  /\ session.order[i] = r.id
            /\ moved = IF j \in DOMAIN session.order
                       THEN [session.order EXCEPT ![i] = session.order[j],
                                                  ![j] = session.order[i]]
                       ELSE session.order
  <2> DEFINE i == CHOOSE i \in DOMAIN session.order : session.order[i] = r.id
  <2>1. \E x \in DOMAIN session.order : session.order[x] = r.id
    BY <1>1 DEF Valid, Range
  <2>2. i \in DOMAIN session.order /\ session.order[i] = r.id
    BY <2>1
  <2>3. Contains(session.order, r.id)
    BY <1>1, <2>1 DEF Contains, SessionType
  <2>4. moved = IF i + r.offset \in DOMAIN session.order
                THEN [session.order EXCEPT ![i] = session.order[i + r.offset],
                                           ![i + r.offset] = session.order[i]]
                ELSE session.order
    BY <2>3 DEF Moved
  <2> HIDE DEF i, moved
  <2>. QED
    BY <2>2, <2>4
<1> HIDE DEF moved
<1>6. TorrentList!Move(r)
  BY <1>1, <1>2, <1>3, <1>4, <1>5 DEF SameList, TorrentList!Move
<1>7. (step \in {"put", "forget", "move"})' = TRUE
  BY <1>1
<1>. QED
  BY <1>1, <1>6, <1>7
  DEF TorrentList!Begin, TorrentList!CarryOut, TorrentList!NoRequest, NoRequest

\* A request that is taken begins.
LEMMA ArrivalSeen ==
  ASSUME TypeInv, CopiesListed, NEW r \in Requests,
         \/ ApplyDesired(r) \/ ApplySequential(r) \/ ApplyPriority(r) \/ StartVerify(r)
         \/ AddToEngine(r) \/ RemoveRecord(r) \/ MoveRecord(r)
  PROVE  TorrentList!Begin(r)
<1>1. CASE \/ ApplyDesired(r) \/ ApplySequential(r) \/ ApplyPriority(r) \/ StartVerify(r)
           \/ AddToEngine(r)
  <2>1. /\ step = "idle" /\ req = NoRequest /\ req' = r
        /\ step' \in {"update", "verify", "added"} /\ UNCHANGED <<disk, acked, lost>>
    BY <1>1 DEF ApplyDesired, ApplySequential, ApplyPriority, StartVerify, AddToEngine, Takes,
       TypeInv, HandlerValid, store, history
  <2>2. Kept = disk /\ Kept' = disk
    BY <2>1 DEF Kept
  <2>. QED
    BY <2>1, <2>2, StepBegins DEF SameList
<1>2. CASE RemoveRecord(r)
  <2>1. /\ step = "idle" /\ phase # "down" /\ req = NoRequest /\ req' = r
        /\ step' = "remove" /\ UNCHANGED <<acked, lost>>
    BY <1>2 DEF RemoveRecord, Takes, TypeInv, HandlerValid, history
  <2>2. SameList(Kept, session) /\ Kept' = session
    BY <1>2, <2>1, KeptFacts, RemoveListed DEF Kept
  <2>. QED
    BY <2>1, <2>2, StepBegins DEF SameList
<1>3. CASE MoveRecord(r)
  BY <1>3, MoveSeen
<1>. QED
  BY <1>1, <1>2, <1>3

\* A process that ends, in whatever step, is a restart of the list.
LEMMA GoDownSeen ==
  ASSUME TypeInv, CopiesListed, GoDown
  PROVE  TorrentList!Restart
<1>1. /\ Kept' = disk /\ UNCHANGED disk /\ disk \in SessionType
      /\ (step \in {"put", "forget", "move"})' = FALSE
      /\ req' = TorrentList!NoRequest /\ lost' = {} /\ step' # "remove"
  BY DEF GoDown, Finish, Kept, TypeInv, TypeOK, NoRequest, TorrentList!NoRequest
<1>2. acked' = [id \in TorrentID |->
                  IF id \in lost \/ (req # TorrentList!NoRequest /\ req.id = id)
                  THEN AskedIn(disk)[id].desired ELSE acked[id]]
  <2>1. \A id \in TorrentID : DesiredIn(disk, id) = AskedIn(disk)[id].desired
    BY <1>1, AskedFacts
  <2>. QED
    BY <2>1 DEF GoDown, NoRequest, TorrentList!NoRequest
<1>3. \/ Kept'.order = Kept.order /\ AskedIn(Kept') = AskedIn(Kept)
      \/ (step \in {"put", "forget", "move"}) = FALSE /\ TorrentList!CarryOut(req)
  <2>1. CASE step = "remove"
    <3>1. TorrentList!Unlist(req)
      BY <1>1, <2>1, RemovalUnlists
    <3>. QED
      BY <2>1, <3>1 DEF TorrentList!CarryOut
  <2>2. CASE step # "remove"
    BY <1>1, <2>2 DEF Kept
  <2>. QED
    BY <2>1, <2>2
<1>. QED
  BY <1>1, <1>2, <1>3 DEF TorrentList!Restart

\* Every step of the daemon is a step of the list, or leaves it alone.
LEMMA StepSeen ==
  TypeInv /\ CopiesListed /\ [Next]_vars => [TorrentList!ListNext]_TorrentList!listVars
<1> SUFFICES ASSUME TypeInv, CopiesListed, [Next]_vars
             PROVE  TorrentList!ListNext \/ UNCHANGED TorrentList!listVars
  OBVIOUS
<1>1. CASE Restoration \/ Pass
  <2>1. /\ UNCHANGED <<disk, req, acked, lost>>
        /\ step \in {"restore", "pass", "idle"} /\ step' \in {"restore", "pass", "idle"}
    <3>1. CASE Restoration
      BY <3>1 DEF Restoration, Restore, RestoreFails, RestoreOther, Restoring, Restored,
                  store, history
    <3>2. CASE Pass
      BY <3>2 DEF Pass, StartPass, EndPass, PassSkips, PassPauses, PassQueues, PassRuns,
                  PassCannotRun, Visiting, store, history
    <3>. QED
      BY <1>1, <3>1, <3>2
  <2>. QED
    BY <2>1, StepUnseen DEF Kept
<1>2. CASE Continue
  BY <1>2, ContinueSeen
<1>3. CASE Arrival
  BY <1>3, ArrivalSeen DEF Arrival, TorrentList!ListNext
<1>4. CASE Environment
  <2>1. CASE Start
    <3>1. step = "idle" /\ step' = "restore" /\ UNCHANGED <<disk, req, acked, lost>>
      BY <2>1 DEF Start, TypeInv, HandlerValid, history
    <3>. QED
      BY <3>1, StepUnseen DEF Kept
  <2>2. CASE Return \/ Crash
    BY <2>2, GoDownSeen DEF Return, Crash, TorrentList!ListNext
  <2>3. CASE Cancel \/ ActorExits \/ \E id \in TorrentID : GotInfo(id) \/ Complete(id)
    <3>1. UNCHANGED <<disk, step, req, previous, acked, lost>>
      BY <2>3 DEF Cancel, ActorExits, GotInfo, Complete, store, history
    <3>. QED
      BY <3>1, StepUnseen DEF Kept
  <2>. QED
    BY <1>4, <2>1, <2>2, <2>3 DEF Environment
<1>5. CASE UNCHANGED vars
  BY <1>5, StepUnseen DEF vars, Kept
<1>. QED
  BY <1>1, <1>2, <1>3, <1>4, <1>5 DEF Next, Server

\* Clients are promised a list that only their requests change, one at a time,
\* each as it says and in one step or not at all. The daemon keeps that promise
\* through its many-step handlers, failed saves, undone and half-undone
\* removals, passes, restores, and deaths at any moment.
THEOREM ListImplemented == Spec => ImplementsTorrentList
<1>1. Init => CopiesListed
  BY DEF Init, CopiesListed
<1>2. Init => TorrentList!ListInit
  <2> SUFFICES ASSUME Init PROVE TorrentList!ListInit
    OBVIOUS
  <2>1. Kept = EmptySession /\ (step \in {"put", "forget", "move"}) = FALSE
    BY DEF Init, Kept
  <2>2. Kept.order = <<>> /\ AskedIn(Kept) = [id \in TorrentID |-> TorrentList!Unlisted]
    BY <2>1 DEF EmptySession, Nothing, AskedIn, TorrentList!Unlisted
  <2>. QED
    BY <2>1, <2>2 DEF Init, TorrentList!ListInit, NoRequest, TorrentList!NoRequest
<1>. QED
  BY <1>1, <1>2, TypesHold, StepListed, StepSeen, PTL
  DEF Spec, ImplementsTorrentList, TorrentList!ListSpec
=============================================================================
