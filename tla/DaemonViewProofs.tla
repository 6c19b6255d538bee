-------------------------- MODULE DaemonViewProofs --------------------------
(***************************************************************************)
(* The daemon's views of its torrents agree: the order clients see and the *)
(* saved one, the engine and the session, options, what a pass counts and  *)
(* what clients were told. Proofs.                                         *)
(***************************************************************************)
EXTENDS DaemonStateProofs, FiniteSetTheorems

(* Orders *)

\* The first of what is still to come is not among what has been.
LEMMA HeadIsNew ==
  ASSUME NEW S, NEW o \in Seq(S), NEW t \in Seq(S), t # <<>>, IsInjective(o \o t)
  PROVE  /\ Head(t) \notin Range(o)
         /\ Append(o, Head(t)) \o Tail(t) = o \o t
<1> DEFINE n == Len(o)
           c == o \o t
<1>1. /\ n \in Nat /\ Len(t) \in Nat /\ Len(t) >= 1 /\ Head(t) = t[1] /\ Head(t) \in S
      /\ DOMAIN o = 1..n
  OBVIOUS
<1>2. /\ c \in Seq(S) /\ Len(c) = n + Len(t) /\ DOMAIN c = 1..(n + Len(t))
      /\ \A i \in 1..(n + Len(t)) : c[i] = IF i <= n THEN o[i] ELSE t[i - n]
  BY ConcatProperties
<1>3. ASSUME Head(t) \in Range(o) PROVE FALSE
  <2>1. PICK i \in 1..n : o[i] = Head(t)
    BY <1>1, <1>3 DEF Range
  <2>2. c[i] = o[i] /\ c[n + 1] = t[1] /\ i \in DOMAIN c /\ n + 1 \in DOMAIN c
    <3>1. (n + 1) - n = 1 /\ ~(n + 1 <= n) /\ n + 1 \in 1..(n + Len(t))
          /\ i \in 1..(n + Len(t)) /\ i <= n
      BY <1>1
    <3>. QED
      BY <1>2, <3>1
  <2>. QED
    BY <1>1, <2>1, <2>2 DEF IsInjective
<1>4. Append(o, Head(t)) \o Tail(t) = c
  <2> DEFINE a == Append(o, Head(t))
             b == Tail(t)
  <2>1. /\ a \in Seq(S) /\ Len(a) = n + 1
        /\ \A i \in 1..(n + 1) : a[i] = IF i <= n THEN o[i] ELSE Head(t)
    BY <1>1
  <2>2. /\ b \in Seq(S) /\ Len(b) = Len(t) - 1
        /\ \A i \in 1..Len(b) : b[i] = t[i + 1]
    BY HeadTailProperties
  <2> HIDE DEF a, b
  <2>3. /\ a \o b \in Seq(S) /\ Len(a \o b) = n + Len(t)
        /\ \A i \in 1..(n + Len(t)) :
             (a \o b)[i] = IF i <= n + 1 THEN a[i] ELSE b[i - (n + 1)]
    <3>1. (n + 1) + Len(b) = n + Len(t)
      BY <1>1, <2>2
    <3>2. /\ a \o b \in Seq(S) /\ Len(a \o b) = Len(a) + Len(b)
          /\ \A i \in 1..(Len(a) + Len(b)) :
               (a \o b)[i] = IF i <= Len(a) THEN a[i] ELSE b[i - Len(a)]
      BY <2>1, <2>2, ConcatProperties
    <3>. QED
      BY <2>1, <3>1, <3>2
  <2>4. ASSUME NEW i \in 1..(n + Len(t)) PROVE (a \o b)[i] = c[i]
    <3>1. CASE i <= n
      BY <1>1, <1>2, <2>1, <2>3, <3>1
    <3>2. CASE i = n + 1
      BY <1>1, <1>2, <2>1, <2>3, <3>2
    <3>3. CASE i > n + 1
      <4>1. i - (n + 1) \in 1..Len(b) /\ (i - (n + 1)) + 1 = i - n
        BY <1>1, <2>2, <3>3
      <4>2. (a \o b)[i] = b[i - (n + 1)]
        BY <1>1, <2>3, <3>3
      <4>3. b[i - (n + 1)] = t[i - n]
        BY <2>2, <4>1
      <4>4. c[i] = t[i - n]
        BY <1>1, <1>2, <3>3
      <4>. QED
        BY <4>2, <4>3, <4>4
    <3>4. i <= n \/ i = n + 1 \/ i > n + 1
      BY <1>1
    <3>. QED
      BY <3>1, <3>2, <3>3, <3>4
  <2>5. a \o b = c
    <3> HIDE DEF c, n
    <3>1. Len(a \o b) = Len(c) /\ a \o b \in Seq(S) /\ c \in Seq(S)
      BY <1>2, <2>3
    <3>2. \A i \in 1..Len(a \o b) : (a \o b)[i] = c[i]
      BY <2>3, <2>4
    <3>. QED
      BY <3>1, <3>2, SeqEqual
  <2>. QED
    BY <2>5 DEF a, b
<1>. QED
  BY <1>3, <1>4

\* A list has its first element and the others.
LEMMA HeadAndTail ==
  ASSUME NEW S, NEW q \in Seq(S), q # <<>>
  PROVE  Range(q) = Range(Tail(q)) \cup {Head(q)}
<1> DEFINE t == Tail(q)
<1>1. /\ t \in Seq(S) /\ Len(t) = Len(q) - 1
      /\ \A i \in 1..Len(t) : t[i] = q[i + 1]
  BY HeadTailProperties
<1>2. /\ Len(q) \in Nat /\ Len(q) >= 1 /\ DOMAIN q = 1..Len(q) /\ Head(q) = q[1]
      /\ DOMAIN t = 1..Len(t)
  BY <1>1
<1> HIDE DEF t
<1>3. \A i \in 1..Len(t) : i + 1 \in 1..Len(q)
  BY <1>1, <1>2
<1>4. \A i \in 1..Len(q) : i = 1 \/ (i - 1 \in 1..Len(t) /\ (i - 1) + 1 = i)
  BY <1>1, <1>2
<1>5. Range(q) \subseteq Range(t) \cup {Head(q)}
  <2> SUFFICES ASSUME NEW i \in 1..Len(q), i # 1 PROVE q[i] \in Range(t)
    BY <1>2 DEF Range
  <2>1. i - 1 \in 1..Len(t) /\ t[i - 1] = q[i]
    BY <1>1, <1>4
  <2>. QED
    BY <1>2, <2>1 DEF Range
<1>6. Range(t) \cup {Head(q)} \subseteq Range(q)
  <2>1. Head(q) \in Range(q)
    BY <1>2 DEF Range
  <2>2. Range(t) \subseteq Range(q)
    <3> SUFFICES ASSUME NEW i \in 1..Len(t) PROVE t[i] \in Range(q)
      BY <1>2 DEF Range
    <3>1. t[i] = q[i + 1] /\ i + 1 \in 1..Len(q)
      BY <1>1, <1>3
    <3>. QED
      BY <1>2, <3>1 DEF Range
  <2>. QED
    BY <2>1, <2>2
<1>. QED
  BY <1>5, <1>6 DEF t

\* Without its first element, a list without repetitions has exactly the others.
LEMMA TailDropsHead ==
  ASSUME NEW S, NEW q \in Seq(S), q # <<>>, IsInjective(q)
  PROVE  /\ IsInjective(Tail(q))
         /\ Range(Tail(q)) = Range(q) \ {Head(q)}
<1> DEFINE t == Tail(q)
<1>1. /\ t \in Seq(S) /\ Len(t) = Len(q) - 1
      /\ \A i \in 1..Len(t) : t[i] = q[i + 1]
  BY HeadTailProperties
<1>2. /\ Len(q) \in Nat /\ Len(q) >= 1 /\ DOMAIN q = 1..Len(q) /\ Head(q) = q[1]
      /\ DOMAIN t = 1..Len(t)
  BY <1>1
<1> HIDE DEF t
<1>3. \A i \in 1..Len(t) : i + 1 \in 1..Len(q) /\ i + 1 # 1
  BY <1>1, <1>2
<1>4. \A i, j \in 1..Len(q) : q[i] = q[j] => i = j
  BY <1>2 DEF IsInjective
<1>5. IsInjective(t)
  <2> SUFFICES ASSUME NEW i \in 1..Len(t), NEW j \in 1..Len(t), t[i] = t[j] PROVE i = j
    BY <1>2 DEF IsInjective
  <2>1. i + 1 = j + 1
    BY <1>1, <1>3, <1>4
  <2>. QED
    BY <1>1, <1>2, <2>1
<1>6. Head(q) \notin Range(t)
  <2> SUFFICES ASSUME NEW i \in 1..Len(t), t[i] = q[1] PROVE FALSE
    BY <1>2 DEF Range
  <2>1. q[i + 1] = q[1] /\ i + 1 \in 1..Len(q) /\ i + 1 # 1 /\ 1 \in 1..Len(q)
    BY <1>1, <1>2, <1>3
  <2>. QED
    BY <1>4, <2>1
<1>. QED
  BY <1>5, <1>6, HeadAndTail DEF t
-----------------------------------------------------------------------------
(* What each step leaves alone *)

\* put adds its torrent to what the actor lists, and changes no other.
LEMMA PutFrame ==
  ASSUME NEW id, NEW s, PutSnapshot(id, s)
  PROVE  /\ torrents'.order = Appended(torrents.order, torrents.snaps, id)
         /\ DOMAIN torrents'.snaps = DOMAIN torrents.snaps \cup {id}
         /\ torrents'.snaps[id] = s
         /\ \A x \in DOMAIN torrents.snaps : x # id => torrents'.snaps[x] = torrents.snaps[x]
BY DEF PutSnapshot, MapSet

\* The restore of a torrent tells the actor and, unless it fails, the engine.
LEMMA RestoreFrame ==
  ASSUME TypeInv, NEW id \in TorrentID, Restore(id) \/ RestoreFails(id) \/ RestoreOther(id)
  PROVE  /\ step = "restore" /\ step' = "restore"
         /\ todo # <<>> /\ id = Head(todo) /\ todo' = Tail(todo)
         /\ id \in DOMAIN session.torrents
         /\ \E s : PutSnapshot(id, s)
         /\ UNCHANGED <<disk, session, previous, phase, cancelled, actor, req, got, active,
                        acked, lost, scheduled>>
<1>1. Restoring(id) /\ \E s : PutSnapshot(id, s)
  BY DEF Restore, RestoreFails, RestoreOther
<1>. QED
  BY <1>1, VisitGood DEF Restoring, store, life, history

\* What telling the engine of a scheduling decision changes.
LEMMA ScheduledFrame ==
  ASSUME TypeInv, NEW id \in TorrentID, NEW running \in BOOLEAN,
         SetScheduled(id, running) \/ KeepScheduled(id, running)
  PROVE  /\ DOMAIN engine' = DOMAIN engine
         /\ \A x \in DOMAIN engine : x # id => engine'[x] = engine[x]
         /\ id \in DOMAIN engine =>
              /\ engine'[id].sequential = engine[id].sequential
              /\ engine'[id].priorities = engine[id].priorities
              /\ SetScheduled(id, running) => engine'[id].paused = ~running
<1>1. CASE KeepScheduled(id, running) /\ ~SetScheduled(id, running)
  BY <1>1 DEF KeepScheduled
<1>2. CASE SetScheduled(id, running)
  <2>1. id \in DOMAIN engine /\ engine' = [engine EXCEPT ![id].paused = ~running]
    BY <1>2 DEF SetScheduled, CanCall
  <2>2. engine[id] \in TorrentEntry
    BY <2>1, EntryType
  <2>. QED
    BY <2>1, <2>2 DEF TorrentEntry
<1>. QED
  BY <1>1, <1>2

\* A pass's visit changes one torrent's snapshot and whether it is paused.
LEMMA VisitFrame ==
  ASSUME TypeInv, NEW id \in TorrentID,
         PassSkips(id) \/ PassPauses(id) \/ PassQueues(id) \/ PassRuns(id) \/ PassCannotRun(id)
  PROVE  /\ step = "pass" /\ step' = "pass"
         /\ todo # <<>> /\ id = Head(todo) /\ todo' = Tail(todo)
         /\ id \in DOMAIN torrents.snaps
         /\ torrents'.order = torrents.order
         /\ DOMAIN torrents'.snaps = DOMAIN torrents.snaps
         /\ \A x \in DOMAIN torrents.snaps : x # id => torrents'.snaps[x] = torrents.snaps[x]
         /\ DOMAIN engine' = DOMAIN engine
         /\ \A x \in DOMAIN engine : x # id => engine'[x] = engine[x]
         /\ id \in DOMAIN engine => /\ engine'[id].sequential = engine[id].sequential
                                    /\ engine'[id].priorities = engine[id].priorities
         /\ UNCHANGED <<disk, session, previous, phase, cancelled, actor, req, got, acked,
                        lost>>
<1>1. Visiting(id)
  BY DEF PassSkips, PassPauses, PassQueues, PassRuns, PassCannotRun
<1>2. /\ step = "pass" /\ step' = "pass"
      /\ todo # <<>> /\ id = Head(todo) /\ todo' = Tail(todo)
      /\ UNCHANGED <<disk, session, previous, phase, cancelled, actor, req, got, acked, lost>>
  BY <1>1 DEF Visiting, store, life, history
<1>3. id \in DOMAIN torrents.snaps
  BY <1>2, VisitGood
<1>4. \/ UNCHANGED torrents
      \/ \E s : PutSnapshot(id, s)
  BY DEF PassSkips, PassPauses, PassQueues, PassRuns, PassCannotRun, Stop, PutOrGiveUp
<1>5. /\ torrents'.order = torrents.order
      /\ DOMAIN torrents'.snaps = DOMAIN torrents.snaps
      /\ \A x \in DOMAIN torrents.snaps : x # id => torrents'.snaps[x] = torrents.snaps[x]
  BY <1>3, <1>4, PutFrame DEF Appended
<1>6. \/ UNCHANGED engine
      \/ \E running \in BOOLEAN : SetScheduled(id, running) \/ KeepScheduled(id, running)
  BY DEF PassSkips, PassPauses, PassQueues, PassRuns, PassCannotRun, Stop
<1>7. /\ DOMAIN engine' = DOMAIN engine
      /\ \A x \in DOMAIN engine : x # id => engine'[x] = engine[x]
      /\ id \in DOMAIN engine => /\ engine'[id].sequential = engine[id].sequential
                                 /\ engine'[id].priorities = engine[id].priorities
  BY <1>6, ScheduledFrame
<1>. QED
  BY <1>2, <1>3, <1>5, <1>7

\* Saving a request's record, or failing to, moves no torrent in or out.
LEMMA UpdateFrame ==
  ASSUME TypeInv, UpdateRecord \/ UpdateRecordFails
  PROVE  /\ step = "update" /\ step' \in {"put", "idle"}
         /\ step' = "put" => req' = req
         /\ session'.order = session.order
         /\ DOMAIN session'.torrents = DOMAIN session.torrents
         /\ DOMAIN engine' = DOMAIN engine
         /\ \A x \in DOMAIN engine : x # req.id => engine'[x] = engine[x]
         /\ \A x \in DOMAIN session.torrents : x # req.id =>
              session'.torrents[x] = session.torrents[x]
         /\ step' = "put" => UpdateRecord
         /\ UNCHANGED <<torrents, phase, cancelled, actor, todo, active, acked, lost>>
<1>1. step = "update" /\ step' \in {"put", "idle"}
      /\ UNCHANGED <<torrents, phase, cancelled, actor, todo, active, acked, lost>>
      /\ (step' = "put" => req' = req /\ UpdateRecord)
  BY DEF UpdateRecord, UpdateRecordFails, Finish, life, pass, history
<1>2. session' = session \/ (req.id \in DOMAIN session.torrents /\ session' = UpdatedSession)
  BY DEF UpdateRecord, UpdateRecordFails, Save, SharedMapUpdate
<1>3. ASSUME req.id \in DOMAIN session.torrents
      PROVE  /\ UpdatedSession.order = session.order
             /\ DOMAIN UpdatedSession.torrents = DOMAIN session.torrents
             /\ \A x \in DOMAIN session.torrents : x # req.id =>
                  UpdatedSession.torrents[x] = session.torrents[x]
  <2>1. session \in SessionType
    BY DEF TypeInv, TypeOK
  <2>. QED
    BY <2>1 DEF UpdatedSession, SessionType
<1>4. DOMAIN engine' = DOMAIN engine
      /\ \A x \in DOMAIN engine : x # req.id => engine'[x] = engine[x]
  BY DEF UpdateRecord, UpdateRecordFails
<1>. QED
  BY <1>1, <1>2, <1>3, <1>4

\* What the other steps of a handler leave alone.
LEMMA HandlerFrame ==
  ASSUME TypeInv, Continue
  PROVE  /\ step \in {"update", "put", "verify", "added", "remove", "forget", "move"}
         /\ req \in Request
         /\ phase' = phase /\ phase # "down"
         /\ cancelled' = cancelled
         /\ todo' = todo /\ active' = active
         /\ lost \subseteq lost'
         /\ step' = "put" => step \in {"update", "added"} /\ req' = req
         /\ step' = "forget" => RemoveFromEngine
         /\ step' \in {"idle", "put", "forget"}
         /\ step' = "idle" => req' = NoRequest
<1> USE DEF TypeInv, HandlerValid, life, pass, history, Finish
<1>1. CASE UpdateRecord \/ UpdateRecordFails \/ PutTorrent
  BY <1>1 DEF UpdateRecord, UpdateRecordFails, PutTorrent
<1>2. CASE Verified \/ VerifyFails
  BY <1>2 DEF Verified, VerifyFails
<1>3. CASE RecordTorrent \/ RecordTorrentFails \/ AddInterrupted
  BY <1>3 DEF RecordTorrent, RecordTorrentFails, AddInterrupted
<1>4. CASE RemoveFromEngine \/ RemoveUndone \/ RemoveNotUndone
  BY <1>4 DEF RemoveFromEngine, RemoveUndone, RemoveNotUndone, RemoveFails
<1>5. CASE ForgetTorrent \/ MoveSnapshot
  BY <1>5 DEF ForgetTorrent, MoveSnapshot
<1>. QED
  BY <1>1, <1>2, <1>3, <1>4, <1>5 DEF Continue

\* A request that arrives finds no other and starts its own.
LEMMA ArrivalFrame ==
  ASSUME TypeInv, NEW r \in Requests,
         \/ ApplyDesired(r) \/ ApplySequential(r) \/ ApplyPriority(r) \/ StartVerify(r)
         \/ AddToEngine(r) \/ RemoveRecord(r) \/ MoveRecord(r)
  PROVE  /\ step = "idle" /\ req = NoRequest /\ req' = r /\ r \in Request /\ r.id \in TorrentID
         /\ phase = "serving" /\ phase' = phase /\ cancelled' = cancelled /\ lost' = lost
         /\ todo' = todo /\ active' = active /\ torrents' = torrents
         /\ step' \in {"update", "verify"} => session' = session
         /\ \/ AddToEngine(r) /\ step' = "added"
            \/ RemoveRecord(r) /\ step' = "remove"
            \/ MoveRecord(r) /\ step' = "move"
            \/ /\ step' \in {"update", "verify"} /\ DOMAIN engine' = DOMAIN engine
               /\ \A x \in DOMAIN engine : x # r.id => engine'[x] = engine[x]
<1>1. r \in Request /\ r.id \in TorrentID
  BY RequestAssumption, RequestFacts
<1>2. Takes(r) /\ torrents' = torrents
      /\ UNCHANGED <<phase, cancelled, actor, todo, active, acked, lost>>
  BY DEF ApplyDesired, ApplySequential, ApplyPriority, StartVerify, AddToEngine,
         RemoveRecord, MoveRecord, life, pass, history
<1>3. /\ step = "idle" /\ req' = r /\ phase = "serving" /\ req = NoRequest
  BY <1>2 DEF Takes, TypeInv, HandlerValid
<1>4. \/ AddToEngine(r) /\ step' = "added"
      \/ RemoveRecord(r) /\ step' = "remove"
      \/ MoveRecord(r) /\ step' = "move"
      \/ /\ step' \in {"update", "verify"} /\ session' = session
         /\ DOMAIN engine' = DOMAIN engine
         /\ \A x \in DOMAIN engine : x # r.id => engine'[x] = engine[x]
  <2>1. CASE ApplyDesired(r) \/ ApplySequential(r) \/ ApplyPriority(r)
    BY <2>1 DEF ApplyDesired, ApplySequential, ApplyPriority, store
  <2>2. CASE StartVerify(r)
    BY <2>2 DEF StartVerify, store
  <2>3. CASE AddToEngine(r) \/ RemoveRecord(r) \/ MoveRecord(r)
    BY <2>3 DEF AddToEngine, RemoveRecord, MoveRecord
  <2>. QED
    BY <2>1, <2>2, <2>3
<1>. QED
  BY <1>1, <1>2, <1>3, <1>4

\* The torrents' progress changes what the engine knows of one of them.
LEMMA ProgressFrame ==
  ASSUME TypeInv, NEW id \in TorrentID, GotInfo(id) \/ Complete(id)
  PROVE  /\ DOMAIN engine' = DOMAIN engine
         /\ \A x \in DOMAIN engine : /\ engine'[x].paused = engine[x].paused
                                     /\ engine'[x].sequential = engine[x].sequential
                                     /\ engine'[x].priorities = engine[x].priorities
         /\ UNCHANGED <<disk, session, torrents, scheduled, phase, cancelled, actor, step,
                        req, got, previous, todo, active, acked, lost>>
<1>1. id \in DOMAIN engine
  BY DEF GotInfo, Complete, Live
<1>2. engine[id] \in TorrentEntry
  BY <1>1, EntryType
<1>. QED
  BY <1>1, <1>2 DEF GotInfo, Complete, store, life, pass, history, TorrentEntry

\* A step of the environment: the process ends or starts, or is told to stop, or
\* a torrent makes progress.
LEMMA EnvironmentFrame ==
  ASSUME TypeInv, Environment
  PROVE  \/ GoDown
         \/ Start
         \/ /\ DOMAIN engine' = DOMAIN engine
            /\ \A x \in DOMAIN engine : /\ engine'[x].paused = engine[x].paused
                                        /\ engine'[x].sequential = engine[x].sequential
                                        /\ engine'[x].priorities = engine[x].priorities
            /\ cancelled => cancelled'
            /\ UNCHANGED <<disk, session, torrents, scheduled, phase, step, req, got,
                           previous, todo, active, acked, lost>>
<1>1. CASE Start
  BY <1>1
<1>2. CASE Cancel \/ ActorExits
  BY <1>2 DEF Cancel, ActorExits, store, pass, history
<1>3. CASE Return \/ Crash
  BY <1>3 DEF Return, Crash
<1>4. CASE \E id \in TorrentID : GotInfo(id) \/ Complete(id)
  BY <1>4, ProgressFrame
<1>. QED
  BY <1>1, <1>2, <1>3, <1>4 DEF Environment
-----------------------------------------------------------------------------
(* What is recorded is listed *)

\* Every recorded torrent is one the actor lists, or that is about to be.
ListInv ==
  phase # "down" =>
    /\ step = "restore" => DOMAIN session.torrents \subseteq DOMAIN torrents.snaps \cup Range(todo)
    /\ step \in {"idle", "pass", "update", "verify", "added", "move"} =>
         DOMAIN session.torrents \subseteq DOMAIN torrents.snaps
    /\ step = "put" => DOMAIN session.torrents \subseteq DOMAIN torrents.snaps \cup {req.id}
    /\ step = "remove" => /\ DOMAIN previous.torrents \subseteq DOMAIN torrents.snaps
                          /\ DOMAIN session.torrents = DOMAIN previous.torrents \ {req.id}
    /\ step = "forget" => DOMAIN session.torrents \subseteq DOMAIN torrents.snaps \ {req.id}

\* The handlers keep ListInv.
LEMMA ContinueKeepsList ==
  ASSUME TypeInv, ListInv, Continue
  PROVE  ListInv'
<1>1. phase # "down" /\ step' \in {"idle", "put", "forget"}
  BY HandlerFrame
<1>2. CASE UpdateRecord \/ UpdateRecordFails
  <2>1. /\ step = "update" /\ torrents' = torrents
        /\ DOMAIN session'.torrents = DOMAIN session.torrents /\ step' \in {"put", "idle"}
    BY <1>2, UpdateFrame
  <2>. QED
    BY <1>1, <2>1 DEF ListInv
<1>3. CASE PutTorrent
  <2>1. step = "put" /\ step' = "idle" /\ session' = session
        /\ DOMAIN torrents'.snaps = DOMAIN torrents.snaps \cup {req.id}
    BY <1>3, PutFrame DEF PutTorrent, Finish, store
  <2>. QED
    BY <1>1, <2>1 DEF ListInv
<1>4. CASE Verified \/ VerifyFails \/ RecordTorrentFails \/ AddInterrupted
  <2>1. step \in {"verify", "added"} /\ step' = "idle" /\ UNCHANGED <<session, torrents>>
    BY <1>4 DEF Verified, VerifyFails, RecordTorrentFails, AddInterrupted, Finish, store
  <2>. QED
    BY <1>1, <2>1 DEF ListInv
<1>5. CASE RecordTorrent
  <2>1. step = "added" /\ step' = "put" /\ UNCHANGED <<torrents, req>>
        /\ session'.torrents = MapSet(session.torrents, req.id, RecordOf(req))
    BY <1>5 DEF RecordTorrent, Save
  <2>2. DOMAIN session'.torrents = DOMAIN session.torrents \cup {req.id}
    BY <2>1 DEF MapSet
  <2>. QED
    BY <1>1, <2>1, <2>2 DEF ListInv
<1>6. CASE RemoveFromEngine
  <2>1. step = "remove" /\ step' = "forget" /\ UNCHANGED <<session, torrents, req>>
    BY <1>6 DEF RemoveFromEngine, store
  <2>. QED
    BY <1>1, <2>1 DEF ListInv
<1>7. CASE RemoveUndone \/ RemoveNotUndone
  <2>1. step = "remove" /\ step' = "idle" /\ torrents' = torrents
        /\ (session' = previous \/ session' = session)
    BY <1>7 DEF RemoveUndone, RemoveNotUndone, RemoveFails, Finish, Save, store
  <2>. QED
    BY <1>1, <2>1 DEF ListInv
<1>8. CASE ForgetTorrent
  <2>1. step = "forget" /\ step' = "idle" /\ session' = session
        /\ DOMAIN torrents'.snaps = DOMAIN torrents.snaps \ {req.id}
    BY <1>8 DEF ForgetTorrent, Finish, store, MapDelete, Restrict
  <2>. QED
    BY <1>1, <2>1 DEF ListInv
<1>9. CASE MoveSnapshot
  <2>1. torrents \in [order : Seq(TorrentID), snaps : Map(TorrentID, TorrentSnapshot)]
    BY DEF TypeInv, TypeOK
  <2>2. step = "move" /\ step' = "idle" /\ session' = session
        /\ torrents'.snaps = torrents.snaps
    BY <1>9, <2>1 DEF MoveSnapshot, Finish, store
  <2>. QED
    BY <1>1, <2>2 DEF ListInv
<1>. QED
  BY <1>2, <1>3, <1>4, <1>5, <1>6, <1>7, <1>8, <1>9 DEF Continue

\* ListInv is inductive.
LEMMA StepKeepsList == TypeInv /\ ListInv /\ [Next]_vars => ListInv'
<1> SUFFICES ASSUME TypeInv, ListInv, [Next]_vars PROVE ListInv'
  OBVIOUS
<1>1. ASSUME NEW id \in TorrentID, Restore(id) \/ RestoreFails(id) \/ RestoreOther(id)
      PROVE  ListInv'
  <2>1. /\ step = "restore" /\ step' = "restore" /\ phase' = phase /\ session' = session
        /\ todo # <<>> /\ id = Head(todo) /\ todo' = Tail(todo)
        /\ \E s : PutSnapshot(id, s)
    BY <1>1, RestoreFrame
  <2>2. Range(todo) = Range(todo') \cup {id} /\ DOMAIN torrents'.snaps = DOMAIN torrents.snaps \cup {id}
    <3>1. todo \in Seq(TorrentID)
      BY DEF TypeInv, TypeOK
    <3>. QED
      BY <2>1, <3>1, HeadAndTail, PutFrame
  <2>. QED
    BY <2>1, <2>2 DEF ListInv
<1>2. CASE Restored
  <2>1. step = "restore" /\ step' \in {"pass", "idle"} /\ UNCHANGED <<session, torrents>>
        /\ phase # "down" /\ Range(todo) = {}
    BY <1>2 DEF Restored, store, TypeInv, HandlerValid, Range
  <2>. QED
    BY <2>1 DEF ListInv
<1>3. CASE StartPass \/ EndPass
  <2>1. step \in {"idle", "pass"} /\ step' \in {"idle", "pass"} /\ UNCHANGED <<session, torrents>>
        /\ phase # "down"
    BY <1>3 DEF StartPass, EndPass, store, TypeInv, HandlerValid
  <2>. QED
    BY <2>1 DEF ListInv
<1>4. ASSUME NEW id \in TorrentID,
             PassSkips(id) \/ PassPauses(id) \/ PassQueues(id) \/ PassRuns(id)
               \/ PassCannotRun(id)
      PROVE  ListInv'
  <2>1. step = "pass" /\ step' = "pass" /\ UNCHANGED <<session, phase>>
        /\ DOMAIN torrents'.snaps = DOMAIN torrents.snaps
    BY <1>4, VisitFrame
  <2>. QED
    BY <2>1 DEF ListInv
<1>5. CASE Continue
  BY <1>5, ContinueKeepsList
<1>6. ASSUME NEW r \in Requests,
             \/ ApplyDesired(r) \/ ApplySequential(r) \/ ApplyPriority(r) \/ StartVerify(r)
             \/ AddToEngine(r) \/ RemoveRecord(r) \/ MoveRecord(r)
      PROVE  ListInv'
  <2>1. step = "idle" /\ req' = r /\ phase # "down" /\ torrents' = torrents
        /\ (step' \in {"update", "verify"} => session' = session)
        /\ \/ AddToEngine(r) /\ step' = "added"
           \/ RemoveRecord(r) /\ step' = "remove"
           \/ MoveRecord(r) /\ step' = "move"
           \/ step' \in {"update", "verify"}
    BY <1>6, ArrivalFrame
  <2>2. CASE step' \in {"update", "verify"} \/ AddToEngine(r) \/ MoveRecord(r)
    <3>1. session \in SessionType
      BY DEF TypeInv, TypeOK
    <3>2. DOMAIN session'.torrents = DOMAIN session.torrents
          /\ step' \in {"update", "verify", "added", "move"}
      BY <2>1, <2>2, <3>1 DEF AddToEngine, MoveRecord, Save, store, SessionType
    <3>. QED
      BY <2>1, <3>2 DEF ListInv
  <2>3. CASE RemoveRecord(r)
    <3>1. /\ previous' = session /\ step' = "remove"
          /\ DOMAIN session'.torrents = DOMAIN session.torrents \ {r.id}
      BY <2>3 DEF RemoveRecord, Save, MapDelete, Restrict
    <3>. QED
      BY <2>1, <3>1 DEF ListInv
  <2>. QED
    BY <2>1, <2>2, <2>3
<1>7. CASE Environment
  <2>1. CASE GoDown
    BY <2>1 DEF GoDown, ListInv
  <2>2. CASE Start
    <3>1. step' = "restore" /\ session' = disk /\ todo' = disk.order
      BY <2>2 DEF Start
    <3>2. Range(disk.order) = DOMAIN disk.torrents
      BY DEF TypeInv, SessionsValid, Valid
    <3>. QED
      BY <3>1, <3>2 DEF ListInv
  <2>3. CASE UNCHANGED <<phase, step, session, torrents, todo, req, previous>>
    BY <2>3 DEF ListInv
  <2>. QED
    BY <1>7, <2>1, <2>2, <2>3, EnvironmentFrame
<1>8. CASE UNCHANGED vars
  BY <1>8 DEF vars, ListInv
<1>. QED
  BY <1>1, <1>2, <1>3, <1>4, <1>5, <1>6, <1>7, <1>8
  DEF Next, Server, Restoration, Pass, Arrival

\* ListInv always holds.
THEOREM ListHolds == Spec => []ListInv
<1>1. Init => ListInv
  BY DEF Init, ListInv
<1>. QED
  BY <1>1, TypesHold, StepKeepsList, PTL DEF Spec
-----------------------------------------------------------------------------
(* Clients see the order that is saved *)

\* Where each step stands between the actor's order and the saved one.
OrderInv ==
  /\ phase = "down" => torrents.order = <<>>
  /\ phase # "down" /\ lost = {} =>
       /\ step = "restore" => torrents.order \o todo = session.order
       /\ step \in {"idle", "pass", "update", "verify", "added"} =>
            session.order = torrents.order
       /\ step = "put" => session.order = Appended(torrents.order, torrents.snaps, req.id)
       /\ step = "remove" => previous.order = torrents.order
       /\ step \in {"remove", "forget"} => session.order = RemoveFirst(torrents.order, req.id)
       /\ step = "move" => session.order = Moved(torrents.order, req.id, req.offset)

\* The actor's list and the session are each consistent, so that one order means
\* one set of torrents.
LEMMA SameOrderSameKeys ==
  ASSUME TypeInv, session.order = torrents.order
  PROVE  DOMAIN session.torrents = DOMAIN torrents.snaps
BY DEF TypeInv, SessionsValid, Valid, ActorValid, Lists

\* The handlers keep OrderInv.
LEMMA ContinueKeepsOrder ==
  ASSUME TypeInv, OrderInv, Continue
  PROVE  OrderInv'
<1>1. /\ phase # "down" /\ phase' = phase /\ step' \in {"idle", "put", "forget"}
      /\ lost \subseteq lost'
  BY HandlerFrame
<1>2. SUFFICES ASSUME lost' = {}
               PROVE  /\ step' = "idle" => session'.order = torrents'.order
                      /\ step' = "put" => session'.order
                                            = Appended(torrents'.order, torrents'.snaps, req'.id)
                      /\ step' = "forget" => session'.order
                                               = RemoveFirst(torrents'.order, req'.id)
  BY <1>1 DEF OrderInv
<1>3. lost = {} /\ session \in SessionType
      /\ torrents \in [order : Seq(TorrentID), snaps : Map(TorrentID, TorrentSnapshot)]
  BY <1>1, <1>2 DEF TypeInv, TypeOK
<1>4. CASE UpdateRecord \/ UpdateRecordFails
  <2>1. /\ step = "update" /\ torrents' = torrents /\ session'.order = session.order
        /\ step' \in {"put", "idle"} /\ (step' = "put" => req' = req /\ UpdateRecord)
    BY <1>4, UpdateFrame
  <2>2. session.order = torrents.order
    BY <1>1, <1>3, <2>1 DEF OrderInv
  <2>3. step' = "put" => req.id \in DOMAIN torrents.snaps
    BY <2>1, <2>2, SameOrderSameKeys DEF UpdateRecord
  <2>. QED
    BY <2>1, <2>2, <2>3 DEF Appended
<1>5. CASE PutTorrent
  <2>1. step = "put" /\ step' = "idle" /\ session' = session
        /\ torrents'.order = Appended(torrents.order, torrents.snaps, req.id)
    BY <1>5, PutFrame DEF PutTorrent, Finish, store
  <2>. QED
    BY <1>1, <1>3, <2>1 DEF OrderInv
<1>6. CASE Verified \/ VerifyFails \/ RecordTorrentFails \/ AddInterrupted
  <2>1. step \in {"verify", "added"} /\ step' = "idle" /\ UNCHANGED <<session, torrents>>
    BY <1>6 DEF Verified, VerifyFails, RecordTorrentFails, AddInterrupted, Finish, store
  <2>. QED
    BY <1>1, <1>3, <2>1 DEF OrderInv
<1>7. CASE RecordTorrent
  <2>1. /\ step = "added" /\ step' = "put" /\ UNCHANGED <<torrents, req>>
        /\ session'.order = Appended(session.order, session.torrents, req.id)
    BY <1>7 DEF RecordTorrent, Save
  <2>2. session.order = torrents.order
    BY <1>1, <1>3, <2>1 DEF OrderInv
  <2>3. DOMAIN session.torrents = DOMAIN torrents.snaps
    BY <2>2, SameOrderSameKeys
  <2>. QED
    BY <2>1, <2>2, <2>3 DEF Appended
<1>8. CASE RemoveFromEngine
  <2>1. step = "remove" /\ step' = "forget" /\ UNCHANGED <<session, torrents, req>>
    BY <1>8 DEF RemoveFromEngine, store
  <2>. QED
    BY <1>1, <1>3, <2>1 DEF OrderInv
<1>9. CASE RemoveUndone
  <2>1. step = "remove" /\ step' = "idle" /\ torrents' = torrents /\ session' = previous
    BY <1>9 DEF RemoveUndone, RemoveFails, Finish, Save
  <2>. QED
    BY <1>1, <1>3, <2>1 DEF OrderInv
<1>10. CASE RemoveNotUndone
  BY <1>2, <1>10 DEF RemoveNotUndone
<1>11. CASE ForgetTorrent
  <2>1. step = "forget" /\ step' = "idle" /\ session' = session
        /\ torrents'.order = RemoveFirst(torrents.order, req.id)
    BY <1>11 DEF ForgetTorrent, Finish, store
  <2>. QED
    BY <1>1, <1>3, <2>1 DEF OrderInv
<1>12. CASE MoveSnapshot
  <2>1. step = "move" /\ step' = "idle" /\ session' = session
        /\ torrents'.order = Moved(torrents.order, req.id, req.offset)
    BY <1>3, <1>12 DEF MoveSnapshot, Finish, store
  <2>. QED
    BY <1>1, <1>3, <2>1 DEF OrderInv
<1>. QED
  BY <1>4, <1>5, <1>6, <1>7, <1>8, <1>9, <1>10, <1>11, <1>12 DEF Continue

\* Restoring one torrent moves it from what is still to come to what is listed.
LEMMA RestoreKeepsOrder ==
  ASSUME TypeInv, OrderInv, NEW id \in TorrentID,
         Restore(id) \/ RestoreFails(id) \/ RestoreOther(id)
  PROVE  OrderInv'
<1>1. /\ step = "restore" /\ step' = "restore" /\ UNCHANGED <<phase, session, lost>>
      /\ todo # <<>> /\ id = Head(todo) /\ todo' = Tail(todo)
      /\ \E s : PutSnapshot(id, s)
  BY RestoreFrame
<1>2. SUFFICES ASSUME lost = {} PROVE torrents'.order \o Tail(todo) = session.order
  BY <1>1 DEF OrderInv, TypeInv, HandlerValid
<1>3. phase # "down" /\ torrents.order \o todo = session.order
  BY <1>1, <1>2 DEF OrderInv, TypeInv, HandlerValid
<1>4. torrents.order \in Seq(TorrentID) /\ todo \in Seq(TorrentID)
      /\ IsInjective(torrents.order \o todo)
  BY <1>3 DEF TypeInv, TypeOK, SessionsValid, Valid
<1>5. id \notin Range(torrents.order)
      /\ Append(torrents.order, id) \o Tail(todo) = torrents.order \o todo
  BY <1>1, <1>4, HeadIsNew
<1>6. torrents'.order = Append(torrents.order, id)
  BY <1>1, <1>5, PutFrame DEF Appended, TypeInv, ActorValid, Lists
<1>. QED
  BY <1>3, <1>5, <1>6

\* OrderInv is inductive.
LEMMA StepKeepsOrder == TypeInv /\ OrderInv /\ [Next]_vars => OrderInv'
<1> SUFFICES ASSUME TypeInv, OrderInv, [Next]_vars PROVE OrderInv'
  OBVIOUS
<1>1. /\ torrents.order \in Seq(TorrentID) /\ session \in SessionType
      /\ disk.order \in Seq(TorrentID)
  BY DEF TypeInv, TypeOK, SessionType
<1>2. CASE Restored
  <2>1. /\ step = "restore" /\ step' \in {"pass", "idle"}
        /\ UNCHANGED <<session, torrents, lost>> /\ phase # "down" /\ phase' # "down"
        /\ todo = <<>>
    BY <1>2 DEF Restored, store, history, TypeInv, HandlerValid
  <2>2. torrents.order \o <<>> = torrents.order
    BY <1>1
  <2>. QED
    BY <2>1, <2>2 DEF OrderInv
<1>3. CASE StartPass \/ EndPass
  <2>1. step \in {"idle", "pass"} /\ step' \in {"idle", "pass"}
        /\ UNCHANGED <<session, torrents, lost>> /\ phase # "down" /\ phase' # "down"
    BY <1>3 DEF StartPass, EndPass, store, history, life, TypeInv, HandlerValid
  <2>. QED
    BY <2>1 DEF OrderInv
<1>4. ASSUME NEW id \in TorrentID,
             PassSkips(id) \/ PassPauses(id) \/ PassQueues(id) \/ PassRuns(id)
               \/ PassCannotRun(id)
      PROVE  OrderInv'
  <2>1. step = "pass" /\ step' = "pass" /\ UNCHANGED <<session, phase, lost>>
        /\ torrents'.order = torrents.order
    BY <1>4, VisitFrame
  <2>. QED
    BY <2>1 DEF OrderInv
<1>5. ASSUME NEW r \in Requests,
             \/ ApplyDesired(r) \/ ApplySequential(r) \/ ApplyPriority(r) \/ StartVerify(r)
             \/ AddToEngine(r) \/ RemoveRecord(r) \/ MoveRecord(r)
      PROVE  OrderInv'
  <2>1. /\ step = "idle" /\ req' = r /\ phase # "down" /\ UNCHANGED <<torrents, lost, phase>>
        /\ step' \in {"update", "verify"} => session' = session
        /\ \/ AddToEngine(r) /\ step' = "added"
           \/ RemoveRecord(r) /\ step' = "remove"
           \/ MoveRecord(r) /\ step' = "move"
           \/ step' \in {"update", "verify"}
    BY <1>5, ArrivalFrame
  <2>2. CASE step' \in {"update", "verify"} \/ AddToEngine(r)
    <3>1. session' = session /\ step' \in {"update", "verify", "added"}
      BY <2>1, <2>2 DEF AddToEngine, store
    <3>. QED
      BY <2>1, <3>1 DEF OrderInv
  <2>3. CASE RemoveRecord(r)
    <3>1. /\ previous' = session /\ step' = "remove"
          /\ session'.order = RemoveFirst(session.order, r.id)
      BY <2>3 DEF RemoveRecord, Save
    <3>. QED
      BY <2>1, <3>1 DEF OrderInv
  <2>4. CASE MoveRecord(r)
    <3>1. step' = "move" /\ session'.order = Moved(session.order, r.id, r.offset)
      BY <1>1, <2>4 DEF MoveRecord, Save, SessionType
    <3>. QED
      BY <2>1, <3>1 DEF OrderInv
  <2>. QED
    BY <2>1, <2>2, <2>3, <2>4
<1>6. CASE Environment
  <2>1. CASE GoDown
    BY <2>1 DEF GoDown, OrderInv
  <2>2. CASE Start
    <3>1. /\ phase = "down" /\ phase' = "starting" /\ step' = "restore"
          /\ session' = disk /\ todo' = disk.order /\ torrents' = torrents
      BY <2>2 DEF Start
    <3>2. <<>> \o disk.order = disk.order
      BY <1>1
    <3>. QED
      BY <3>1, <3>2 DEF OrderInv
  <2>3. CASE UNCHANGED <<phase, step, session, torrents, todo, req, previous, lost>>
    BY <2>3 DEF OrderInv
  <2>. QED
    BY <1>6, <2>1, <2>2, <2>3, EnvironmentFrame
<1>7. CASE UNCHANGED vars
  BY <1>7 DEF vars, OrderInv
<1>. QED
  BY <1>2, <1>3, <1>4, <1>5, <1>6, <1>7, RestoreKeepsOrder, ContinueKeepsOrder
  DEF Next, Server, Restoration, Pass, Arrival

\* A move, an add or a removal changes the order clients see and the order that
\* is saved, or neither, whatever fails on the way, and a restart lists the
\* torrents as they were saved. (A removal whose rollback could not be saved
\* either leaves them apart until the next start.)
THEOREM OrdersStayTogether == Spec => []OrdersAgree
<1>1. Init => OrderInv
  BY DEF Init, OrderInv
<1>2. OrderInv => OrdersAgree
  BY DEF OrderInv, OrdersAgree
<1>. QED
  BY <1>1, <1>2, TypesHold, StepKeepsOrder, PTL DEF Spec
-----------------------------------------------------------------------------
(* Clients can see and control whatever the engine runs *)

\* What the engine runs: entries whose torrent was not dropped.
LiveOnes == {id \in DOMAIN engine : ~engine[id].dropped}

\* The torrent that an add has yet to record, or a removal to take out.
Held == IF step \in {"added", "remove"} THEN {req.id} ELSE {}

\* The engine runs recorded torrents only, and the one a handler answers for; a
\* removal can put back the record of every one of them.
OrphanInv ==
  /\ phase = "down" => LiveOnes = {}
  /\ phase # "down" /\ ~cancelled /\ lost = {} =>
       /\ LiveOnes \subseteq DOMAIN session.torrents \cup Held
       /\ step = "remove" => LiveOnes \cup {req.id} \subseteq DOMAIN previous.torrents

\* A step that keeps the entries' marks starts no torrent.
LEMMA LiveOnesKept == MarksKept => LiveOnes' = LiveOnes
BY DEF MarksKept, SameMarks, LiveOnes

\* The handlers keep OrphanInv.
LEMMA ContinueKeepsOrphans ==
  ASSUME TypeInv, OrphanInv, Continue
  PROVE  OrphanInv'
<1>1. /\ phase # "down" /\ phase' = phase /\ step' \in {"idle", "put", "forget"}
      /\ cancelled' = cancelled /\ lost \subseteq lost'
  BY HandlerFrame
<1>2. SUFFICES ASSUME lost' = {}, ~cancelled
               PROVE  LiveOnes' \subseteq DOMAIN session'.torrents
  BY <1>1 DEF OrphanInv, Held
<1>3. /\ LiveOnes \subseteq DOMAIN session.torrents \cup Held
      /\ step = "remove" => LiveOnes \cup {req.id} \subseteq DOMAIN previous.torrents
  BY <1>1, <1>2 DEF OrphanInv
<1>4. CASE UpdateRecord \/ UpdateRecordFails
  <2>1. /\ step = "update" /\ DOMAIN session'.torrents = DOMAIN session.torrents
        /\ LiveOnes' = LiveOnes
    BY <1>4, UpdateFrame, ContinueMarks, LiveOnesKept
  <2>. QED
    BY <1>3, <2>1 DEF Held
<1>5. CASE PutTorrent \/ Verified \/ VerifyFails \/ ForgetTorrent \/ MoveSnapshot
  <2>1. step \in {"put", "verify", "forget", "move"} /\ session' = session
    BY <1>5 DEF PutTorrent, Verified, VerifyFails, ForgetTorrent, MoveSnapshot, store
  <2>2. LiveOnes' = LiveOnes
    BY <1>5, ContinueMarks, LiveOnesKept
  <2>. QED
    BY <1>3, <2>1, <2>2 DEF Held
<1>6. CASE RecordTorrent
  <2>1. /\ step = "added" /\ engine' = engine
        /\ DOMAIN session'.torrents = DOMAIN session.torrents \cup {req.id}
    BY <1>6 DEF RecordTorrent, Save, MapSet
  <2>. QED
    BY <1>3, <2>1 DEF Held, LiveOnes
<1>7. CASE RecordTorrentFails
  <2>1. step = "added" /\ session' = session /\ req.id \in DOMAIN engine
    BY <1>7 DEF RecordTorrentFails, store, TypeInv, HandlerValid
  <2>2. engine[req.id] \in TorrentEntry
    BY <2>1, EntryType
  <2>3. CASE engine' = MapDelete(engine, req.id)
    BY <1>3, <2>1, <2>3 DEF MapDelete, Restrict, LiveOnes, Held
  <2>4. CASE engine' = [engine EXCEPT ![req.id].dropped = TRUE, ![req.id].stray = TRUE]
    <3>1. LiveOnes' \subseteq LiveOnes \ {req.id}
      BY <2>1, <2>2, <2>4 DEF LiveOnes, TorrentEntry
    <3>. QED
      BY <1>3, <2>1, <3>1 DEF Held
  <2>. QED
    BY <1>7, <2>3, <2>4 DEF RecordTorrentFails
<1>8. CASE AddInterrupted
  BY <1>2, <1>8 DEF AddInterrupted
<1>9. CASE RemoveFromEngine
  <2>1. step = "remove" /\ session' = session /\ engine' = MapDelete(engine, req.id)
    BY <1>9 DEF RemoveFromEngine, store
  <2>2. LiveOnes' \subseteq LiveOnes \ {req.id}
    BY <2>1 DEF MapDelete, Restrict, LiveOnes
  <2>. QED
    BY <1>3, <2>1, <2>2 DEF Held
<1>10. CASE RemoveUndone
  <2>1. step = "remove" /\ session' = previous
    BY <1>10 DEF RemoveUndone, RemoveFails, Save
  <2>2. LiveOnes' \subseteq LiveOnes \cup {req.id}
    BY <1>10 DEF RemoveUndone, RemoveFails, LiveOnes
  <2>. QED
    BY <1>3, <2>1, <2>2
<1>11. CASE RemoveNotUndone
  BY <1>2, <1>11 DEF RemoveNotUndone
<1>. QED
  BY <1>4, <1>5, <1>6, <1>7, <1>8, <1>9, <1>10, <1>11 DEF Continue

\* OrphanInv is inductive when a source stays the torrent it was.
LEMMA StepKeepsOrphans ==
  "drift" \notin Faults /\ TypeInv /\ OrphanInv /\ [Next]_vars => OrphanInv'
<1> SUFFICES ASSUME "drift" \notin Faults, TypeInv, OrphanInv, [Next]_vars PROVE OrphanInv'
  OBVIOUS
<1>1. ASSUME NEW id \in TorrentID, Restore(id) \/ RestoreFails(id) \/ RestoreOther(id)
      PROVE  OrphanInv'
  <2>1. /\ step = "restore" /\ step' = "restore" /\ id \in DOMAIN session.torrents
        /\ UNCHANGED <<session, phase, cancelled, lost>>
    BY <1>1, RestoreFrame
  <2>2. DOMAIN engine' \subseteq DOMAIN engine \cup {id}
    BY <1>1 DEF Restore, RestoreFails, RestoreOther, AddRestored, MapSet
  <2>3. LiveOnes' \subseteq LiveOnes \cup {id}
    BY <1>1, <2>2, RestoreMarks DEF LiveOnes, SameMarks
  <2>4. phase # "down"
    BY <2>1 DEF TypeInv, HandlerValid
  <2>. QED
    BY <2>1, <2>3, <2>4 DEF OrphanInv, Held
<1>2. CASE Restored \/ StartPass \/ EndPass
  <2>1. step \in {"restore", "idle", "pass"} /\ step' \in {"idle", "pass"}
        /\ UNCHANGED <<session, engine, cancelled, lost>> /\ phase # "down" /\ phase' # "down"
    BY <1>2 DEF Restored, StartPass, EndPass, store, life, history, TypeInv, HandlerValid
  <2>. QED
    BY <2>1 DEF OrphanInv, Held, LiveOnes
<1>3. ASSUME NEW id \in TorrentID,
             PassSkips(id) \/ PassPauses(id) \/ PassQueues(id) \/ PassRuns(id)
               \/ PassCannotRun(id)
      PROVE  OrphanInv'
  <2>1. step = "pass" /\ step' = "pass" /\ UNCHANGED <<session, phase, cancelled, lost>>
        /\ LiveOnes' = LiveOnes
    BY <1>3, VisitFrame, VisitMarks, LiveOnesKept
  <2>. QED
    BY <2>1 DEF OrphanInv, Held
<1>4. ASSUME NEW r \in Requests,
             \/ ApplyDesired(r) \/ ApplySequential(r) \/ ApplyPriority(r) \/ StartVerify(r)
             \/ AddToEngine(r) \/ RemoveRecord(r) \/ MoveRecord(r)
      PROVE  OrphanInv'
  <2>1. /\ step = "idle" /\ req' = r /\ phase # "down" /\ UNCHANGED <<cancelled, lost, phase>>
        /\ step' \in {"update", "verify"} => session' = session
        /\ \/ AddToEngine(r) /\ step' = "added"
           \/ RemoveRecord(r) /\ step' = "remove"
           \/ MoveRecord(r) /\ step' = "move"
           \/ step' \in {"update", "verify"}
    BY <1>4, ArrivalFrame
  <2>2. AddToEngine(r) \/ LiveOnes' = LiveOnes
    BY <1>4, ArrivalMarks, LiveOnesKept
  <2>3. CASE step' \in {"update", "verify"} /\ ~AddToEngine(r)
    BY <2>1, <2>2, <2>3 DEF OrphanInv, Held
  <2>4. CASE AddToEngine(r)
    <3>1. session' = session /\ step' = "added" /\ LiveOnes' \subseteq LiveOnes \cup {r.id}
      BY <2>4 DEF AddToEngine, store, MapSet, LiveOnes
    <3>. QED
      BY <2>1, <3>1 DEF OrphanInv, Held
  <2>5. CASE RemoveRecord(r)
    <3>1. /\ previous' = session /\ step' = "remove" /\ LiveOnes' = LiveOnes
          /\ r.id \in DOMAIN session.torrents
          /\ DOMAIN session'.torrents = DOMAIN session.torrents \ {r.id}
      BY <2>5 DEF RemoveRecord, Save, MapDelete, Restrict, LiveOnes
    <3>. QED
      BY <2>1, <3>1 DEF OrphanInv, Held
  <2>6. CASE MoveRecord(r)
    <3>1. session \in SessionType
      BY DEF TypeInv, TypeOK
    <3>2. step' = "move" /\ LiveOnes' = LiveOnes
          /\ DOMAIN session'.torrents = DOMAIN session.torrents
      BY <2>6, <3>1 DEF MoveRecord, Save, SessionType, LiveOnes
    <3>. QED
      BY <2>1, <3>2 DEF OrphanInv, Held
  <2>. QED
    BY <2>1, <2>3, <2>4, <2>5, <2>6
<1>5. CASE Environment
  <2>1. CASE GoDown
    BY <2>1 DEF GoDown, OrphanInv, Nothing, LiveOnes
  <2>2. CASE Start
    <3>1. phase = "down" /\ phase' = "starting" /\ step' = "restore" /\ engine' = engine
      BY <2>2 DEF Start
    <3>. QED
      BY <3>1 DEF OrphanInv, LiveOnes
  <2>3. CASE /\ UNCHANGED <<phase, step, session, req, previous, lost>>
             /\ MarksKept /\ (cancelled => cancelled')
    BY <2>3, LiveOnesKept DEF OrphanInv, Held
  <2>. QED
    BY <1>5, <2>1, <2>2, <2>3, EnvironmentFrame, EnvironmentMarks
<1>6. CASE UNCHANGED vars
  BY <1>6 DEF vars, OrphanInv, Held, LiveOnes
<1>. QED
  BY <1>1, <1>2, <1>3, <1>4, <1>5, <1>6, ContinueKeepsOrphans
  DEF Next, Server, Restoration, Pass, Arrival

\* If no torrent file or link turns into another torrent, every torrent that the
\* engine runs has a record, so that clients see it and can stop it: an add that
\* could not be saved and a removal that failed leave none behind, also when
\* storage does not close and engine.Remove stops half way.
THEOREM NoneOrphaned ==
  ASSUME "drift" \notin Faults
  PROVE  Spec => []NoOrphans
<1>1. Init => OrphanInv
  BY DEF Init, OrphanInv, Nothing, LiveOnes
<1>2. TypeInv /\ OrphanInv /\ [Next]_vars => OrphanInv'
  BY StepKeepsOrphans
<1>3. OrphanInv => NoOrphans
  BY DEF OrphanInv, NoOrphans, Held, LiveOnes, Live
<1>. QED
  BY <1>1, <1>2, <1>3, TypesHold, PTL DEF Spec
-----------------------------------------------------------------------------
(* Passes keep the limits *)

\* The running torrents that a pass has already visited.
Counted == {id \in DOMAIN engine \cap DOMAIN session.torrents :
              ~engine[id].paused /\ id \notin Range(todo)}

\* A pass has counted exactly the torrents it has left running, and admitted no
\* more of a class than its limit.
PassInv ==
  /\ step # "pass" => active = NoneActive
  /\ step = "pass" =>
       /\ IsInjective(todo)
       /\ \A class \in {"downloads", "seeds"} :
            LimitOf(class) = 0 \/ active[class] <= LimitOf(class)
       /\ ~cancelled => /\ IsFiniteSet(Counted)
                        /\ Cardinality(Counted) = active.downloads + active.seeds

\* A visit leaves what was counted as it is; its own torrent is counted exactly
\* when it is left running.
LEMMA VisitCounts ==
  ASSUME TypeInv, step = "pass", IsInjective(todo), NEW id \in TorrentID,
         PassSkips(id) \/ PassPauses(id) \/ PassQueues(id) \/ PassRuns(id) \/ PassCannotRun(id)
  PROVE  /\ id \notin Counted
         /\ IsInjective(todo')
         /\ Counted' = IF id \in DOMAIN engine \cap DOMAIN session.torrents
                          /\ ~engine'[id].paused
                         THEN Counted \cup {id}
                         ELSE Counted
<1>1. /\ todo # <<>> /\ id = Head(todo) /\ todo' = Tail(todo) /\ todo \in Seq(TorrentID)
      /\ session' = session /\ DOMAIN engine' = DOMAIN engine
      /\ \A x \in DOMAIN engine : x # id => engine'[x] = engine[x]
  BY VisitFrame DEF TypeInv, TypeOK
<1>2. IsInjective(todo') /\ Range(todo') = Range(todo) \ {id} /\ id \in Range(todo)
  BY <1>1, TailDropsHead, TailKnown
<1>3. id \notin Counted
  BY <1>2 DEF Counted
<1>4. \A x \in DOMAIN engine \cap DOMAIN session.torrents :
        x # id => (x \in Counted' <=> x \in Counted)
  BY <1>1, <1>2 DEF Counted
<1>5. id \in Counted' <=> id \in DOMAIN engine \cap DOMAIN session.torrents
                            /\ ~engine'[id].paused
  BY <1>1, <1>2 DEF Counted
<1>6. /\ Counted \subseteq DOMAIN engine \cap DOMAIN session.torrents
      /\ Counted' \subseteq DOMAIN engine \cap DOMAIN session.torrents
  BY <1>1 DEF Counted
<1>. QED
  BY <1>2, <1>3, <1>4, <1>5, <1>6

\* A visit keeps PassInv: what it leaves running it counts, and only that.
LEMMA VisitKeepsPass ==
  ASSUME TypeInv, CacheInv, PassInv, NEW id \in TorrentID,
         PassSkips(id) \/ PassPauses(id) \/ PassQueues(id) \/ PassRuns(id) \/ PassCannotRun(id)
  PROVE  PassInv'
<1>1. step = "pass" /\ step' = "pass" /\ cancelled' = cancelled
  BY VisitFrame
<1>2. /\ IsInjective(todo) /\ active \in [downloads : Nat, seeds : Nat]
      /\ \A class \in {"downloads", "seeds"} :
            LimitOf(class) = 0 \/ active[class] <= LimitOf(class)
      /\ ~cancelled => /\ IsFiniteSet(Counted)
                       /\ Cardinality(Counted) = active.downloads + active.seeds
  BY <1>1 DEF PassInv, TypeInv, TypeOK
<1>3. /\ id \notin Counted /\ IsInjective(todo')
      /\ Counted' = IF id \in DOMAIN engine \cap DOMAIN session.torrents
                       /\ ~engine'[id].paused
                      THEN Counted \cup {id}
                      ELSE Counted
  BY <1>1, <1>2, VisitCounts
<1>4. \A x \in DOMAIN scheduled : x \in DOMAIN engine /\ engine[x].paused = ~scheduled[x]
  BY DEF CacheInv, ScheduleCacheRight
<1>5. ASSUME ~cancelled, id \in DOMAIN engine, PassPauses(id) \/ PassQueues(id)
      PROVE  engine'[id].paused
  <2>1. SetScheduled(id, FALSE) \/ (CachedAs(id, FALSE) /\ KeepScheduled(id, FALSE))
    BY <1>5 DEF PassPauses, PassQueues, Stop, KeepScheduled, CanCall
  <2>2. CASE SetScheduled(id, FALSE)
    BY <1>5, <2>2, ScheduledFrame
  <2>3. CASE CachedAs(id, FALSE) /\ KeepScheduled(id, FALSE)
    BY <1>4, <2>3 DEF CachedAs, KeepScheduled
  <2>. QED
    BY <2>1, <2>2, <2>3
<1>6. ASSUME active' = active,
             ~cancelled => id \notin DOMAIN engine \cap DOMAIN session.torrents
                             \/ engine'[id].paused
      PROVE  PassInv'
  BY <1>1, <1>2, <1>3, <1>6 DEF PassInv, LimitOf
<1>7. CASE PassSkips(id)
  BY <1>6, <1>7 DEF PassSkips
<1>8. CASE PassPauses(id) \/ PassQueues(id)
  BY <1>5, <1>6, <1>8 DEF PassPauses, PassQueues, Stop
<1>9. CASE PassCannotRun(id)
  BY <1>6, <1>9 DEF PassCannotRun, KeepScheduled, CanCall
<1>10. CASE PassRuns(id)
  <2>1. /\ active' = [active EXCEPT ![Class(id)] = @ + 1]
        /\ Class(id) \in {"downloads", "seeds"}
        /\ ~AtLimit(id) /\ id \in DOMAIN session.torrents
        /\ SetScheduled(id, TRUE) \/ (CachedAs(id, TRUE) /\ KeepScheduled(id, TRUE))
    BY <1>10 DEF PassRuns, Class, DesiredIn
  <2>2. id \in DOMAIN engine /\ ~engine'[id].paused
    <3>1. CASE SetScheduled(id, TRUE)
      BY <3>1, ScheduledFrame DEF SetScheduled, CanCall
    <3>2. CASE CachedAs(id, TRUE) /\ KeepScheduled(id, TRUE)
      BY <1>4, <3>2 DEF CachedAs, KeepScheduled
    <3>. QED
      BY <2>1, <3>1, <3>2
  <2>3. Counted' = Counted \cup {id}
    BY <1>3, <2>1, <2>2
  <2>4. ~cancelled => /\ IsFiniteSet(Counted')
                      /\ Cardinality(Counted') = Cardinality(Counted) + 1
    <3>1. \A S, x : IsFiniteSet(S) /\ x \notin S =>
            IsFiniteSet(S \cup {x}) /\ Cardinality(S \cup {x}) = Cardinality(S) + 1
      BY FS_AddElement
    <3>2. id \notin Counted /\ (~cancelled => IsFiniteSet(Counted))
      BY <1>2, <1>3
    <3>3. ~cancelled => /\ IsFiniteSet(Counted \cup {id})
                        /\ Cardinality(Counted \cup {id}) = Cardinality(Counted) + 1
      BY <3>1, <3>2
    <3>. QED
      BY <2>3, <3>3
  <2>5. LimitOf(Class(id)) \in Nat /\ (LimitOf(Class(id)) = 0
                                        \/ active[Class(id)] + 1 <= LimitOf(Class(id)))
    BY <1>2, <2>1, LimitAssumption DEF AtLimit, LimitOf
  <2>6. active'.downloads + active'.seeds = active.downloads + active.seeds + 1
    BY <1>2, <2>1
  <2>7. \A class \in {"downloads", "seeds"} :
          LimitOf(class) = 0 \/ active'[class] <= LimitOf(class)
    BY <1>2, <2>1, <2>5
  <2>. QED
    BY <1>1, <1>2, <1>3, <2>4, <2>6, <2>7 DEF PassInv, LimitOf
<1>. QED
  BY <1>7, <1>8, <1>9, <1>10

\* A pass begins with every recorded torrent still to visit.
LEMMA PassBegins ==
  ASSUME TypeInv, ListInv, PassInv, phase # "down", step # "pass", step' = "pass",
         step = "idle" \/ (step = "restore" /\ todo = <<>>),
         todo' = torrents.order, UNCHANGED <<session, active>>
  PROVE  PassInv'
<1>1. active' = [downloads |-> 0, seeds |-> 0]
  BY DEF PassInv, NoneActive
<1>2. DOMAIN session.torrents \subseteq DOMAIN torrents.snaps
  <2>1. todo = <<>> => Range(todo) = {}
    BY DEF Range
  <2>. QED
    BY <2>1 DEF ListInv
<1>3. IsInjective(todo') /\ DOMAIN session'.torrents \subseteq Range(todo')
  BY <1>2 DEF TypeInv, ActorValid, Lists
<1>4. Counted' = {}
  BY <1>3 DEF Counted
<1>5. IsFiniteSet(Counted') /\ Cardinality(Counted') = 0
  BY <1>4, FS_EmptySet
<1>6. \A class \in {"downloads", "seeds"} :
        LimitOf(class) = 0 \/ active'[class] <= LimitOf(class)
  BY <1>1, LimitAssumption DEF LimitOf
<1>. QED
  BY <1>1, <1>3, <1>5, <1>6 DEF PassInv, LimitOf

\* PassInv is inductive.
LEMMA StepKeepsPass ==
  TypeInv /\ CacheInv /\ ListInv /\ PassInv /\ [Next]_vars => PassInv'
<1> SUFFICES ASSUME TypeInv, CacheInv, ListInv, PassInv, [Next]_vars PROVE PassInv'
  OBVIOUS
<1>1. ASSUME step # "pass", step' # "pass", active' = active PROVE PassInv'
  BY <1>1 DEF PassInv
<1>2. ASSUME NEW id \in TorrentID, Restore(id) \/ RestoreFails(id) \/ RestoreOther(id)
      PROVE  PassInv'
  BY <1>1, <1>2, RestoreFrame
<1>3. CASE Restored
  <2>1. CASE step' = "pass"
    BY <1>3, <2>1, PassBegins DEF Restored, store, TypeInv, HandlerValid
  <2>2. CASE step' # "pass"
    BY <1>1, <1>3, <2>2 DEF Restored
  <2>. QED
    BY <2>1, <2>2
<1>4. CASE StartPass
  BY <1>4, PassBegins DEF StartPass, store
<1>5. CASE EndPass
  BY <1>5 DEF EndPass, PassInv
<1>6. CASE Continue
  BY <1>1, <1>6, HandlerFrame
<1>7. ASSUME NEW r \in Requests,
             \/ ApplyDesired(r) \/ ApplySequential(r) \/ ApplyPriority(r) \/ StartVerify(r)
             \/ AddToEngine(r) \/ RemoveRecord(r) \/ MoveRecord(r)
      PROVE  PassInv'
  <2>1. step = "idle" /\ step' # "pass" /\ active' = active
    BY <1>7, ArrivalFrame
  <2>. QED
    BY <1>1, <2>1
<1>8. CASE Environment
  <2>1. CASE GoDown
    BY <2>1 DEF GoDown, Finish, PassInv
  <2>2. CASE Start
    BY <1>1, <2>2 DEF Start, TypeInv, HandlerValid
  <2>3. CASE /\ DOMAIN engine' = DOMAIN engine
             /\ \A x \in DOMAIN engine : engine'[x].paused = engine[x].paused
             /\ cancelled => cancelled'
             /\ UNCHANGED <<session, step, todo, active>>
    <3>1. Counted' = Counted
      BY <2>3 DEF Counted
    <3>. QED
      BY <2>3, <3>1 DEF PassInv, LimitOf
  <2>. QED
    BY <1>8, <2>1, <2>2, <2>3, EnvironmentFrame
<1>9. CASE UNCHANGED vars
  <2>1. Counted' = Counted
    BY <1>9 DEF vars, Counted
  <2>. QED
    BY <1>9, <2>1 DEF vars, PassInv, LimitOf
<1>. QED
  BY <1>2, <1>3, <1>4, <1>5, <1>6, <1>7, <1>8, <1>9, VisitKeepsPass
  DEF Next, Server, Restoration, Pass, Arrival

\* When a pass has visited every torrent, it has counted exactly those it has
\* left running, and of neither class more than the limits allow, whatever it
\* found running, whatever its cache made it skip, and whatever finishes or
\* loses data while it runs. (Its cache is right where storage closes.)
THEOREM LimitsRespected ==
  ASSUME "close" \notin Faults
  PROVE  Spec => []PassRespectsLimits
<1>1. Init => PassInv
  BY DEF Init, PassInv
<1>2. Init => CacheInv
  <2>1. Init => DOMAIN scheduled = {} /\ step = "idle"
    BY DEF Init, Nothing
  <2>. QED
    BY <2>1 DEF CacheInv, ScheduleCacheRight, Unscheduled
<1>3. PassInv => PassRespectsLimits
  <2> SUFFICES ASSUME PassInv, step = "pass", todo = <<>>, ~cancelled
               PROVE  Running = Counted
    BY DEF PassInv, PassRespectsLimits
  <2>1. Range(todo) = {}
    BY DEF Range
  <2>. QED
    BY <2>1 DEF Running, Counted
<1>. QED
  BY <1>1, <1>2, <1>3, TypesHold, ListHolds, NothingDropped, StepKeepsCache, StepKeepsPass,
     PTL DEF Spec
-----------------------------------------------------------------------------
(* A paused torrent stays paused *)

\* Session s has the torrent paused.
Asks(s, id) == DesiredIn(s, id) = "paused"

\* The torrent is paused if the engine has it, and its snapshot says so.
Calm(id) == id \in DOMAIN engine => engine[id].paused /\ torrents.snaps[id].state = "paused"

\* Torrents that should be paused are, but for the request's own; before the
\* daemon listens, for those the first pass has visited.
OthersCalm ==
  step # "restore" =>
    \A id \in TorrentID :
      Asks(session, id) /\ ~InFlight(id) /\ ~(phase = "starting" /\ id \in Range(todo))
        => Calm(id)

\* How far each handler is with its own torrent, if that should be paused.
RequestCalm ==
  /\ step \in {"verify", "move"} /\ Asks(session, req.id) => Calm(req.id)
  /\ step = "verify" /\ Asks(session, req.id) => WasPaused
  /\ step = "update" =>
       /\ req.method = "pause" => engine[req.id].paused
       /\ req.method = "sequential" /\ Asks(session, req.id) =>
            Calm(req.id) /\ got.state = "paused"
       /\ req.method = "priority" /\ Asks(session, req.id) => Calm(req.id)
  /\ step = "put" /\ Asks(session, req.id) =>
       /\ req.id \in DOMAIN engine => engine[req.id].paused
       /\ FinalSnapshot.state = "paused"
  /\ step = "added" => engine[req.id].paused = req.paused
  /\ step = "remove" /\ Asks(previous, req.id) => Calm(req.id)

PausedInv ==
  /\ lost = {}
  /\ phase = "serving" => step # "restore"
  /\ phase # "down" /\ ~cancelled => OthersCalm /\ RequestCalm

\* A torrent stays calm when its snapshot stays and it is not resumed or added.
LEMMA CalmKept ==
  ASSUME NEW x, Calm(x), torrents'.snaps[x] = torrents.snaps[x],
         x \in DOMAIN engine' => x \in DOMAIN engine /\ engine'[x].paused = engine[x].paused
  PROVE  Calm(x)'
BY DEF Calm

\* Handlers leave every torrent but their own as it was.
LEMMA ContinueSparesOthers ==
  ASSUME TypeInv, ListInv, AnswerInv, Continue, NEW x \in TorrentID, x # req.id,
         Asks(session', x)
  PROVE  /\ Asks(session, x)
         /\ torrents'.snaps[x] = torrents.snaps[x]
         /\ x \in DOMAIN engine' => x \in DOMAIN engine /\ engine'[x].paused = engine[x].paused
<1>1. step \in {"update", "put", "verify", "added", "remove", "forget", "move"}
      /\ phase # "down" /\ phase' = phase
  BY HandlerFrame
<1>2. CASE UpdateRecord \/ UpdateRecordFails
  <2>1. /\ step = "update" /\ torrents' = torrents /\ DOMAIN engine' = DOMAIN engine
        /\ \A y \in DOMAIN engine : y # req.id => engine'[y] = engine[y]
        /\ DOMAIN session'.torrents = DOMAIN session.torrents
        /\ \A y \in DOMAIN session.torrents : y # req.id =>
              session'.torrents[y] = session.torrents[y]
    BY <1>2, UpdateFrame
  <2>. QED
    BY <2>1 DEF Asks, DesiredIn
<1>3. CASE PutTorrent
  <2>1. /\ step = "put" /\ UNCHANGED <<session, engine>>
        /\ \A y \in DOMAIN torrents.snaps : y # req.id => torrents'.snaps[y] = torrents.snaps[y]
    BY <1>3, PutFrame DEF PutTorrent, store
  <2>2. x \in DOMAIN torrents.snaps
    BY <1>1, <2>1 DEF ListInv, Asks, DesiredIn
  <2>. QED
    BY <2>1, <2>2
<1>4. CASE Verified \/ VerifyFails
  <2>1. UNCHANGED <<session, torrents>>
    BY <1>4 DEF Verified, VerifyFails, store
  <2>2. DOMAIN engine' = DOMAIN engine /\ \A y \in DOMAIN engine : y # req.id => engine'[y] = engine[y]
    BY <1>4 DEF Verified, VerifyFails
  <2>. QED
    BY <2>1, <2>2
<1>5. CASE RecordTorrent
  <2>1. /\ UNCHANGED <<torrents, engine>>
        /\ session'.torrents = MapSet(session.torrents, req.id, RecordOf(req))
    BY <1>5 DEF RecordTorrent, Save
  <2>. QED
    BY <2>1 DEF Asks, DesiredIn, MapSet
<1>6. CASE RecordTorrentFails \/ RemoveFromEngine
  <2>1. UNCHANGED <<session, torrents>>
    BY <1>6 DEF RecordTorrentFails, RemoveFromEngine, store
  <2>2. x \in DOMAIN engine' => x \in DOMAIN engine /\ engine'[x] = engine[x]
    BY <1>6 DEF RecordTorrentFails, RemoveFromEngine, MapDelete, Restrict
  <2>. QED
    BY <2>1, <2>2
<1>7. CASE AddInterrupted \/ RemoveNotUndone \/ RemoveUndone
  <2>1. torrents' = torrents
    BY <1>7 DEF AddInterrupted, RemoveNotUndone, RemoveUndone
  <2>2. DOMAIN engine' = DOMAIN engine /\ \A y \in DOMAIN engine : y # req.id => engine'[y] = engine[y]
    BY <1>7 DEF AddInterrupted, RemoveNotUndone, RemoveUndone, RemoveFails
  <2>3. session' = session \/ (step = "remove" /\ session' = previous)
    BY <1>7 DEF AddInterrupted, RemoveNotUndone, RemoveUndone, RemoveFails, Save, store
  <2>4. step = "remove" => DesiredIn(previous, x) = DesiredIn(session, x)
    BY <1>1 DEF AnswerInv, CopiesAgree
  <2>. QED
    BY <2>1, <2>2, <2>3, <2>4 DEF Asks
<1>8. CASE ForgetTorrent
  <2>1. step = "forget" /\ UNCHANGED <<session, engine>>
        /\ torrents'.snaps = MapDelete(torrents.snaps, req.id)
    BY <1>8 DEF ForgetTorrent, store
  <2>2. x \in DOMAIN torrents.snaps
    BY <1>1, <2>1 DEF ListInv, Asks, DesiredIn
  <2>. QED
    BY <2>1, <2>2 DEF MapDelete, Restrict
<1>9. CASE MoveSnapshot
  <2>1. torrents \in [order : Seq(TorrentID), snaps : Map(TorrentID, TorrentSnapshot)]
    BY DEF TypeInv, TypeOK
  <2>. QED
    BY <1>9, <2>1 DEF MoveSnapshot, store
<1>. QED
  BY <1>2, <1>3, <1>4, <1>5, <1>6, <1>7, <1>8, <1>9 DEF Continue

\* A handler that ends leaves its torrent paused if it should be.
LEMMA FinishedCalm ==
  ASSUME "save" \notin Faults, TypeInv, ListInv, PausedInv, Continue, ~cancelled,
         step' = "idle", NEW x, x = req.id, Asks(session', x)
  PROVE  Calm(x)'
<1>1. phase # "down" /\ RequestCalm /\ req \in Request
      /\ (SaveMayFail => req.method = "priority")
      /\ (step = "added" => req.method = "add") /\ (step = "remove" => req.method = "remove")
      /\ (step = "update" => req.method \in {"pause", "resume", "sequential", "priority"})
      /\ (step \in {"update", "verify"} => req.id \in DOMAIN engine)
  BY HandlerFrame DEF PausedInv, TypeInv, HandlerValid, SaveMayFail
<1>2. CASE UpdateRecord
  <2>1. step = "update" /\ req.method = "priority" /\ UNCHANGED <<torrents, engine>>
        /\ session' = UpdatedSession /\ req.id \in DOMAIN session.torrents
    BY <1>2 DEF UpdateRecord, Save
  <2>2. session.torrents[req.id] \in TorrentRecord /\ session \in SessionType
    BY <2>1, MapGet DEF TypeInv, TypeOK, SessionType
  <2>3. session'.torrents[req.id] = UpdatedRecord(session.torrents[req.id], req)
        /\ req.id \in DOMAIN session'.torrents
    BY <2>1, <2>2 DEF UpdatedSession, SessionType
  <2>4. UpdatedRecord(session.torrents[req.id], req).desired = session.torrents[req.id].desired
    BY <2>1, <2>2 DEF UpdatedRecord, TorrentRecord
  <2>5. Asks(session, req.id)
    BY <2>1, <2>3, <2>4 DEF Asks, DesiredIn
  <2>6. Calm(req.id)
    BY <1>1, <2>1, <2>5 DEF RequestCalm
  <2>. QED
    BY <2>1, <2>6 DEF Calm
<1>3. CASE UpdateRecordFails
  <2>1. CASE req.id \notin DOMAIN session.torrents
    <3>1. session' = session
      BY <1>3, <2>1 DEF UpdateRecordFails
    <3>. QED
      BY <2>1, <3>1 DEF Asks, DesiredIn
  <2>2. CASE req.id \in DOMAIN session.torrents
    <3>1. /\ step = "update" /\ req.method = "priority" /\ torrents' = torrents
          /\ session' = session \/ session' = UpdatedSession
          /\ engine' = [engine EXCEPT ![req.id] = Undone(engine[req.id], req)]
      BY <1>1, <1>3, <2>2 DEF UpdateRecordFails, SharedMapUpdate
    <3>2. session.torrents[req.id] \in TorrentRecord /\ session \in SessionType
      BY <2>2, MapGet DEF TypeInv, TypeOK, SessionType
    <3>3. session' = UpdatedSession =>
            /\ session'.torrents[req.id] = UpdatedRecord(session.torrents[req.id], req)
            /\ req.id \in DOMAIN session'.torrents
      BY <2>2, <3>2 DEF UpdatedSession, SessionType
    <3>4. UpdatedRecord(session.torrents[req.id], req).desired
            = session.torrents[req.id].desired
      BY <3>1, <3>2 DEF UpdatedRecord, TorrentRecord
    <3>5. Asks(session, req.id)
      BY <2>2, <3>1, <3>3, <3>4 DEF Asks, DesiredIn
    <3>6. Calm(req.id)
      BY <1>1, <3>1, <3>5 DEF RequestCalm
    <3>7. engine[req.id] \in TorrentEntry /\ req.id \in DOMAIN engine
      BY <1>1, <3>1, EntryType
    <3>8. Undone(engine[req.id], req).paused = engine[req.id].paused
      BY <3>1, <3>7, OptionsKeepPaused
    <3>. QED
      BY <3>1, <3>6, <3>7, <3>8 DEF Calm
  <2>. QED
    BY <2>1, <2>2
<1>4. CASE PutTorrent
  <2>1. step = "put" /\ UNCHANGED <<session, engine>> /\ torrents'.snaps[req.id] = FinalSnapshot
    BY <1>4, PutFrame DEF PutTorrent, store
  <2>. QED
    BY <1>1, <2>1 DEF RequestCalm, Calm
<1>5. CASE Verified \/ VerifyFails
  <2>1. step = "verify" /\ UNCHANGED <<session, torrents>>
    BY <1>5 DEF Verified, VerifyFails, store
  <2>2. Calm(req.id) /\ WasPaused
    BY <1>1, <2>1 DEF RequestCalm
  <2>3. engine[req.id] \in TorrentEntry /\ req.id \in DOMAIN engine
    BY <1>1, <2>1, EntryType
  <2>4. CASE Verified
    <3>1. PICK done \in BOOLEAN, stopped \in {WasPaused, WasPaused \/ cancelled} :
            engine' = [engine EXCEPT ![req.id].done = done,
                                     ![req.id].paused = @ /\ stopped]
      BY <2>4 DEF Verified
    <3>2. stopped = TRUE
      BY <2>2, <3>1 DEF WasPaused
    <3>3. engine'[req.id].paused = engine[req.id].paused
      BY <2>2, <2>3, <3>1, <3>2 DEF TorrentEntry, Calm
    <3>. QED
      BY <2>1, <2>2, <2>3, <3>3 DEF Calm
  <2>5. CASE VerifyFails
    <3>1. engine'[req.id].paused = (engine[req.id].paused /\ WasPaused)
      BY <2>3, <2>5 DEF VerifyFails, TorrentEntry
    <3>. QED
      BY <2>1, <2>2, <2>3, <3>1 DEF Calm
  <2>. QED
    BY <1>5, <2>4, <2>5
<1>6. CASE RecordTorrent \/ RecordTorrentFails \/ AddInterrupted \/ RemoveFromEngine
             \/ RemoveNotUndone
  BY <1>1, <1>6 DEF RecordTorrent, RecordTorrentFails, AddInterrupted, RemoveFromEngine,
                    RemoveNotUndone, RemoveFails
<1>7. CASE RemoveUndone
  <2>1. step = "remove" /\ session' = previous /\ torrents' = torrents
    BY <1>7 DEF RemoveUndone, RemoveFails, Save
  <2>2. Calm(req.id)
    BY <1>1, <2>1 DEF RequestCalm
  <2>3. DOMAIN engine' = DOMAIN engine
        /\ (req.id \in DOMAIN engine => engine'[req.id].paused = engine[req.id].paused)
    <3>1. req.id \in DOMAIN engine => engine[req.id] \in TorrentEntry
      BY EntryType
    <3>. QED
      BY <1>7, <3>1 DEF RemoveUndone, RemoveFails, TorrentEntry
  <2>. QED
    BY <2>1, <2>2, <2>3 DEF Calm
<1>8. CASE ForgetTorrent
  <2>1. step = "forget" /\ session' = session
    BY <1>8 DEF ForgetTorrent, store
  <2>2. req.id \notin DOMAIN session.torrents
    BY <1>1, <2>1 DEF ListInv
  <2>. QED
    BY <2>1, <2>2 DEF Asks, DesiredIn
<1>9. CASE MoveSnapshot
  <2>1. torrents \in [order : Seq(TorrentID), snaps : Map(TorrentID, TorrentSnapshot)]
    BY DEF TypeInv, TypeOK
  <2>2. step = "move" /\ UNCHANGED <<session, engine>> /\ torrents'.snaps = torrents.snaps
    BY <1>9, <2>1 DEF MoveSnapshot, store
  <2>. QED
    BY <1>1, <2>2 DEF RequestCalm, Calm
<1>. QED
  BY <1>2, <1>3, <1>4, <1>5, <1>6, <1>7, <1>8, <1>9 DEF Continue

\* A handler that has saved its record can put a paused snapshot if it should.
LEMMA SavedCalm ==
  ASSUME TypeInv, PausedInv, Continue, ~cancelled, step' = "put", Asks(session', req.id)
  PROVE  /\ req.id \in DOMAIN engine' => engine'[req.id].paused
         /\ FinalSnapshot'.state = "paused"
<1>1. /\ phase # "down" /\ RequestCalm /\ req \in Request /\ req' = req
      /\ step \in {"update", "added"} /\ got \in TorrentSnapshot
      /\ (step = "update" => req.method \in {"pause", "resume", "sequential", "priority"})
      /\ (step = "added" => req.method = "add")
      /\ req.id \in DOMAIN engine
  BY HandlerFrame DEF PausedInv, TypeInv, TypeOK, HandlerValid
<1>2. CASE step = "update"
  <2>1. UpdateRecord
    BY <1>2, UpdateFrame DEF Continue, PutTorrent, Verified, VerifyFails, RecordTorrent,
       RecordTorrentFails, AddInterrupted, RemoveFromEngine, RemoveUndone, RemoveNotUndone,
       RemoveFails, ForgetTorrent, MoveSnapshot
  <2>2. /\ req.method # "priority" /\ UNCHANGED <<torrents, engine, got>>
        /\ session' = UpdatedSession /\ req.id \in DOMAIN session.torrents
    BY <2>1 DEF UpdateRecord, Save, Finish
  <2>3. session.torrents[req.id] \in TorrentRecord /\ session \in SessionType
    BY <2>2, MapGet DEF TypeInv, TypeOK, SessionType
  <2>4. session'.torrents[req.id] = UpdatedRecord(session.torrents[req.id], req)
        /\ req.id \in DOMAIN session'.torrents
    BY <2>2, <2>3 DEF UpdatedSession, SessionType
  <2>5. UpdatedRecord(session.torrents[req.id], req).desired = "paused"
    BY <2>4 DEF Asks, DesiredIn
  <2>6. CASE req.method = "pause"
    BY <1>1, <1>2, <2>2, <2>6 DEF RequestCalm, FinalSnapshot, TorrentSnapshot
  <2>7. CASE req.method = "resume"
    BY <2>3, <2>5, <2>7 DEF UpdatedRecord, TorrentRecord
  <2>8. CASE req.method = "sequential"
    <3>1. session.torrents[req.id].desired = "paused"
      BY <2>3, <2>5, <2>8 DEF UpdatedRecord, TorrentRecord
    <3>2. Calm(req.id) /\ got.state = "paused"
      BY <1>1, <1>2, <2>2, <2>8, <3>1 DEF RequestCalm, Asks, DesiredIn
    <3>. QED
      BY <1>1, <2>2, <2>8, <3>2 DEF Calm, FinalSnapshot, TorrentSnapshot
  <2>. QED
    BY <1>1, <1>2, <2>2, <2>6, <2>7, <2>8
<1>3. CASE step = "added"
  <2>1. RecordTorrent
    BY <1>3 DEF Continue, UpdateRecord, UpdateRecordFails, PutTorrent, Verified, VerifyFails,
       RecordTorrentFails, AddInterrupted, RemoveFromEngine, RemoveUndone, RemoveNotUndone,
       RemoveFails, ForgetTorrent, MoveSnapshot, Finish
  <2>2. /\ got' = SnapshotOf(engine[req.id]) /\ engine' = engine
        /\ session'.torrents = MapSet(session.torrents, req.id, RecordOf(req))
    BY <2>1 DEF RecordTorrent, Save
  <2>3. req.paused = TRUE
    <3>1. RecordOf(req).desired = "paused"
      BY <2>2 DEF Asks, DesiredIn, MapSet
    <3>. QED
      BY <1>1, <1>3, <3>1, RequestFacts DEF RecordOf
  <2>4. engine[req.id].paused = TRUE
    BY <1>1, <1>3, <2>3 DEF RequestCalm
  <2>5. got'.state = "paused"
    BY <2>2, <2>4 DEF SnapshotOf
  <2>. QED
    BY <1>1, <1>3, <2>2, <2>4, <2>5 DEF FinalSnapshot
<1>. QED
  BY <1>1, <1>2, <1>3

\* The handlers keep PausedInv.
LEMMA ContinueKeepsPaused ==
  ASSUME "save" \notin Faults, TypeInv, ListInv, AnswerInv, PausedInv, Continue
  PROVE  PausedInv'
<1>1. /\ step \notin {"restore", "pass", "idle"} /\ step' \in {"idle", "put", "forget"}
      /\ phase # "down" /\ phase' = phase /\ cancelled' = cancelled /\ todo' = todo
      /\ step' \in {"put", "forget"} => req' = req
      /\ req \in Request /\ req # NoRequest
  BY HandlerFrame, RequestFacts DEF RemoveFromEngine
<1>2. lost' = {}
  BY DEF PausedInv, Continue, UpdateRecord, UpdateRecordFails, PutTorrent, Verified,
     VerifyFails, RecordTorrent, RecordTorrentFails, AddInterrupted, RemoveFromEngine,
     RemoveUndone, RemoveNotUndone, RemoveFails, ForgetTorrent, MoveSnapshot, SaveMayFail,
     history, TypeInv, HandlerValid
<1>3. SUFFICES ASSUME ~cancelled PROVE OthersCalm' /\ RequestCalm'
  BY <1>1, <1>2 DEF PausedInv
<1>4. OthersCalm'
  <2>. SUFFICES ASSUME NEW x \in TorrentID, Asks(session', x), ~InFlight(x)',
                       ~(phase = "starting" /\ x \in Range(todo))
                PROVE  Calm(x)'
    BY <1>1 DEF OthersCalm
  <2>1. CASE x = req.id
    <3>1. step' = "idle"
      BY <1>1, <2>1 DEF InFlight
    <3>. QED
      BY <1>3, <2>1, <3>1, FinishedCalm
  <2>2. CASE x # req.id
    <3>1. /\ Asks(session, x)
          /\ torrents'.snaps[x] = torrents.snaps[x]
          /\ x \in DOMAIN engine' => x \in DOMAIN engine /\ engine'[x].paused = engine[x].paused
      BY <2>2, ContinueSparesOthers
    <3>2. Calm(x)
      BY <1>1, <1>3, <2>2, <3>1 DEF PausedInv, OthersCalm, InFlight
    <3>. QED
      BY <3>1, <3>2, CalmKept
  <2>. QED
    BY <2>1, <2>2
<1>5. RequestCalm'
  <2>1. CASE step' = "put"
    BY <1>1, <1>3, <2>1, SavedCalm DEF RequestCalm
  <2>2. CASE step' # "put"
    BY <1>1, <2>2 DEF RequestCalm
  <2>. QED
    BY <2>1, <2>2
<1>. QED
  BY <1>4, <1>5

\* A request that arrives finds every torrent that should be paused calm.
LEMMA ArrivalKeepsPaused ==
  ASSUME TypeInv, PausedInv, NEW r \in Requests,
         \/ ApplyDesired(r) \/ ApplySequential(r) \/ ApplyPriority(r) \/ StartVerify(r)
         \/ AddToEngine(r) \/ RemoveRecord(r) \/ MoveRecord(r)
  PROVE  PausedInv'
<1>1. /\ step = "idle" /\ req = NoRequest /\ req' = r /\ r \in Request /\ r.id \in TorrentID
      /\ phase = "serving" /\ phase' = phase /\ cancelled' = cancelled /\ lost' = lost
      /\ torrents' = torrents
      /\ step' \in {"update", "verify"} => session' = session
      /\ \/ AddToEngine(r) /\ step' = "added"
         \/ RemoveRecord(r) /\ step' = "remove"
         \/ MoveRecord(r) /\ step' = "move"
         \/ /\ step' \in {"update", "verify"} /\ DOMAIN engine' = DOMAIN engine
            /\ \A x \in DOMAIN engine : x # r.id => engine'[x] = engine[x]
  BY ArrivalFrame
<1>2. SUFFICES ASSUME ~cancelled PROVE OthersCalm' /\ RequestCalm'
  BY <1>1 DEF PausedInv
<1>3. \A x \in TorrentID : Asks(session, x) => Calm(x)
  BY <1>1, <1>2 DEF PausedInv, OthersCalm, InFlight
<1>4. session \in SessionType
  BY DEF TypeInv, TypeOK
<1>5. \A x \in TorrentID : x # r.id =>
        /\ Asks(session', x) => Asks(session, x)
        /\ x \in DOMAIN engine' => x \in DOMAIN engine /\ engine'[x].paused = engine[x].paused
  <2>1. CASE step' \in {"update", "verify"} /\ DOMAIN engine' = DOMAIN engine
             /\ \A x \in DOMAIN engine : x # r.id => engine'[x] = engine[x]
    BY <1>1, <2>1
  <2>2. CASE AddToEngine(r)
    BY <2>2 DEF AddToEngine, store, MapSet
  <2>3. CASE RemoveRecord(r)
    BY <2>3 DEF RemoveRecord, Save, MapDelete, Restrict, Asks, DesiredIn
  <2>4. CASE MoveRecord(r)
    BY <1>4, <2>4 DEF MoveRecord, Save, SessionType, Asks, DesiredIn
  <2>. QED
    BY <1>1, <2>1, <2>2, <2>3, <2>4
<1>6. OthersCalm'
  <2>. SUFFICES ASSUME NEW x \in TorrentID, x # r.id, Asks(session', x) PROVE Calm(x)'
    BY <1>1, RequestFacts DEF OthersCalm, InFlight
  <2>. QED
    BY <1>1, <1>3, <1>5, CalmKept
<1>7. RequestCalm'
  <2>1. CASE ApplyDesired(r)
    <3>1. /\ step' = "update" /\ r.method \in {"pause", "resume"} /\ r.id \in DOMAIN engine
          /\ engine' = [engine EXCEPT ![r.id] = Applied(@, r)]
      BY <2>1 DEF ApplyDesired, Finds, CanCall
    <3>2. r.method = "pause" => engine'[r.id].paused
      <4>1. engine[r.id] \in TorrentEntry
        BY <3>1, EntryType
      <4>. QED
        BY <3>1, <4>1 DEF Applied, TorrentEntry
    <3>. QED
      BY <1>1, <3>1, <3>2 DEF RequestCalm
  <2>2. CASE ApplySequential(r) \/ ApplyPriority(r)
    <3>1. /\ step' = "update" /\ r.method \in {"sequential", "priority"}
          /\ r.id \in DOMAIN engine /\ session' = session
          /\ engine' = [engine EXCEPT ![r.id] = Applied(@, r)]
          /\ r.method = "sequential" => got' = torrents.snaps[r.id]
      BY <2>2 DEF ApplySequential, ApplyPriority, Finds, CanCall, store
    <3>2. engine'[r.id].paused = engine[r.id].paused /\ DOMAIN engine' = DOMAIN engine
      <4>1. engine[r.id] \in TorrentEntry
        BY <3>1, EntryType
      <4>. QED
        BY <3>1, <4>1, OptionsKeepPaused
    <3>3. Asks(session, r.id) => engine'[r.id].paused /\ torrents.snaps[r.id].state = "paused"
      BY <1>1, <1>3, <3>1, <3>2 DEF Calm
    <3>. QED
      BY <1>1, <3>1, <3>2, <3>3 DEF RequestCalm, Calm
  <2>3. CASE StartVerify(r)
    <3>1. /\ step' = "verify" /\ session' = session /\ got' = torrents.snaps[r.id]
          /\ r.id \in DOMAIN engine /\ (WasPaused' => engine' = engine)
      BY <2>3 DEF StartVerify, Finds, CanCall, store
    <3>2. Asks(session, r.id) => engine[r.id].paused /\ torrents.snaps[r.id].state = "paused"
      BY <1>1, <1>3, <3>1 DEF Calm
    <3>. QED
      BY <1>1, <3>1, <3>2 DEF RequestCalm, Calm, WasPaused
  <2>4. CASE AddToEngine(r)
    <3>1. step' = "added" /\ engine'[r.id].paused = r.paused
      BY <2>4 DEF AddToEngine, MapSet, NewEntry
    <3>. QED
      BY <1>1, <3>1 DEF RequestCalm
  <2>5. CASE RemoveRecord(r)
    <3>1. step' = "remove" /\ previous' = session /\ engine' = engine
      BY <2>5 DEF RemoveRecord
    <3>. QED
      BY <1>1, <1>3, <3>1 DEF RequestCalm, Calm
  <2>6. CASE MoveRecord(r)
    <3>1. step' = "move" /\ engine' = engine /\ session'.torrents = session.torrents
      BY <1>4, <2>6 DEF MoveRecord, Save, SessionType
    <3>. QED
      BY <1>1, <1>3, <3>1 DEF RequestCalm, Calm, Asks, DesiredIn
  <2>. QED
    BY <2>1, <2>2, <2>3, <2>4, <2>5, <2>6
<1>. QED
  BY <1>6, <1>7

\* Until the daemon listens, its cache is right also where storage does not close.
FirstCacheInv ==
  /\ phase = "down" => DOMAIN scheduled = {}
  /\ phase = "starting" => /\ step \in {"restore", "pass"}
                           /\ step = "restore" => DOMAIN scheduled = {}
                           /\ ScheduleCacheRight

\* FirstCacheInv is inductive.
LEMMA StepKeepsFirstCache == TypeInv /\ FirstCacheInv /\ [Next]_vars => FirstCacheInv'
<1> SUFFICES ASSUME TypeInv, FirstCacheInv, [Next]_vars PROVE FirstCacheInv'
  OBVIOUS
<1>1. phase # "serving" => CacheInv /\ (phase = "down" \/ phase = "starting")
  BY DEF FirstCacheInv, CacheInv, Unscheduled, ScheduleCacheRight, TypeInv, TypeOK,
         HandlerValid
<1>2. CacheInv' /\ (phase' = "starting" => step' \in {"restore", "pass"}) => FirstCacheInv'
  BY DEF CacheInv, Unscheduled, FirstCacheInv
<1>3. phase' = "serving" => FirstCacheInv'
  BY DEF FirstCacheInv
<1>4. CASE Restoration
  <2>1. /\ phase' = phase \/ phase' = "serving"
        /\ phase' # "serving" => step' \in {"restore", "pass"}
    BY <1>4 DEF Restoration, Restore, RestoreFails, RestoreOther, Restoring, Restored, life,
                TypeInv, HandlerValid
  <2>. QED
    BY <1>1, <1>2, <1>3, <1>4, <2>1, RestorationKeepsCache
<1>5. CASE Pass
  <2>1. phase' = "serving" \/ (phase' = phase /\ step' = "pass")
    BY <1>5, VisitFrame DEF Pass, StartPass, EndPass, life
  <2>. QED
    BY <1>1, <1>2, <1>3, <1>5, <2>1, PassKeepsCache
<1>6. CASE Continue \/ Arrival
  <2>1. phase' = phase /\ phase # "down" /\ step \notin {"restore", "pass"}
    BY <1>6, HandlerFrame, ArrivalFrame DEF Arrival, TypeInv, HandlerValid
  <2>. QED
    BY <1>1, <1>3, <2>1 DEF FirstCacheInv
<1>7. CASE Environment
  <2>1. CASE GoDown
    BY <2>1 DEF GoDown, Nothing, FirstCacheInv
  <2>2. CASE Start
    <3>1. phase = "down" /\ step' = "restore"
      BY <2>2 DEF Start
    <3>. QED
      BY <1>1, <1>2, <1>7, <3>1, EnvironmentKeepsCache
  <2>3. CASE UNCHANGED <<phase, step>>
    BY <1>1, <1>2, <1>3, <1>7, <2>3, EnvironmentKeepsCache DEF FirstCacheInv
  <2>. QED
    BY <1>7, <2>1, <2>2, <2>3, EnvironmentFrame
<1>8. CASE UNCHANGED vars
  BY <1>8 DEF vars, FirstCacheInv, ScheduleCacheRight
<1>. QED
  BY <1>4, <1>5, <1>6, <1>7, <1>8 DEF Next, Server

\* A pass leaves the torrents it has visited paused if they should be, and its
\* visits to others leave them so.
LEMMA VisitKeepsPaused ==
  ASSUME TypeInv, FirstCacheInv, ListInv, PausedInv, NEW id \in TorrentID,
         PassSkips(id) \/ PassPauses(id) \/ PassQueues(id) \/ PassRuns(id) \/ PassCannotRun(id)
  PROVE  PausedInv'
<1>1. /\ step = "pass" /\ step' = "pass" /\ todo # <<>> /\ id = Head(todo)
      /\ todo' = Tail(todo) /\ id \in DOMAIN torrents.snaps /\ todo \in Seq(TorrentID)
      /\ \A x \in DOMAIN torrents.snaps : x # id => torrents'.snaps[x] = torrents.snaps[x]
      /\ DOMAIN engine' = DOMAIN engine
      /\ \A x \in DOMAIN engine : x # id => engine'[x] = engine[x]
      /\ UNCHANGED <<session, phase, cancelled, req, lost>>
  BY VisitFrame DEF TypeInv, TypeOK
<1>2. SUFFICES ASSUME phase # "down", ~cancelled PROVE OthersCalm'
  BY <1>1 DEF PausedInv, RequestCalm
<1>3. SUFFICES ASSUME NEW x \in TorrentID, Asks(session, x), ~InFlight(x),
                      ~(phase = "starting" /\ x \in Range(todo'))
               PROVE  Calm(x)'
  BY <1>1 DEF OthersCalm, Asks, InFlight
<1>4. CASE x = id
  <2>1. PassPauses(id)
    BY <1>3, <1>4 DEF Asks, DesiredIn, PassSkips, PassQueues, PassRuns, PassCannotRun
  <2>2. PutSnapshot(id, [Fresh(id) EXCEPT !.state = "paused"])
    BY <1>2, <2>1 DEF PassPauses, Stop, PutOrGiveUp
  <2>3. id \in DOMAIN engine => engine'[id].paused
    <3>1. CASE SetScheduled(id, FALSE)
      BY <3>1, ScheduledFrame
    <3>2. CASE KeepScheduled(id, FALSE) /\ phase = "starting"
      BY <1>2, <3>2 DEF KeepScheduled, CachedAs, CanCall, FirstCacheInv, ScheduleCacheRight
    <3>3. CASE KeepScheduled(id, FALSE) /\ phase # "starting"
      BY <1>1, <1>2, <1>3, <1>4, <3>3 DEF KeepScheduled, PausedInv, OthersCalm, Calm
    <3>. QED
      BY <2>1, <3>1, <3>2, <3>3 DEF PassPauses, Stop
  <2>4. Fresh(id) \in TorrentSnapshot
    <3>1. engine' \in Map(TorrentID, TorrentEntry)
      BY <2>1, ScheduledGood DEF PassPauses, Stop
    <3>. QED
      BY <1>1, <3>1, FreshGood
  <2>5. torrents'.snaps[id].state = "paused"
    BY <2>2, <2>4, PutFrame DEF TorrentSnapshot
  <2>. QED
    BY <1>1, <1>4, <2>3, <2>5 DEF Calm
<1>5. CASE x # id
  <2>1. ~(phase = "starting" /\ x \in Range(todo))
    BY <1>1, <1>3, <1>5, HeadAndTail
  <2>2. Calm(x)
    BY <1>1, <1>2, <1>3, <2>1 DEF PausedInv, OthersCalm
  <2>3. x \in DOMAIN torrents.snaps
    BY <1>1, <1>2, <1>3 DEF ListInv, Asks, DesiredIn
  <2>. QED
    BY <1>1, <1>5, <2>2, <2>3, CalmKept
<1>. QED
  BY <1>4, <1>5

\* PausedInv is inductive when saving does not fail.
LEMMA StepKeepsPaused ==
  /\ "save" \notin Faults
  /\ TypeInv /\ FirstCacheInv /\ AnswerInv /\ ListInv /\ PausedInv /\ [Next]_vars
  => PausedInv'
<1> SUFFICES ASSUME "save" \notin Faults, TypeInv, FirstCacheInv, AnswerInv, ListInv,
                    PausedInv, [Next]_vars
             PROVE  PausedInv'
  OBVIOUS
<1>1. ASSUME NEW id \in TorrentID, Restore(id) \/ RestoreFails(id) \/ RestoreOther(id)
      PROVE  PausedInv'
  <2>1. step = "restore" /\ step' = "restore" /\ phase' = phase /\ lost' = lost
    BY <1>1, RestoreFrame
  <2>. QED
    BY <2>1 DEF PausedInv, OthersCalm, RequestCalm
<1>2. CASE Restored
  <2>1. /\ step = "restore" /\ todo = <<>> /\ phase # "serving" /\ lost' = lost
        /\ cancelled' = cancelled /\ UNCHANGED <<session, req>>
        /\ \/ step' = "pass" /\ todo' = torrents.order /\ phase' = phase
           \/ step' = "idle" /\ cancelled
    BY <1>2 DEF Restored, store, history, PausedInv
  <2>2. Range(torrents.order) = DOMAIN torrents.snaps /\ phase \in {"starting", "down", "serving"}
    BY DEF TypeInv, TypeOK, ActorValid, Lists
  <2>3. phase = "starting"
    BY <2>1, <2>2 DEF TypeInv, HandlerValid
  <2>4. DOMAIN session.torrents \subseteq DOMAIN torrents.snaps
    <3>1. Range(todo) = {}
      BY <2>1 DEF Range
    <3>. QED
      BY <2>1, <2>3, <3>1 DEF ListInv
  <2>5. CASE step' = "pass" /\ todo' = torrents.order /\ phase' = phase
    BY <2>1, <2>2, <2>3, <2>4, <2>5 DEF PausedInv, OthersCalm, RequestCalm, Asks, DesiredIn
  <2>6. CASE step' = "idle" /\ cancelled
    BY <2>1, <2>6 DEF PausedInv
  <2>. QED
    BY <2>1, <2>5, <2>6
<1>3. CASE StartPass \/ EndPass
  <2>1. /\ step \in {"idle", "pass"} /\ step' \in {"idle", "pass"}
        /\ phase # "down" /\ phase' = "serving"
        /\ phase = "serving" \/ todo = <<>>
        /\ UNCHANGED <<session, torrents, engine, cancelled, req, lost>>
    BY <1>3 DEF StartPass, EndPass, store, life, history, TypeInv, HandlerValid
  <2>2. todo = <<>> => Range(todo) = {}
    BY DEF Range
  <2>. QED
    BY <2>1, <2>2 DEF PausedInv, OthersCalm, RequestCalm, Asks, Calm, InFlight
<1>4. CASE Environment
  <2>1. CASE GoDown
    BY <2>1 DEF GoDown, Finish, PausedInv
  <2>2. CASE Start
    BY <2>2 DEF Start, history, PausedInv, OthersCalm, RequestCalm
  <2>3. CASE /\ DOMAIN engine' = DOMAIN engine
             /\ \A x \in DOMAIN engine : engine'[x].paused = engine[x].paused
             /\ cancelled => cancelled'
             /\ UNCHANGED <<session, torrents, phase, step, req, got, previous, todo, lost>>
    <3>1. \A x : Calm(x)' <=> Calm(x)
      BY <2>3 DEF Calm
    <3>2. OthersCalm' <=> OthersCalm
      BY <2>3, <3>1 DEF OthersCalm, Asks, InFlight
    <3>3. /\ req' = req /\ step' = step /\ got' = got
          /\ session' = session /\ previous' = previous
          /\ FinalSnapshot' = FinalSnapshot /\ WasPaused' = WasPaused
      BY <2>3 DEF FinalSnapshot, WasPaused
    <3>4. Calm(req.id)' <=> Calm(req.id)
      BY <2>3, <3>1 DEF Calm
    <3>5. step \in {"update", "added"} => req.id \in DOMAIN engine
      BY DEF TypeInv, HandlerValid
    <3>6. RequestCalm => RequestCalm'
      BY <2>3, <3>3, <3>4, <3>5 DEF RequestCalm, Asks
    <3>. QED
      BY <2>3, <3>2, <3>6 DEF PausedInv
  <2>. QED
    BY <1>4, <2>1, <2>2, <2>3, EnvironmentFrame
<1>5. CASE UNCHANGED vars
  BY <1>5 DEF vars, PausedInv, OthersCalm, RequestCalm, Asks, Calm, InFlight, WasPaused,
              FinalSnapshot
<1>. QED
  BY <1>1, <1>2, <1>3, <1>4, <1>5, VisitKeepsPaused, ContinueKeepsPaused, ArrivalKeepsPaused
  DEF Next, Server, Restoration, Pass, Arrival

\* As long as session.json can be written, a torrent whose pause was answered
\* stays paused in the engine while the daemon serves, whatever restarts, failed
\* restores, passes, checks, moves and refused removals come in between, and
\* also when storage does not close.
THEOREM PausesKept ==
  ASSUME "save" \notin Faults
  PROVE  Spec => []PausedStaysPaused
<1>1. Init => PausedInv
  BY DEF Init, PausedInv
<1>2. Init => FirstCacheInv
  BY DEF Init, Nothing, FirstCacheInv
<1>3. TypeInv /\ FirstCacheInv /\ AnswerInv /\ ListInv /\ PausedInv /\ [Next]_vars
        => PausedInv'
  BY StepKeepsPaused
<1>4. TypeInv /\ AnswerInv /\ PausedInv => PausedStaysPaused
  <2> SUFFICES ASSUME TypeInv, AnswerInv, PausedInv, phase = "serving", ~cancelled,
                      NEW id \in DOMAIN engine, acked[id] = "paused", ~InFlight(id)
               PROVE  engine[id].paused \/ engine[id].dropped
    BY DEF PausedStaysPaused
  <2>1. id \in TorrentID
    BY MapGet DEF TypeInv, TypeOK
  <2>2. DesiredIn(session, id) = "paused"
    BY <2>1 DEF AnswerInv, AnswersAreDurable, CopiesAgree, PausedInv
  <2>3. Calm(id)
    BY <2>1, <2>2 DEF PausedInv, OthersCalm, Asks
  <2>. QED
    BY <2>3 DEF Calm
<1>. QED
  BY <1>1, <1>2, <1>3, <1>4, TypesHold, AnswersHold, ListHolds, StepKeepsFirstCache, PTL
  DEF Spec
-----------------------------------------------------------------------------
(* The restore meets no torrent that the engine has *)

\* A torrent still to be restored is not in the engine, as long as no source
\* becomes another torrent.
FreshInv ==
  /\ phase = "down" => DOMAIN engine = {}
  /\ step = "restore" => IsInjective(todo) /\ DOMAIN engine \cap Range(todo) = {}

\* A restore puts its torrent into the engine with its record's options, or
\* leaves it out; a daemon that was told to stop may do the first and show an error.
LEMMA RestoreAdds ==
  ASSUME "drift" \notin Faults, TypeInv, FreshInv,
         NEW id \in TorrentID, Restore(id) \/ RestoreFails(id) \/ RestoreOther(id)
  PROVE  /\ id \notin DOMAIN engine
         /\ \/ engine' = engine
            \/ /\ DOMAIN engine' = DOMAIN engine \cup {id}
               /\ engine'[id].sequential = session.torrents[id].sequential
               /\ engine'[id].priorities = session.torrents[id].priorities
               /\ \A x \in DOMAIN engine : engine'[x] = engine[x]
               /\ ~cancelled =>
                    torrents'.snaps[id].sequential = session.torrents[id].sequential
<1>1. /\ step = "restore" /\ todo # <<>> /\ id = Head(todo) /\ todo \in Seq(TorrentID)
  BY RestoreFrame DEF TypeInv, TypeOK
<1>2. id \in Range(todo)
  BY <1>1, TailKnown
<1>3. id \notin DOMAIN engine
  BY <1>1, <1>2 DEF FreshInv
<1>4. ASSUME AddRestored(id)
      PROVE  /\ engine'[id].sequential = session.torrents[id].sequential
             /\ engine'[id].priorities = session.torrents[id].priorities
             /\ DOMAIN engine' = DOMAIN engine \cup {id}
             /\ \A x \in DOMAIN engine : engine'[x] = engine[x]
  <2>1. PICK info \in MetadataAtAdd :
          engine' = MapSet(engine, id,
                           NewEntry(session.torrents[id].desired = "paused",
                                    session.torrents[id].sequential,
                                    session.torrents[id].priorities, info))
    BY <1>3, <1>4 DEF AddRestored
  <2>. QED
    BY <1>3, <2>1 DEF MapSet, NewEntry
<1>5. CASE Restore(id)
  <2>1. AddRestored(id) /\ PutSnapshot(id, SnapshotOf(engine'[id]))
    BY <1>5 DEF Restore
  <2>2. torrents'.snaps[id] = SnapshotOf(engine'[id])
    BY <2>1 DEF PutSnapshot, MapSet
  <2>3. torrents'.snaps[id].sequential = engine'[id].sequential
    BY <2>2 DEF SnapshotOf
  <2>. QED
    BY <1>3, <1>4, <2>1, <2>3
<1>6. CASE RestoreFails(id)
  BY <1>3, <1>4, <1>6 DEF RestoreFails
<1>7. CASE RestoreOther(id)
  BY <1>7 DEF RestoreOther
<1>. QED
  BY <1>5, <1>6, <1>7

\* FreshInv is inductive when no source becomes another torrent.
LEMMA StepKeepsFresh ==
  "drift" \notin Faults /\ TypeInv /\ FreshInv /\ [Next]_vars => FreshInv'
<1> SUFFICES ASSUME "drift" \notin Faults, TypeInv, FreshInv, [Next]_vars
             PROVE  FreshInv'
  OBVIOUS
<1>1. ASSUME NEW id \in TorrentID, Restore(id) \/ RestoreFails(id) \/ RestoreOther(id)
      PROVE  FreshInv'
  <2>1. /\ step = "restore" /\ step' = "restore" /\ id = Head(todo) /\ todo' = Tail(todo)
        /\ todo # <<>> /\ todo \in Seq(TorrentID) /\ phase # "down" /\ phase' = phase
    BY <1>1, RestoreFrame DEF TypeInv, TypeOK, HandlerValid
  <2>2. IsInjective(todo) /\ DOMAIN engine \cap Range(todo) = {}
    BY <2>1 DEF FreshInv
  <2>3. IsInjective(todo') /\ Range(todo') = Range(todo) \ {id}
    BY <2>1, <2>2, TailDropsHead
  <2>4. DOMAIN engine' \subseteq DOMAIN engine \cup {id}
    BY <1>1, RestoreAdds
  <2>. QED
    BY <2>1, <2>2, <2>3, <2>4 DEF FreshInv
<1>2. CASE Restored \/ StartPass \/ EndPass
  BY <1>2 DEF Restored, StartPass, EndPass, life, TypeInv, HandlerValid, FreshInv
<1>3. ASSUME NEW id \in TorrentID,
             PassSkips(id) \/ PassPauses(id) \/ PassQueues(id) \/ PassRuns(id)
               \/ PassCannotRun(id)
      PROVE  FreshInv'
  <2>1. step = "pass" /\ step' = "pass" /\ phase' = phase /\ phase # "down"
    BY <1>3, VisitFrame DEF TypeInv, HandlerValid
  <2>. QED
    BY <2>1 DEF FreshInv
<1>4. ASSUME NEW r \in Requests,
             \/ ApplyDesired(r) \/ ApplySequential(r) \/ ApplyPriority(r) \/ StartVerify(r)
             \/ AddToEngine(r) \/ RemoveRecord(r) \/ MoveRecord(r)
      PROVE  FreshInv'
  <2>1. phase = "serving" /\ phase' = phase
        /\ step' \in {"added", "remove", "move", "update", "verify"}
    BY <1>4, ArrivalFrame
  <2>. QED
    BY <2>1 DEF FreshInv
<1>5. CASE Continue
  <2>1. phase # "down" /\ phase' = phase /\ step' \in {"idle", "put", "forget"}
    BY <1>5, HandlerFrame
  <2>. QED
    BY <2>1 DEF FreshInv
<1>6. CASE Environment
  <2>1. CASE GoDown
    BY <2>1 DEF GoDown, Finish, FreshInv, Nothing
  <2>2. CASE Start
    <3>1. /\ phase = "down" /\ phase' = "starting" /\ engine' = engine /\ todo' = disk.order
      BY <2>2 DEF Start
    <3>2. IsInjective(disk.order)
      BY DEF TypeInv, SessionsValid, Valid
    <3>. QED
      BY <3>1, <3>2 DEF FreshInv
  <2>3. CASE UNCHANGED <<phase, step, todo>> /\ DOMAIN engine' = DOMAIN engine
    BY <2>3 DEF FreshInv
  <2>. QED
    BY <1>6, <2>1, <2>2, <2>3, EnvironmentFrame
<1>7. CASE UNCHANGED vars
  BY <1>7 DEF vars, FreshInv
<1>. QED
  BY <1>1, <1>2, <1>3, <1>4, <1>5, <1>6, <1>7
  DEF Next, Server, Restoration, Pass, Arrival

\* No restore ever finds its torrent in the engine already.
LEMMA RestoresAreNew ==
  ASSUME "drift" \notin Faults
  PROVE  Spec => []FreshInv
<1>1. Init => FreshInv
  BY DEF Init, FreshInv, Nothing
<1>. QED
  BY <1>1, StepKeepsFresh, TypesHold, PTL DEF Spec
-----------------------------------------------------------------------------
(* Options *)

\* No torrent's options change in the engine, nor whether it is bare, and none
\* comes or ceases to be stray.
OptionsKept ==
  \A x \in DOMAIN engine' : /\ x \in DOMAIN engine
                            /\ engine'[x].sequential = engine[x].sequential
                            /\ engine'[x].priorities = engine[x].priorities
                            /\ engine'[x].bare = engine[x].bare
                            /\ engine[x].stray => engine'[x].stray

\* What a request makes of the options of its torrent.
LEMMA AppliedOptions ==
  ASSUME NEW e \in TorrentEntry, NEW r \in Request,
         r.method \in {"pause", "resume", "sequential", "priority"}
  PROVE  /\ Applied(e, r).sequential
              = IF r.method = "sequential" THEN r.enabled ELSE e.sequential
         /\ Applied(e, r).priorities
              = IF r.method = "priority" THEN MapSet(e.priorities, r.file, r.priority)
                                         ELSE e.priorities
<1>1. CASE r.method \in {"pause", "resume"}
  BY <1>1 DEF Applied, TorrentEntry
<1>2. CASE r.method = "sequential"
  BY <1>2 DEF Applied, WithSequential, TorrentEntry
<1>3. CASE r.method = "priority"
  BY <1>3 DEF Applied, WithPriority, TorrentEntry
<1>. QED
  BY <1>1, <1>2, <1>3

\* What undoing it makes of them.
LEMMA UndoneOptions ==
  ASSUME NEW e \in TorrentEntry, NEW r \in Request,
         r.method \in {"pause", "resume", "sequential", "priority"}
  PROVE  /\ Undone(e, r).sequential
              = IF r.method = "sequential" THEN got.sequential ELSE e.sequential
         /\ Undone(e, r).priorities
              = IF r.method = "priority" THEN MapSet(e.priorities, r.file, SavedPriority(r))
                                         ELSE e.priorities
<1>1. CASE r.method \in {"pause", "resume"}
  BY <1>1 DEF Undone, TorrentEntry
<1>2. CASE r.method = "sequential"
  BY <1>2 DEF Undone, WithSequential, TorrentEntry
<1>3. CASE r.method = "priority"
  BY <1>3 DEF Undone, WithPriority, TorrentEntry
<1>. QED
  BY <1>1, <1>2, <1>3

\* What the request's record becomes.
LEMMA UpdatedOptions ==
  ASSUME NEW record \in TorrentRecord, NEW r \in Request,
         r.method \in {"pause", "resume", "sequential", "priority"}
  PROVE  /\ UpdatedRecord(record, r).sequential
              = IF r.method = "sequential" THEN r.enabled ELSE record.sequential
         /\ UpdatedRecord(record, r).priorities
              = IF r.method = "priority" THEN MapSet(record.priorities, r.file, r.priority)
                                         ELSE record.priorities
<1>1. CASE r.method \in {"pause", "resume"}
  BY <1>1 DEF UpdatedRecord, TorrentRecord
<1>2. CASE r.method = "sequential"
  BY <1>2 DEF UpdatedRecord, TorrentRecord
<1>3. CASE r.method = "priority"
  BY <1>3 DEF UpdatedRecord, TorrentRecord
<1>. QED
  BY <1>1, <1>2, <1>3

\* A record of the session.
LEMMA RecordType ==
  ASSUME TypeInv, NEW id \in DOMAIN session.torrents
  PROVE  session.torrents[id] \in TorrentRecord /\ id \in TorrentID
<1>1. session.torrents \in Map(TorrentID, TorrentRecord)
  BY DEF TypeInv, TypeOK, SessionType
<1>. QED
  BY <1>1, MapGet

\* The session with the request's record updated.
LEMMA UpdatedRecords ==
  ASSUME TypeInv, req.id \in DOMAIN session.torrents
  PROVE  /\ DOMAIN UpdatedSession.torrents = DOMAIN session.torrents
         /\ UpdatedSession.torrents[req.id] = UpdatedRecord(session.torrents[req.id], req)
         /\ \A x \in DOMAIN session.torrents : x # req.id =>
              UpdatedSession.torrents[x] = session.torrents[x]
<1>1. session \in SessionType
  BY DEF TypeInv, TypeOK
<1>. QED
  BY <1>1 DEF UpdatedSession, SessionType

\* Apart from undoing a change of options, handlers keep the engine's options.
LEMMA ContinueKeepsOptions ==
  ASSUME TypeInv, Continue, ~UpdateRecordFails
  PROVE  OptionsKept
<1>1. ASSUME engine' = engine PROVE OptionsKept
  BY <1>1 DEF OptionsKept
<1>2. CASE UpdateRecord \/ PutTorrent \/ RecordTorrent \/ AddInterrupted \/ ForgetTorrent
             \/ MoveSnapshot
  BY <1>1, <1>2 DEF UpdateRecord, PutTorrent, RecordTorrent, AddInterrupted, ForgetTorrent,
                    MoveSnapshot
<1>3. CASE Verified \/ VerifyFails
  <2>1. req.id \in DOMAIN engine /\ engine[req.id] \in TorrentEntry
    <3>1. req.id \in DOMAIN engine
      BY <1>3 DEF Verified, VerifyFails, TypeInv, HandlerValid
    <3>. QED
      BY <3>1, EntryType
  <2>2. CASE Verified
    <3>1. PICK done \in BOOLEAN, stopped \in {WasPaused, WasPaused \/ cancelled} :
            engine' = [engine EXCEPT ![req.id].done = done,
                                     ![req.id].paused = @ /\ stopped]
      BY <2>2 DEF Verified
    <3>. QED
      BY <2>1, <3>1 DEF OptionsKept, TorrentEntry
  <2>3. CASE VerifyFails
    BY <2>1, <2>3 DEF VerifyFails, OptionsKept, TorrentEntry
  <2>. QED
    BY <1>3, <2>2, <2>3
<1>4. CASE RecordTorrentFails \/ RemoveFromEngine
  <2>1. \/ engine' = MapDelete(engine, req.id)
        \/ /\ step = "added"
           /\ engine' = [engine EXCEPT ![req.id].dropped = TRUE, ![req.id].stray = TRUE]
    BY <1>4 DEF RecordTorrentFails, RemoveFromEngine
  <2>2. CASE engine' = MapDelete(engine, req.id)
    BY <2>2 DEF MapDelete, Restrict, OptionsKept
  <2>3. CASE /\ step = "added"
             /\ engine' = [engine EXCEPT ![req.id].dropped = TRUE, ![req.id].stray = TRUE]
    <3>1. req.id \in DOMAIN engine
      BY <2>3 DEF TypeInv, HandlerValid
    <3>2. engine[req.id] \in TorrentEntry
      BY <3>1, EntryType
    <3>. QED
      BY <2>3, <3>1, <3>2 DEF OptionsKept, TorrentEntry
  <2>. QED
    BY <2>1, <2>2, <2>3
<1>5. CASE RemoveUndone \/ RemoveNotUndone
  <2>1. \/ UNCHANGED engine
        \/ /\ req.id \in DOMAIN engine
           /\ engine' = [engine EXCEPT ![req.id].done = FALSE, ![req.id].dropped = FALSE]
        \/ /\ req.id \in DOMAIN engine
           /\ engine' = [engine EXCEPT ![req.id].dropped = TRUE]
    BY <1>5 DEF RemoveUndone, RemoveNotUndone, RemoveFails, CanCall
  <2>2. req.id \in DOMAIN engine => engine[req.id] \in TorrentEntry
    BY EntryType
  <2>. QED
    BY <1>1, <2>1, <2>2 DEF OptionsKept, TorrentEntry
<1>. QED
  BY <1>2, <1>3, <1>4, <1>5 DEF Continue

\* A failed save leaves the engine's options, but for its own torrent's.
LEMMA FailedUpdate ==
  ASSUME TypeInv, UpdateRecordFails
  PROVE  /\ step = "update" /\ step' = "idle" /\ torrents' = torrents /\ disk' = disk
         /\ req.id \in DOMAIN engine /\ req \in Request
         /\ req.method \in {"pause", "resume", "sequential", "priority"}
         /\ DOMAIN engine' = DOMAIN engine
         /\ \A x \in DOMAIN engine : x # req.id => engine'[x] = engine[x]
         /\ \A x \in DOMAIN engine : SameMarks(engine'[x], engine[x])
         /\ engine'[req.id].sequential
              = IF req.method = "sequential" THEN got.sequential ELSE engine[req.id].sequential
         /\ engine'[req.id].priorities
              = IF req.method = "priority"
                  THEN MapSet(engine[req.id].priorities, req.file, SavedPriority(req))
                  ELSE engine[req.id].priorities
         /\ DOMAIN session'.torrents = DOMAIN session.torrents
         /\ \A x \in DOMAIN session.torrents :
              session'.torrents[x].sequential = session.torrents[x].sequential
         /\ "savepriority" \notin Faults => session' = session
<1>1. /\ step = "update" /\ step' = "idle" /\ torrents' = torrents /\ disk' = disk
      /\ req.id \in DOMAIN engine /\ req \in Request
      /\ req.method \in {"pause", "resume", "sequential", "priority"}
      /\ engine' = [engine EXCEPT ![req.id] = Undone(@, req)]
  BY DEF UpdateRecordFails, Finish, TypeInv, HandlerValid
<1>2. engine[req.id] \in TorrentEntry
  BY <1>1, EntryType
<1>3. /\ DOMAIN engine' = DOMAIN engine
      /\ \A x \in DOMAIN engine : x # req.id => engine'[x] = engine[x]
      /\ engine'[req.id] = Undone(engine[req.id], req)
  BY <1>1
<1>4. session' = session \/ (/\ req.method = "priority" /\ req.id \in DOMAIN session.torrents
                             /\ session' = UpdatedSession
                             /\ "savepriority" \in Faults)
  BY DEF UpdateRecordFails, SharedMapUpdate, SaveMayFail
<1>5. /\ DOMAIN session'.torrents = DOMAIN session.torrents
      /\ \A x \in DOMAIN session.torrents :
           session'.torrents[x].sequential = session.torrents[x].sequential
  <2>1. CASE session' = session
    BY <2>1
  <2>2. CASE req.method = "priority" /\ req.id \in DOMAIN session.torrents
             /\ session' = UpdatedSession
    <3>1. UpdatedRecord(session.torrents[req.id], req).sequential
            = session.torrents[req.id].sequential
      BY <1>1, <2>2, RecordType, UpdatedOptions
    <3>. QED
      BY <2>2, <3>1, UpdatedRecords
  <2>. QED
    BY <1>4, <2>1, <2>2
<1>6. \A x \in DOMAIN engine : SameMarks(engine'[x], engine[x])
  <2>1. SameMarks(engine'[req.id], engine[req.id])
    BY <1>1, <1>2, <1>3, OperationMarks
  <2>. QED
    BY <1>3, <2>1 DEF SameMarks
<1>. QED
  BY <1>1, <1>2, <1>3, <1>4, <1>5, <1>6, UndoneOptions

\* The engine has the torrent, from an add that was recorded or still may be.
Owned(id) == id \in DOMAIN engine /\ ~engine[id].stray

\* The engine downloads the torrent in the order that session s records.
RunsAs(s, id) == Owned(id) => engine[id].sequential = s.torrents[id].sequential

\* Its snapshot says so.
ShownAs(s, id) == Owned(id) /\ id \in DOMAIN torrents.snaps =>
                    torrents.snaps[id].sequential = s.torrents[id].sequential

\* File, session, engine and snapshots agree on download orders, but for the
\* torrent whose order is being set or that is being added: there the handler
\* knows the old one, or the new one.
SequentialInv ==
  phase # "down" /\ ~cancelled =>
    /\ DOMAIN session.torrents = DOMAIN disk.torrents
    /\ \A id \in DOMAIN session.torrents :
         /\ session.torrents[id].sequential = disk.torrents[id].sequential
         /\ (step \in {"update", "added"} /\ id = req.id) \/ RunsAs(session, id)
         /\ (step \in {"put", "added"} /\ id = req.id) \/ ShownAs(session, id)
    /\ step = "update" =>
         /\ req.id \in DOMAIN session.torrents /\ Owned(req.id) =>
              engine[req.id].sequential = IF req.method = "sequential"
                                            THEN req.enabled
                                            ELSE session.torrents[req.id].sequential
         /\ req.method # "priority" => got = torrents.snaps[req.id]
    /\ step = "put" /\ req.id \in DOMAIN session.torrents /\ Owned(req.id) =>
         FinalSnapshot.sequential = session.torrents[req.id].sequential
    /\ step = "added" => engine[req.id].sequential = req.sequential
    /\ step = "remove" => \A id \in DOMAIN previous.torrents :
                            RunsAs(previous, id) /\ ShownAs(previous, id)

\* Saving a request's record, or failing to, keeps SequentialInv.
LEMMA UpdateKeepsSequential ==
  ASSUME TypeInv, ListInv, SequentialInv, ~cancelled, UpdateRecord \/ UpdateRecordFails
  PROVE  SequentialInv'
<1>1. /\ step = "update" /\ step' \in {"put", "idle"} /\ torrents' = torrents
      /\ phase' = phase /\ phase # "down" /\ req \in Request /\ req.id \in DOMAIN engine
      /\ req.method \in {"pause", "resume", "sequential", "priority"}
      /\ (step' = "put" => req' = req /\ UpdateRecord)
      /\ DOMAIN session.torrents \subseteq DOMAIN torrents.snaps
      /\ got \in TorrentSnapshot
  BY UpdateFrame DEF TypeInv, TypeOK, HandlerValid, ListInv
<1>2. /\ DOMAIN session.torrents = DOMAIN disk.torrents
      /\ \A id \in DOMAIN session.torrents :
           /\ session.torrents[id].sequential = disk.torrents[id].sequential
           /\ id = req.id \/ RunsAs(session, id)
           /\ ShownAs(session, id)
      /\ req.id \in DOMAIN session.torrents /\ Owned(req.id) =>
              engine[req.id].sequential = IF req.method = "sequential"
                                            THEN req.enabled
                                            ELSE session.torrents[req.id].sequential
      /\ req.method # "priority" => got = torrents.snaps[req.id]
  BY <1>1 DEF SequentialInv
<1>3. SUFFICES /\ DOMAIN session'.torrents = DOMAIN disk'.torrents
               /\ \A id \in DOMAIN session'.torrents :
                    /\ session'.torrents[id].sequential = disk'.torrents[id].sequential
                    /\ Owned(id)' =>
                         engine'[id].sequential = session'.torrents[id].sequential
                    /\ (step' = "put" /\ id = req.id) \/ ShownAs(session, id)'
               /\ step' = "put" /\ Owned(req.id)' =>
                    FinalSnapshot'.sequential = session'.torrents[req.id].sequential
  BY <1>1 DEF SequentialInv, RunsAs
<1>4. CASE UpdateRecord
  <2>1. /\ req.id \in DOMAIN session.torrents /\ session' = UpdatedSession /\ disk' = session'
        /\ engine' = engine /\ (step' = "put" => got' = got /\ req.method # "priority")
        /\ (step' = "idle" => req.method = "priority")
    BY <1>4 DEF UpdateRecord, Save, Finish
  <2>2. session.torrents[req.id] \in TorrentRecord
    BY <2>1, RecordType
  <2>3. /\ DOMAIN session'.torrents = DOMAIN session.torrents
        /\ session'.torrents[req.id].sequential
             = IF req.method = "sequential" THEN req.enabled
                                            ELSE session.torrents[req.id].sequential
        /\ \A x \in DOMAIN session.torrents : x # req.id =>
             session'.torrents[x] = session.torrents[x]
    BY <1>1, <2>1, <2>2, UpdatedRecords, UpdatedOptions
  <2>4. \A id \in DOMAIN session'.torrents : Owned(id)' =>
          engine'[id].sequential = session'.torrents[id].sequential
    BY <1>2, <2>1, <2>3 DEF RunsAs, Owned
  <2>5. \A id \in DOMAIN session'.torrents : (step' = "put" /\ id = req.id) \/ ShownAs(session, id)'
    <3>1. \A id \in DOMAIN session'.torrents : id # req.id => ShownAs(session, id)'
      BY <1>1, <1>2, <2>1, <2>3 DEF ShownAs, Owned
    <3>2. step' = "idle" =>
            session'.torrents[req.id].sequential = session.torrents[req.id].sequential
      BY <2>1, <2>3
    <3>3. step' = "idle" => \A id \in DOMAIN session'.torrents : id = req.id => ShownAs(session, id)'
      BY <1>1, <1>2, <2>1, <2>3, <3>2 DEF ShownAs, Owned
    <3>. QED
      BY <1>1, <3>1, <3>3
  <2>6. step' = "put" /\ Owned(req.id)' =>
          FinalSnapshot'.sequential = session'.torrents[req.id].sequential
    <3> SUFFICES ASSUME step' = "put", Owned(req.id)
                 PROVE  FinalSnapshot'.sequential = session'.torrents[req.id].sequential
      BY <1>1, <2>1 DEF Owned
    <3>1. req' = req /\ got' = got /\ got = torrents.snaps[req.id]
          /\ req.method \in {"pause", "resume", "sequential"}
      BY <1>1, <1>2, <2>1
    <3>2. got.sequential = session.torrents[req.id].sequential
      BY <1>1, <1>2, <2>1, <3>1 DEF ShownAs
    <3>3. CASE req.method = "sequential"
      BY <1>1, <2>3, <3>1, <3>3 DEF FinalSnapshot, TorrentSnapshot
    <3>4. CASE req.method = "pause"
      BY <1>1, <2>3, <3>1, <3>2, <3>4 DEF FinalSnapshot, TorrentSnapshot
    <3>5. CASE req.method = "resume"
      BY <1>1, <2>3, <3>1, <3>2, <3>5 DEF FinalSnapshot, TorrentSnapshot
    <3>. QED
      BY <3>1, <3>3, <3>4, <3>5
  <2>. QED
    BY <2>1, <2>4, <2>5, <2>6
<1>5. CASE UpdateRecordFails
  <2>1. /\ step' = "idle" /\ disk' = disk /\ DOMAIN engine' = DOMAIN engine
        /\ \A x \in DOMAIN engine : x # req.id => engine'[x] = engine[x]
        /\ \A x \in DOMAIN engine : SameMarks(engine'[x], engine[x])
        /\ engine'[req.id].sequential
              = IF req.method = "sequential" THEN got.sequential ELSE engine[req.id].sequential
        /\ DOMAIN session'.torrents = DOMAIN session.torrents
        /\ \A x \in DOMAIN session.torrents :
              session'.torrents[x].sequential = session.torrents[x].sequential
    BY <1>5, FailedUpdate
  <2>2. \A x : Owned(x)' => Owned(x)
    BY <2>1 DEF Owned, SameMarks
  <2>3. \A id \in DOMAIN session'.torrents : Owned(id)' =>
          engine'[id].sequential = session'.torrents[id].sequential
    <3>1. \A id \in DOMAIN session'.torrents : id # req.id /\ Owned(id)' =>
          engine'[id].sequential = session'.torrents[id].sequential
      BY <1>2, <2>1, <2>2 DEF RunsAs, Owned
    <3>2. req.id \in DOMAIN session.torrents /\ Owned(req.id) =>
            engine'[req.id].sequential = session'.torrents[req.id].sequential
      <4>1. CASE req.method = "sequential"
        BY <1>1, <1>2, <2>1, <4>1 DEF ShownAs
      <4>2. CASE req.method # "sequential"
        BY <1>2, <2>1, <4>2
      <4>. QED
        BY <4>1, <4>2
    <3>. QED
      BY <2>1, <2>2, <3>1, <3>2
  <2>4. \A id \in DOMAIN session'.torrents : ShownAs(session, id)'
    BY <1>1, <1>2, <2>1, <2>2 DEF ShownAs
  <2>. QED
    BY <1>2, <2>1, <2>3, <2>4
<1>. QED
  BY <1>4, <1>5

\* The other steps of the handlers keep SequentialInv.
LEMMA ContinueKeepsSequential ==
  ASSUME TypeInv, ListInv, SequentialInv, ~cancelled, Continue
  PROVE  SequentialInv'
<1>1. CASE UpdateRecord \/ UpdateRecordFails
  BY <1>1, UpdateKeepsSequential
<1>2. CASE ~UpdateRecord /\ ~UpdateRecordFails
  <2> DEFINE Agree ==
        /\ DOMAIN session'.torrents = DOMAIN disk'.torrents
        /\ \A id \in DOMAIN session'.torrents :
             /\ session'.torrents[id].sequential = disk'.torrents[id].sequential
             /\ RunsAs(session, id)'
             /\ (step' = "put" /\ id = req.id) \/ ShownAs(session, id)'
        /\ step' = "put" =>
             FinalSnapshot'.sequential = session'.torrents[req.id].sequential
  <2>1. /\ step' \in {"idle", "put", "forget"} /\ phase' = phase /\ phase # "down"
        /\ req \in Request /\ OptionsKept
        /\ step' = "put" => req' = req
    BY <1>2, HandlerFrame, ContinueKeepsOptions
  <2>2. SUFFICES Agree
    BY <2>1 DEF SequentialInv
  <2>3. step # "update" =>
          /\ DOMAIN session.torrents = DOMAIN disk.torrents
          /\ \A id \in DOMAIN session.torrents :
               /\ session.torrents[id].sequential = disk.torrents[id].sequential
               /\ (step = "added" /\ id = req.id) \/ RunsAs(session, id)
               /\ (step \in {"put", "added"} /\ id = req.id) \/ ShownAs(session, id)
    BY <2>1 DEF SequentialInv
  <2>4. \A x : Owned(x)' => Owned(x) /\ engine'[x].sequential = engine[x].sequential
    BY <2>1 DEF OptionsKept, Owned
  <2>5. ASSUME UNCHANGED <<disk, session>>, step # "put", step' # "put", step # "update",
               step = "added" => req.id \notin DOMAIN engine' \/ engine'[req.id].stray,
               \A x \in DOMAIN torrents'.snaps : /\ x \in DOMAIN torrents.snaps
                                                 /\ torrents'.snaps[x] = torrents.snaps[x]
        PROVE  Agree
    BY <2>1, <2>3, <2>4, <2>5 DEF RunsAs, ShownAs, Owned
  <2>6. CASE Verified \/ VerifyFails \/ RecordTorrentFails \/ RemoveFromEngine
               \/ RemoveNotUndone
    <3>1. /\ UNCHANGED <<disk, session, torrents>> /\ step \notin {"put", "update"}
          /\ step' # "put" /\ (step = "added" => RecordTorrentFails)
      BY <2>6 DEF Verified, VerifyFails, RecordTorrentFails,
                  RemoveFromEngine, RemoveNotUndone, RemoveFails, Finish, store
    <3>2. step = "added" => req.id \notin DOMAIN engine' \/ engine'[req.id].stray
      <4> SUFFICES ASSUME step = "added"
                   PROVE  req.id \notin DOMAIN engine' \/ engine'[req.id].stray
        OBVIOUS
      <4>1. req.id \in DOMAIN engine
        BY DEF TypeInv, HandlerValid
      <4>2. engine[req.id] \in TorrentEntry
        BY <4>1, EntryType
      <4>3. \/ engine' = MapDelete(engine, req.id)
            \/ engine' = [engine EXCEPT ![req.id].dropped = TRUE, ![req.id].stray = TRUE]
        BY <3>1 DEF RecordTorrentFails
      <4>4. CASE engine' = MapDelete(engine, req.id)
        BY <4>4 DEF MapDelete, Restrict
      <4>5. CASE engine' = [engine EXCEPT ![req.id].dropped = TRUE, ![req.id].stray = TRUE]
        BY <4>1, <4>2, <4>5 DEF TorrentEntry
      <4>. QED
        BY <4>3, <4>4, <4>5
    <3>. QED
      BY <2>5, <3>1, <3>2
  <2>7. CASE ForgetTorrent \/ MoveSnapshot
    <3>1. UNCHANGED <<disk, session>> /\ step \notin {"put", "update", "added"} /\ step' # "put"
      BY <2>7 DEF ForgetTorrent, MoveSnapshot, Finish, store
    <3>2. torrents \in [order : Seq(TorrentID), snaps : Map(TorrentID, TorrentSnapshot)]
      BY DEF TypeInv, TypeOK
    <3>3. \A x \in DOMAIN torrents'.snaps : /\ x \in DOMAIN torrents.snaps
                                            /\ torrents'.snaps[x] = torrents.snaps[x]
      BY <2>7, <3>2 DEF ForgetTorrent, MoveSnapshot, MapDelete, Restrict
    <3>. QED
      BY <2>5, <3>1, <3>3
  <2>8. CASE PutTorrent
    <3>1. /\ step = "put" /\ step' = "idle" /\ UNCHANGED <<disk, session, engine>>
          /\ DOMAIN torrents'.snaps = DOMAIN torrents.snaps \cup {req.id}
          /\ torrents'.snaps[req.id] = FinalSnapshot
          /\ \A x \in DOMAIN torrents.snaps : x # req.id => torrents'.snaps[x] = torrents.snaps[x]
      BY <2>8, PutFrame DEF PutTorrent, Finish, store
    <3>2. req.id \in DOMAIN session.torrents /\ Owned(req.id) =>
            FinalSnapshot.sequential = session.torrents[req.id].sequential
      BY <2>1, <3>1 DEF SequentialInv
    <3>. QED
      BY <2>3, <2>4, <3>1, <3>2 DEF RunsAs, ShownAs
  <2>9. CASE RecordTorrent
    <3>1. /\ step = "added" /\ step' = "put" /\ disk' = session'
          /\ UNCHANGED <<engine, torrents>> /\ got' = SnapshotOf(engine[req.id])
          /\ session'.torrents = MapSet(session.torrents, req.id, RecordOf(req))
      BY <2>9 DEF RecordTorrent, Save
    <3>2. /\ DOMAIN session'.torrents = DOMAIN session.torrents \cup {req.id}
          /\ session'.torrents[req.id].sequential = req.sequential
          /\ \A x \in DOMAIN session.torrents : x # req.id =>
               session'.torrents[x] = session.torrents[x]
      BY <3>1 DEF MapSet, RecordOf
    <3>3. engine[req.id].sequential = req.sequential /\ req.method = "add"
      BY <2>1, <3>1 DEF SequentialInv, TypeInv, HandlerValid
    <3>4. \A id \in DOMAIN session'.torrents :
            RunsAs(session, id)' /\ (id = req.id \/ ShownAs(session, id)')
      BY <2>3, <2>4, <3>1, <3>2, <3>3 DEF RunsAs, ShownAs
    <3>5. FinalSnapshot'.sequential = req.sequential
      BY <2>1, <3>1, <3>3 DEF FinalSnapshot, SnapshotOf
    <3>. QED
      BY <3>1, <3>2, <3>4, <3>5
  <2>10. CASE RemoveUndone
    <3>1. step = "remove" /\ step' = "idle" /\ session' = previous /\ disk' = previous
          /\ torrents' = torrents
      BY <2>10 DEF RemoveUndone, RemoveFails, Save, Finish
    <3>2. \A id \in DOMAIN previous.torrents : RunsAs(previous, id) /\ ShownAs(previous, id)
      BY <2>1, <3>1 DEF SequentialInv
    <3>. QED
      BY <2>4, <3>1, <3>2 DEF RunsAs, ShownAs
  <2>11. CASE AddInterrupted
    BY <2>11 DEF AddInterrupted
  <2>. QED
    BY <1>2, <2>6, <2>7, <2>8, <2>9, <2>10, <2>11 DEF Continue
<1>. QED
  BY <1>1, <1>2

\* A request that arrives finds download orders agreed and keeps SequentialInv.
LEMMA ArrivalKeepsSequential ==
  ASSUME TypeInv, SequentialInv, ~cancelled, NEW r \in Requests,
         \/ ApplyDesired(r) \/ ApplySequential(r) \/ ApplyPriority(r) \/ StartVerify(r)
         \/ AddToEngine(r) \/ RemoveRecord(r) \/ MoveRecord(r)
  PROVE  SequentialInv'
<1>1. /\ step = "idle" /\ req' = r /\ r \in Request /\ phase # "down" /\ phase' = phase
      /\ torrents' = torrents
  BY ArrivalFrame
<1>2. /\ DOMAIN session.torrents = DOMAIN disk.torrents
      /\ \A id \in DOMAIN session.torrents :
           /\ session.torrents[id].sequential = disk.torrents[id].sequential
           /\ RunsAs(session, id) /\ ShownAs(session, id)
  BY <1>1 DEF SequentialInv
<1>3. ASSUME MarksKept PROVE \A x : Owned(x)' => Owned(x)
  BY <1>3 DEF MarksKept, SameMarks, Owned
<1>4. CASE ApplyDesired(r) \/ ApplySequential(r) \/ ApplyPriority(r)
  <2>1. /\ step' = "update" /\ UNCHANGED <<disk, session>> /\ r.id \in DOMAIN engine
        /\ r.method \in {"pause", "resume", "sequential", "priority"}
        /\ engine' = [engine EXCEPT ![r.id] = Applied(@, r)]
        /\ r.method # "priority" => got' = torrents.snaps[r.id]
    BY <1>4 DEF ApplyDesired, ApplySequential, ApplyPriority, Finds, CanCall, store
  <2>2. engine[r.id] \in TorrentEntry
    BY <2>1, EntryType
  <2>3. /\ DOMAIN engine' = DOMAIN engine
        /\ \A x \in DOMAIN engine : x # r.id => engine'[x] = engine[x]
        /\ engine'[r.id].sequential = IF r.method = "sequential" THEN r.enabled
                                                                 ELSE engine[r.id].sequential
    BY <1>1, <2>1, <2>2, AppliedOptions
  <2>4. \A x : Owned(x)' => Owned(x)
    BY <1>3, <1>4, ArrivalMarks
  <2>5. \A id \in DOMAIN session.torrents : id = r.id \/ RunsAs(session, id)'
    BY <1>2, <2>1, <2>3, <2>4 DEF RunsAs, Owned
  <2>6. \A id \in DOMAIN session.torrents : ShownAs(session, id)'
    BY <1>1, <1>2, <2>1, <2>4 DEF ShownAs
  <2>7. r.id \in DOMAIN session.torrents /\ Owned(r.id)' =>
          engine'[r.id].sequential = IF r.method = "sequential"
                                       THEN r.enabled
                                       ELSE session.torrents[r.id].sequential
    BY <1>2, <2>3, <2>4 DEF RunsAs
  <2>. QED
    BY <1>1, <1>2, <2>1, <2>5, <2>6, <2>7 DEF SequentialInv
<1>5. CASE StartVerify(r)
  <2>1. step' = "verify" /\ UNCHANGED <<disk, session>> /\ r.id \in DOMAIN engine
    BY <1>5 DEF StartVerify, Finds, CanCall, store
  <2>2. engine[r.id] \in TorrentEntry
    BY <2>1, EntryType
  <2>3. OptionsKept
    BY <1>5, <2>1, <2>2 DEF StartVerify, OptionsKept, TorrentEntry
  <2>4. \A x : Owned(x)' => Owned(x) /\ engine'[x].sequential = engine[x].sequential
    BY <2>3 DEF OptionsKept, Owned
  <2>. QED
    BY <1>1, <1>2, <2>1, <2>4 DEF SequentialInv, RunsAs, ShownAs
<1>6. CASE AddToEngine(r)
  <2>1. /\ step' = "added" /\ UNCHANGED <<disk, session>>
        /\ DOMAIN engine' = DOMAIN engine \cup {r.id}
        /\ engine'[r.id].sequential = r.sequential
        /\ \A x \in DOMAIN engine : x # r.id => engine'[x] = engine[x]
    BY <1>6 DEF AddToEngine, MapSet, NewEntry, store
  <2>2. \A x : x # r.id /\ Owned(x)' => Owned(x) /\ engine'[x] = engine[x]
    BY <2>1 DEF Owned
  <2>3. \A id \in DOMAIN session.torrents :
          id = r.id \/ (RunsAs(session, id)' /\ ShownAs(session, id)')
    BY <1>1, <1>2, <2>1, <2>2 DEF RunsAs, ShownAs
  <2>. QED
    BY <1>1, <1>2, <2>1, <2>3 DEF SequentialInv
<1>7. CASE RemoveRecord(r)
  <2>1. /\ step' = "remove" /\ disk' = session' /\ previous' = session /\ engine' = engine
        /\ session'.torrents = MapDelete(session.torrents, r.id)
    BY <1>7 DEF RemoveRecord, Save
  <2>. QED
    BY <1>1, <1>2, <2>1 DEF MapDelete, Restrict, SequentialInv, RunsAs, ShownAs, Owned
<1>8. CASE MoveRecord(r)
  <2>1. session \in SessionType
    BY DEF TypeInv, TypeOK
  <2>2. /\ step' = "move" /\ disk' = session' /\ engine' = engine
        /\ session'.torrents = session.torrents
    BY <1>8, <2>1 DEF MoveRecord, Save, SessionType
  <2>. QED
    BY <1>1, <1>2, <2>2 DEF SequentialInv, RunsAs, ShownAs, Owned
<1>. QED
  BY <1>4, <1>5, <1>6, <1>7, <1>8

\* A pass puts snapshots of what the engine does.
LEMMA VisitKeepsSequential ==
  ASSUME TypeInv, SequentialInv, ~cancelled, NEW id \in TorrentID,
         PassSkips(id) \/ PassPauses(id) \/ PassQueues(id) \/ PassRuns(id) \/ PassCannotRun(id)
  PROVE  SequentialInv'
<1>1. /\ step = "pass" /\ step' = "pass" /\ id \in DOMAIN torrents.snaps
      /\ DOMAIN torrents'.snaps = DOMAIN torrents.snaps
      /\ \A x \in DOMAIN torrents.snaps : x # id => torrents'.snaps[x] = torrents.snaps[x]
      /\ DOMAIN engine' = DOMAIN engine
      /\ \A x \in DOMAIN engine : x # id => engine'[x] = engine[x]
      /\ id \in DOMAIN engine => engine'[id].sequential = engine[id].sequential
      /\ UNCHANGED <<disk, session, phase>> /\ phase # "down"
  BY VisitFrame DEF TypeInv, HandlerValid
<1>2. \A x \in DOMAIN session.torrents : RunsAs(session, x) /\ ShownAs(session, x)
  BY <1>1 DEF SequentialInv
<1>3. id \in DOMAIN engine =>
        \/ torrents'.snaps[id].sequential = torrents.snaps[id].sequential
        \/ torrents'.snaps[id].sequential = engine[id].sequential
  <2>1. CASE UNCHANGED torrents
    BY <2>1
  <2>2. ASSUME NEW s \in TorrentState,
               PutSnapshot(id, [Fresh(id) EXCEPT !.state = s]) \/ PutSnapshot(id, Fresh(id))
        PROVE  id \in DOMAIN engine =>
                 \/ torrents'.snaps[id].sequential = torrents.snaps[id].sequential
                 \/ torrents'.snaps[id].sequential = engine[id].sequential
    <3>1. \/ UNCHANGED engine
          \/ \E running \in BOOLEAN : SetScheduled(id, running) \/ KeepScheduled(id, running)
      BY DEF PassSkips, PassPauses, PassQueues, PassRuns, PassCannotRun, Stop
    <3>2. engine' \in Map(TorrentID, TorrentEntry)
      BY <3>1, ScheduledGood DEF TypeInv, TypeOK
    <3>3. Fresh(id) \in TorrentSnapshot
      BY <1>1, <3>2, FreshGood
    <3>4. torrents'.snaps[id].sequential = Fresh(id).sequential
      <4>1. torrents'.snaps[id] = [Fresh(id) EXCEPT !.state = s] \/ torrents'.snaps[id] = Fresh(id)
        BY <2>2 DEF PutSnapshot, MapSet
      <4>. QED
        BY <3>3, <4>1 DEF TorrentSnapshot
    <3>5. CASE CanCall(id)
      BY <1>1, <3>4, <3>5 DEF Fresh, SnapshotOf, CanCall
    <3>6. CASE ~CanCall(id)
      BY <3>4, <3>6 DEF Fresh
    <3>. QED
      BY <3>5, <3>6
  <2>3. \/ UNCHANGED torrents
        \/ \E s \in TorrentState :
             PutSnapshot(id, [Fresh(id) EXCEPT !.state = s]) \/ PutSnapshot(id, Fresh(id))
    BY DEF PassSkips, PassPauses, PassQueues, PassRuns, PassCannotRun, Stop, PutOrGiveUp,
           TorrentState
  <2>. QED
    BY <2>1, <2>2, <2>3
<1>4. \A x : Owned(x)' => Owned(x) /\ engine'[x].sequential = engine[x].sequential
  BY <1>1, VisitMarks DEF MarksKept, SameMarks, Owned
<1>5. \A x \in DOMAIN session.torrents : RunsAs(session, x)' /\ ShownAs(session, x)'
  BY <1>1, <1>2, <1>3, <1>4 DEF RunsAs, ShownAs, Owned
<1>. QED
  BY <1>1, <1>5 DEF SequentialInv

\* SequentialInv is inductive when no source becomes another torrent.
LEMMA StepKeepsSequential ==
  /\ "drift" \notin Faults
  /\ TypeInv /\ ListInv /\ FreshInv /\ SequentialInv /\ [Next]_vars
  => SequentialInv'
<1> SUFFICES ASSUME "drift" \notin Faults, TypeInv, ListInv, FreshInv, SequentialInv,
                    [Next]_vars
             PROVE  SequentialInv'
  OBVIOUS
<1>1. ASSUME NEW id \in TorrentID, ~cancelled,
             Restore(id) \/ RestoreFails(id) \/ RestoreOther(id)
      PROVE  SequentialInv'
  <2>1. /\ step = "restore" /\ step' = "restore" /\ id \in DOMAIN session.torrents
        /\ UNCHANGED <<disk, session, phase>> /\ phase # "down"
        /\ DOMAIN torrents'.snaps = DOMAIN torrents.snaps \cup {id}
        /\ \A x \in DOMAIN torrents.snaps : x # id => torrents'.snaps[x] = torrents.snaps[x]
    BY <1>1, RestoreFrame, PutFrame DEF TypeInv, HandlerValid
  <2>2. \A x \in DOMAIN session.torrents : RunsAs(session, x) /\ ShownAs(session, x)
    BY <1>1, <2>1 DEF SequentialInv
  <2>3. /\ id \notin DOMAIN engine
        /\ \/ engine' = engine
           \/ /\ DOMAIN engine' = DOMAIN engine \cup {id}
              /\ engine'[id].sequential = session.torrents[id].sequential
              /\ \A x \in DOMAIN engine : engine'[x] = engine[x]
              /\ torrents'.snaps[id].sequential = session.torrents[id].sequential
    BY <1>1, RestoreAdds
  <2>4. \A x \in DOMAIN session.torrents : x # id => RunsAs(session, x)' /\ ShownAs(session, x)'
    BY <2>1, <2>2, <2>3 DEF RunsAs, ShownAs, Owned
  <2>5. RunsAs(session, id)' /\ ShownAs(session, id)'
    BY <2>1, <2>3 DEF RunsAs, ShownAs, Owned
  <2>. QED
    BY <1>1, <2>1, <2>2, <2>4, <2>5 DEF SequentialInv
<1>2. CASE Restored \/ StartPass \/ EndPass
  <2>1. /\ step \in {"restore", "idle", "pass"} /\ step' \in {"idle", "pass"}
        /\ UNCHANGED <<disk, session, torrents, engine, cancelled>>
        /\ phase # "down" /\ phase' # "down"
    BY <1>2 DEF Restored, StartPass, EndPass, store, life, TypeInv, HandlerValid
  <2>. QED
    BY <2>1 DEF SequentialInv, RunsAs, ShownAs, Owned
<1>3. CASE Environment
  <2>1. CASE GoDown
    BY <2>1 DEF GoDown, SequentialInv
  <2>2. CASE Start
    <3>1. phase = "down" /\ engine' = engine /\ step' = "restore"
          /\ session' = disk /\ disk' = disk
      BY <2>2 DEF Start
    <3>2. DOMAIN engine = {}
      BY <3>1 DEF FreshInv
    <3>. QED
      BY <3>1, <3>2 DEF SequentialInv, RunsAs, ShownAs, Owned
  <2>3. CASE /\ ~GoDown
             /\ UNCHANGED <<disk, session, torrents, phase, step, req, got, previous>>
             /\ DOMAIN engine' = DOMAIN engine
             /\ \A x \in DOMAIN engine : engine'[x].sequential = engine[x].sequential
             /\ cancelled => cancelled'
    <3>1. \A x : Owned(x)' <=> Owned(x)
      BY <1>3, <2>3, EnvironmentMarks DEF MarksKept, SameMarks, Owned
    <3>2. \A x : /\ RunsAs(session, x) => RunsAs(session, x)'
                 /\ ShownAs(session, x) => ShownAs(session, x)'
                 /\ RunsAs(previous, x) => RunsAs(previous, x)'
                 /\ ShownAs(previous, x) => ShownAs(previous, x)'
      BY <2>3, <3>1 DEF RunsAs, ShownAs, Owned
    <3>3. FinalSnapshot' = FinalSnapshot
      BY <2>3 DEF FinalSnapshot
    <3>4. step \in {"update", "added"} =>
            req.id \in DOMAIN engine /\ engine'[req.id].sequential = engine[req.id].sequential
      BY <2>3 DEF TypeInv, HandlerValid
    <3>5. Owned(req.id)' <=> Owned(req.id)
      BY <2>3, <3>1 DEF Owned
    <3>. QED
      BY <2>3, <3>2, <3>3, <3>4, <3>5 DEF SequentialInv
  <2>. QED
    BY <1>3, <2>1, <2>2, <2>3, EnvironmentFrame
<1>4. CASE UNCHANGED vars
  BY <1>4 DEF vars, SequentialInv, RunsAs, ShownAs, Owned, FinalSnapshot
<1>5. ASSUME NEW id \in TorrentID,
             PassSkips(id) \/ PassPauses(id) \/ PassQueues(id) \/ PassRuns(id)
               \/ PassCannotRun(id)
      PROVE  SequentialInv'
  BY <1>5, VisitFrame, VisitKeepsSequential DEF SequentialInv
<1>6. CASE Continue
  BY <1>6, HandlerFrame, ContinueKeepsSequential DEF SequentialInv
<1>7. ASSUME NEW r \in Requests,
             \/ ApplyDesired(r) \/ ApplySequential(r) \/ ApplyPriority(r) \/ StartVerify(r)
             \/ AddToEngine(r) \/ RemoveRecord(r) \/ MoveRecord(r)
      PROVE  SequentialInv'
  BY <1>7, ArrivalFrame, ArrivalKeepsSequential DEF SequentialInv
<1>8. ASSUME NEW id \in TorrentID, Restore(id) \/ RestoreFails(id) \/ RestoreOther(id)
      PROVE  SequentialInv'
  BY <1>1, <1>8, RestoreFrame DEF SequentialInv
<1>. QED
  BY <1>2, <1>3, <1>4, <1>5, <1>6, <1>7, <1>8
  DEF Next, Server, Restoration, Pass, Arrival

\* If no torrent file or link becomes another torrent, the engine, the snapshot
\* clients see, the session and the file agree on every torrent's download order
\* once its request is over, whether the save succeeded or failed, and through
\* removals, rollbacks, checks and restarts.
THEOREM SequentialOrdersAgree ==
  ASSUME "drift" \notin Faults
  PROVE  Spec => []SequentialAgrees
<1>1. Init => SequentialInv
  BY DEF Init, SequentialInv
<1>2. TypeInv /\ ListInv /\ FreshInv /\ SequentialInv /\ [Next]_vars => SequentialInv'
  BY StepKeepsSequential
<1>3. SequentialInv => SequentialAgrees
  <2> SUFFICES ASSUME SequentialInv, phase = "serving", step = "idle", ~cancelled,
                      NEW id \in DOMAIN session.torrents, Live(id), ~engine[id].stray
               PROVE  /\ engine[id].sequential = session.torrents[id].sequential
                      /\ engine[id].sequential = disk.torrents[id].sequential
                      /\ id \in DOMAIN torrents.snaps =>
                           torrents.snaps[id].sequential = engine[id].sequential
    BY DEF SequentialAgrees
  <2>1. Owned(id) /\ RunsAs(session, id) /\ ShownAs(session, id)
        /\ session.torrents[id].sequential = disk.torrents[id].sequential
    BY DEF SequentialInv, Live, Owned
  <2>. QED
    BY <2>1 DEF RunsAs, ShownAs
<1>. QED
  BY <1>1, <1>2, <1>3, TypesHold, ListHolds, RestoresAreNew, PTL DEF Spec

\* The engine has the torrent, with the priorities that its record had.
Dressed(id) == id \in DOMAIN engine /\ ~engine[id].bare

\* The engine has the priorities that session s records.
PrioritiesAs(s, id) == Dressed(id) => engine[id].priorities = s.torrents[id].priorities

\* File, session and engine agree on priorities, but for the torrent one of
\* whose priorities is being set.
PriorityInv ==
  phase # "down" =>
    /\ disk = session
    /\ \A id \in DOMAIN session.torrents :
         (step = "update" /\ id = req.id) \/ PrioritiesAs(session, id)
    /\ step = "update" /\ req.id \in DOMAIN session.torrents /\ Dressed(req.id) =>
         engine[req.id].priorities
           = IF req.method = "priority"
               THEN MapSet(session.torrents[req.id].priorities, req.file, req.priority)
               ELSE session.torrents[req.id].priorities
    /\ step = "added" => /\ engine[req.id].priorities = Nothing
                         /\ Dressed(req.id) => RecordOf(req).priorities = Nothing
    /\ step = "remove" => \A id \in DOMAIN previous.torrents : PrioritiesAs(previous, id)

\* The handlers keep PriorityInv when saving a priority does not fail.
LEMMA ContinueKeepsPriorities ==
  ASSUME "savepriority" \notin Faults, TypeInv, PriorityInv, Continue
  PROVE  PriorityInv'
<1>1. /\ step' \in {"idle", "put", "forget"} /\ phase' = phase /\ phase # "down"
      /\ req \in Request /\ disk = session
      /\ \A id \in DOMAIN session.torrents :
           (step = "update" /\ id = req.id) \/ PrioritiesAs(session, id)
  BY HandlerFrame DEF PriorityInv
<1>2. SUFFICES /\ disk' = session'
               /\ \A id \in DOMAIN session'.torrents : PrioritiesAs(session, id)'
  BY <1>1 DEF PriorityInv
<1>3. CASE UpdateRecord
  <2>1. /\ step = "update" /\ req.id \in DOMAIN session.torrents /\ session' = UpdatedSession
        /\ disk' = session' /\ engine' = engine
        /\ req.method \in {"pause", "resume", "sequential", "priority"}
    BY <1>3 DEF UpdateRecord, Save, TypeInv, HandlerValid
  <2>2. session.torrents[req.id] \in TorrentRecord
    BY <2>1, RecordType
  <2>3. /\ DOMAIN session'.torrents = DOMAIN session.torrents
        /\ session'.torrents[req.id].priorities
             = IF req.method = "priority"
                 THEN MapSet(session.torrents[req.id].priorities, req.file, req.priority)
                 ELSE session.torrents[req.id].priorities
        /\ \A x \in DOMAIN session.torrents : x # req.id =>
             session'.torrents[x] = session.torrents[x]
    BY <1>1, <2>1, <2>2, UpdatedRecords, UpdatedOptions
  <2>4. Dressed(req.id) => engine[req.id].priorities = session'.torrents[req.id].priorities
    BY <1>1, <2>1, <2>3 DEF PriorityInv
  <2>. QED
    BY <1>1, <2>1, <2>3, <2>4 DEF PrioritiesAs, Dressed
<1>4. CASE UpdateRecordFails
  <2>1. /\ step = "update" /\ session' = session /\ disk' = disk
        /\ DOMAIN engine' = DOMAIN engine
        /\ \A x \in DOMAIN engine : x # req.id => engine'[x] = engine[x]
        /\ \A x \in DOMAIN engine : SameMarks(engine'[x], engine[x])
        /\ req.method # "priority" => engine'[req.id].priorities = engine[req.id].priorities
    BY <1>4, FailedUpdate
  <2>2. req.id \in DOMAIN session.torrents => req.method # "priority"
    BY <1>4 DEF UpdateRecordFails, SaveMayFail
  <2>3. \A x : Dressed(x)' => Dressed(x)
    BY <2>1 DEF Dressed, SameMarks
  <2>4. \A x \in DOMAIN session.torrents : x # req.id => PrioritiesAs(session, x)'
    BY <1>1, <2>1, <2>3 DEF PrioritiesAs, Dressed
  <2>5. \A x \in DOMAIN session.torrents : x = req.id => PrioritiesAs(session, x)'
    <3> SUFFICES ASSUME req.id \in DOMAIN session.torrents, Dressed(req.id)
                 PROVE  engine'[req.id].priorities = session'.torrents[req.id].priorities
      BY <2>3 DEF PrioritiesAs
    <3>. QED
      BY <1>1, <2>1, <2>2 DEF PriorityInv
  <2>. QED
    BY <1>1, <2>1, <2>4, <2>5
<1>5. CASE ~UpdateRecord /\ ~UpdateRecordFails
  <2>1. OptionsKept
    BY <1>5, ContinueKeepsOptions
  <2>2. ASSUME UNCHANGED <<disk, session>>, step # "update"
        PROVE  /\ disk' = session'
               /\ \A id \in DOMAIN session'.torrents : PrioritiesAs(session, id)'
    BY <1>1, <2>1, <2>2 DEF OptionsKept, PrioritiesAs, Dressed
  <2>3. CASE PutTorrent \/ Verified \/ VerifyFails \/ RecordTorrentFails \/ AddInterrupted
               \/ RemoveFromEngine \/ RemoveNotUndone \/ ForgetTorrent \/ MoveSnapshot
    <3>1. UNCHANGED <<disk, session>> /\ step # "update"
      BY <2>3 DEF PutTorrent, Verified, VerifyFails, RecordTorrentFails, AddInterrupted,
                  RemoveFromEngine, RemoveNotUndone, RemoveFails, ForgetTorrent,
                  MoveSnapshot, store
    <3>. QED
      BY <2>2, <3>1
  <2>4. CASE RecordTorrent
    <3>1. /\ step = "added" /\ disk' = session' /\ engine' = engine
          /\ session'.torrents = MapSet(session.torrents, req.id, RecordOf(req))
      BY <2>4 DEF RecordTorrent, Save
    <3>2. engine[req.id].priorities = Nothing
          /\ (Dressed(req.id) => RecordOf(req).priorities = Nothing)
      BY <1>1, <3>1 DEF PriorityInv
    <3>3. /\ DOMAIN session'.torrents = DOMAIN session.torrents \cup {req.id}
          /\ session'.torrents[req.id] = RecordOf(req)
          /\ \A x \in DOMAIN session.torrents : x # req.id =>
               session'.torrents[x] = session.torrents[x]
      BY <3>1 DEF MapSet
    <3>. QED
      BY <1>1, <3>1, <3>2, <3>3 DEF PrioritiesAs, Dressed
  <2>5. CASE RemoveUndone
    <3>1. step = "remove" /\ session' = previous /\ disk' = previous
      BY <2>5 DEF RemoveUndone, RemoveFails, Save
    <3>2. \A id \in DOMAIN previous.torrents : PrioritiesAs(previous, id)
      BY <1>1, <3>1 DEF PriorityInv
    <3>. QED
      BY <2>1, <3>1, <3>2 DEF OptionsKept, PrioritiesAs, Dressed
  <2>. QED
    BY <1>5, <2>3, <2>4, <2>5 DEF Continue
<1>. QED
  BY <1>3, <1>4, <1>5

\* A request that arrives finds priorities agreed and keeps PriorityInv.
LEMMA ArrivalKeepsPriorities ==
  ASSUME TypeInv, PriorityInv, NEW r \in Requests,
         \/ ApplyDesired(r) \/ ApplySequential(r) \/ ApplyPriority(r) \/ StartVerify(r)
         \/ AddToEngine(r) \/ RemoveRecord(r) \/ MoveRecord(r)
  PROVE  PriorityInv'
<1>1. /\ step = "idle" /\ req' = r /\ r \in Request /\ phase # "down" /\ phase' = phase
  BY ArrivalFrame
<1>2. /\ disk = session
      /\ \A id \in DOMAIN session.torrents : PrioritiesAs(session, id)
  BY <1>1 DEF PriorityInv
<1>0. ASSUME MarksKept PROVE \A x : Dressed(x)' => Dressed(x)
  BY <1>0 DEF MarksKept, SameMarks, Dressed
<1>3. CASE ApplyDesired(r) \/ ApplySequential(r) \/ ApplyPriority(r)
  <2>1. /\ step' = "update" /\ UNCHANGED <<disk, session>> /\ r.id \in DOMAIN engine
        /\ r.method \in {"pause", "resume", "sequential", "priority"}
        /\ engine' = [engine EXCEPT ![r.id] = Applied(@, r)]
    BY <1>3 DEF ApplyDesired, ApplySequential, ApplyPriority, Finds, CanCall, store
  <2>2. engine[r.id] \in TorrentEntry
    BY <2>1, EntryType
  <2>3. /\ DOMAIN engine' = DOMAIN engine
        /\ \A x \in DOMAIN engine : x # r.id => engine'[x] = engine[x]
        /\ engine'[r.id].priorities
             = IF r.method = "priority" THEN MapSet(engine[r.id].priorities, r.file, r.priority)
                                        ELSE engine[r.id].priorities
    BY <1>1, <2>1, <2>2, AppliedOptions
  <2>4. \A x : Dressed(x)' => Dressed(x)
    BY <1>0, <1>3, ArrivalMarks
  <2>5. \A id \in DOMAIN session.torrents : id = r.id \/ PrioritiesAs(session, id)'
    BY <1>2, <2>1, <2>3, <2>4 DEF PrioritiesAs, Dressed
  <2>6. r.id \in DOMAIN session.torrents /\ Dressed(r.id)' =>
          engine'[r.id].priorities
            = IF r.method = "priority"
                THEN MapSet(session.torrents[r.id].priorities, r.file, r.priority)
                ELSE session.torrents[r.id].priorities
    BY <1>2, <2>3, <2>4 DEF PrioritiesAs
  <2>. QED
    BY <1>1, <1>2, <2>1, <2>5, <2>6 DEF PriorityInv
<1>4. CASE StartVerify(r)
  <2>1. step' = "verify" /\ UNCHANGED <<disk, session>> /\ r.id \in DOMAIN engine
    BY <1>4 DEF StartVerify, Finds, CanCall, store
  <2>2. engine[r.id] \in TorrentEntry
    BY <2>1, EntryType
  <2>3. OptionsKept
    BY <1>4, <2>1, <2>2 DEF StartVerify, OptionsKept, TorrentEntry
  <2>. QED
    BY <1>1, <1>2, <2>1, <2>3 DEF PriorityInv, PrioritiesAs, Dressed, OptionsKept
<1>5. CASE AddToEngine(r)
  <2>1. /\ step' = "added" /\ UNCHANGED <<disk, session>>
        /\ DOMAIN engine' = DOMAIN engine \cup {r.id}
        /\ engine'[r.id].priorities = Nothing
        /\ engine'[r.id].bare = (RecordOf(r).priorities # Nothing)
        /\ \A x \in DOMAIN engine : x # r.id => engine'[x] = engine[x]
    BY <1>5 DEF AddToEngine, MapSet, NewEntry, store
  <2>2. RecordOf(req)' = RecordOf(r)
    BY <1>1, <2>1 DEF RecordOf
  <2>3. r.id \in DOMAIN session.torrents =>
          RecordOf(r).priorities = session.torrents[r.id].priorities
    BY DEF RecordOf
  <2>4. \A id \in DOMAIN session.torrents : PrioritiesAs(session, id)'
    BY <1>2, <2>1, <2>3 DEF PrioritiesAs, Dressed
  <2>5. Dressed(req.id)' => RecordOf(r).priorities = Nothing
    BY <1>1, <2>1 DEF Dressed
  <2>6. engine'[req'.id].priorities = Nothing
    BY <1>1, <2>1
  <2>. QED
    BY <1>1, <1>2, <2>1, <2>2, <2>4, <2>5, <2>6 DEF PriorityInv
<1>6. CASE RemoveRecord(r)
  <2>1. /\ step' = "remove" /\ disk' = session' /\ previous' = session /\ engine' = engine
        /\ session'.torrents = MapDelete(session.torrents, r.id)
    BY <1>6 DEF RemoveRecord, Save
  <2>. QED
    BY <1>1, <1>2, <2>1 DEF MapDelete, Restrict, PriorityInv, PrioritiesAs, Dressed
<1>7. CASE MoveRecord(r)
  <2>1. session \in SessionType
    BY DEF TypeInv, TypeOK
  <2>2. /\ step' = "move" /\ disk' = session' /\ engine' = engine
        /\ session'.torrents = session.torrents
    BY <1>7, <2>1 DEF MoveRecord, Save, SessionType
  <2>. QED
    BY <1>1, <1>2, <2>2 DEF PriorityInv, PrioritiesAs, Dressed
<1>. QED
  BY <1>3, <1>4, <1>5, <1>6, <1>7

\* PriorityInv is inductive when saving a priority does not fail and no source
\* becomes another torrent.
LEMMA StepKeepsPriorities ==
  /\ "savepriority" \notin Faults /\ "drift" \notin Faults
  /\ TypeInv /\ FreshInv /\ PriorityInv /\ [Next]_vars
  => PriorityInv'
<1> SUFFICES ASSUME "savepriority" \notin Faults, "drift" \notin Faults,
                    TypeInv, FreshInv, PriorityInv, [Next]_vars
             PROVE  PriorityInv'
  OBVIOUS
<1>1. ASSUME NEW id \in TorrentID, Restore(id) \/ RestoreFails(id) \/ RestoreOther(id)
      PROVE  PriorityInv'
  <2>1. /\ step = "restore" /\ step' = "restore" /\ id \in DOMAIN session.torrents
        /\ UNCHANGED <<disk, session, phase>> /\ phase # "down"
    BY <1>1, RestoreFrame DEF TypeInv, HandlerValid
  <2>2. /\ id \notin DOMAIN engine
        /\ \/ /\ DOMAIN engine' = DOMAIN engine \cup {id}
              /\ engine'[id].priorities = session.torrents[id].priorities
              /\ \A x \in DOMAIN engine : engine'[x] = engine[x]
           \/ engine' = engine
    BY <1>1, RestoreAdds
  <2>3. \A x \in DOMAIN session.torrents : PrioritiesAs(session, x)'
    BY <2>1, <2>2 DEF PriorityInv, PrioritiesAs, Dressed
  <2>. QED
    BY <2>1, <2>3 DEF PriorityInv
<1>2. CASE Restored \/ StartPass \/ EndPass
  <2>1. /\ step \in {"restore", "idle", "pass"} /\ step' \in {"idle", "pass"}
        /\ UNCHANGED <<disk, session, engine>> /\ phase # "down" /\ phase' # "down"
    BY <1>2 DEF Restored, StartPass, EndPass, store, life, TypeInv, HandlerValid
  <2>. QED
    BY <2>1 DEF PriorityInv, PrioritiesAs, Dressed
<1>3. ASSUME NEW id \in TorrentID,
             PassSkips(id) \/ PassPauses(id) \/ PassQueues(id) \/ PassRuns(id)
               \/ PassCannotRun(id)
      PROVE  PriorityInv'
  <2>1. /\ step = "pass" /\ step' = "pass" /\ UNCHANGED <<disk, session, phase>>
        /\ DOMAIN engine' = DOMAIN engine
        /\ \A x \in DOMAIN engine : x # id => engine'[x] = engine[x]
        /\ id \in DOMAIN engine => engine'[id].priorities = engine[id].priorities
    BY <1>3, VisitFrame
  <2>2. \A x : Dressed(x)' => Dressed(x) /\ engine'[x].priorities = engine[x].priorities
    BY <1>3, <2>1, VisitMarks DEF MarksKept, SameMarks, Dressed
  <2>. QED
    BY <2>1, <2>2 DEF PriorityInv, PrioritiesAs
<1>4. CASE Environment
  <2>1. CASE GoDown
    BY <2>1 DEF GoDown, PriorityInv
  <2>2. CASE Start
    <3>1. phase = "down" /\ engine' = engine /\ step' = "restore"
          /\ session' = disk /\ disk' = disk
      BY <2>2 DEF Start
    <3>2. DOMAIN engine = {}
      BY <3>1 DEF FreshInv
    <3>. QED
      BY <3>1, <3>2 DEF PriorityInv, PrioritiesAs, Dressed
  <2>3. CASE /\ ~GoDown
             /\ UNCHANGED <<disk, session, phase, step, req, previous>>
             /\ DOMAIN engine' = DOMAIN engine
             /\ \A x \in DOMAIN engine : engine'[x].priorities = engine[x].priorities
    <3>0. \A x : Dressed(x)' <=> Dressed(x)
      BY <1>4, <2>3, EnvironmentMarks DEF MarksKept, SameMarks, Dressed
    <3>1. \A x : /\ PrioritiesAs(session, x) => PrioritiesAs(session, x)'
                 /\ PrioritiesAs(previous, x) => PrioritiesAs(previous, x)'
      BY <2>3, <3>0 DEF PrioritiesAs, Dressed
    <3>2. step \in {"update", "added"} =>
            req.id \in DOMAIN engine /\ engine'[req.id].priorities = engine[req.id].priorities
      BY <2>3 DEF TypeInv, HandlerValid
    <3>3. (Dressed(req.id)' <=> Dressed(req.id)) /\ RecordOf(req)' = RecordOf(req)
      BY <2>3, <3>0 DEF RecordOf
    <3>. QED
      BY <2>3, <3>1, <3>2, <3>3 DEF PriorityInv
  <2>. QED
    BY <1>4, <2>1, <2>2, <2>3, EnvironmentFrame
<1>5. CASE UNCHANGED vars
  BY <1>5 DEF vars, PriorityInv, PrioritiesAs, Dressed, RecordOf
<1>. QED
  BY <1>1, <1>2, <1>3, <1>4, <1>5, ContinueKeepsPriorities, ArrivalKeepsPriorities
  DEF Next, Server, Restoration, Pass, Arrival

\* As long as a file's priority can be saved and no torrent file or link becomes
\* another torrent, every file has the priority in the engine that the session and
\* the file record, whatever is set, removed, restored or interrupted; only a
\* recorded torrent that is added again waits for the next start.
THEOREM PrioritiesStayTogether ==
  ASSUME "savepriority" \notin Faults, "drift" \notin Faults
  PROVE  Spec => []PrioritiesAgree
<1>1. Init => PriorityInv
  BY DEF Init, PriorityInv
<1>2. TypeInv /\ FreshInv /\ PriorityInv /\ [Next]_vars => PriorityInv'
  BY StepKeepsPriorities
<1>3. PriorityInv => PrioritiesAgree
  BY DEF PriorityInv, PrioritiesAgree, PrioritiesAs, Dressed
<1>. QED
  BY <1>1, <1>2, <1>3, TypesHold, RestoresAreNew, PTL DEF Spec
=============================================================================
