---------------------------- MODULE DaemonProofs ----------------------------
(***************************************************************************)
(* Proofs about Daemon, for every set of torrents, requests, limits and    *)
(* faults: the operators it is built from, types, and the validity of      *)
(* every session.                                                          *)
(***************************************************************************)
EXTENDS DaemonProperties, SequenceTheorems, TLAPS
-----------------------------------------------------------------------------
(* Maps *)

\* m[k] = v gives a map with key k added.
LEMMA MapSetFacts ==
  ASSUME NEW S, NEW T, NEW m \in Map(S, T), NEW k \in S, NEW v \in T
  PROVE  /\ MapSet(m, k, v) \in Map(S, T)
         /\ DOMAIN MapSet(m, k, v) = DOMAIN m \cup {k}
         /\ MapSet(m, k, v)[k] = v
         /\ \A x \in DOMAIN m : x # k => MapSet(m, k, v)[x] = m[x]
<1>1. PICK D \in SUBSET S : m \in [D -> T]
  BY DEF Map
<1>2. MapSet(m, k, v) = [x \in D \cup {k} |-> IF x = k THEN v ELSE m[x]]
  BY <1>1 DEF MapSet
<1>3. MapSet(m, k, v) \in [D \cup {k} -> T]
  BY <1>1, <1>2
<1>. QED
  BY <1>1, <1>2, <1>3 DEF Map

\* delete(m, k) gives a map without key k.
LEMMA MapDeleteFacts ==
  ASSUME NEW S, NEW T, NEW m \in Map(S, T), NEW k
  PROVE  /\ MapDelete(m, k) \in Map(S, T)
         /\ DOMAIN MapDelete(m, k) = DOMAIN m \ {k}
         /\ \A x \in DOMAIN m \ {k} : MapDelete(m, k)[x] = m[x]
<1>1. PICK D \in SUBSET S : m \in [D -> T]
  BY DEF Map
<1>2. MapDelete(m, k) \in [D \ {k} -> T]
  BY <1>1 DEF MapDelete, Restrict
<1>. QED
  BY <1>1, <1>2 DEF Map, MapDelete, Restrict

\* What a map holds.
LEMMA MapGet ==
  ASSUME NEW S, NEW T, NEW m \in Map(S, T), NEW k \in DOMAIN m
  PROVE  k \in S /\ m[k] \in T
BY DEF Map

\* A map with one entry changed.
LEMMA MapExcept ==
  ASSUME NEW S, NEW T, NEW m \in Map(S, T), NEW k, NEW v, k \in DOMAIN m => v \in T
  PROVE  /\ [m EXCEPT ![k] = v] \in Map(S, T)
         /\ DOMAIN [m EXCEPT ![k] = v] = DOMAIN m
         /\ k \in DOMAIN m => [m EXCEPT ![k] = v][k] = v
         /\ \A x \in DOMAIN m : x # k => [m EXCEPT ![k] = v][x] = m[x]
BY DEF Map

\* The empty map.
LEMMA NothingIsMap ==
  ASSUME NEW S, NEW T
  PROVE  Nothing \in Map(S, T) /\ DOMAIN Nothing = {}
<1>1. Nothing \in [{} -> T]
  BY DEF Nothing
<1>. QED
  BY <1>1 DEF Map
-----------------------------------------------------------------------------
(* Orders *)

\* An order without repetitions that lists exactly the keys of a map.
Lists(order, keys) == IsInjective(order) /\ Range(order) = keys

\* A new key is appended, a known one stays where it is.
LEMMA AppendedFacts ==
  ASSUME NEW S, NEW order \in Seq(S), NEW m, Lists(order, DOMAIN m), NEW k \in S
  PROVE  /\ Appended(order, m, k) \in Seq(S)
         /\ Lists(Appended(order, m, k), DOMAIN m \cup {k})
<1>1. CASE k \in DOMAIN m
  <2>1. DOMAIN m \cup {k} = DOMAIN m
    BY <1>1
  <2>. QED
    BY <1>1, <2>1 DEF Appended
<1>2. CASE k \notin DOMAIN m
  <2> DEFINE n == Len(order)
             r == Append(order, k)
  <2>1. n \in Nat /\ DOMAIN order = 1..n
    OBVIOUS
  <2>2. r \in Seq(S) /\ DOMAIN r = 1..(n + 1)
    OBVIOUS
  <2>3. \A x \in 1..(n + 1) : r[x] = IF x = n + 1 THEN k ELSE order[x]
    OBVIOUS
  <2> HIDE DEF r, n
  <2>4. k \notin Range(order)
    BY <1>2 DEF Lists
  <2>5. IsInjective(r)
    <3> SUFFICES ASSUME NEW x \in 1..(n + 1), NEW y \in 1..(n + 1), r[x] = r[y]
                 PROVE  x = y
      BY <2>2 DEF IsInjective
    <3>1. \A z \in 1..(n + 1) : z # n + 1 => z \in DOMAIN order /\ r[z] # k
      BY <2>1, <2>3, <2>4 DEF Range
    <3>. QED
      BY <2>1, <2>3, <3>1 DEF Lists, IsInjective
  <2>6. Range(r) = Range(order) \cup {k}
    BY <2>1, <2>2, <2>3 DEF Range
  <2>. QED
    BY <1>2, <2>2, <2>5, <2>6 DEF Appended, Lists, r
<1>. QED
  BY <1>1, <1>2

\* Removing one element of an order drops exactly that element.
LEMMA RemoveAtFacts ==
  ASSUME NEW S, NEW order \in Seq(S), IsInjective(order), NEW i \in DOMAIN order
  PROVE  /\ RemoveAt(order, i) \in Seq(S)
         /\ Lists(RemoveAt(order, i), Range(order) \ {order[i]})
<1> DEFINE r == RemoveAt(order, i)
           n == Len(order)
<1>1. i \in 1..n /\ n \in Nat
  OBVIOUS
<1> DEFINE front == SubSeq(order, 1, i - 1)
           back == SubSeq(order, i + 1, n)
<1>2. /\ front \in Seq(S) /\ Len(front) = i - 1
       /\ \A j \in 1..(i - 1) : front[j] = order[j]
  BY <1>1, SubSeqProperties
<1>3. /\ back \in Seq(S) /\ Len(back) = n - i
       /\ \A j \in 1..(n - i) : back[j] = order[i + j]
  BY <1>1, SubSeqProperties
<1>4. r = front \o back
  BY DEF RemoveAt
<1> HIDE DEF r, front, back, n
<1>5. r \in Seq(S) /\ Len(r) = n - 1
  BY <1>1, <1>2, <1>3, <1>4, ConcatProperties
<1>6. ASSUME NEW j \in 1..(n - 1)
      PROVE  r[j] = IF j < i THEN order[j] ELSE order[j + 1]
  <2>1. r[j] = IF j <= i - 1 THEN front[j] ELSE back[j - (i - 1)]
    BY <1>1, <1>2, <1>3, <1>4, ConcatProperties
  <2>2. CASE j < i
    BY <1>1, <1>2, <2>1, <2>2
  <2>3. CASE ~(j < i)
    <3>1. j - (i - 1) \in 1..(n - i) /\ i + (j - (i - 1)) = j + 1
      BY <1>1, <2>3
    <3>. QED
      BY <1>1, <1>3, <2>1, <2>3, <3>1
  <2>. QED
    BY <2>2, <2>3
<1>7. DOMAIN order = 1..n /\ DOMAIN r = 1..(n - 1)
  BY <1>1, <1>5, LenProperties DEF n
<1> DEFINE at(j) == IF j < i THEN j ELSE j + 1
<1>8. \A j \in 1..(n - 1) : /\ at(j) \in 1..n /\ at(j) # i
                           /\ r[j] = order[at(j)]
  BY <1>1, <1>6
<1>9. IsInjective(r)
  <2> SUFFICES ASSUME NEW x \in 1..(n - 1), NEW y \in 1..(n - 1), r[x] = r[y]
               PROVE  x = y
    BY <1>7 DEF IsInjective
  <2>1. at(x) = at(y)
    BY <1>8, <1>7 DEF IsInjective
  <2>. QED
    BY <1>1, <2>1
<1>10. Range(r) = Range(order) \ {order[i]}
  <2>1. ASSUME NEW x \in Range(r) PROVE x \in Range(order) \ {order[i]}
    <3>1. PICK j \in 1..(n - 1) : x = order[at(j)]
      BY <1>8, <1>7 DEF Range
    <3>2. at(j) \in DOMAIN order /\ i \in DOMAIN order /\ at(j) # i
      BY <1>1, <1>8, <1>7
    <3>. QED
      BY <3>1, <3>2 DEF Range, IsInjective
  <2>2. ASSUME NEW j \in 1..n, j # i PROVE order[j] \in Range(r)
    <3>1. CASE j < i
      BY <1>1, <1>6, <1>7, <3>1, j \in 1..(n - 1), r[j] = order[j] DEF Range
    <3>2. CASE j > i
      BY <1>1, <1>6, <1>7, <3>2, j - 1 \in 1..(n - 1), r[j - 1] = order[j] DEF Range
    <3>. QED
      BY <1>1, <2>2, <3>1, <3>2
  <2>. QED
    BY <1>1, <1>7, <2>1, <2>2 DEF Range
<1>. QED
  BY <1>5, <1>9, <1>10 DEF Lists, r

\* Removing a key drops exactly that key.
LEMMA RemoveFirstFacts ==
  ASSUME NEW S, NEW order \in Seq(S), NEW keys, Lists(order, keys), NEW k
  PROVE  /\ RemoveFirst(order, k) \in Seq(S)
         /\ Lists(RemoveFirst(order, k), keys \ {k})
<1>1. CASE k \in keys
  <2>1. PICK i \in 1..Len(order) : order[i] = k
    BY <1>1 DEF Lists, Range
  <2>2. {j \in 1..Len(order) : order[j] = k} = {i}
    BY <2>1 DEF Lists, IsInjective
  <2>3. SelectInSeq(order, LAMBDA v : v = k) = i
    BY <2>1, <2>2 DEF SelectInSeq, Min
  <2>4. RemoveFirst(order, k) = RemoveAt(order, i)
    BY <2>1, <2>3 DEF RemoveFirst
  <2>. QED
    BY <2>1, <2>4, RemoveAtFacts DEF Lists
<1>2. CASE k \notin keys
  <2>1. ~ \E i \in 1..Len(order) : order[i] = k
    BY <1>2 DEF Lists, Range
  <2>2. keys \ {k} = keys
    BY <1>2
  <2>. QED
    BY <2>1, <2>2 DEF RemoveFirst
<1>. QED
  BY <1>1, <1>2

\* A move permutes the order.
LEMMA MovedFacts ==
  ASSUME NEW S, NEW order \in Seq(S), NEW keys, Lists(order, keys), NEW k,
         NEW offset \in {-1, 1}
  PROVE  /\ Moved(order, k, offset) \in Seq(S)
         /\ Lists(Moved(order, k, offset), keys)
<1> DEFINE i == CHOOSE i \in DOMAIN order : order[i] = k
           j == i + offset
<1>1. CASE Contains(order, k) /\ j \in DOMAIN order
  <2> DEFINE m == [order EXCEPT ![i] = order[j], ![j] = order[i]]
  <2>1. i \in DOMAIN order /\ order[i] = k
    BY <1>1 DEF Contains
  <2>2. Moved(order, k, offset) = m
    BY <1>1 DEF Moved
  <2> HIDE DEF i, j
  <2>3. m \in Seq(S) /\ DOMAIN m = DOMAIN order
    BY <1>1, <2>1
  <2>4. \A x \in DOMAIN order :
          m[x] = IF x = j THEN order[i] ELSE IF x = i THEN order[j] ELSE order[x]
    BY <1>1, <2>1
  <2> HIDE DEF m
  <2>5. IsInjective(m)
    BY <1>1, <2>1, <2>3, <2>4 DEF Lists, IsInjective
  <2>6. Range(m) = Range(order)
    BY <1>1, <2>1, <2>3, <2>4 DEF Range
  <2>. QED
    BY <2>2, <2>3, <2>5, <2>6 DEF Lists
<1>2. CASE ~(Contains(order, k) /\ j \in DOMAIN order)
  BY <1>2 DEF Moved
<1>. QED
  BY <1>1, <1>2
-----------------------------------------------------------------------------
(* The inductive invariant *)

\* The actor's order and map list the same torrents.
ActorValid == Lists(torrents.order, DOMAIN torrents.snaps)

\* The restore visits recorded torrents, a pass visits listed ones.
TodoKnown == /\ step = "restore" => Range(todo) \subseteq DOMAIN session.torrents
             /\ step = "pass" => Range(todo) \subseteq DOMAIN torrents.snaps

\* A handler is in a step of its own request, and a torrent whose engine
\* operation it may still undo is in the engine.
HandlerValid ==
  /\ phase = "down" => step = "idle"
  /\ step \in {"idle", "restore", "pass"} => req = NoRequest
  /\ step \notin {"idle", "restore", "pass"} => req \in Request
  /\ step = "update" => req.method \in {"pause", "resume", "sequential", "priority"}
  /\ step = "put" => req.method \in {"pause", "resume", "sequential", "add"}
  /\ step = "added" => req.method = "add"
  /\ step = "verify" => req.method = "verify"
  /\ step \in {"remove", "forget"} => req.method = "remove"
  /\ step = "move" => req.method = "move"
  /\ step \in {"update", "verify", "added"} => req.id \in DOMAIN engine
  /\ step = "update" /\ req.method = "priority" => req.id \in DOMAIN session.torrents

TypeInv == TypeOK /\ SessionsValid /\ ActorValid /\ TodoKnown /\ HandlerValid
-----------------------------------------------------------------------------
(* Types of the pieces *)

\* A session that can be saved: well typed and valid.
GoodSession(s) == s \in SessionType /\ Valid(s)

\* The session of a first start is good.
LEMMA EmptySessionGood == GoodSession(EmptySession)
<1>1. EmptySession.torrents \in Map(TorrentID, TorrentRecord)
      /\ DOMAIN EmptySession.torrents = {}
  BY NothingIsMap DEF EmptySession
<1>2. EmptySession.order \in Seq(TorrentID) /\ DOMAIN EmptySession.order = {}
  BY DEF EmptySession
<1>3. EmptySession \in SessionType
  BY <1>1, <1>2 DEF EmptySession, SessionType
<1>. QED
  BY <1>1, <1>2, <1>3 DEF GoodSession, Valid, IsInjective, Range

\* A session whose order and map are kept in step is good.
LEMMA GoodSessionIntro ==
  ASSUME NEW order \in Seq(TorrentID), NEW m \in Map(TorrentID, TorrentRecord),
         Lists(order, DOMAIN m)
  PROVE  GoodSession([order |-> order, torrents |-> m])
BY DEF GoodSession, SessionType, Valid, Lists

\* What a good session is made of.
LEMMA GoodSessionElim ==
  ASSUME NEW s, GoodSession(s)
  PROVE  /\ s.order \in Seq(TorrentID)
         /\ s.torrents \in Map(TorrentID, TorrentRecord)
         /\ Lists(s.order, DOMAIN s.torrents)
         /\ s = [order |-> s.order, torrents |-> s.torrents]
BY DEF GoodSession, SessionType, Valid, Lists

\* The new record of updateRecord is a record.
LEMMA UpdatedRecordType ==
  ASSUME NEW record \in TorrentRecord, NEW r \in Request,
         r.method \in {"pause", "resume", "sequential", "priority"}
  PROVE  UpdatedRecord(record, r) \in TorrentRecord
<1>1. CASE r.method \in {"pause", "resume"}
  BY <1>1 DEF UpdatedRecord, TorrentRecord, Desired
<1>2. CASE r.method = "sequential"
  <2>1. r.enabled \in BOOLEAN
    BY <1>2 DEF Request, AddRequest, TorrentRequest, MoveRequest, SequentialRequest,
                PriorityRequest
  <2>. QED
    BY <1>2, <2>1 DEF UpdatedRecord, TorrentRecord
<1>3. CASE r.method = "priority"
  <2>1. r.file \in File /\ r.priority \in Priority
    BY <1>3 DEF Request, AddRequest, TorrentRequest, MoveRequest, SequentialRequest,
                PriorityRequest
  <2>2. record.priorities \in Map(File, Priority)
    BY DEF TorrentRecord
  <2>3. MapSet(record.priorities, r.file, r.priority) \in Map(File, Priority)
    BY <2>1, <2>2, MapSetFacts
  <2>. QED
    BY <1>3, <2>3 DEF UpdatedRecord, TorrentRecord
<1>. QED
  BY <1>1, <1>2, <1>3

\* The request's engine operation and its undoing keep an engine entry one.
LEMMA AppliedType ==
  ASSUME NEW e \in TorrentEntry, NEW r \in Request,
         r.method \in {"pause", "resume", "sequential", "priority"}
  PROVE  Applied(e, r) \in TorrentEntry
<1>1. CASE r.method \in {"pause", "resume"}
  BY <1>1 DEF Applied, TorrentEntry
<1>2. CASE r.method = "sequential"
  <2>1. r.enabled \in BOOLEAN
    BY <1>2 DEF Request, AddRequest, TorrentRequest, MoveRequest, SequentialRequest,
                PriorityRequest
  <2>. QED
    BY <1>2, <2>1 DEF Applied, WithSequential, TorrentEntry
<1>3. CASE r.method = "priority"
  <2>1. r.file \in File /\ r.priority \in Priority
    BY <1>3 DEF Request, AddRequest, TorrentRequest, MoveRequest, SequentialRequest,
                PriorityRequest
  <2>2. e.priorities \in Map(File, Priority)
    BY DEF TorrentEntry
  <2>3. MapSet(e.priorities, r.file, r.priority) \in Map(File, Priority)
    BY <2>1, <2>2, MapSetFacts
  <2>. QED
    BY <1>3, <2>3 DEF Applied, WithPriority, TorrentEntry
<1>. QED
  BY <1>1, <1>2, <1>3

\* Undoing an engine operation keeps an engine entry one.
LEMMA UndoneType ==
  ASSUME NEW e \in TorrentEntry, TypeInv, step = "update"
  PROVE  Undone(e, req) \in TorrentEntry
<1>1. /\ req \in Request
      /\ req.method \in {"pause", "resume", "sequential", "priority"}
      /\ got \in TorrentSnapshot
      /\ req.method = "priority" => req.id \in DOMAIN session.torrents
  BY DEF TypeInv, TypeOK, HandlerValid
<1>2. CASE req.method \in {"pause", "resume"}
  BY <1>2 DEF Undone, TorrentEntry
<1>3. CASE req.method = "sequential"
  BY <1>1, <1>3 DEF Undone, WithSequential, TorrentEntry, TorrentSnapshot
<1>4. CASE req.method = "priority"
  <2>1. req.file \in File
    BY <1>1, <1>4 DEF Request, AddRequest, TorrentRequest, MoveRequest,
                      SequentialRequest, PriorityRequest
  <2>2. session.torrents \in Map(TorrentID, TorrentRecord)
    BY DEF TypeInv, TypeOK, SessionType
  <2>3. session.torrents[req.id] \in TorrentRecord
    BY <1>1, <1>4, <2>2, MapGet
  <2>4. session.torrents[req.id].priorities \in Map(File, Priority)
    BY <2>3 DEF TorrentRecord
  <2>5. SavedPriority(req) \in Priority
    BY <2>4, MapGet, PriorityAssumption DEF SavedPriority
  <2>6. e.priorities \in Map(File, Priority)
    BY DEF TorrentEntry
  <2>7. MapSet(e.priorities, req.file, SavedPriority(req)) \in Map(File, Priority)
    BY <2>1, <2>5, <2>6, MapSetFacts
  <2>. QED
    BY <1>4, <2>7 DEF Undone, WithPriority, TorrentEntry
<1>. QED
  BY <1>1, <1>2, <1>3, <1>4

\* A snapshot of an entry is a snapshot; a new entry is an entry.
LEMMA SnapshotOfType ==
  ASSUME NEW e \in TorrentEntry
  PROVE  SnapshotOf(e) \in TorrentSnapshot
BY DEF SnapshotOf, TorrentEntry, TorrentSnapshot, TorrentState

\* A new engine entry is one.
LEMMA NewEntryType ==
  ASSUME NEW p \in BOOLEAN, NEW s \in BOOLEAN, NEW priorities \in Map(File, Priority),
         NEW info \in MetadataAtAdd
  PROVE  NewEntry(p, s, priorities, info) \in TorrentEntry
BY MetadataAssumption DEF NewEntry, TorrentEntry

\* The session with the request's record updated is good.
LEMMA UpdatedSessionGood ==
  ASSUME TypeInv, step = "update", req.id \in DOMAIN session.torrents
  PROVE  /\ GoodSession(UpdatedSession)
         /\ DOMAIN UpdatedSession.torrents = DOMAIN session.torrents
<1>1. GoodSession(session)
  BY DEF TypeInv, TypeOK, SessionsValid, GoodSession
<1>2. /\ session.order \in Seq(TorrentID)
      /\ session.torrents \in Map(TorrentID, TorrentRecord)
      /\ Lists(session.order, DOMAIN session.torrents)
      /\ session = [order |-> session.order, torrents |-> session.torrents]
  BY <1>1, GoodSessionElim
<1> DEFINE record == UpdatedRecord(session.torrents[req.id], req)
           m == [session.torrents EXCEPT ![req.id] = record]
<1>3. record \in TorrentRecord
  BY <1>2, MapGet, UpdatedRecordType DEF TypeInv, HandlerValid
<1>4. m \in Map(TorrentID, TorrentRecord) /\ DOMAIN m = DOMAIN session.torrents
  BY <1>2, <1>3, MapExcept
<1>5. UpdatedSession = [order |-> session.order, torrents |-> m]
  BY <1>2 DEF UpdatedSession
<1>. QED
  BY <1>2, <1>4, <1>5, GoodSessionIntro

\* put keeps the actor's state typed and its order and map in step.
LEMMA PutSnapshotGood ==
  ASSUME TypeInv, NEW id \in TorrentID, NEW s \in TorrentSnapshot, PutSnapshot(id, s)
  PROVE  /\ torrents' \in [order : Seq(TorrentID), snaps : Map(TorrentID, TorrentSnapshot)]
         /\ ActorValid'
         /\ DOMAIN torrents.snaps \subseteq DOMAIN torrents'.snaps
<1>1. /\ torrents.order \in Seq(TorrentID)
      /\ torrents.snaps \in Map(TorrentID, TorrentSnapshot)
      /\ Lists(torrents.order, DOMAIN torrents.snaps)
  BY DEF TypeInv, TypeOK, ActorValid
<1> DEFINE o == Appended(torrents.order, torrents.snaps, id)
           m == MapSet(torrents.snaps, id, s)
<1>2. o \in Seq(TorrentID) /\ Lists(o, DOMAIN torrents.snaps \cup {id})
  BY <1>1, AppendedFacts
<1>3. m \in Map(TorrentID, TorrentSnapshot)
  BY <1>1, MapSetFacts
<1>4. DOMAIN m = DOMAIN torrents.snaps \cup {id}
  BY DEF MapSet
<1>5. torrents' = [order |-> o, snaps |-> m]
  BY DEF PutSnapshot
<1> HIDE DEF o, m
<1>6. torrents'.order = o /\ torrents'.snaps = m
  BY <1>5
<1>7. torrents' \in [order : Seq(TorrentID), snaps : Map(TorrentID, TorrentSnapshot)]
  BY <1>2, <1>3, <1>5
<1>8. ActorValid'
  BY <1>2, <1>4, <1>6 DEF ActorValid, Lists
<1>. QED
  BY <1>4, <1>6, <1>7, <1>8

\* The torrents still to visit after the first of them.
LEMMA TailKnown ==
  ASSUME NEW q \in Seq(TorrentID), q # <<>>
  PROVE  /\ Head(q) \in Range(q)
         /\ Head(q) \in TorrentID
         /\ Tail(q) \in Seq(TorrentID)
         /\ Range(Tail(q)) \subseteq Range(q)
<1>1. Head(q) = q[1] /\ 1 \in DOMAIN q /\ Tail(q) \in Seq(TorrentID)
  OBVIOUS
<1>2. \A i \in 1..Len(Tail(q)) : i + 1 \in 1..Len(q) /\ Tail(q)[i] = q[i + 1]
  BY HeadTailProperties
<1>. QED
  BY <1>1, <1>2 DEF Range
-----------------------------------------------------------------------------
(* Every step keeps the types and the validity of the sessions *)

\* Starts, stops, crashes and the torrents' progress keep TypeInv.
LEMMA EnvironmentKeepsTypes ==
  ASSUME TypeInv, Environment
  PROVE  TypeInv'
<1> USE DEF TypeInv, TypeOK, SessionsValid, ActorValid, TodoKnown, HandlerValid, store,
            life, pass, history
<1>1. CASE Start
  <2>1. disk.order \in Seq(TorrentID) /\ Range(disk.order) = DOMAIN disk.torrents
    BY DEF SessionType, Valid
  <2>. QED
    BY <1>1, <2>1 DEF Start, Step
<1>2. CASE Cancel
  BY <1>2 DEF Cancel
<1>3. CASE ActorExits
  BY <1>3 DEF ActorExits
<1>4. ASSUME GoDown PROVE TypeInv'
  <2>1. /\ GoodSession(EmptySession)
        /\ EmptySession.order = <<>>
        /\ DOMAIN Nothing = {}
        /\ Nothing \in Map(TorrentID, TorrentSnapshot)
        /\ Nothing \in Map(TorrentID, TorrentEntry)
        /\ Nothing \in Map(TorrentID, BOOLEAN)
    BY EmptySessionGood, NothingIsMap DEF EmptySession
  <2>2. /\ session' \in SessionType /\ Valid(session)'
        /\ previous' \in SessionType /\ Valid(previous)'
        /\ disk' \in SessionType /\ Valid(disk)'
    BY <1>4, <2>1 DEF GoDown, Finish, GoodSession
  <2>3. ActorValid'
    BY <1>4, <2>1 DEF GoDown, Lists, IsInjective, Range
  <2>4. torrents' \in [order : Seq(TorrentID), snaps : Map(TorrentID, TorrentSnapshot)]
    BY <1>4, <2>1 DEF GoDown
  <2>5. acked' \in [TorrentID -> Desired \cup {"none"}]
    <3>1. \A id \in TorrentID : DesiredIn(disk, id) \in Desired \cup {"none"}
      <4>1. disk.torrents \in Map(TorrentID, TorrentRecord)
        BY DEF SessionType
      <4>2. \A id \in DOMAIN disk.torrents : disk.torrents[id] \in TorrentRecord
        BY <4>1, MapGet
      <4>. QED
        BY <4>2 DEF DesiredIn, TorrentRecord
    <3>. QED
      BY <1>4, <3>1 DEF GoDown
  <2>6. got' \in TorrentSnapshot /\ todo' \in Seq(TorrentID)
        /\ active' \in [downloads : Nat, seeds : Nat]
    BY <1>4 DEF GoDown, Finish, ErrorSnapshot, TorrentSnapshot, TorrentState, NoneActive
  <2>7. engine' \in Map(TorrentID, TorrentEntry) /\ scheduled' \in Map(TorrentID, BOOLEAN)
    BY <1>4, <2>1 DEF GoDown
  <2>8. /\ phase' = "down" /\ cancelled' = FALSE /\ actor' = FALSE /\ step' = "idle"
        /\ req' = NoRequest /\ lost' = {}
    BY <1>4 DEF GoDown, Finish
  <2>. QED
    BY <2>2, <2>3, <2>4, <2>5, <2>6, <2>7, <2>8 DEF Step
<1>5. CASE Return
  BY <1>4, <1>5 DEF Return
<1>6. CASE Crash
  BY <1>4, <1>6 DEF Crash
<1>7. ASSUME NEW id \in TorrentID, NEW e \in TorrentEntry,
             engine' = [engine EXCEPT ![id] = e],
             UNCHANGED <<store, torrents, scheduled, life, step, req, got, previous, pass,
                         history>>
      PROVE  TypeInv'
  <2>1. engine' \in Map(TorrentID, TorrentEntry) /\ DOMAIN engine' = DOMAIN engine
    BY <1>7, MapExcept
  <2>. QED
    BY <1>7, <2>1
<1>8. ASSUME NEW id \in TorrentID, GotInfo(id) PROVE TypeInv'
  <2> DEFINE e == [engine[id] EXCEPT !.info = TRUE]
  <2>1. engine[id] \in TorrentEntry
    BY <1>8, MapGet DEF GotInfo, Live
  <2>2. e \in TorrentEntry
    BY <2>1 DEF TorrentEntry
  <2>3. engine' = [engine EXCEPT ![id] = e]
    BY <1>8 DEF GotInfo
  <2>. QED
    BY <1>7, <1>8, <2>2, <2>3 DEF GotInfo
<1>9. ASSUME NEW id \in TorrentID, Complete(id) PROVE TypeInv'
  <2> DEFINE e == [engine[id] EXCEPT !.done = TRUE]
  <2>1. engine[id] \in TorrentEntry
    BY <1>9, MapGet DEF Complete, Live
  <2>2. e \in TorrentEntry
    BY <2>1 DEF TorrentEntry
  <2>3. engine' = [engine EXCEPT ![id] = e]
    BY <1>9 DEF Complete
  <2>. QED
    BY <1>7, <1>9, <2>2, <2>3 DEF Complete
<1>. QED
  BY <1>1, <1>2, <1>3, <1>5, <1>6, <1>8, <1>9 DEF Environment
-----------------------------------------------------------------------------
(* Steps of the handler that holds controlMu *)

\* What every request has, and what its method adds.
LEMMA RequestFacts ==
  ASSUME NEW r \in Request
  PROVE  /\ r.id \in TorrentID
         /\ r # NoRequest
         /\ r.method = "add" => r.paused \in BOOLEAN /\ r.sequential \in BOOLEAN
         /\ r.method = "move" => r.offset \in {-1, 1}
         /\ r.method = "sequential" => r.enabled \in BOOLEAN
         /\ r.method = "priority" => r.file \in File /\ r.priority \in Priority
BY DEF Request, AddRequest, TorrentRequest, MoveRequest, SequentialRequest,
       PriorityRequest, NoRequest

\* The session asks something or nothing of every torrent.
LEMMA DesiredInType ==
  ASSUME NEW s \in SessionType
  PROVE  \A id : DesiredIn(s, id) \in Desired \cup {"none"}
<1>1. s.torrents \in Map(TorrentID, TorrentRecord)
  BY DEF SessionType
<1>2. \A id \in DOMAIN s.torrents : s.torrents[id] \in TorrentRecord
  BY <1>1, MapGet
<1>. QED
  BY <1>2 DEF DesiredIn, TorrentRecord

\* An operation that gives up or is done leaves nothing behind.
LEMMA FinishGood ==
  ASSUME TypeInv, Finish
  PROVE  /\ step' = "idle"
         /\ req' = NoRequest
         /\ got' \in TorrentSnapshot
         /\ previous' \in SessionType
         /\ Valid(previous)'
         /\ HandlerValid'
         /\ TodoKnown'
<1>1. got' \in TorrentSnapshot
  BY DEF Finish, ErrorSnapshot, TorrentSnapshot, TorrentState
<1>2. previous' \in SessionType /\ Valid(previous)'
  BY EmptySessionGood DEF Finish, GoodSession, Valid
<1>. QED
  BY <1>1, <1>2 DEF Finish, HandlerValid, TodoKnown

\* An operation on one torrent keeps the engine's entries typed.
LEMMA EntryGood ==
  ASSUME TypeInv, NEW id, NEW e, id \in DOMAIN engine => e \in TorrentEntry,
         engine' = [engine EXCEPT ![id] = e]
  PROVE  engine' \in Map(TorrentID, TorrentEntry) /\ DOMAIN engine' = DOMAIN engine
<1>1. engine \in Map(TorrentID, TorrentEntry)
  BY DEF TypeInv, TypeOK
<1>. QED
  BY <1>1, MapExcept

\* The save of pause, resume, sequential and priority keeps TypeInv.
LEMMA UpdateKeepsTypes ==
  ASSUME TypeInv, UpdateRecord \/ UpdateRecordFails
  PROVE  TypeInv'
<1> USE DEF TypeInv, TypeOK, SessionsValid, ActorValid, TodoKnown, HandlerValid, store,
            life, pass, history
<1>1. /\ req \in Request /\ req.id \in TorrentID
      /\ req.method \in {"pause", "resume", "sequential", "priority"}
      /\ req.id \in DOMAIN engine
  BY RequestFacts DEF UpdateRecord, UpdateRecordFails
<1>2. CASE UpdateRecord
  <2>1. GoodSession(UpdatedSession) /\ DOMAIN UpdatedSession.torrents = DOMAIN session.torrents
    BY <1>2, UpdatedSessionGood DEF UpdateRecord
  <2>2. /\ session' \in SessionType /\ Valid(session)'
        /\ disk' \in SessionType /\ Valid(disk)'
    BY <1>2, <2>1 DEF UpdateRecord, Save, GoodSession, Valid
  <2>3. CASE Finish
    BY <1>2, <2>2, <2>3, FinishGood DEF UpdateRecord, Step
  <2>4. CASE ~Finish
    BY <1>1, <1>2, <2>2, <2>4 DEF UpdateRecord, Step
  <2>. QED
    BY <2>3, <2>4
<1>3. CASE UpdateRecordFails
  <2>1. GoodSession(session')
    BY <1>3, UpdatedSessionGood DEF UpdateRecordFails, SharedMapUpdate, GoodSession
  <2>2. session' \in SessionType /\ Valid(session)'
    BY <2>1 DEF GoodSession, Valid
  <2>3. engine[req.id] \in TorrentEntry
    BY <1>1, MapGet
  <2>4. Undone(engine[req.id], req) \in TorrentEntry
    BY <1>3, <2>3, UndoneType DEF UpdateRecordFails
  <2>5. engine' = [engine EXCEPT ![req.id] = Undone(engine[req.id], req)]
    BY <1>3 DEF UpdateRecordFails
  <2>6. engine' \in Map(TorrentID, TorrentEntry)
    BY <2>4, <2>5, EntryGood
  <2>7. Finish
    BY <1>3 DEF UpdateRecordFails
  <2>. QED
    BY <1>3, <2>2, <2>6, <2>7, FinishGood DEF UpdateRecordFails, Step
<1>. QED
  BY <1>2, <1>3

\* The last step of a handler, its snapshot, keeps TypeInv.
LEMMA PutTorrentKeepsTypes ==
  ASSUME TypeInv, PutTorrent
  PROVE  TypeInv'
<1> USE DEF TypeInv, TypeOK, SessionsValid, ActorValid, TodoKnown, HandlerValid, store,
            life, pass
<1>1. /\ req \in Request /\ req.id \in TorrentID
      /\ req.method \in {"pause", "resume", "sequential", "add"}
      /\ req.method = "sequential" => req.enabled \in BOOLEAN
  BY RequestFacts DEF PutTorrent
<1>2. FinalSnapshot \in TorrentSnapshot
  BY <1>1 DEF FinalSnapshot, TorrentSnapshot, TorrentState
<1>3. /\ torrents' \in [order : Seq(TorrentID), snaps : Map(TorrentID, TorrentSnapshot)]
      /\ ActorValid'
  BY <1>1, <1>2, PutSnapshotGood DEF PutTorrent
<1>4. acked' \in [TorrentID -> Desired \cup {"none"}]
  BY DesiredInType DEF PutTorrent, Acknowledge
<1>5. Finish
  BY DEF PutTorrent
<1>. QED
  BY <1>3, <1>4, <1>5, FinishGood DEF PutTorrent, Step

\* The end of a verification keeps TypeInv.
LEMMA VerifyKeepsTypes ==
  ASSUME TypeInv, Verified \/ VerifyFails
  PROVE  TypeInv'
<1> USE DEF TypeInv, TypeOK, SessionsValid, ActorValid, TodoKnown, HandlerValid, store,
            life, pass, history
<1>1. req.id \in DOMAIN engine
  BY DEF Verified, VerifyFails
<1>2. engine[req.id] \in TorrentEntry
  BY <1>1, MapGet
<1>3. engine' \in Map(TorrentID, TorrentEntry)
  <2>1. CASE Verified
    <3>1. PICK done \in BOOLEAN, stopped \in {WasPaused, WasPaused \/ cancelled} :
            engine' = [engine EXCEPT ![req.id].done = done,
                                     ![req.id].paused = @ /\ stopped]
      BY <2>1 DEF Verified
    <3> DEFINE paused == engine[req.id].paused /\ stopped
               e == [engine[req.id] EXCEPT !.done = done, !.paused = paused]
    <3>2. paused \in BOOLEAN
      OBVIOUS
    <3>3. e \in TorrentEntry
      BY <1>2, <3>2 DEF TorrentEntry
    <3>4. engine' = [engine EXCEPT ![req.id] = e]
      BY <1>1, <1>2, <3>1 DEF TorrentEntry
    <3>. QED
      BY <3>3, <3>4, EntryGood
  <2>2. CASE VerifyFails
    <3> DEFINE paused == engine[req.id].paused /\ WasPaused
               e == [engine[req.id] EXCEPT !.paused = paused]
    <3>1. paused \in BOOLEAN
      OBVIOUS
    <3>2. e \in TorrentEntry
      BY <1>2, <3>1 DEF TorrentEntry
    <3>3. engine' = [engine EXCEPT ![req.id] = e]
      BY <2>2 DEF VerifyFails
    <3>. QED
      BY <3>2, <3>3, EntryGood
  <2>. QED
    BY <2>1, <2>2
<1>4. Finish
  BY DEF Verified, VerifyFails
<1>. QED
  BY <1>3, <1>4, FinishGood DEF Verified, VerifyFails, Step

\* The further steps of torrent.add keep TypeInv.
LEMMA AddKeepsTypes ==
  ASSUME TypeInv, RecordTorrent \/ RecordTorrentFails \/ AddInterrupted
  PROVE  TypeInv'
<1> USE DEF TypeInv, TypeOK, SessionsValid, ActorValid, TodoKnown, HandlerValid, store,
            life, pass, history
<1>1. /\ req \in Request /\ req.id \in TorrentID /\ req.id \in DOMAIN engine
      /\ req.paused \in BOOLEAN /\ req.sequential \in BOOLEAN /\ req.method = "add"
  BY RequestFacts DEF RecordTorrent, RecordTorrentFails, AddInterrupted
<1>2. CASE RecordTorrent
  <2>1. /\ session.order \in Seq(TorrentID)
        /\ session.torrents \in Map(TorrentID, TorrentRecord)
        /\ Lists(session.order, DOMAIN session.torrents)
    BY GoodSessionElim DEF GoodSession
  <2>2. RecordOf(req) \in TorrentRecord
    <3>1. req.id \in DOMAIN session.torrents =>
            session.torrents[req.id].priorities \in Map(File, Priority)
      <4>1. req.id \in DOMAIN session.torrents => session.torrents[req.id] \in TorrentRecord
        BY <2>1, MapGet
      <4>. QED
        BY <4>1 DEF TorrentRecord
    <3>2. Nothing \in Map(File, Priority)
      BY NothingIsMap
    <3>. QED
      BY <1>1, <3>1, <3>2 DEF RecordOf, TorrentRecord, Desired
  <2> DEFINE order == Appended(session.order, session.torrents, req.id)
             m == MapSet(session.torrents, req.id, RecordOf(req))
  <2>3. order \in Seq(TorrentID) /\ Lists(order, DOMAIN session.torrents \cup {req.id})
    BY <1>1, <2>1, AppendedFacts
  <2>4. m \in Map(TorrentID, TorrentRecord)
    BY <1>1, <2>1, <2>2, MapSetFacts
  <2>5. DOMAIN m = DOMAIN session.torrents \cup {req.id}
    BY DEF MapSet
  <2>6. session' = [order |-> order, torrents |-> m] /\ disk' = session'
    BY <1>2 DEF RecordTorrent, Save
  <2> HIDE DEF order, m
  <2>7. GoodSession([order |-> order, torrents |-> m])
    BY <2>3, <2>4, <2>5, GoodSessionIntro
  <2>8. /\ session' \in SessionType /\ Valid(session)'
        /\ disk' \in SessionType /\ Valid(disk)'
    BY <2>6, <2>7 DEF GoodSession, Valid
  <2>9. got' \in TorrentSnapshot
    <3>1. engine[req.id] \in TorrentEntry
      BY <1>1, MapGet
    <3>. QED
      BY <1>2, <3>1, SnapshotOfType DEF RecordTorrent
  <2>. QED
    BY <1>1, <1>2, <2>8, <2>9 DEF RecordTorrent, Step
<1>3. CASE RecordTorrentFails
  <2>1. engine' \in Map(TorrentID, TorrentEntry)
    <3>1. CASE engine' = MapDelete(engine, req.id)
      BY <3>1, MapDeleteFacts
    <3>2. CASE engine' = [engine EXCEPT ![req.id].dropped = TRUE, ![req.id].stray = TRUE]
      <4> DEFINE e == [engine[req.id] EXCEPT !.dropped = TRUE, !.stray = TRUE]
      <4>1. engine[req.id] \in TorrentEntry
        BY <1>1, MapGet
      <4>2. e \in TorrentEntry
        BY <4>1 DEF TorrentEntry
      <4>3. engine' = [engine EXCEPT ![req.id] = e]
        BY <3>2
      <4> HIDE DEF e
      <4>. QED
        BY <1>1, <4>2, <4>3, MapExcept
    <3>. QED
      BY <1>3, <3>1, <3>2 DEF RecordTorrentFails
  <2>2. Finish
    BY <1>3 DEF RecordTorrentFails
  <2>. QED
    BY <1>3, <2>1, <2>2, FinishGood DEF RecordTorrentFails, Step
<1>4. CASE AddInterrupted
  <2>1. Finish
    BY <1>4 DEF AddInterrupted
  <2>. QED
    BY <1>4, <2>1, FinishGood DEF AddInterrupted, Step
<1>. QED
  BY <1>2, <1>3, <1>4

\* The further steps of a removal, done or undone, keep TypeInv.
LEMMA RemoveKeepsTypes ==
  ASSUME TypeInv,
         RemoveFromEngine \/ RemoveUndone \/ RemoveNotUndone \/ ForgetTorrent
  PROVE  TypeInv'
<1> USE DEF TypeInv, TypeOK, SessionsValid, ActorValid, TodoKnown, HandlerValid, store,
            life, pass, history
<1>1. req \in Request /\ req.id \in TorrentID
  BY RequestFacts
  DEF RemoveFromEngine, RemoveUndone, RemoveNotUndone, RemoveFails, ForgetTorrent
<1>2. CASE RemoveFromEngine
  <2>1. engine' \in Map(TorrentID, TorrentEntry)
    BY <1>2, MapDeleteFacts DEF RemoveFromEngine
  <2>2. scheduled' \in Map(TorrentID, BOOLEAN)
    BY <1>2, MapDeleteFacts DEF RemoveFromEngine
  <2>. QED
    BY <1>1, <1>2, <2>1, <2>2 DEF RemoveFromEngine, Step
<1>3. RemoveFails => engine' \in Map(TorrentID, TorrentEntry)
  <2>1. ASSUME NEW done \in BOOLEAN, NEW dropped \in BOOLEAN, CanCall(req.id),
               engine' = [engine EXCEPT ![req.id].done = done,
                                        ![req.id].dropped = dropped]
        PROVE  engine' \in Map(TorrentID, TorrentEntry)
    <3> DEFINE e == [engine[req.id] EXCEPT !.done = done, !.dropped = dropped]
    <3>1. engine[req.id] \in TorrentEntry
      BY <2>1, MapGet DEF CanCall
    <3>2. e \in TorrentEntry
      BY <3>1 DEF TorrentEntry
    <3>3. engine' = [engine EXCEPT ![req.id] = e]
      BY <2>1
    <3> HIDE DEF e
    <3>. QED
      BY <3>2, <3>3, EntryGood
  <2>2. ASSUME CanCall(req.id), engine' = [engine EXCEPT ![req.id].dropped = TRUE]
        PROVE  engine' \in Map(TorrentID, TorrentEntry)
    <3> DEFINE e == [engine[req.id] EXCEPT !.dropped = TRUE]
    <3>1. engine[req.id] \in TorrentEntry
      BY <2>2, MapGet DEF CanCall
    <3>2. e \in TorrentEntry
      BY <3>1 DEF TorrentEntry
    <3>3. engine' = [engine EXCEPT ![req.id] = e]
      BY <2>2
    <3> HIDE DEF e
    <3>. QED
      BY <3>2, <3>3, EntryGood
  <2>. QED
    BY <2>1, <2>2 DEF RemoveFails
<1>4. CASE RemoveUndone
  <2>1. /\ session' \in SessionType /\ Valid(session)'
        /\ disk' \in SessionType /\ Valid(disk)'
    BY <1>4 DEF RemoveUndone, Save, Valid
  <2>2. Finish
    BY <1>4 DEF RemoveUndone
  <2>. QED
    BY <1>3, <1>4, <2>1, <2>2, FinishGood DEF RemoveUndone, Step
<1>5. CASE RemoveNotUndone
  <2>1. Finish
    BY <1>5 DEF RemoveNotUndone
  <2>. QED
    BY <1>1, <1>3, <1>5, <2>1, FinishGood DEF RemoveNotUndone, Step
<1>6. CASE ForgetTorrent
  <2>1. /\ torrents.order \in Seq(TorrentID)
        /\ torrents.snaps \in Map(TorrentID, TorrentSnapshot)
        /\ Lists(torrents.order, DOMAIN torrents.snaps)
    OBVIOUS
  <2> DEFINE order == RemoveFirst(torrents.order, req.id)
             snaps == MapDelete(torrents.snaps, req.id)
  <2>2. order \in Seq(TorrentID) /\ Lists(order, DOMAIN torrents.snaps \ {req.id})
    BY <2>1, RemoveFirstFacts
  <2>3. snaps \in Map(TorrentID, TorrentSnapshot)
    BY <2>1, MapDeleteFacts
  <2>4. DOMAIN snaps = DOMAIN torrents.snaps \ {req.id}
    BY DEF MapDelete, Restrict
  <2>5. torrents' = [order |-> order, snaps |-> snaps]
    BY <1>6 DEF ForgetTorrent
  <2> HIDE DEF order, snaps
  <2>6. torrents' \in [order : Seq(TorrentID), snaps : Map(TorrentID, TorrentSnapshot)]
    BY <2>2, <2>3, <2>5
  <2>7. torrents'.order = order /\ torrents'.snaps = snaps
    BY <2>5
  <2>8. ActorValid'
    BY <2>2, <2>4, <2>7 DEF Lists
  <2>9. acked' \in [TorrentID -> Desired \cup {"none"}]
    BY <1>6, DesiredInType DEF ForgetTorrent, Acknowledge
  <2>10. Finish
    BY <1>6 DEF ForgetTorrent
  <2>. QED
    BY <1>6, <2>6, <2>8, <2>9, <2>10, FinishGood DEF ForgetTorrent, Step
<1>. QED
  BY <1>2, <1>4, <1>5, <1>6

\* The second step of a move keeps TypeInv.
LEMMA MoveKeepsTypes ==
  ASSUME TypeInv, MoveSnapshot
  PROVE  TypeInv'
<1> USE DEF TypeInv, TypeOK, SessionsValid, ActorValid, TodoKnown, HandlerValid, store,
            life, pass, history
<1>1. req.offset \in {-1, 1}
  BY RequestFacts DEF MoveSnapshot
<1>2. /\ torrents.order \in Seq(TorrentID)
      /\ torrents.snaps \in Map(TorrentID, TorrentSnapshot)
      /\ Lists(torrents.order, DOMAIN torrents.snaps)
  OBVIOUS
<1> DEFINE order == Moved(torrents.order, req.id, req.offset)
<1>3. order \in Seq(TorrentID) /\ Lists(order, DOMAIN torrents.snaps)
  BY <1>1, <1>2, MovedFacts
<1>4. /\ torrents' \in [order : Seq(TorrentID), snaps : Map(TorrentID, TorrentSnapshot)]
      /\ torrents'.order = order /\ torrents'.snaps = torrents.snaps
  BY <1>2, <1>3 DEF MoveSnapshot
<1> HIDE DEF order
<1>5. ActorValid'
  BY <1>3, <1>4 DEF Lists
<1>6. Finish
  BY DEF MoveSnapshot
<1>. QED
  BY <1>4, <1>5, <1>6, FinishGood DEF MoveSnapshot, Step

\* Every step of a handler keeps the types.
LEMMA ContinueKeepsTypes ==
  ASSUME TypeInv, Continue
  PROVE  TypeInv'
BY UpdateKeepsTypes, PutTorrentKeepsTypes, VerifyKeepsTypes, AddKeepsTypes,
   RemoveKeepsTypes, MoveKeepsTypes DEF Continue
-----------------------------------------------------------------------------
(* Arrivals, passes and the restore *)

\* The first step of every handler keeps TypeInv.
LEMMA ArrivalKeepsTypes ==
  ASSUME TypeInv, NEW r \in Requests,
         \/ ApplyDesired(r) \/ ApplySequential(r) \/ ApplyPriority(r) \/ StartVerify(r)
         \/ AddToEngine(r) \/ RemoveRecord(r) \/ MoveRecord(r)
  PROVE  TypeInv'
<1> USE DEF TypeInv, TypeOK, SessionsValid, ActorValid, TodoKnown, HandlerValid, store,
            life, pass, history
<1>1. /\ r \in Request /\ r.id \in TorrentID
      /\ r.method = "add" => r.paused \in BOOLEAN /\ r.sequential \in BOOLEAN
      /\ r.method = "move" => r.offset \in {-1, 1}
  BY RequestAssumption, RequestFacts
<1>2. Takes(r)
  BY DEF ApplyDesired, ApplySequential, ApplyPriority, StartVerify, AddToEngine,
         RemoveRecord, MoveRecord
<1>3. r.id \in DOMAIN torrents.snaps => torrents.snaps[r.id] \in TorrentSnapshot
  <2>1. torrents.snaps \in Map(TorrentID, TorrentSnapshot)
    OBVIOUS
  <2>. QED
    BY <2>1, MapGet
<1>4. r.id \in DOMAIN engine => engine[r.id] \in TorrentEntry
  BY MapGet
<1>5. /\ session.order \in Seq(TorrentID)
      /\ session.torrents \in Map(TorrentID, TorrentRecord)
      /\ Lists(session.order, DOMAIN session.torrents)
  BY GoodSessionElim DEF GoodSession
<1>6. MapDelete(scheduled, r.id) \in Map(TorrentID, BOOLEAN)
  BY MapDeleteFacts
<1>7. CASE ApplyDesired(r) \/ ApplySequential(r) \/ ApplyPriority(r)
  <2>1. /\ r.method \in {"pause", "resume", "sequential", "priority"}
        /\ Finds(r.id)
        /\ engine' = [engine EXCEPT ![r.id] = Applied(engine[r.id], r)]
    BY <1>7 DEF ApplyDesired, ApplySequential, ApplyPriority
  <2>2. engine' \in Map(TorrentID, TorrentEntry) /\ DOMAIN engine' = DOMAIN engine
    BY <1>1, <1>4, <2>1, AppliedType, EntryGood
  <2>3. got' \in TorrentSnapshot /\ scheduled' \in Map(TorrentID, BOOLEAN)
    BY <1>3, <1>6, <1>7 DEF ApplyDesired, ApplySequential, ApplyPriority, Finds
  <2>4. /\ step' = "update" /\ req' = r /\ r.id \in DOMAIN engine'
        /\ r.method = "priority" => r.id \in DOMAIN session.torrents
        /\ UNCHANGED <<disk, session, torrents, phase, cancelled, actor, previous, todo,
                       active, acked, lost>>
        /\ phase = "serving"
    BY <1>2, <1>7, <2>1, <2>2
    DEF ApplyDesired, ApplySequential, ApplyPriority, Finds, CanCall, Takes
  <2>. QED
    BY <1>1, <2>1, <2>2, <2>3, <2>4 DEF Step
<1>8. CASE StartVerify(r)
  <2> DEFINE e == [engine[r.id] EXCEPT !.paused = TRUE]
  <2>1. r.id \in DOMAIN engine
    BY <1>8 DEF StartVerify, Finds, CanCall
  <2>2. e \in TorrentEntry
    BY <1>4, <2>1 DEF TorrentEntry
  <2>3. engine' = engine \/ engine' = [engine EXCEPT ![r.id] = e]
    BY <1>8 DEF StartVerify
  <2>4. engine' \in Map(TorrentID, TorrentEntry) /\ DOMAIN engine' = DOMAIN engine
    BY <2>2, <2>3, EntryGood
  <2>5. got' \in TorrentSnapshot /\ scheduled' \in Map(TorrentID, BOOLEAN)
    BY <1>3, <1>6, <1>8 DEF StartVerify, Finds
  <2>. QED
    BY <1>1, <1>2, <1>8, <2>1, <2>4, <2>5 DEF StartVerify, Takes, Step
<1>9. CASE AddToEngine(r)
  <2> DEFINE bare == RecordOf(r).priorities # Nothing
             New(info) == NewEntry(r.paused, r.sequential, Nothing, info)
  <2>1. PICK info \in MetadataAtAdd :
          engine' = MapSet(engine, r.id, [New(info) EXCEPT !.bare = bare])
    BY <1>9 DEF AddToEngine
  <2>2. Nothing \in Map(File, Priority)
    BY NothingIsMap
  <2> DEFINE e == [New(info) EXCEPT !.bare = bare]
  <2>3. e \in TorrentEntry
    <3>1. New(info) \in TorrentEntry
      BY <1>1, <1>9, <2>2, NewEntryType DEF AddToEngine
    <3>2. bare \in BOOLEAN
      OBVIOUS
    <3> HIDE DEF bare, New
    <3>. QED
      BY <3>1, <3>2 DEF TorrentEntry
  <2> HIDE DEF e
  <2>4. engine' \in Map(TorrentID, TorrentEntry)
    <3>1. MapSet(engine, r.id, e) \in Map(TorrentID, TorrentEntry)
      BY <1>1, <2>3, MapSetFacts
    <3>. QED
      BY <2>1, <3>1 DEF e
  <2>5. r.id \in DOMAIN engine'
    BY <2>1 DEF MapSet
  <2>. QED
    BY <1>1, <1>2, <1>9, <2>4, <2>5 DEF AddToEngine, Takes, Step
<1>10. CASE RemoveRecord(r)
  <2> DEFINE order == RemoveFirst(session.order, r.id)
             m == MapDelete(session.torrents, r.id)
  <2>1. order \in Seq(TorrentID) /\ Lists(order, DOMAIN session.torrents \ {r.id})
    BY <1>5, RemoveFirstFacts
  <2>2. m \in Map(TorrentID, TorrentRecord)
    BY <1>5, MapDeleteFacts
  <2>3. DOMAIN m = DOMAIN session.torrents \ {r.id}
    BY DEF MapDelete, Restrict
  <2>4. session' = [order |-> order, torrents |-> m] /\ disk' = session'
    BY <1>10 DEF RemoveRecord, Save
  <2> HIDE DEF order, m
  <2>5. GoodSession([order |-> order, torrents |-> m])
    BY <2>1, <2>2, <2>3, GoodSessionIntro
  <2>6. /\ session' \in SessionType /\ Valid(session)'
        /\ disk' \in SessionType /\ Valid(disk)'
        /\ previous' \in SessionType /\ Valid(previous)'
    BY <1>10, <2>4, <2>5 DEF GoodSession, Valid, RemoveRecord
  <2>. QED
    BY <1>1, <1>2, <1>10, <2>6 DEF RemoveRecord, Takes, Step
<1>11. CASE MoveRecord(r)
  <2> DEFINE order == Moved(session.order, r.id, r.offset)
  <2>1. r.offset \in {-1, 1}
    BY <1>1, <1>11 DEF MoveRecord
  <2>2. order \in Seq(TorrentID) /\ Lists(order, DOMAIN session.torrents)
    BY <1>5, <2>1, MovedFacts
  <2>3. session = [order |-> session.order, torrents |-> session.torrents]
    BY GoodSessionElim DEF GoodSession
  <2>4. session' = [order |-> order, torrents |-> session.torrents] /\ disk' = session'
    BY <1>11, <2>3 DEF MoveRecord, Save
  <2> HIDE DEF order
  <2>5. GoodSession([order |-> order, torrents |-> session.torrents])
    BY <1>5, <2>2, GoodSessionIntro
  <2>6. /\ session' \in SessionType /\ Valid(session)'
        /\ disk' \in SessionType /\ Valid(disk)'
    BY <2>4, <2>5 DEF GoodSession, Valid
  <2>. QED
    BY <1>1, <1>2, <1>11, <2>6 DEF MoveRecord, Takes, Step
<1>. QED
  BY <1>7, <1>8, <1>9, <1>10, <1>11

\* What the restore and the pass have still to visit is known.
LEMMA VisitGood ==
  ASSUME TypeInv, todo # <<>>
  PROVE  /\ Head(todo) \in TorrentID
         /\ Tail(todo) \in Seq(TorrentID)
         /\ step = "restore" => /\ Head(todo) \in DOMAIN session.torrents
                                /\ Range(Tail(todo)) \subseteq DOMAIN session.torrents
         /\ step = "pass" => /\ Head(todo) \in DOMAIN torrents.snaps
                             /\ Range(Tail(todo)) \subseteq DOMAIN torrents.snaps
<1>1. todo \in Seq(TorrentID)
  BY DEF TypeInv, TypeOK
<1>. QED
  BY <1>1, TailKnown DEF TypeInv, TodoKnown

\* The restore keeps TypeInv.
LEMMA RestorationKeepsTypes ==
  ASSUME TypeInv, Restoration
  PROVE  TypeInv'
<1> USE DEF TypeInv, TypeOK, SessionsValid, ActorValid, TodoKnown, HandlerValid, store,
            life, pass, history
<1>1. ASSUME NEW id \in TorrentID, Restoring(id), NEW s \in TorrentSnapshot,
             PutSnapshot(id, s), engine' \in Map(TorrentID, TorrentEntry)
      PROVE  TypeInv'
  <2>1. /\ torrents' \in [order : Seq(TorrentID), snaps : Map(TorrentID, TorrentSnapshot)]
        /\ ActorValid'
    BY <1>1, PutSnapshotGood
  <2>2. /\ todo' \in Seq(TorrentID)
        /\ Range(todo') \subseteq DOMAIN session.torrents
        /\ step = "restore"
    BY <1>1, VisitGood DEF Restoring
  <2>. QED
    BY <1>1, <2>1, <2>2 DEF Restoring, Step
<1>2. ErrorSnapshot \in TorrentSnapshot
  BY DEF ErrorSnapshot, TorrentSnapshot, TorrentState
<1>3. ASSUME NEW id \in TorrentID, Restoring(id)
      PROVE  /\ (session.torrents[id].desired = "paused") \in BOOLEAN
             /\ session.torrents[id].sequential \in BOOLEAN
             /\ session.torrents[id].priorities \in Map(File, Priority)
  <2>1. session.torrents \in Map(TorrentID, TorrentRecord)
    BY DEF SessionType
  <2>2. id \in DOMAIN session.torrents
    BY <1>3, VisitGood DEF Restoring
  <2>3. session.torrents[id] \in TorrentRecord
    BY <2>1, <2>2, MapGet
  <2>. QED
    BY <2>3 DEF TorrentRecord
<1>4. ASSUME NEW id \in TorrentID, Restoring(id), NEW other \in TorrentID,
             NEW info \in MetadataAtAdd,
             engine' = MapSet(engine, other,
                              NewEntry(session.torrents[id].desired = "paused",
                                       session.torrents[id].sequential,
                                       session.torrents[id].priorities, info))
      PROVE  engine' \in Map(TorrentID, TorrentEntry) /\ other \in DOMAIN engine'
  <2> DEFINE e == NewEntry(session.torrents[id].desired = "paused",
                           session.torrents[id].sequential,
                           session.torrents[id].priorities, info)
  <2>1. e \in TorrentEntry
    BY <1>3, <1>4, NewEntryType
  <2>2. engine' = MapSet(engine, other, e)
    BY <1>4
  <2> HIDE DEF e
  <2>3. MapSet(engine, other, e) \in Map(TorrentID, TorrentEntry)
    BY <2>1, MapSetFacts
  <2>. QED
    BY <2>2, <2>3 DEF MapSet
<1>5. ASSUME NEW id \in TorrentID, Restoring(id), AddRestored(id)
      PROVE  engine' \in Map(TorrentID, TorrentEntry) /\ id \in DOMAIN engine'
  <2>1. CASE id \in DOMAIN engine
    <3> DEFINE paused == session.torrents[id].desired = "paused" \/ engine[id].paused
               e == [engine[id] EXCEPT !.paused = paused]
    <3>1. engine[id] \in TorrentEntry
      BY <2>1, MapGet
    <3>2. paused \in BOOLEAN
      OBVIOUS
    <3>3. e \in TorrentEntry
      BY <3>1, <3>2 DEF TorrentEntry
    <3>4. engine' = [engine EXCEPT ![id] = e]
      BY <1>5, <2>1 DEF AddRestored
    <3>. QED
      BY <2>1, <3>3, <3>4, EntryGood
  <2>2. CASE id \notin DOMAIN engine
    BY <1>4, <1>5, <2>2 DEF AddRestored
  <2>. QED
    BY <2>1, <2>2
<1>6. ASSUME NEW id \in TorrentID, Restore(id) PROVE TypeInv'
  <2>1. Restoring(id) /\ AddRestored(id) /\ PutSnapshot(id, SnapshotOf(engine'[id]))
    BY <1>6 DEF Restore
  <2>2. engine' \in Map(TorrentID, TorrentEntry) /\ id \in DOMAIN engine'
    BY <1>5, <2>1
  <2>3. engine'[id] \in TorrentEntry
    <3>1. \A m \in Map(TorrentID, TorrentEntry) : \A k \in DOMAIN m : m[k] \in TorrentEntry
      BY MapGet
    <3>. QED
      BY <2>2, <3>1
  <2>4. SnapshotOf(engine'[id]) \in TorrentSnapshot
    BY <2>3, SnapshotOfType
  <2>. QED
    BY <1>1, <2>1, <2>2, <2>4
<1>7. ASSUME NEW id \in TorrentID, RestoreFails(id) PROVE TypeInv'
  <2>1. Restoring(id) /\ PutSnapshot(id, ErrorSnapshot)
    BY <1>7 DEF RestoreFails
  <2>2. engine' = engine \/ AddRestored(id)
    BY <1>7 DEF RestoreFails
  <2>3. engine' \in Map(TorrentID, TorrentEntry)
    BY <1>5, <2>1, <2>2
  <2>. QED
    BY <1>1, <1>2, <2>1, <2>3
<1>8. ASSUME NEW id \in TorrentID, RestoreOther(id) PROVE TypeInv'
  <2>1. Restoring(id) /\ PutSnapshot(id, ErrorSnapshot)
    BY <1>8 DEF RestoreOther
  <2>2. engine' \in Map(TorrentID, TorrentEntry)
    BY <1>4, <1>8, <2>1 DEF RestoreOther
  <2>. QED
    BY <1>1, <1>2, <2>1, <2>2
<1>9. CASE Restored
  <2>1. torrents.order \in Seq(TorrentID) /\ Range(torrents.order) = DOMAIN torrents.snaps
    BY DEF Lists
  <2>. QED
    BY <1>9, <2>1 DEF Restored, Step
<1>. QED
  BY <1>6, <1>7, <1>8, <1>9 DEF Restoration

\* setScheduled keeps the engine and the cache typed.
LEMMA ScheduledGood ==
  ASSUME TypeInv, NEW id \in TorrentID, NEW running \in BOOLEAN,
         SetScheduled(id, running) \/ KeepScheduled(id, running)
  PROVE  /\ engine' \in Map(TorrentID, TorrentEntry)
         /\ DOMAIN engine' = DOMAIN engine
         /\ scheduled' \in Map(TorrentID, BOOLEAN)
<1>1. engine \in Map(TorrentID, TorrentEntry) /\ scheduled \in Map(TorrentID, BOOLEAN)
  BY DEF TypeInv, TypeOK
<1>2. CASE KeepScheduled(id, running)
  BY <1>1, <1>2 DEF KeepScheduled
<1>3. CASE SetScheduled(id, running)
  <2> DEFINE e == [engine[id] EXCEPT !.paused = ~running]
  <2>1. engine[id] \in TorrentEntry
    BY <1>1, <1>3, MapGet DEF SetScheduled, CanCall
  <2>2. e \in TorrentEntry
    BY <2>1 DEF TorrentEntry
  <2>3. engine' = [engine EXCEPT ![id] = e]
    BY <1>3 DEF SetScheduled
  <2>4. MapSet(scheduled, id, running) \in Map(TorrentID, BOOLEAN)
    BY <1>1, MapSetFacts
  <2>. QED
    BY <1>3, <2>2, <2>3, <2>4, EntryGood DEF SetScheduled
<1>. QED
  BY <1>2, <1>3

\* What the pass puts for a torrent is a snapshot.
LEMMA FreshGood ==
  ASSUME TypeInv, NEW id \in DOMAIN torrents.snaps,
         engine' \in Map(TorrentID, TorrentEntry), DOMAIN engine' = DOMAIN engine
  PROVE  Fresh(id) \in TorrentSnapshot
<1>1. \A m \in Map(TorrentID, TorrentEntry) : \A k \in DOMAIN m : m[k] \in TorrentEntry
  BY MapGet
<1>2. CanCall(id) => engine'[id] \in TorrentEntry
  BY <1>1 DEF CanCall
<1>3. torrents.snaps \in Map(TorrentID, TorrentSnapshot)
  BY DEF TypeInv, TypeOK
<1>4. torrents.snaps[id] \in TorrentSnapshot
  BY <1>3, MapGet
<1>. QED
  BY <1>2, <1>4, SnapshotOfType DEF Fresh

\* A scheduling pass keeps TypeInv.
LEMMA PassKeepsTypes ==
  ASSUME TypeInv, Pass
  PROVE  TypeInv'
<1> USE DEF TypeInv, TypeOK, SessionsValid, ActorValid, TodoKnown, HandlerValid, store,
            life, pass, history
<1>1. Range(torrents.order) = DOMAIN torrents.snaps /\ torrents.order \in Seq(TorrentID)
  BY DEF Lists
<1>2. CASE StartPass
  BY <1>1, <1>2 DEF StartPass, Step
<1>3. CASE EndPass
  BY <1>3 DEF EndPass, NoneActive, Step, Range
<1>4. ASSUME NEW id \in TorrentID, Visiting(id),
             torrents' \in [order : Seq(TorrentID), snaps : Map(TorrentID, TorrentSnapshot)],
             ActorValid', DOMAIN torrents.snaps \subseteq DOMAIN torrents'.snaps,
             engine' \in Map(TorrentID, TorrentEntry), DOMAIN engine' = DOMAIN engine,
             scheduled' \in Map(TorrentID, BOOLEAN),
             active' \in [downloads : Nat, seeds : Nat]
      PROVE  TypeInv'
  <2>1. /\ todo' \in Seq(TorrentID)
        /\ Range(todo') \subseteq DOMAIN torrents'.snaps
        /\ step = "pass"
    BY <1>4, VisitGood DEF Visiting
  <2>. QED
    BY <1>4, <2>1 DEF Visiting, Step
<1>5. ASSUME NEW id \in TorrentID, Visiting(id), NEW running \in BOOLEAN,
             SetScheduled(id, running) \/ KeepScheduled(id, running),
             NEW s \in TorrentSnapshot, PutOrGiveUp(id, s),
             active' \in [downloads : Nat, seeds : Nat]
      PROVE  TypeInv'
  <2>1. /\ engine' \in Map(TorrentID, TorrentEntry) /\ DOMAIN engine' = DOMAIN engine
        /\ scheduled' \in Map(TorrentID, BOOLEAN)
    BY <1>5, ScheduledGood
  <2>2. /\ torrents' \in [order : Seq(TorrentID), snaps : Map(TorrentID, TorrentSnapshot)]
        /\ ActorValid'
        /\ DOMAIN torrents.snaps \subseteq DOMAIN torrents'.snaps
    BY <1>5, PutSnapshotGood DEF PutOrGiveUp
  <2>. QED
    BY <1>4, <1>5, <2>1, <2>2
<1>6. ASSUME NEW id \in TorrentID, Visiting(id) PROVE id \in DOMAIN torrents.snaps
  BY <1>6, VisitGood DEF Visiting
<1>7. ASSUME NEW id \in TorrentID, NEW state \in TorrentState, Visiting(id), Stop(id, state)
      PROVE  TypeInv'
  <2>1. SetScheduled(id, FALSE) \/ KeepScheduled(id, FALSE)
    BY <1>7 DEF Stop
  <2>2. Fresh(id) \in TorrentSnapshot
    BY <1>6, <1>7, <2>1, ScheduledGood, FreshGood
  <2>3. [Fresh(id) EXCEPT !.state = state] \in TorrentSnapshot
    BY <2>2 DEF TorrentSnapshot
  <2>. QED
    BY <1>5, <1>7, <2>1, <2>3 DEF Stop
<1>8. ASSUME NEW id \in TorrentID, PassSkips(id) PROVE TypeInv'
  BY <1>4, <1>8 DEF PassSkips
<1>9. ASSUME NEW id \in TorrentID, PassPauses(id) PROVE TypeInv'
  BY <1>7, <1>9 DEF PassPauses, TorrentState
<1>10. ASSUME NEW id \in TorrentID, PassQueues(id) PROVE TypeInv'
  BY <1>7, <1>10 DEF PassQueues, TorrentState
<1>11. ASSUME NEW id \in TorrentID, PassRuns(id) PROVE TypeInv'
  <2>1. SetScheduled(id, TRUE) \/ KeepScheduled(id, TRUE)
    BY <1>11 DEF PassRuns
  <2>2. Visiting(id) /\ PutOrGiveUp(id, Fresh(id))
    BY <1>11 DEF PassRuns
  <2>3. Fresh(id) \in TorrentSnapshot
    BY <1>6, <2>1, <2>2, ScheduledGood, FreshGood
  <2>4. active' \in [downloads : Nat, seeds : Nat]
    BY <1>11 DEF PassRuns, Class
  <2>. QED
    BY <1>5, <2>1, <2>2, <2>3, <2>4
<1>12. ASSUME NEW id \in TorrentID, PassCannotRun(id) PROVE TypeInv'
  BY <1>4, <1>12 DEF PassCannotRun, KeepScheduled
<1>. QED
  BY <1>2, <1>3, <1>8, <1>9, <1>10, <1>11, <1>12 DEF Pass
-----------------------------------------------------------------------------
(* The theorems on types and sessions *)

\* TypeInv holds initially.
LEMMA InitTypes == Init => TypeInv
<1> SUFFICES ASSUME Init PROVE TypeInv
  OBVIOUS
<1>1. GoodSession(EmptySession)
  BY EmptySessionGood
<1>2. disk = EmptySession /\ session = EmptySession /\ previous = EmptySession
  BY DEF Init
<1>3. SessionsValid /\ disk \in SessionType
  BY <1>1, <1>2 DEF GoodSession, SessionsValid
<1>4. /\ Nothing \in Map(TorrentID, TorrentSnapshot)
      /\ Nothing \in Map(TorrentID, TorrentEntry)
      /\ Nothing \in Map(TorrentID, BOOLEAN)
      /\ DOMAIN Nothing = {}
  BY NothingIsMap
<1>5. torrents \in [order : Seq(TorrentID), snaps : Map(TorrentID, TorrentSnapshot)]
      /\ ActorValid
  BY <1>4 DEF Init, ActorValid, Lists, IsInjective, Range
<1>6. TypeOK
  BY <1>2, <1>3, <1>4, <1>5 DEF Init, TypeOK, Step, ErrorSnapshot, TorrentSnapshot,
     TorrentState, NoneActive, EmptySession
<1>. QED
  BY <1>3, <1>5, <1>6 DEF Init, TypeInv, TodoKnown, HandlerValid

\* TypeInv is inductive.
LEMMA StepKeepsTypes == TypeInv /\ [Next]_vars => TypeInv'
<1> SUFFICES ASSUME TypeInv, [Next]_vars PROVE TypeInv'
  OBVIOUS
<1>1. CASE Restoration
  BY <1>1, RestorationKeepsTypes
<1>2. CASE Pass
  BY <1>2, PassKeepsTypes
<1>3. CASE Continue
  BY <1>3, ContinueKeepsTypes
<1>4. CASE Arrival
  BY <1>4, ArrivalKeepsTypes DEF Arrival
<1>5. CASE Environment
  BY <1>5, EnvironmentKeepsTypes
<1>6. CASE UNCHANGED vars
  BY <1>6 DEF vars, TypeInv, TypeOK, SessionsValid, Valid, ActorValid, TodoKnown,
              HandlerValid
<1>. QED
  BY <1>1, <1>2, <1>3, <1>4, <1>5, <1>6 DEF Next, Server

\* TypeInv, the inductive invariant under types and sessions, always holds: the
\* order a torrent is listed in and the maps that hold it never drift apart, and a
\* handler that has still to undo an engine operation finds its torrent there.
THEOREM TypesHold == Spec => []TypeInv
BY InitTypes, StepKeepsTypes, PTL DEF Spec

\* Every variable has its type in every reachable state.
THEOREM TypeCorrect == Spec => []TypeOK
<1>1. TypeInv => TypeOK
  BY DEF TypeInv
<1>. QED
  BY <1>1, TypesHold, PTL

\* validateSession never refuses a session the daemon builds: order and records
\* match in memory, on disk and in the copy kept for a rollback, through every
\* interleaving of requests, failed saves, cancellation and crashes.
THEOREM SessionsStayValid == Spec => []SessionsValid
<1>1. TypeInv => SessionsValid
  BY DEF TypeInv
<1>. QED
  BY <1>1, TypesHold, PTL
=============================================================================
