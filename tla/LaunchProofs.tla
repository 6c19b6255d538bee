---------------------------- MODULE LaunchProofs ----------------------------
(***************************************************************************)
(* Proofs about Launch, for any number of processes.                       *)
(***************************************************************************)
EXTENDS Launch, TLAPS

Serving == {p \in Process : at[p] \in {"serving", "saving", "installing"}}

\* Exactly the holder of the lock is past it, and the path leads to it as soon
\* as it listens.
LockInv == /\ \A p \in Process : p \in Holders <=> lock = p
           /\ \A p \in Serving : socket = p

LaunchInv == TypeOK /\ LockInv

\* LaunchInv holds initially.
LEMMA InitLaunch == Init => LaunchInv
BY NobodyAssumption, AbsentAssumption DEF Init, LaunchInv, LockInv, TypeOK, At, Holders, Serving

\* A process that moves on with the lock as it was.
LEMMA Moves ==
  ASSUME LaunchInv, NEW p \in Process, NEW to \in At, UNCHANGED lock,
         at' = [at EXCEPT ![p] = to],
         p \in Holders <=> to \notin {"off", "creating", "replacing", "loaded"},
         \/ socket' = socket /\ (to \in {"serving", "saving", "installing"} => p \in Serving)
         \/ p \in Holders /\ socket' = p
         \/ p \in Holders /\ to \notin {"serving", "saving", "installing"}
  PROVE  at' \in [Process -> At] /\ LockInv'
<1>1. at \in [Process -> At] /\ (\A q \in Process : q \in Holders <=> lock = q)
  BY DEF LaunchInv, LockInv, TypeOK
<1>2. at' \in [Process -> At]
  BY <1>1
<1>3. \A q \in Process : q \in Holders' <=> q \in Holders
  BY <1>1 DEF Holders, At
<1>4. ASSUME NEW q \in Serving' PROVE socket' = q
  <2>1. q \in Holders /\ (q # p => q \in Serving)
    BY <1>1, <1>3, <1>4 DEF Serving, Holders
  <2>2. q \in Serving => socket = q
    BY DEF LaunchInv, LockInv
  <2>3. q = p => to \in {"serving", "saving", "installing"}
    BY <1>1, <1>4 DEF Serving
  <2>4. p \in Holders => q = p
    BY <1>1, <2>1 DEF Holders
  <2>. QED
    BY <2>1, <2>2, <2>3, <2>4
<1>. QED
  BY <1>1, <1>2, <1>3, <1>4 DEF LockInv

\* LaunchInv is inductive.
LEMMA StepLaunch == LaunchInv /\ [Next]_vars => LaunchInv'
<1> SUFFICES ASSUME LaunchInv, [Next]_vars PROVE LaunchInv'
  OBVIOUS
<1>1. CASE UNCHANGED vars
  BY <1>1 DEF vars, LaunchInv, LockInv, TypeOK, Holders, Serving
<1>2. ASSUME NEW p \in Process,
             \/ Load(p) \/ LoadMissing(p) \/ BackUp(p) \/ InstallDefault(p) \/ Acquire(p)
             \/ Refused(p) \/ StartEngine(p) \/ StartFails(p) \/ Listen(p)
             \/ (\E change \in Change : Begin(p, change)) \/ Answer(p) \/ Stop(p)
             \/ RemoveEndpoint(p) \/ Release(p) \/ Crash(p)
      PROVE  LaunchInv'
  <2>1. /\ file' = Absent \/ file' \subseteq Change
        /\ session' \in [Process -> SUBSET Change]
        /\ pending' \in [Process -> SUBSET Change]
        /\ acked' \subseteq Change
        /\ overtaken' \subseteq Process
        /\ trespass' \in BOOLEAN
    <3> USE DEF LaunchInv, TypeOK, history
    <3>1. CASE Load(p)
      BY <3>1 DEF Load
    <3>2. CASE LoadMissing(p)
      BY <3>2 DEF LoadMissing
    <3>3. CASE BackUp(p)
      BY <3>3 DEF BackUp
    <3>4. CASE InstallDefault(p)
      BY <3>4 DEF InstallDefault, Install, Readers
    <3>5. CASE Acquire(p)
      BY <3>5 DEF Acquire
    <3>6. CASE Refused(p) \/ StartEngine(p) \/ StartFails(p) \/ Listen(p) \/ Stop(p)
               \/ RemoveEndpoint(p) \/ Release(p) \/ Crash(p)
      BY <3>6 DEF Refused, StartEngine, StartFails, Listen, Stop, RemoveEndpoint, Release,
                  Crash
    <3>7. ASSUME NEW change \in Change, Begin(p, change)
          PROVE  pending' \in [Process -> SUBSET Change]
                 /\ UNCHANGED <<file, session, acked, overtaken, trespass>>
      BY <3>7 DEF Begin
    <3>8. CASE Answer(p)
      BY <3>8 DEF Answer, Install, Readers
    <3>. QED
      BY <1>2, <3>1, <3>2, <3>3, <3>4, <3>5, <3>6, <3>7, <3>8
  <2>2. at' \in [Process -> At] /\ LockInv'
    <3>1. CASE Load(p) \/ LoadMissing(p) \/ InstallDefault(p) \/ Refused(p)
      BY <3>1, Moves DEF Load, LoadMissing, InstallDefault, Install, Refused, Goes, At, Holders
    <3>2. CASE BackUp(p)
      BY <3>2, Moves DEF BackUp, Goes, At, Holders, Serving
    <3>3. CASE StartEngine(p) \/ StartFails(p)
      BY <3>3, Moves DEF StartEngine, StartFails, Goes, At, Holders
    <3>4. CASE Listen(p)
      BY <3>4, Moves DEF Listen, Goes, At, Holders
    <3>5. ASSUME NEW change \in Change, Begin(p, change)
          PROVE  at' \in [Process -> At] /\ LockInv'
      BY <3>5, Moves DEF Begin, Goes, At, Holders, Serving
    <3>6. CASE Answer(p)
      BY <3>6, Moves DEF Answer, Install, Goes, At, Holders, Serving
    <3>7. CASE Stop(p) \/ RemoveEndpoint(p)
      BY <3>7, Moves DEF Stop, CloseListener, RemoveEndpoint, Goes, At, Holders
    <3>8. CASE Acquire(p)
      BY <3>8, NobodyAssumption
      DEF Acquire, Goes, At, LaunchInv, LockInv, TypeOK, Holders, Serving
    <3>9. CASE Release(p) \/ Crash(p)
      BY <3>9, NobodyAssumption
      DEF Release, Crash, Goes, At, LaunchInv, LockInv, TypeOK, Holders, Serving
    <3>. QED
      BY <1>2, <3>1, <3>2, <3>3, <3>4, <3>5, <3>6, <3>7, <3>8, <3>9
  <2>3. lock' \in Process \cup {Nobody} /\ socket' \in Process \cup {Nobody}
    BY <1>2
    DEF LaunchInv, TypeOK, Load, LoadMissing, BackUp, InstallDefault, Install, Acquire,
        Refused, StartEngine, StartFails, Listen, Begin, Answer, Stop, RemoveEndpoint,
        Release, Crash
  <2>4. \A q \in Process : session'[q] # Absent
    BY <2>1, AbsentAssumption
  <2>. QED
    BY <2>1, <2>2, <2>3, <2>4 DEF LaunchInv, TypeOK
<1>. QED
  BY <1>1, <1>2 DEF Next

\* Types, and no process ever takes a missing file for a session.
THEOREM LaunchTyped == Spec => []TypeOK
<1>1. LaunchInv => TypeOK
  BY DEF LaunchInv
<1>. QED
  BY <1>1, InitLaunch, StepLaunch, PTL DEF Spec

\* However many processes are started on the same files, and whatever crashes,
\* failed starts and stops fall between their steps: a serving daemon holds the
\* lock alone, and the socket's path leads to it.
THEOREM ServerReachable == Spec => []ServerIsReachable
<1>1. LaunchInv => ServerIsReachable
  <2> SUFFICES ASSUME LaunchInv, NEW p \in Process,
                      at[p] \in {"serving", "saving", "installing"}
               PROVE  lock = p /\ socket = p /\ Holders = {p}
    BY DEF ServerIsReachable
  <2>1. p \in Holders /\ p \in Serving
    BY DEF Holders, Serving
  <2>. QED
    BY <2>1 DEF LaunchInv, LockInv, Holders
<1>. QED
  BY <1>1, InitLaunch, StepLaunch, PTL DEF Spec
-----------------------------------------------------------------------------
(* Hand-overs *)

\* The holder is about to put the file in place that it has moved away.
Installing == \E p \in Process : at[p] \in {"installing", "finishing"}

\* It has a save under way.
SavingAt == {"saving", "installing", "draining", "finishing"}

\* Who knows what clients were told: the holder; session.json; and whoever has
\* read it since it was last saved. While the holder installs, the file may be
\* anything, and all that have read it then will be overtaken.
KeptInv ==
  ~trespass =>
    /\ \A p \in Holders : acked \subseteq session[p]
    /\ \A p \in Process : at[p] \in SavingAt => session[p] \subseteq pending[p]
    /\ \/ Installing
       \/ /\ acked = {} \/ (file # Absent /\ acked \subseteq file)
          /\ \A p \in Process \ overtaken :
               /\ at[p] \in {"creating", "replacing"} => acked = {}
               /\ at[p] = "loaded" => acked \subseteq session[p]

\* Only the holder installs, so it is the only one.
LEMMA OneInstalls ==
  ASSUME LaunchInv, NEW p \in Holders, NEW q \in Holders
  PROVE  p = q
BY DEF LaunchInv, LockInv, Holders

\* A process that goes on without a change of what is known.
LEMMA GoesOn ==
  ASSUME LaunchInv, KeptInv, NEW p \in Process, NEW to \in At,
         at' = [at EXCEPT ![p] = to],
         at[p] \notin {"installing", "finishing"}, to \notin {"creating", "replacing"} \cup SavingAt,
         p \in Holders \/ to \notin {"locked", "ready", "serving", "closing", "closed"},
         to # "loaded",
         UNCHANGED <<file, session, pending, acked, overtaken, trespass>>
  PROVE  KeptInv'
<1> USE DEF SavingAt
<1>1. at \in [Process -> At]
  BY DEF LaunchInv, TypeOK
<1>2. Installing' <=> Installing
  BY <1>1 DEF Installing
<1>3. Holders' \subseteq Holders
  BY <1>1 DEF Holders
<1>4. \A q \in Process : q # p => at'[q] = at[q]
  BY <1>1
<1>5. at'[p] = to
  BY <1>1
<1>. QED
  BY <1>2, <1>3, <1>4, <1>5 DEF KeptInv

\* KeptInv is inductive, given LaunchInv.
LEMMA StepKept == LaunchInv /\ KeptInv /\ [Next]_vars => KeptInv'
<1> SUFFICES ASSUME LaunchInv, KeptInv, [Next]_vars PROVE KeptInv'
  OBVIOUS
<1> USE DEF SavingAt
<1>0. /\ at \in [Process -> At] /\ session \in [Process -> SUBSET Change]
      /\ pending \in [Process -> SUBSET Change]
  BY DEF LaunchInv, TypeOK
<1>. Holders \subseteq Process
  BY DEF Holders
<1>1. CASE UNCHANGED vars
  BY <1>1 DEF vars, KeptInv, Installing, Holders
<1>2. ASSUME NEW p \in Process, Load(p) \/ LoadMissing(p) PROVE KeptInv'
  <2>1. \E to \in {"creating", "loaded"} : at[p] = "off" /\ at' = [at EXCEPT ![p] = to]
    BY <1>2 DEF Load, LoadMissing, Goes
  <2>2. /\ Holders' = Holders /\ (Installing' <=> Installing)
        /\ \A q \in Process : q # p => at'[q] = at[q] /\ session'[q] = session[q]
        /\ \A q \in Holders : q # p
    BY <1>0, <1>2, <2>1 DEF Load, LoadMissing, Holders, Installing
  <2>3. UNCHANGED <<file, acked, trespass>>
        /\ (\A q \in Process : q # p => pending'[q] = pending[q])
        /\ overtaken' = overtaken \ {p}
    BY <1>0, <1>2 DEF Load, LoadMissing
  <2>4. /\ at'[p] \in {"creating", "loaded"}
        /\ at'[p] = "creating" => file = Absent
        /\ at'[p] = "loaded" => file # Absent /\ session'[p] = file
    BY <1>0, <1>2 DEF Load, LoadMissing, Goes
  <2>5. ASSUME ~trespass, ~Installing
        PROVE  /\ at'[p] = "creating" => acked = {}
               /\ at'[p] = "loaded" => acked \subseteq session'[p]
               /\ \A q \in Process \ overtaken : q # p =>
                    /\ at'[q] \in {"creating", "replacing"} => acked = {}
                    /\ at'[q] = "loaded" => acked \subseteq session'[q]
    BY <2>2, <2>4, <2>5 DEF KeptInv
  <2>6. ASSUME ~trespass
        PROVE  /\ \A q \in Holders : acked \subseteq session'[q]
               /\ \A q \in Process : at'[q] \in SavingAt =>
                    session'[q] \subseteq pending'[q]
    BY <2>2, <2>3, <2>4, <2>6 DEF KeptInv
  <2>7. ~trespass /\ ~Installing => acked = {} \/ (file # Absent /\ acked \subseteq file)
    BY DEF KeptInv
  <2>8. ASSUME ~trespass, ~Installing, NEW q \in Process \ overtaken'
        PROVE  /\ at'[q] \in {"creating", "replacing"} => acked' = {}
               /\ at'[q] = "loaded" => acked' \subseteq session'[q]
    BY <2>3, <2>4, <2>5, <2>8
  <2>9. ~trespass' => ~trespass
    BY <2>3
  <2>10. ASSUME ~trespass, ~Installing
         PROVE  /\ acked' = {} \/ (file' # Absent /\ acked' \subseteq file')
                /\ \A q \in Process \ overtaken' :
                     /\ at'[q] \in {"creating", "replacing"} => acked' = {}
                     /\ at'[q] = "loaded" => acked' \subseteq session'[q]
    BY <2>3, <2>7, <2>8, <2>10
  <2>11. ~trespass => \A q \in Holders' : acked' \subseteq session'[q]
    BY <2>2, <2>3, <2>6
  <2>. QED
    BY <2>2, <2>6, <2>9, <2>10, <2>11 DEF KeptInv
<1>3. ASSUME NEW p \in Process, BackUp(p) PROVE KeptInv'
  <2>1. CASE Goes(p, "creating", "replacing")
    <3>1. /\ Holders' = Holders /\ (Installing' <=> Installing)
          /\ \A q \in Process : q # p => at'[q] = at[q]
          /\ at[p] = "creating" /\ at'[p] = "replacing"
      BY <1>0, <2>1 DEF Goes, Holders, Installing
    <3>2. UNCHANGED <<session, pending, acked, overtaken>>
          /\ trespass' = (trespass \/ p \in overtaken)
      BY <1>3 DEF BackUp
    <3>. QED
      BY <3>1, <3>2 DEF KeptInv
  <2>2. CASE Goes(p, "saving", "installing") \/ Goes(p, "draining", "finishing")
    <3>1. /\ Holders' = Holders /\ Installing'
          /\ \A q \in Process : q # p => at'[q] = at[q]
          /\ at[p] \in {"saving", "draining"} /\ at'[p] \in {"installing", "finishing"}
      BY <1>0, <2>2 DEF Goes, Holders, Installing
    <3>2. UNCHANGED <<session, pending, acked, overtaken>>
          /\ trespass' = (trespass \/ p \in overtaken)
      BY <1>3 DEF BackUp
    <3>. QED
      BY <3>1, <3>2 DEF KeptInv
  <2>. QED
    BY <1>3, <2>1, <2>2 DEF BackUp
<1>4. ASSUME NEW p \in Process, InstallDefault(p) PROVE KeptInv'
  <2>1. /\ Holders' = Holders /\ (Installing' <=> Installing)
        /\ \A q \in Process : q # p => at'[q] = at[q] /\ session'[q] = session[q]
        /\ at[p] = "replacing" /\ at'[p] = "loaded" /\ p \notin Holders
    BY <1>0, <1>4 DEF InstallDefault, Install, Goes, Holders, Installing
  <2>2. /\ UNCHANGED <<pending, acked>> /\ file' = pending[p]
        /\ overtaken' = overtaken \cup (Readers \ {p})
        /\ trespass' = (trespass \/ p \in overtaken)
    BY <1>4 DEF InstallDefault, Install
  <2>3. \A q \in Process \ overtaken' :
          q # p => at'[q] \notin {"creating", "replacing", "loaded"}
    BY <2>1, <2>2 DEF Readers
  <2>4. file' # Absent
    BY <1>0, <2>2, AbsentAssumption
  <2>5. ~trespass' => ~trespass /\ (Installing \/ acked = {})
    BY <2>1, <2>2 DEF KeptInv
  <2>6. ASSUME ~trespass
        PROVE  /\ \A q \in Holders : acked \subseteq session'[q]
               /\ \A q \in Process : at'[q] \in SavingAt =>
                    session'[q] \subseteq pending'[q]
    BY <2>1, <2>2, <2>6 DEF KeptInv
  <2>7. acked = {} => acked \subseteq session'[p]
    OBVIOUS
  <2>8. ASSUME acked = {}, NEW q \in Process \ overtaken'
        PROVE  /\ at'[q] \in {"creating", "replacing"} => acked' = {}
               /\ at'[q] = "loaded" => acked' \subseteq session'[q]
    BY <2>2, <2>8
  <2>9. acked = {} => acked' = {} \/ (file' # Absent /\ acked' \subseteq file')
    BY <2>2
  <2>10. ASSUME acked = {}
         PROVE  /\ acked' = {} \/ (file' # Absent /\ acked' \subseteq file')
                /\ \A q \in Process \ overtaken' :
                     /\ at'[q] \in {"creating", "replacing"} => acked' = {}
                     /\ at'[q] = "loaded" => acked' \subseteq session'[q]
    BY <2>8, <2>9, <2>10
  <2>11. ~trespass => \A q \in Holders' : acked' \subseteq session'[q]
    BY <2>1, <2>2, <2>6
  <2>. QED
    BY <2>1, <2>5, <2>6, <2>10, <2>11 DEF KeptInv
<1>5. ASSUME NEW p \in Process, Acquire(p) PROVE KeptInv'
  <2>1. Holders = {} /\ ~Installing
    BY <1>5, NobodyAssumption DEF Acquire, LaunchInv, LockInv, Holders, Installing
  <2>2. /\ Holders' = {p} /\ ~Installing'
        /\ \A q \in Process : q # p => at'[q] = at[q]
        /\ at[p] = "loaded" /\ at'[p] = "locked"
    BY <1>0, <1>5, <2>1 DEF Acquire, Goes, Holders, Installing
  <2>3. UNCHANGED <<file, session, pending, acked, overtaken>>
        /\ trespass' = (trespass \/ p \in overtaken)
    BY <1>5 DEF Acquire
  <2>. QED
    BY <2>1, <2>2, <2>3 DEF KeptInv
<1>6. ASSUME NEW p \in Process,
             \/ Refused(p) \/ StartEngine(p) \/ StartFails(p) \/ Listen(p)
             \/ RemoveEndpoint(p) \/ Release(p) \/ Crash(p)
      PROVE  KeptInv'
  <2>1. UNCHANGED <<file, session, pending, acked, overtaken, trespass>>
    BY <1>6 DEF Refused, StartEngine, StartFails, Listen, RemoveEndpoint, Release,
                Crash, history
  <2>2. PICK to \in {"off", "ready", "closed", "serving"} :
          /\ at' = [at EXCEPT ![p] = to]
          /\ at[p] \notin {"installing", "finishing"}
          /\ to = "off" \/ at[p] \in {"locked", "ready", "closing"}
    BY <1>6 DEF Refused, StartEngine, StartFails, Listen, RemoveEndpoint, Release,
                Crash, Goes
  <2>. QED
    BY <2>1, <2>2, GoesOn DEF At, Holders
<1>7. ASSUME NEW p \in Process, NEW change \in Change, Begin(p, change) PROVE KeptInv'
  <2>1. /\ Holders' = Holders /\ (Installing' <=> Installing)
        /\ \A q \in Process : q # p => at'[q] = at[q] /\ pending'[q] = pending[q]
        /\ at[p] \in {"serving", "closing"} /\ at'[p] \in {"saving", "draining"}
        /\ pending'[p] = session[p] \cup {change}
    BY <1>0, <1>7 DEF Begin, Goes, Holders, Installing
  <2>2. UNCHANGED <<file, session, acked, overtaken, trespass>>
    BY <1>7 DEF Begin, history
  <2>. QED
    BY <2>1, <2>2 DEF KeptInv
<1>8. ASSUME NEW p \in Process, Answer(p) PROVE KeptInv'
  <2>1. /\ at[p] \in {"installing", "finishing"} /\ p \in Holders
        /\ at'[p] \in {"serving", "closing"}
        /\ Holders' = Holders
        /\ \A q \in Process : q # p => at'[q] = at[q]
        /\ session'[p] = pending[p]
    BY <1>0, <1>8 DEF Answer, Install, Goes, Holders
  <2>2. /\ UNCHANGED <<pending, trespass>> /\ file' = pending[p]
        /\ overtaken' = overtaken \cup (Readers \ {p})
        /\ acked' = acked \cup (pending[p] \ session[p])
    BY <1>8 DEF Answer, Install
  <2>3. \A q \in Process \ overtaken' : at'[q] \notin {"creating", "replacing", "loaded"}
    BY <2>1, <2>2 DEF Readers
  <2>4. file' # Absent
    BY <1>0, <2>2, AbsentAssumption
  <2>5. \A q \in Holders : q = p
    BY <2>1, OneInstalls
  <2>6. \A q \in Process : at'[q] \in SavingAt => q \in Holders /\ q # p
    BY <2>1 DEF Holders
  <2>7. ~trespass => acked' \subseteq pending[p]
    BY <2>1, <2>2 DEF KeptInv
  <2>. QED
    BY <2>1, <2>2, <2>3, <2>4, <2>5, <2>6, <2>7 DEF KeptInv
<1>9. ASSUME NEW p \in Process, Stop(p) PROVE KeptInv'
  <2>1. UNCHANGED <<file, session, pending, acked, overtaken, trespass>>
    BY <1>9 DEF Stop, history
  <2>2. /\ Holders' = Holders /\ (Installing' <=> Installing)
        /\ \A q \in Process : q # p => at'[q] = at[q]
        /\ at'[p] \notin {"creating", "replacing", "loaded"}
        /\ at'[p] \in SavingAt => at[p] \in SavingAt
    BY <1>0, <1>9 DEF Stop, CloseListener, Goes, Holders, Installing
  <2>. QED
    BY <2>1, <2>2 DEF KeptInv
<1>. QED
  BY <1>1, <1>2, <1>3, <1>4, <1>5, <1>6, <1>7, <1>8, <1>9 DEF Next

\* For any number of processes and changes: unless a process went on with a
\* session that was saved over while it had no lock (daemon.go:43-47), whoever
\* holds the lock knows every acknowledged change, and so does session.json but
\* for the moment between the renames.
THEOREM HandOverSafe == Spec => []HandOverKeepsChanges
<1>1. Init => KeptInv
  BY DEF Init, KeptInv, Holders
<1>2. KeptInv => HandOverKeepsChanges
  BY DEF KeptInv, HandOverKeepsChanges, Installing
<1>. QED
  BY <1>1, <1>2, InitLaunch, StepLaunch, StepKept, PTL DEF Spec
=============================================================================
