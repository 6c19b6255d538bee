------------------------------- MODULE Launch -------------------------------
(***************************************************************************)
(* Daemon.Run as other processes see it: several torrd processes are       *)
(* started on the same files. Each loads session.json, takes the lock,     *)
(* starts its engine, listens, serves, and gives all of it back in the     *)
(* order of Run's deferred calls. The session is loaded, and a missing one *)
(* is written, before the lock is taken.                                   *)
(*                                                                         *)
(* A session is the set of changes it contains. SessionStore models a      *)
(* crash within a save; here a process dies between saves only.            *)
(***************************************************************************)
EXTENDS Naturals, FiniteSets

CONSTANTS Process,     \* torrd processes
          Nobody,      \* no process
          Absent,      \* session.json is not there
          MaxChanges,  \* bound on the changes clients make
          Faults       \* what may go wrong

\* "engine", "listen": starting the engine or listening fails; "crash".
FaultKind == {"engine", "listen", "crash"}

ASSUME NobodyAssumption == Nobody \notin Process
ASSUME ChangesAssumption == MaxChanges \in Nat
ASSUME FaultsAssumption == Faults \subseteq FaultKind

Change == 1..MaxChanges

ASSUME AbsentAssumption == \A s \in SUBSET Change : s # Absent

VARIABLES file,       \* session.json
          lock,       \* the process that holds the lock file
          socket,     \* the process whose listener the socket path leads to
          at,         \* where each process is
          session,    \* the session each process has in memory
          pending,    \* the session it is saving
          acked,      \* history: changes clients were told are done
          overtaken,  \* history: processes that read a file saved over since
          trespass    \* history: one of them has used or replaced what it read

history == <<acked, overtaken, trespass>>
vars == <<file, lock, socket, at, session, pending, acked, overtaken, trespass>>

\* draining, finishing: saving and installing after the listener has been closed.
At == {"off", "creating", "replacing", "loaded", "locked", "ready", "serving", "saving",
       "installing", "draining", "finishing", "closing", "closed"}

Init == /\ file = Absent
        /\ lock = Nobody
        /\ socket = Nobody
        /\ at = [p \in Process |-> "off"]
        /\ session = [p \in Process |-> {}]
        /\ pending = [p \in Process |-> {}]
        /\ acked = {}
        /\ overtaken = {}
        /\ trespass = FALSE

Goes(p, from, to) == at[p] = from /\ at' = [at EXCEPT ![p] = to]

\* Processes that have read session.json and have not taken the lock.
Readers == {p \in Process : at[p] \in {"creating", "replacing", "loaded"}}
-----------------------------------------------------------------------------
(* loadState *)

Load(p) == /\ file # Absent
           /\ Goes(p, "off", "loaded")
           /\ session' = [session EXCEPT ![p] = file]
           /\ overtaken' = overtaken \ {p}
           /\ UNCHANGED <<file, lock, socket, pending, acked, trespass>>

\* A missing session is replaced by the default one.
LoadMissing(p) == /\ file = Absent
                  /\ Goes(p, "off", "creating")
                  /\ pending' = [pending EXCEPT ![p] = {}]
                  /\ overtaken' = overtaken \ {p}
                  /\ UNCHANGED <<file, lock, socket, session, acked, trespass>>

\* The first rename of writeJSON moves what is there to the backup.
BackUp(p) == /\ \/ Goes(p, "creating", "replacing")
                \/ Goes(p, "saving", "installing")
                \/ Goes(p, "draining", "finishing")
             /\ file' = Absent
             /\ trespass' = (trespass \/ p \in overtaken)
             /\ UNCHANGED <<lock, socket, session, pending, acked, overtaken>>

\* The second puts the new file in place.
Install(p) == /\ file' = pending[p]
              /\ session' = [session EXCEPT ![p] = pending[p]]
              /\ overtaken' = overtaken \cup (Readers \ {p})
              /\ UNCHANGED <<lock, socket, pending>>

InstallDefault(p) == /\ Goes(p, "replacing", "loaded")
                     /\ Install(p)
                     /\ trespass' = (trespass \/ p \in overtaken)
                     /\ UNCHANGED acked
-----------------------------------------------------------------------------
(* AcquireLock, the engine, the socket *)

\* Mutant: the lock does not exclude.
AcquireShared(p) == /\ Goes(p, "loaded", "locked")
                    /\ lock' = p
                    /\ trespass' = (trespass \/ p \in overtaken)
                    /\ UNCHANGED <<file, socket, session, pending, acked, overtaken>>

Acquire(p) == /\ lock = Nobody
              /\ Goes(p, "loaded", "locked")
              /\ lock' = p
              /\ trespass' = (trespass \/ p \in overtaken)
              /\ UNCHANGED <<file, socket, session, pending, acked, overtaken>>

\* "daemon is already running": the process ends.
Refused(p) == /\ lock # Nobody
              /\ Goes(p, "loaded", "off")
              /\ UNCHANGED <<file, lock, socket, session, pending, history>>

StartEngine(p) == /\ Goes(p, "locked", "ready")
                  /\ UNCHANGED <<file, lock, socket, session, pending, history>>

\* newEngine or Listen fails: Run returns without listening.
StartFails(p) == /\ \/ "engine" \in Faults /\ Goes(p, "locked", "closed")
                    \/ "listen" \in Faults /\ Goes(p, "ready", "closed")
                 /\ UNCHANGED <<file, lock, socket, session, pending, history>>

\* Whatever is at the socket's path is removed first.
Listen(p) == /\ Goes(p, "ready", "serving")
             /\ socket' = p
             /\ UNCHANGED <<file, lock, session, pending, history>>
-----------------------------------------------------------------------------
(* Serving and stopping *)

\* A client's request changes the session; the change is saved, then answered.
\* Handlers that wait for one another still run when the listener is closed.
Begin(p, change) == /\ change \notin UNION {pending[q] : q \in Process} \cup acked
                    /\ Goes(p, "serving", "saving") \/ Goes(p, "closing", "draining")
                    /\ pending' = [pending EXCEPT ![p] = session[p] \cup {change}]
                    /\ UNCHANGED <<file, lock, socket, session, history>>

Answer(p) == /\ Goes(p, "installing", "serving") \/ Goes(p, "finishing", "closing")
             /\ Install(p)
             /\ acked' = acked \cup (pending[p] \ session[p])
             /\ UNCHANGED trespass

CloseListener(p) == \/ Goes(p, "serving", "closing")
                    \/ Goes(p, "saving", "draining")
                    \/ Goes(p, "installing", "finishing")

\* Mutant: the lock is given back before the endpoint is removed.
StopUnlocked(p) == /\ CloseListener(p)
                   /\ socket' = Nobody
                   /\ lock' = Nobody
                   /\ UNCHANGED <<file, session, pending, history>>

\* Closing the listener removes the path; Run then waits for its handlers.
Stop(p) == /\ CloseListener(p)
           /\ socket' = Nobody
           /\ UNCHANGED <<file, lock, session, pending, history>>

\* The deferred RemoveEndpoint removes the path once more, whoever made it.
RemoveEndpoint(p) == /\ Goes(p, "closing", "closed")
                     /\ socket' = Nobody
                     /\ UNCHANGED <<file, lock, session, pending, history>>

\* The engine is closed and the lock is given back last.
Release(p) == /\ Goes(p, "closed", "off")
              /\ lock' = Nobody
              /\ UNCHANGED <<file, socket, session, pending, history>>

\* The lock of a process that dies is free; its socket's path stays and leads
\* to nobody.
Crash(p) == /\ "crash" \in Faults
            /\ at[p] \notin {"off", "replacing", "installing", "finishing"}
            /\ at' = [at EXCEPT ![p] = "off"]
            /\ lock' = IF lock = p THEN Nobody ELSE lock
            /\ socket' = IF socket = p THEN Nobody ELSE socket
            /\ UNCHANGED <<file, session, pending, history>>

Next == \E p \in Process :
          \/ Load(p)
          \/ LoadMissing(p)
          \/ BackUp(p)
          \/ InstallDefault(p)
          \/ Acquire(p)
          \/ Refused(p)
          \/ StartEngine(p)
          \/ StartFails(p)
          \/ Listen(p)
          \/ \E change \in Change : Begin(p, change)
          \/ Answer(p)
          \/ Stop(p)
          \/ RemoveEndpoint(p)
          \/ Release(p)
          \/ Crash(p)

Spec == Init /\ [][Next]_vars
-----------------------------------------------------------------------------
\* Types. A missing file is never taken for a session.
TypeOK == /\ \A p \in Process : session[p] # Absent
          /\ file = Absent \/ file \subseteq Change
          /\ lock \in Process \cup {Nobody}
          /\ socket \in Process \cup {Nobody}
          /\ at \in [Process -> At]
          /\ session \in [Process -> SUBSET Change]
          /\ pending \in [Process -> SUBSET Change]
          /\ acked \subseteq Change
          /\ overtaken \subseteq Process
          /\ trespass \in BOOLEAN

Holders == {p \in Process : at[p] \in {"locked", "ready", "serving", "saving", "installing",
                                       "draining", "finishing", "closing", "closed"}}

\* A serving daemon is the only one with an engine, and the socket's path leads
\* to it: neither one that is refused, nor one that crashed or is stopping,
\* takes the path from its successor.
ServerIsReachable ==
  \A p \in Process : at[p] \in {"serving", "saving", "installing"} =>
                       lock = p /\ socket = p /\ Holders = {p}

\* What clients were told is in the memory of the daemon that will save next,
\* and in session.json but for the moment between its two renames, across every
\* hand-over from one daemon to the next, unless a process that read the file
\* before another's save went on with it: that is what loading the session
\* before taking the lock allows.
HandOverKeepsChanges ==
  ~trespass => /\ \A p \in Holders : acked \subseteq session[p]
               /\ \/ file # Absent /\ acked \subseteq file
                  \/ \E p \in Process : at[p] \in {"installing", "finishing"}
                  \/ acked = {}
=============================================================================
