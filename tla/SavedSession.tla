---------------------------- MODULE SavedSession ----------------------------
(***************************************************************************)
(* What internal/state promises its caller: one session is stored, a save  *)
(* replaces it in one step or not at all, a save that reports success has  *)
(* replaced it, a restart finds what is stored, and the default session    *)
(* is created only where nothing is stored.                                *)
(***************************************************************************)
CONSTANTS Session,         \* the sessions validateSession accepts
          DefaultSession,  \* the session of a first start
          Absent           \* no session

VARIABLES stored,   \* the session a restart would find
          pending,  \* the session a running save is storing
          known     \* the session the caller was last told is stored

abstractVars == <<stored, pending, known>>

AbstractInit == stored = Absent /\ pending = Absent /\ known = Absent

\* A save starts.
Begin(s) == pending = Absent /\ pending' = s /\ UNCHANGED <<stored, known>>

\* A start with nothing stored begins to store the default session.
Create == stored = Absent /\ Begin(DefaultSession)

\* The one step in which the stored session changes.
Commit == pending # Absent /\ stored' = pending /\ UNCHANGED <<pending, known>>

\* Success is reported for a session that is stored.
Acknowledge == /\ pending # Absent
               /\ stored = pending
               /\ known' = pending
               /\ pending' = Absent
               /\ UNCHANGED stored

\* A failure is reported, or the process dies, before or after the commit.
GiveUp == pending' = Absent /\ UNCHANGED <<stored, known>>

\* A start is given the stored session.
Recover == /\ pending = Absent
           /\ stored # Absent
           /\ known' = stored
           /\ UNCHANGED <<stored, pending>>

AbstractNext == \/ known # Absent /\ \E s \in Session : Begin(s)
                \/ Create
                \/ Commit
                \/ Acknowledge
                \/ GiveUp
                \/ Recover

AbstractSpec == AbstractInit /\ [][AbstractNext]_abstractVars
=============================================================================
