------------------------- MODULE ConnectionsProofs -------------------------
(***************************************************************************)
(* Theorems about Connections, for any number of clients.                  *)
(***************************************************************************)
EXTENDS Connections, FiniteSetTheorems, TLAPS

AtMostOne(S) == \A c, d \in S : c = d

\* The accept loop is busy with one connection at a time, and with none once
\* it is done.
LoopInv == /\ AtMostOne(Arriving)
           /\ acceptor = "done" => Arriving = {}

\* Once Run closes connections none is accepted; without a cancellation the
\* loop is done by then.
ClosingInv == run # "serving" => /\ ~listening \/ acceptor = "done"
                                 /\ ~cancelled => acceptor = "done"

\* The connections that are left, and those that are left open.
EscapeInv == /\ run = "waiting" => AtMostOne(Alive \ cut)
             /\ run = "returned" => ~listening /\ AtMostOne(Alive)
             /\ ~cancelled => /\ run \in {"waiting", "returned"} => Alive \subseteq cut
                              /\ run = "returned" => Alive = {}

ConnectionsInv == TypeOK /\ LoopInv /\ ClosingInv /\ EscapeInv

\* A set with at most one element has that cardinality.
LEMMA OneElement ==
  ASSUME NEW S, AtMostOne(S)
  PROVE  Cardinality(S) <= 1
<1>1. CASE S = {}
  BY <1>1, FS_EmptySet
<1>2. CASE S # {}
  <2>1. PICK c \in S : TRUE
    BY <1>2
  <2>2. S = {c}
    BY <2>1 DEF AtMostOne
  <2>3. Cardinality(S) = 1
    BY <2>2, FS_Singleton
  <2>. QED
    BY <2>3
<1>. QED
  BY <1>1, <1>2

\* The invariant holds at first.
LEMMA InitConnections == Init => ConnectionsInv
BY DEF Init, ConnectionsInv, TypeOK, LoopInv, ClosingInv, EscapeInv, AtMostOne, Arriving,
       ConnState

\* A connection that goes on without being accepted or dropped: the sets of
\* those that arrive and of those that are left do not grow.
LEMMA GoesOn ==
  ASSUME ConnectionsInv, NEW c \in Connection, NEW from \in ConnState, NEW to \in ConnState,
         Goes(c, from, to),
         from \in {"none", "dialled", "done"} => to = "dialled",
         to \in {"accepted", "counted"} => from = "accepted" /\ to = "counted",
         registered' = {d \in Connection : conn'[d] \in {"reading", "handling"}},
         UNCHANGED <<run, cancelled, listening, acceptor, cut, hungUp>>
  PROVE  ConnectionsInv'
<1>1. TypeOK'
  BY DEF ConnectionsInv, TypeOK, Goes
<1>2. \A d \in Connection : conn'[d] = IF d = c THEN to ELSE conn[d]
  BY DEF ConnectionsInv, TypeOK, Goes
<1>3. Arriving' \subseteq Arriving /\ Alive' \subseteq Alive
  BY <1>2 DEF Goes, Arriving, Alive, ConnState
<1>. QED
  BY <1>1, <1>3 DEF ConnectionsInv, LoopInv, ClosingInv, EscapeInv, AtMostOne

\* A step that moves no connection and does not turn to waiting or returned.
LEMMA StandsStill ==
  ASSUME ConnectionsInv, UNCHANGED <<conn, registered, cut>>, TypeOK', LoopInv', ClosingInv',
         cancelled => cancelled',
         run' = run \/ run' \notin {"waiting", "returned"}, listening' = listening
  PROVE  ConnectionsInv'
BY DEF ConnectionsInv, EscapeInv, AtMostOne, Alive

\* The invariant is inductive.
LEMMA StepConnections == ConnectionsInv /\ [Next]_vars => ConnectionsInv'
<1> SUFFICES ASSUME ConnectionsInv, [Next]_vars PROVE ConnectionsInv'
  OBVIOUS
<1>1. ASSUME NEW c \in Connection, Dial(c) PROVE ConnectionsInv'
  BY <1>1, GoesOn DEF Dial, ConnState, ConnectionsInv, TypeOK, Goes
<1>2. ASSUME NEW c \in Connection, HangUp(c) PROVE ConnectionsInv'
  BY <1>2 DEF HangUp, ConnectionsInv, TypeOK, LoopInv, ClosingInv, EscapeInv, Arriving, Alive
<1>3. ASSUME NEW c \in Connection, Request(c) PROVE ConnectionsInv'
  BY <1>3, GoesOn DEF Request, ConnState, ConnectionsInv, TypeOK, Goes
<1>4. ASSUME NEW c \in Connection, Accept(c) PROVE ConnectionsInv'
  <2>1. TypeOK'
    BY <1>4 DEF Accept, Goes, ConnectionsInv, TypeOK, ConnState
  <2>2. Arriving' = {c}
    BY <1>4 DEF Accept, Goes, ConnectionsInv, TypeOK, Arriving
  <2>3. run = "serving"
    BY <1>4 DEF Accept, ConnectionsInv, ClosingInv
  <2>. QED
    BY <1>4, <2>1, <2>2, <2>3
    DEF Accept, ConnectionsInv, LoopInv, ClosingInv, EscapeInv, AtMostOne
<1>5. ASSUME NEW c \in Connection, Count(c) PROVE ConnectionsInv'
  BY <1>5, GoesOn DEF Count, ConnState, ConnectionsInv, TypeOK, Goes
<1>6. ASSUME NEW c \in Connection, Register(c) PROVE ConnectionsInv'
  BY <1>6, GoesOn DEF Register, ConnState, ConnectionsInv, TypeOK, Goes
<1>7. ASSUME NEW c \in Connection, Respond(c) \/ Leave(c) PROVE ConnectionsInv'
  BY <1>7, GoesOn DEF Respond, Leave, ConnState, ConnectionsInv, TypeOK, Goes
<1>8. CASE AcceptEnds
  BY <1>8, StandsStill
  DEF AcceptEnds, ConnectionsInv, TypeOK, LoopInv, ClosingInv, AtMostOne, Arriving
<1>9. CASE Cancel
  BY <1>9, StandsStill DEF Cancel, ConnectionsInv, TypeOK, LoopInv, ClosingInv, Arriving
<1>10. CASE CloseListener
  <2>1. TypeOK'
    BY <1>10 DEF CloseListener, ConnectionsInv, TypeOK, ConnState
  <2>2. Arriving' \subseteq Arriving
    BY <1>10 DEF CloseListener, ConnectionsInv, TypeOK, Arriving
  <2>. QED
    BY <1>10, <2>1, <2>2
    DEF CloseListener, ConnectionsInv, LoopInv, ClosingInv, EscapeInv, AtMostOne
<1>11. CASE ListenerFailed
  BY <1>11, StandsStill
  DEF ListenerFailed, ConnectionsInv, TypeOK, LoopInv, ClosingInv, AtMostOne, Arriving
<1>12. CASE CloseConnections
  <2>1. TypeOK' /\ UNCHANGED <<conn, acceptor, listening, cancelled>> /\ run' = "waiting"
    BY <1>12 DEF CloseConnections, ConnectionsInv, TypeOK
  <2>2. Alive' \ cut' \subseteq Arriving
    BY <1>12 DEF CloseConnections, ConnectionsInv, TypeOK, Alive, Arriving
  <2>3. Arriving' = Arriving /\ run # "serving"
    BY <1>12 DEF CloseConnections, Arriving
  <2>. QED
    BY <2>1, <2>2, <2>3 DEF ConnectionsInv, LoopInv, ClosingInv, EscapeInv, AtMostOne
<1>13. CASE Return
  <2>1. TypeOK'
    BY <1>13 DEF Return, ConnectionsInv, TypeOK, ConnState
  <2>2. Arriving' \subseteq Arriving /\ Alive' \subseteq Arriving
    BY <1>13 DEF Return, ConnectionsInv, TypeOK, Arriving, Alive, Counted
  <2>3. UNCHANGED <<acceptor, cancelled>> /\ run = "waiting" /\ run' = "returned" /\ ~listening'
    BY <1>13 DEF Return
  <2>. QED
    BY <2>1, <2>2, <2>3 DEF ConnectionsInv, LoopInv, ClosingInv, EscapeInv, AtMostOne
<1>14. CASE UNCHANGED vars
  BY <1>14 DEF vars, ConnectionsInv, TypeOK, LoopInv, ClosingInv, EscapeInv, Arriving, Alive
<1>. QED
  BY <1>1, <1>2, <1>3, <1>4, <1>5, <1>6, <1>7, <1>8, <1>9, <1>10, <1>11, <1>12, <1>13, <1>14
  DEF Next, Client

\* The invariant holds in every reachable state.
THEOREM ConnectionsSound == Spec => []ConnectionsInv
BY InitConnections, StepConnections, PTL DEF Spec

\* However connections, answers and the end of Run interleave, exactly the
\* connections that have a goroutine are registered.
THEOREM ConnectionsTyped == Spec => []TypeOK
BY ConnectionsSound, PTL DEF ConnectionsInv

\* Of any number of connections at most one escapes when Run closes them
\* (daemon.go:93-122).
THEOREM OneEscapes == Spec => []OneConnectionEscapes
<1>1. ConnectionsInv => OneConnectionEscapes
  BY OneElement DEF ConnectionsInv, EscapeInv, OneConnectionEscapes
<1>. QED
  BY <1>1, ConnectionsSound, PTL

\* None does when it was accepting that failed.
THEOREM NoneEscapesFailure == Spec => []FailureCutsAll
<1>1. ConnectionsInv => FailureCutsAll
  BY DEF ConnectionsInv, EscapeInv, FailureCutsAll
<1>. QED
  BY <1>1, ConnectionsSound, PTL
=============================================================================
