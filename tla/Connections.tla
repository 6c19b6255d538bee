---------------------------- MODULE Connections ----------------------------
(***************************************************************************)
(* How Daemon.Run serves connections and stops: an accept loop, one        *)
(* goroutine per connection that reads requests and writes responses, and  *)
(* Run itself, which closes the registered connections and waits for all   *)
(* that were counted. Accepting, counting and registering a connection are *)
(* three steps; Run may close and wait between any two of them.            *)
(***************************************************************************)
EXTENDS Naturals, FiniteSets

CONSTANTS Connection, Faults

\* "listener": accepting connections fails.
ASSUME FaultsAssumption == Faults \subseteq {"listener"}

VARIABLES run,        \* serving, closing, waiting, returned
          cancelled,  \* the context is cancelled
          listening,  \* the listener is open
          acceptor,   \* accepting, or done
          conn,       \* where each connection is
          registered, \* activeConnections
          cut,        \* connections the daemon has closed
          hungUp      \* connections the client has closed

vars == <<run, cancelled, listening, acceptor, conn, registered, cut, hungUp>>

\* dialled: in the listener's backlog; accepted: returned by Accept; counted:
\* added to the wait group; reading and handling: registered, its goroutine
\* waits for a request or handles one.
ConnState == {"none", "dialled", "accepted", "counted", "reading", "handling", "done"}

\* Connections the wait group counts.
Counted == {c \in Connection : conn[c] \in {"counted", "reading", "handling"}}

\* The connection the accept loop is busy with, if any.
Arriving == {c \in Connection : conn[c] \in {"accepted", "counted"}}

Init == /\ run = "serving"
        /\ cancelled = FALSE
        /\ listening = TRUE
        /\ acceptor = "accepting"
        /\ conn = [c \in Connection |-> "none"]
        /\ registered = {}
        /\ cut = {}
        /\ hungUp = {}

Goes(c, from, to) == conn[c] = from /\ conn' = [conn EXCEPT ![c] = to]
-----------------------------------------------------------------------------
(* Clients *)

Dial(c) == /\ listening
           /\ Goes(c, "none", "dialled")
           /\ UNCHANGED <<run, cancelled, listening, acceptor, registered, cut, hungUp>>

HangUp(c) == /\ conn[c] \notin {"none", "done"}
             /\ c \notin hungUp
             /\ hungUp' = hungUp \cup {c}
             /\ UNCHANGED <<run, cancelled, listening, acceptor, conn, registered, cut>>

\* A request reaches the connection's goroutine.
Request(c) == /\ c \notin cut \cup hungUp
              /\ Goes(c, "reading", "handling")
              /\ UNCHANGED <<run, cancelled, listening, acceptor, registered, cut, hungUp>>
-----------------------------------------------------------------------------
(* The accept loop *)

Accept(c) == /\ listening
             /\ acceptor = "accepting"
             /\ Arriving = {}
             /\ Goes(c, "dialled", "accepted")
             /\ UNCHANGED <<run, cancelled, listening, acceptor, registered, cut, hungUp>>

\* connections.Add(1)
Count(c) == /\ Goes(c, "accepted", "counted")
            /\ UNCHANGED <<run, cancelled, listening, acceptor, registered, cut, hungUp>>

\* It enters activeConnections and its goroutine starts to read.
Register(c) == /\ Goes(c, "counted", "reading")
               /\ registered' = registered \cup {c}
               /\ UNCHANGED <<run, cancelled, listening, acceptor, cut, hungUp>>

\* Accept returns an error: the listener is closed, or has failed.
AcceptEnds == /\ acceptor = "accepting"
              /\ Arriving = {}
              /\ ~listening \/ "listener" \in Faults
              /\ acceptor' = "done"
              /\ UNCHANGED <<run, cancelled, listening, conn, registered, cut, hungUp>>
-----------------------------------------------------------------------------
(* rpc.ServeConn *)

\* The response is written; the write fails on a closed connection, which ends
\* the goroutine: it leaves activeConnections and the wait group.
Respond(c) == \/ /\ c \notin cut \cup hungUp
                 /\ Goes(c, "handling", "reading")
                 /\ UNCHANGED <<run, cancelled, listening, acceptor, registered, cut, hungUp>>
              \/ /\ c \in cut \cup hungUp
                 /\ Goes(c, "handling", "done")
                 /\ registered' = registered \ {c}
                 /\ UNCHANGED <<run, cancelled, listening, acceptor, cut, hungUp>>

\* Mutant: a connection that ends stays in activeConnections.
LeaveRegistered(c) == /\ c \in cut \cup hungUp
                      /\ Goes(c, "reading", "done")
                      /\ UNCHANGED <<run, cancelled, listening, acceptor, registered, cut,
                                     hungUp>>

\* Mutant: closing a connection does not end a read that waits on it.
LeaveOnHangUp(c) == /\ c \in hungUp
                    /\ Goes(c, "reading", "done")
                    /\ registered' = registered \ {c}
                    /\ UNCHANGED <<run, cancelled, listening, acceptor, cut, hungUp>>

\* Mutant: the end of the client's stream goes unnoticed.
LeaveOnCut(c) == /\ c \in cut
                 /\ Goes(c, "reading", "done")
                 /\ registered' = registered \ {c}
                 /\ UNCHANGED <<run, cancelled, listening, acceptor, cut, hungUp>>

\* Reading a closed connection ends the goroutine too.
Leave(c) == /\ c \in cut \cup hungUp
            /\ Goes(c, "reading", "done")
            /\ registered' = registered \ {c}
            /\ UNCHANGED <<run, cancelled, listening, acceptor, cut, hungUp>>
-----------------------------------------------------------------------------
(* Run *)

Cancel == /\ run = "serving"
          /\ ~cancelled
          /\ cancelled' = TRUE
          /\ UNCHANGED <<run, listening, acceptor, conn, registered, cut, hungUp>>

\* The select takes the cancellation: the listener is closed, and what it had
\* not accepted is dropped.
CloseListener == /\ run = "serving"
                 /\ cancelled
                 /\ run' = "closing"
                 /\ listening' = FALSE
                 /\ conn' = [c \in Connection |-> IF conn[c] = "dialled" THEN "done"
                                                                        ELSE conn[c]]
                 /\ UNCHANGED <<cancelled, acceptor, registered, cut, hungUp>>

\* Mutant: after an accept error the connections are not closed.
ListenerFailedWaits == /\ run = "serving"
                       /\ acceptor = "done"
                       /\ run' = "waiting"
                       /\ UNCHANGED <<cancelled, listening, acceptor, conn, registered, cut,
                                      hungUp>>

\* Or it takes the accept loop's error.
ListenerFailed == /\ run = "serving"
                  /\ acceptor = "done"
                  /\ run' = "closing"
                  /\ UNCHANGED <<cancelled, listening, acceptor, conn, registered, cut, hungUp>>

\* Mutant: only connections without a request under way are closed.
CloseIdleConnections == /\ run = "closing"
                        /\ run' = "waiting"
                        /\ cut' = cut \cup {c \in registered : conn[c] = "reading"}
                        /\ UNCHANGED <<cancelled, listening, acceptor, conn, registered, hungUp>>

CloseConnections == /\ run = "closing"
                    /\ run' = "waiting"
                    /\ cut' = cut \cup registered
                    /\ UNCHANGED <<cancelled, listening, acceptor, conn, registered, hungUp>>

\* connections.Wait returns, and Run with it.
Return == /\ run = "waiting"
          /\ Counted = {}
          /\ run' = "returned"
          /\ listening' = FALSE
          /\ conn' = [c \in Connection |-> IF conn[c] = "dialled" THEN "done" ELSE conn[c]]
          /\ UNCHANGED <<cancelled, acceptor, registered, cut, hungUp>>

Client == \E c \in Connection : Dial(c) \/ HangUp(c) \/ Request(c)

Next == \/ Client
        \/ \E c \in Connection : Accept(c) \/ Count(c) \/ Register(c) \/ Respond(c) \/ Leave(c)
        \/ AcceptEnds
        \/ Cancel
        \/ CloseListener
        \/ ListenerFailed
        \/ CloseConnections
        \/ Return

Spec == Init /\ [][Next]_vars

\* Goroutines are scheduled and handlers end (Daemon shows when one does not).
\* Clients owe the daemon nothing.
FairSpec ==
  /\ Spec
  /\ \A c \in Connection : /\ WF_vars(Count(c))
                           /\ WF_vars(Register(c))
                           /\ WF_vars(Respond(c))
                           /\ WF_vars(Leave(c))
  /\ WF_vars(AcceptEnds)
  /\ WF_vars(CloseListener \/ ListenerFailed \/ CloseConnections \/ Return)

-----------------------------------------------------------------------------
\* Types. The registered connections are those that have a goroutine.
TypeOK == /\ run \in {"serving", "closing", "waiting", "returned"}
          /\ cancelled \in BOOLEAN
          /\ listening \in BOOLEAN
          /\ acceptor \in {"accepting", "done"}
          /\ conn \in [Connection -> ConnState]
          /\ registered = {c \in Connection : conn[c] \in {"reading", "handling"}}
          /\ cut \subseteq Connection
          /\ hungUp \subseteq Connection

Alive == {c \in Connection : conn[c] \in {"accepted", "counted", "reading", "handling"}}

\* At most one connection outlives Run or escapes its closing: the one the
\* accept loop was handing over when Run closed the others. All others are cut
\* before Run waits and gone when it returns, so their handlers never meet a
\* closed engine.
OneConnectionEscapes ==
  /\ run = "waiting" => Cardinality(Alive \ cut) <= 1
  /\ run = "returned" => Cardinality(Alive) <= 1

\* When accepting fails no connection escapes: the loop has handed over all it
\* accepted before it reports.
FailureCutsAll ==
  ~cancelled => /\ run \in {"waiting", "returned"} => Alive \subseteq cut
                /\ run = "returned" => Alive = {}

\* A daemon that is told to stop returns, or waits for good for the client of
\* the one connection that escaped.
AwaitsEscaped == run = "waiting" /\ Alive \ cut # {}

StopsOrAwaitsEscaped == cancelled ~> (run = "returned" \/ []AwaitsEscaped)

\* It returns if every client that has connected closes its connection in the
\* end, as torrcli does.
StopsWithPoliteClients ==
  (\A c \in Connection : conn[c] \notin {"none", "done"} ~> c \in hungUp \/ conn[c] = "done")
    => (cancelled ~> run = "returned")
=============================================================================
