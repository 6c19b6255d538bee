--------------------------- MODULE MCConnections ---------------------------
(* Three connections to one daemon.                                        *)
EXTENDS Connections

CONSTANTS c1, c2, c3

ThreeConnections == {c1, c2, c3}
=============================================================================
