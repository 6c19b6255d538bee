--------------------------- MODULE MCSessionStore ---------------------------
(* Small instances of SessionStore: three sessions are enough for a stored *)
(* one, a backup and a third being saved to be told apart.                 *)
EXTENDS SessionStore

CONSTANTS empty, s1, s2

MCSession == {empty, s1, s2}
=============================================================================
