------------------------------ MODULE MCLaunch ------------------------------
(* Three processes on one set of files.                                    *)
EXTENDS Launch, TLC

Symmetry == Permutations(Process)
=============================================================================
