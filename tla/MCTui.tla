------------------------------- MODULE MCTui -------------------------------
(***************************************************************************)
(* Two torrents. One user works with the list and removes, one with moves, *)
(* one with the details, and one adds torrents while an action runs.       *)
(***************************************************************************)
EXTENDS TuiProperties

CONSTANTS a, b

MCID == {a, b}
MCStarted == {<<>>, <<a>>, <<b>>, <<a, b>>, <<b, a>>}
MCText == {"", "x", "x "}
MCTrim == [t \in MCText |-> IF t = "x " THEN "x" ELSE t]
MCUsers == {{"option"}, {"add"}, {"remove", "others"}, {"select", "priority", "remove"},
            {"select", "priority", "move"}}
=============================================================================
