--------------------------- MODULE TuiProperties ---------------------------
(***************************************************************************)
(* What a user of the terminal interface relies on.                        *)
(***************************************************************************)
EXTENDS Tui

Dialog == {Closed, [kind |-> "actions"], Asking}
          \union [kind : {"add"}, field : 0..AddSubmit, input : Text, preview : Text]

\* No list ever shows a torrent twice, and every variable has its type.
TypeOK == /\ habits \in Users \union {{}}
          /\ daemon \in Orders /\ list \in Orders
          /\ selected \in ID \union {None} /\ details \in ID \union {None}
          /\ dialog \in Dialog /\ pending \in BOOLEAN
          /\ commands \in [Slot -> Command \union {None}]
          /\ late \subseteq Call
          /\ lists \subseteq Orders /\ fetching \subseteq ID /\ previews \subseteq Text
          /\ lost \in BOOLEAN

\* Whatever lists and results arrive, in whatever order, the selected torrent
\* is one that is shown; there is none only when nothing is shown
\* (update.go:212).
SelectionIsListed == IF list = <<>> THEN selected = None ELSE selected \in ToSet(list)

\* The pending mark is never set without a command under way that will clear
\* it, so the interface does not ignore keys for good, whatever results come in
\* which order. And it is set as long as one is, so there is never more than
\* one: the result of a command cannot clear the mark of another
\* (actions.go:305), and a key cannot repeat a command that has not come back.
\* The second half is true until an action of the actions dialog (actions.go:212,
\* 217, 219) sets the mark in a model that is not the one it returns.
OneCommandAtATime ==
    LET underWay == {s \in Slot : commands[s] # None}
    IN  /\ pending => underWay # {}
        /\ ~lost => /\ underWay # {} => pending
                    /\ \A r, s \in underWay : r = s

\* A preview is of the source in the field, also when previews of what was
\* there before, or in an earlier dialog, arrive late (update.go:96).
PreviewIsOfSource ==
    dialog.kind = "add" /\ dialog.preview # Empty => dialog.preview = Trim[dialog.input]

-----------------------------------------------------------------------------
\* A list is asked for every second and results that arrive are handled;
\* details that are asked for again and again are loaded at some time.
Fairness == /\ WF_vars(Refresh)
            /\ WF_vars(\E order \in lists : ListArrives(order))
            /\ \A id \in ID : SF_vars(DetailsArrive(id))

FairSpec == Spec /\ Fairness

\* Once everybody has stopped, the interface shows the daemon's list for good,
\* with the details of the selected torrent, whatever older results arrived
\* last and whatever calls were carried out after they had timed out
\* (update.go:108-114).
CatchesUp == <>[](quiet => list = daemon /\ (selected # None => details = selected))
=============================================================================
