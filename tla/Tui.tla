-------------------------------- MODULE Tui --------------------------------
(***************************************************************************)
(* internal/tui over internal/client: the event loop of the terminal       *)
(* interface. It handles one message at a time, a key or the result of a   *)
(* command. Commands run beside it, each with a connection of its own, so  *)
(* results arrive in any order, and a call that timed out may still be     *)
(* carried out by the daemon.                                              *)
(*                                                                         *)
(* A torrent is its id: what else a list says about it only the view uses. *)
(* Left out with the view: notices, loading and error marks, window sizes, *)
(* cursors, the options and buttons that are marked in a dialog (keys mark *)
(* any of them, so what Enter may do is a choice), which pane has the      *)
(* focus (likewise), and quitting, after which nothing happens.            *)
(***************************************************************************)
EXTENDS Naturals, FiniteSets, Sequences, SequencesExt

CONSTANTS ID,        \* torrents
          None,      \* no torrent, no command
          Started,   \* the orders of torrents the daemon may start with
          Text,      \* what the source field may hold
          Empty,     \* the empty text
          Trim,      \* each text without the space around it
          Slots,     \* bound on the commands that run at once
          MaxAway,   \* bound on what is under way when another list is asked for
                     \* or a call times out; one list may always be asked for
          Users      \* the kinds of user there are, each a set of habits

Habit == {"select", "option", "priority", "move", "remove", "add", "others"}

\* Torrents in order, none twice.
Orders == {s \in Seq(ID) : IsInjective(s)}

\* Calls of the client. An option's torrent is left out: its result changes
\* only what the view shows.
Kind == {"option", "priority", "move", "remove", "add"}
Call == [kind : {"option"}, id : {None}, offset : {0}]
        \union [kind : Kind \ {"option"}, id : ID, offset : {0, 1, 2}]

\* A command under way, or its result; `order` is the answer to a move.
Command == [call : Call, at : {"sent", "done", "failed"}, order : Orders]

ASSUME NoneAssumption == None \notin ID /\ None \notin Command
ASSUME StartedAssumption == Started \subseteq Orders
ASSUME TextAssumption == /\ Trim \in [Text -> Text]
                         /\ Empty \in Text /\ Trim[Empty] = Empty
                         /\ \A t \in Text : Trim[Trim[t]] = Trim[t]
ASSUME BoundsAssumption == Slots \in Nat /\ MaxAway \in Nat
ASSUME UsersAssumption == Users \subseteq SUBSET Habit

VARIABLES habits,    \* the user of this behaviour; none once everybody has stopped
          daemon,    \* the daemon's torrents, in order
          list,      \* model.torrents
          selected,  \* model.selectedID
          details,   \* model.details.Torrent.ID
          dialog,    \* model.dialog, with the fields that matter while it is open
          pending,   \* model.pending
          commands,  \* the commands that change something, and their results
          late,      \* calls that timed out and that the daemon may still carry out
          lists,     \* results of loadTorrents under way
          fetching,  \* loadDetails under way
          previews,  \* previewAddSource under way
          lost       \* history: pending was set in a copy that was thrown away

vars == <<habits, daemon, list, selected, details, dialog, pending,
          commands, late, lists, fetching, previews, lost>>

flight == <<late, lists, fetching, previews>>
world == <<habits, daemon>>

Slot == 1..Slots

(***************************************************************************)
(* The list and the selection                                              *)
(***************************************************************************)
\* selectedIndex; 0 when there is none
Index(order, id) == IF id \in ToSet(order) THEN CHOOSE i \in DOMAIN order : order[i] = id ELSE 0

\* Mutant: the selection outlives its torrent.
Kept(order, id) == IF order = <<>> THEN None ELSE IF id = None THEN order[1] ELSE id

\* ensureSelection
Ensured(order, id) == IF order = <<>> THEN None
                      ELSE IF id \in ToSet(order) THEN id ELSE order[1]

Show(order) == /\ list' = order
               /\ selected' = Ensured(order, selected)

\* Mutant: a torrent that is added is appended, shown or not.
Appended(order, id) == Append(order, id)

\* upsertTorrent
Upserted(order, id) == IF id \in ToSet(order) THEN order ELSE Append(order, id)

\* removeTorrent
Without(order, id) ==
    LET i == Index(order, id) IN
    IF i = 0 THEN order
    ELSE [k \in 1..(Len(order) - 1) |-> IF k < i THEN order[k] ELSE order[k + 1]]

\* loadDetails: two loads of one torrent are as good as one
LoadDetails(id) == fetching' = fetching \union {id}

(***************************************************************************)
(* Commands. Each has a pending mark, and none starts while it is set.     *)
(***************************************************************************)
Calls(kind, id) == [kind |-> kind, id |-> id, offset |-> 0]

Running(call) == [call |-> call, at |-> "sent", order |-> <<>>]

Free == {s \in Slot : commands[s] = None}

\* A command starts. `kept` says whether the mark it sets is in the model the
\* handler returns: see ChooseAction.
Start(call, kept) ==
    /\ Free # {}
    /\ LET s == CHOOSE s \in Free : \A r \in Free : s <= r
       IN  commands' = [commands EXCEPT ![s] = Running(call)]
    /\ pending' = kept
    /\ lost' = (lost \/ ~kept)

quiet == habits = {}

Closed == [kind |-> "none"]
CloseDialog == dialog' = Closed

(***************************************************************************)
(* Keys in the list                                                        *)
(***************************************************************************)
InList == dialog.kind = "none"

\* up and down
Select(id) ==
    /\ "select" \in habits /\ InList
    /\ LET i == Index(list, selected) IN
         /\ i > 0
         /\ id \in {list[IF j \in DOMAIN list THEN j ELSE i] : j \in {i - 1, i + 1}}
    /\ selected' = id
    /\ LoadDetails(id)
    /\ UNCHANGED <<world, list, details, dialog, pending, commands, late, lists, previews, lost>>

\* space: toggleSelected
Toggle == /\ "option" \in habits /\ InList /\ ~pending /\ Index(list, selected) > 0
          /\ Start(Calls("option", None), TRUE)
          /\ UNCHANGED <<world, list, selected, details, dialog, flight>>

\* space in the files of the details: the torrent is the one they are of
SetSelectedFilePriority ==
    /\ "priority" \in habits /\ InList /\ ~pending /\ details # None
    /\ Start(Calls("priority", details), TRUE)
    /\ UNCHANGED <<world, list, selected, details, dialog, flight>>

\* shift+up and shift+down; offset 1 is up, 2 is down
Offset == {1, 2}

\* Mutant: a move does not wait for the one before.
MoveSelectedAgain(offset) ==
    /\ "move" \in habits /\ InList /\ selected # None
    /\ Start([Calls("move", selected) EXCEPT !.offset = offset], TRUE)
    /\ UNCHANGED <<world, list, selected, details, dialog, flight>>

MoveSelected(offset) ==
    /\ "move" \in habits /\ InList /\ ~pending /\ selected # None
    /\ Start([Calls("move", selected) EXCEPT !.offset = offset], TRUE)
    /\ UNCHANGED <<world, list, selected, details, dialog, flight>>

Asking == [kind |-> "remove"]
Form == [kind |-> "add", field |-> 0, input |-> Empty, preview |-> Empty]

Opens(habit, d) ==
    /\ habit \in habits /\ InList /\ ~pending
    /\ d.kind # "add" => Index(list, selected) > 0
    /\ dialog' = d
    /\ UNCHANGED <<world, list, selected, details, pending, commands, flight, lost>>

OpenActions == \E habit \in {"option", "remove"} : Opens(habit, [kind |-> "actions"])
OpenRemove == Opens("remove", Asking)
OpenAdd == Opens("add", Form)

(***************************************************************************)
(* Keys in the dialogs of the selected torrent                             *)
(***************************************************************************)
Leave == /\ ~quiet /\ dialog.kind \in {"remove", "actions"}
         /\ CloseDialog
         /\ UNCHANGED <<world, list, selected, details, pending, commands, flight, lost>>

\* Enter on pause/resume, recheck or peers is `return m, m.toggleSelected()`:
\* whether m is copied before or after the call that sets its pending mark is
\* for the compiler to choose. On sequential the call comes first.
ChooseAction ==
    /\ "option" \in habits /\ dialog.kind = "actions"
    /\ CloseDialog
    /\ IF pending \/ selected = None
       THEN UNCHANGED <<pending, commands, lost>>
       ELSE \E kept \in BOOLEAN : Start(Calls("option", None), kept)
    /\ UNCHANGED <<world, list, selected, details, flight>>

\* Enter on remove
ChooseRemove ==
    /\ "remove" \in habits /\ dialog.kind = "actions"
    /\ dialog' = Asking
    /\ UNCHANGED <<world, list, selected, details, pending, commands, flight, lost>>

\* Enter on the button that removes: removeSelected, of the torrent selected
\* now, which is another than the dialog was opened for when a list without that
\* one has arrived since. Enter on the other is Leave.
Confirm ==
    /\ ~quiet /\ dialog.kind = "remove"
    /\ CloseDialog
    /\ IF pending \/ Index(list, selected) = 0
       THEN UNCHANGED <<pending, commands, lost>>
       ELSE Start(Calls("remove", selected), TRUE)
    /\ UNCHANGED <<world, list, selected, details, flight>>

(***************************************************************************)
(* Keys in the add dialog                                                  *)
(***************************************************************************)
AddSource == 0
AddPath == 1
AddSubmit == 4

Adding == ~quiet /\ dialog.kind = "add"

formOnly == <<world, list, selected, details, pending, commands, late, lists, fetching, lost>>

\* Ctrl-C empties the text field it is pressed in, and closes the dialog when
\* there is nothing to empty.
ControlC ==
    /\ Adding
    /\ dialog' \in IF ~pending /\ dialog.field = AddSource /\ dialog.input # Empty
                   THEN {[dialog EXCEPT !.input = Empty, !.preview = Empty]}
                   ELSE IF ~pending /\ dialog.field = AddPath THEN {Closed, dialog}
                   ELSE {Closed}
    /\ UNCHANGED <<formOnly, previews>>

Escape == /\ Adding /\ ~pending
          /\ CloseDialog
          /\ UNCHANGED <<formOnly, previews>>

\* previewAddSource. The preview of nothing is empty, as it is shown then.
Preview == previews' = previews \union ({Trim[dialog.input]} \ {Empty})

\* up, down, tab
MoveField(delta) ==
    /\ Adding /\ ~pending
    /\ dialog' = [dialog EXCEPT !.field = (@ + delta) % (AddSubmit + 1)]
    /\ IF dialog.field = AddSource THEN Preview ELSE UNCHANGED previews
    /\ UNCHANGED formOnly

\* Enter in a text field; on an option it changes only what will be asked for.
NextField == /\ Adding /\ ~pending /\ dialog.field <= AddPath
             /\ dialog' = [dialog EXCEPT !.field = @ + 1]
             /\ Preview
             /\ UNCHANGED formOnly

\* Any other key in the source field, even one that only moves the cursor,
\* clears the preview.
EditSource(text) ==
    /\ Adding /\ ~pending /\ dialog.field = AddSource
    /\ dialog' = [dialog EXCEPT !.input = text, !.preview = Empty]
    /\ UNCHANGED <<formOnly, previews>>

\* Enter on the button that adds; on the other it is Escape. A path that cannot
\* be made absolute ends it too. What the source leads to, the daemon finds out.
SubmitForm ==
    /\ Adding /\ ~pending /\ dialog.field = AddSubmit
    /\ \/ /\ Trim[dialog.input] = Empty
          /\ dialog' = [dialog EXCEPT !.field = AddSource]
          /\ UNCHANGED <<pending, commands, lost>>
       \/ /\ Trim[dialog.input] # Empty
          /\ \E id \in ID : Start(Calls("add", id), TRUE)
          /\ UNCHANGED dialog
    /\ UNCHANGED <<world, list, selected, details, flight>>

(***************************************************************************)
(* Results                                                                 *)
(***************************************************************************)
Ends(s, at) == /\ commands[s] # None /\ commands[s].at = at
               /\ commands' = [commands EXCEPT ![s] = None]
               /\ pending' = FALSE
               /\ UNCHANGED <<world, flight, lost>>

\* A failed add leaves the form as it was.
CommandFailed(s) ==
    /\ Ends(s, "failed")
    /\ UNCHANGED <<list, selected, details, dialog>>

\* handleActionResult, filePriorityResultMsg, torrentsMovedMsg
CommandDone(s) ==
    /\ Ends(s, "done")
    /\ LET id == commands[s].call.id IN
         CASE commands[s].call.kind = "option" ->
                UNCHANGED <<list, selected, details, dialog>>
           [] commands[s].call.kind = "priority" ->
                /\ details' = id
                /\ UNCHANGED <<list, selected, dialog>>
           [] commands[s].call.kind = "move" ->
                Show(commands[s].order) /\ UNCHANGED <<details, dialog>>
           [] commands[s].call.kind = "remove" ->
                Show(Without(list, id)) /\ UNCHANGED <<details, dialog>>
           [] commands[s].call.kind = "add" ->
                Show(Upserted(list, id)) /\ CloseDialog /\ UNCHANGED details

\* Mutant: the details of a torrent that the list selects are not asked for.
ListShown(order) ==
    /\ order \in lists
    /\ lists' = lists \ {order}
    /\ Show(order)
    /\ UNCHANGED <<world, details, dialog, pending, commands, late, fetching, previews, lost>>

\* torrentsLoadedMsg. A list that could not be loaded changes nothing here.
ListArrives(order) ==
    /\ order \in lists
    /\ lists' = lists \ {order}
    /\ Show(order)
    /\ IF selected' # None /\ details # selected'
       THEN LoadDetails(selected') ELSE UNCHANGED fetching
    /\ UNCHANGED <<world, details, dialog, pending, commands, late, previews, lost>>

\* detailsLoadedMsg: for another torrent than the selected one it is dropped.
DetailsArrive(id) ==
    /\ id \in fetching
    /\ fetching' = fetching \ {id}
    /\ details' = IF id = selected THEN id ELSE details
    /\ UNCHANGED <<world, list, selected, dialog, pending, commands, late, lists, previews, lost>>

DetailsFail(id) ==
    /\ id \in fetching
    /\ fetching' = fetching \ {id}
    /\ UNCHANGED <<world, list, selected, details, dialog, pending, commands, late, lists,
                   previews, lost>>

\* Mutant: the source of the preview is not compared.
PreviewShown(text) ==
    /\ text \in previews
    /\ previews' = previews \ {text}
    /\ dialog' = IF dialog.kind = "add" THEN [dialog EXCEPT !.preview = text] ELSE dialog
    /\ UNCHANGED formOnly

\* addPreviewMsg
PreviewArrives(text) ==
    /\ text \in previews
    /\ previews' = previews \ {text}
    /\ dialog' = IF dialog.kind = "add" /\ Trim[dialog.input] = text
                 THEN [dialog EXCEPT !.preview = text] ELSE dialog
    /\ UNCHANGED formOnly

(***************************************************************************)
(* The daemon, as the client's calls see it                                *)
(***************************************************************************)
Swapped(order, i, j) ==
    [k \in DOMAIN order |-> IF k = i THEN order[j] ELSE IF k = j THEN order[i] ELSE order[k]]

Shifted(order, id, offset) ==
    LET i == Index(order, id)
        j == IF offset = 1 THEN i - 1 ELSE i + 1
    IN  IF j \in DOMAIN order THEN Swapped(order, i, j) ELSE order

Effect(order, call) ==
    CASE call.kind = "add" -> Upserted(order, call.id)
      [] call.kind = "remove" -> Without(order, call.id)
      [] call.kind = "move" -> Shifted(order, call.id, call.offset)
      [] OTHER -> order

Accepts(call) == call.kind \in {"add", "option"} \/ call.id \in ToSet(daemon)

shown == <<list, selected, details, dialog, pending, lost>>

Sent(s) == commands[s] # None /\ commands[s].at = "sent"

Perform(s) ==
    /\ Sent(s) /\ Accepts(commands[s].call)
    /\ daemon' = Effect(daemon, commands[s].call)
    /\ commands' = [commands EXCEPT ![s].at = "done",
                      ![s].order = IF commands[s].call.kind = "move" THEN daemon' ELSE <<>>]
    /\ UNCHANGED <<habits, shown, flight>>

\* The daemon refuses, or cannot be reached.
Refuse(s) == /\ Sent(s)
             /\ commands' = [commands EXCEPT ![s].at = "failed"]
             /\ UNCHANGED <<world, shown, flight>>

Away == Cardinality(lists) + Cardinality(late) + Cardinality(Slot \ Free)

Reordering == {"add", "remove", "move"}

\* The client closes the connection; the request goes on. Those that change
\* the order or the set of torrents are remembered.
TimeOut(s) == /\ Sent(s) /\ late = {} /\ Away < MaxAway
              /\ commands' = [commands EXCEPT ![s].at = "failed"]
              /\ late' = late \union {call \in {commands[s].call} : call.kind \in Reordering}
              /\ UNCHANGED <<world, shown, lists, fetching, previews>>

PerformLate(call) ==
    /\ call \in late
    /\ late' = late \ {call}
    /\ daemon' = IF Accepts(call) THEN Effect(daemon, call) ELSE daemon
    /\ UNCHANGED <<habits, shown, commands, lists, fetching, previews>>

\* refreshMsg: every second the list is asked for, and usually answered; the
\* answer is the list at some moment before it arrives.
Refresh == /\ lists = {} \/ Away < MaxAway
           /\ lists' = lists \union {daemon}
           /\ UNCHANGED <<world, shown, commands, late, fetching, previews>>

OtherClient ==
    /\ "others" \in habits
    /\ \E id \in ID, kind \in Reordering, offset \in Offset :
         LET call == [kind |-> kind, id |-> id, offset |-> offset]
         IN  Accepts(call) /\ daemon' = Effect(daemon, call)
    /\ UNCHANGED <<habits, shown, commands, flight>>

FallQuiet == /\ ~quiet /\ habits' = {}
             /\ UNCHANGED <<daemon, shown, commands, flight>>

-----------------------------------------------------------------------------
Init == /\ habits \in Users
        /\ daemon \in Started
        /\ list = <<>>
        /\ selected = None
        /\ details = None
        /\ dialog = Closed
        /\ pending = FALSE
        /\ commands = [s \in Slot |-> None]
        /\ late = {}
        /\ lists = {}
        /\ fetching = {}
        /\ previews = {}
        /\ lost = FALSE

ListKey == \/ \E id \in ID : Select(id)
           \/ Toggle
           \/ SetSelectedFilePriority
           \/ \E offset \in Offset : MoveSelected(offset)
           \/ OpenActions \/ OpenRemove \/ OpenAdd

DialogKey == Leave \/ ChooseAction \/ ChooseRemove \/ Confirm

FormKey == \/ ControlC \/ Escape
           \/ \E delta \in {1, AddSubmit} : MoveField(delta)
           \/ NextField \/ SubmitForm
           \/ \E text \in Text : EditSource(text)

Result == \/ \E s \in Slot : CommandFailed(s) \/ CommandDone(s)
          \/ \E order \in lists : ListArrives(order)
          \/ \E id \in fetching : DetailsArrive(id) \/ DetailsFail(id)
          \/ \E text \in previews : PreviewArrives(text)

Server == \/ \E s \in Slot : Perform(s) \/ Refuse(s) \/ TimeOut(s)
          \/ \E call \in late : PerformLate(call)
          \/ Refresh

Next == ListKey \/ DialogKey \/ FormKey \/ Result \/ Server \/ OtherClient \/ FallQuiet

Spec == Init /\ [][Next]_vars
=============================================================================
