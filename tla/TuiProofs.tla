----------------------------- MODULE TuiProofs -----------------------------
(***************************************************************************)
(* Theorems about the terminal interface: for any torrents and users, any  *)
(* number of commands and results under way, and results in any order.     *)
(***************************************************************************)
EXTENDS TuiProperties, SequenceTheorems, WellFoundedInduction, TLAPS

(***************************************************************************)
(* Orders                                                                  *)
(***************************************************************************)
\* An order is a sequence of torrents with its own positions.
LEMMA OrderFacts ==
  ASSUME NEW order \in Orders
  PROVE  /\ order \in Seq(ID) /\ Len(order) \in Nat
         /\ DOMAIN order = 1..Len(order)
         /\ \A i \in 1..Len(order) : order[i] \in ID
         /\ \A i, j \in 1..Len(order) : order[i] = order[j] => i = j
         /\ ToSet(order) = {order[i] : i \in 1..Len(order)}
BY DEF Orders, IsInjective, ToSet

\* What makes a function on 1..n an order.
LEMMA IsOrder ==
  ASSUME NEW n \in Nat, NEW r, r \in [1..n -> ID],
         \A i, j \in 1..n : r[i] = r[j] => i = j
  PROVE  r \in Orders /\ Len(r) = n
<1>1. r \in Seq(ID) /\ Len(r) = n /\ DOMAIN r = 1..n
  OBVIOUS
<1>. QED
  BY <1>1 DEF Orders, IsInjective

\* Index finds a torrent where it is, and 0 where it is not.
LEMMA IndexFacts ==
  ASSUME NEW order \in Orders, NEW id
  PROVE  /\ Index(order, id) \in 0..Len(order)
         /\ id \in ToSet(order) => Index(order, id) \in 1..Len(order) /\ order[Index(order, id)] = id
         /\ id \notin ToSet(order) => Index(order, id) = 0
<1>1. CASE id \in ToSet(order)
  <2>1. \E i \in DOMAIN order : order[i] = id
    BY <1>1, OrderFacts
  <2>2. Index(order, id) = CHOOSE i \in DOMAIN order : order[i] = id
    BY <1>1 DEF Index
  <2>3. Index(order, id) \in DOMAIN order /\ order[Index(order, id)] = id
    BY <2>1, <2>2
  <2>. QED
    BY <1>1, <2>3, OrderFacts
<1>2. CASE id \notin ToSet(order)
  BY <1>2, OrderFacts DEF Index
<1>. QED
  BY <1>1, <1>2

\* The empty order.
LEMMA EmptyOrder == <<>> \in Orders
BY DEF Orders, IsInjective

\* An order without torrents is the empty one, and only that one.
LEMMA NonEmptyOrder ==
  ASSUME NEW order \in Orders, order # <<>>
  PROVE  order[1] \in ToSet(order) /\ order[1] \in ID
<1>1. Len(order) # 0
  BY OrderFacts, EmptySeq
<1>. QED
  BY <1>1, OrderFacts

\* The selection that ensureSelection makes is shown (update.go:212).
LEMMA EnsuredFacts ==
  ASSUME NEW order \in Orders, NEW id
  PROVE  /\ IF order = <<>> THEN Ensured(order, id) = None ELSE Ensured(order, id) \in ToSet(order)
         /\ Ensured(order, id) \in ID \union {None}
<1>1. CASE order = <<>>
  BY <1>1 DEF Ensured
<1>2. CASE order # <<>>
  <2>1. ToSet(order) \subseteq ID
    BY OrderFacts
  <2>. QED
    BY <1>2, <2>1, NonEmptyOrder DEF Ensured
<1>. QED
  BY <1>1, <1>2

\* A torrent that is added is shown once (actions.go:357).
LEMMA UpsertedFacts ==
  ASSUME NEW order \in Orders, NEW id \in ID
  PROVE  Upserted(order, id) \in Orders
<1>1. CASE id \in ToSet(order)
  BY <1>1 DEF Upserted
<1>2. CASE id \notin ToSet(order)
  <2> DEFINE n == Len(order)
             r == Append(order, id)
  <2>. order \in Seq(ID) /\ n \in Nat
    BY OrderFacts
  <2>1. n + 1 \in Nat /\ r \in [1..(n + 1) -> ID]
    <3>1. r \in Seq(ID) /\ Len(r) = n + 1
      BY AppendProperties
    <3> HIDE DEF r
    <3>. QED
      BY <3>1, LenProperties
  <2>2. \A i \in 1..n : r[i] = order[i]
    BY OrderFacts, AppendProperties
  <2>3. r[n + 1] = id
    BY OrderFacts, AppendProperties
  <2>4. \A i \in 1..n : order[i] # id
    BY <1>2, OrderFacts
  <2>5. \A i \in 1..(n + 1) : i \in 1..n \/ i = n + 1
    BY <2>1
  <2>6. \A i, j \in 1..n : order[i] = order[j] => i = j
    BY OrderFacts
  <2> HIDE DEF n, r
  <2>7. \A i, j \in 1..(n + 1) : r[i] = r[j] => i = j
    BY <2>2, <2>3, <2>4, <2>5, <2>6
  <2>8. r \in Orders
    BY <2>1, <2>7, IsOrder
  <2>. QED
    BY <1>2, <2>8 DEF Upserted, r
<1>. QED
  BY <1>1, <1>2

\* Removing a torrent leaves the others in order (actions.go:367).
LEMMA WithoutFacts ==
  ASSUME NEW order \in Orders, NEW id
  PROVE  Without(order, id) \in Orders
<1> DEFINE i == Index(order, id)
           n == Len(order)
<1>1. CASE i = 0
  BY <1>1 DEF Without
<1>2. CASE i # 0
  <2> DEFINE at(k) == IF k < i THEN k ELSE k + 1
             r == [k \in 1..(n - 1) |-> IF k < i THEN order[k] ELSE order[k + 1]]
  <2>1. i \in 1..n /\ n \in Nat /\ n - 1 \in Nat
    BY <1>2, IndexFacts, OrderFacts
  <2>2. Without(order, id) = r
    BY <1>2 DEF Without
  <2> HIDE DEF i, n
  <2>3. \A k \in 1..(n - 1) : at(k) \in 1..n /\ r[k] = order[at(k)]
    BY <2>1
  <2>4. \A k, l \in 1..(n - 1) : at(k) = at(l) => k = l
    BY <2>1
  <2>5. /\ \A k \in 1..n : order[k] \in ID
        /\ \A k, l \in 1..n : order[k] = order[l] => k = l
    BY OrderFacts DEF n
  <2>6. r \in [1..(n - 1) -> ID]
    BY <2>3, <2>5
  <2> HIDE DEF r, at
  <2>7. \A k, l \in 1..(n - 1) : r[k] = r[l] => k = l
    BY <2>3, <2>4, <2>5
  <2>. QED
    BY <2>1, <2>2, <2>6, <2>7, IsOrder
<1>. QED
  BY <1>1, <1>2

\* A move permutes the order (controls.go:131).
LEMMA ShiftedFacts ==
  ASSUME NEW order \in Orders, NEW id \in ToSet(order), NEW offset
  PROVE  Shifted(order, id, offset) \in Orders
<1> DEFINE i == Index(order, id)
           j == IF offset = 1 THEN i - 1 ELSE i + 1
           n == Len(order)
<1>. i \in 1..n
  BY IndexFacts
<1>1. CASE j \in DOMAIN order
  <2> DEFINE at(k) == IF k = i THEN j ELSE IF k = j THEN i ELSE k
             r == Swapped(order, i, j)
  <2>1. i \in 1..n /\ j \in 1..n /\ n \in Nat
    BY <1>1, OrderFacts
  <2>2. r = [k \in 1..n |-> order[at(k)]]
    BY OrderFacts DEF Swapped
  <2>3. Shifted(order, id, offset) = r
    BY <1>1 DEF Shifted
  <2> HIDE DEF i, j, n, r
  <2>4. \A k \in 1..n : at(k) \in 1..n
    BY <2>1
  <2>5. \A k, l \in 1..n : at(k) = at(l) => k = l
    BY <2>1
  <2> HIDE DEF at
  <2>6. /\ \A k \in 1..n : order[k] \in ID
        /\ \A k, l \in 1..n : order[k] = order[l] => k = l
    BY OrderFacts DEF n
  <2>7. r \in [1..n -> ID] /\ \A k, l \in 1..n : r[k] = r[l] => k = l
    BY <2>2, <2>4, <2>5, <2>6
  <2>. QED
    BY <2>1, <2>3, <2>7, IsOrder
<1>2. CASE j \notin DOMAIN order
  BY <1>2 DEF Shifted
<1>. QED
  BY <1>1, <1>2

(***************************************************************************)
(* Types                                                                   *)
(***************************************************************************)
\* A command that starts is one (actions.go:160).
LEMMA StartFacts ==
  ASSUME TypeOK, NEW call \in Call, NEW kept \in BOOLEAN, Start(call, kept)
  PROVE  /\ commands' \in [Slot -> Command \union {None}]
         /\ pending' \in BOOLEAN /\ lost' \in BOOLEAN
<1>1. Running(call) \in Command
  BY EmptyOrder DEF Running, Command
<1>. QED
  BY <1>1 DEF Start, TypeOK

\* What is shown is an order, with a selection in it.
LEMMA ShowFacts ==
  ASSUME NEW order \in Orders, Show(order)
  PROVE  /\ list' \in Orders /\ selected' \in ID \union {None}
         /\ SelectionIsListed'
BY EnsuredFacts DEF Show, SelectionIsListed

\* What the daemon does leaves it an order.
LEMMA EffectFacts ==
  ASSUME NEW order \in Orders, NEW call \in Call,
         call.kind = "move" => call.id \in ToSet(order)
  PROVE  Effect(order, call) \in Orders
<1>1. call.kind # "option" => call.id \in ID
  BY DEF Call
<1>. QED
  BY <1>1, UpsertedFacts, WithoutFacts, ShiftedFacts DEF Effect

\* The add dialog's fields.
AddDialog == [kind : {"add"}, field : 0..AddSubmit, input : Text, preview : Text]

\* The dialogs that are opened are dialogs.
LEMMA DialogFacts ==
  /\ Closed \in Dialog /\ Asking \in Dialog /\ [kind |-> "actions"] \in Dialog
  /\ Form \in Dialog
  /\ AddDialog \subseteq Dialog
  /\ \A d \in Dialog : d.kind = "add" => d \in AddDialog
<1>1. Form \in AddDialog
  BY TextAssumption DEF Form, AddDialog, AddSubmit
<1>2. AddDialog \subseteq Dialog
  BY DEF AddDialog, Dialog
<1>3. ASSUME NEW d \in Dialog, d.kind = "add"
      PROVE  d \in AddDialog
  BY <1>3 DEF Dialog, AddDialog, Closed, Asking
<1>. QED
  BY <1>1, <1>2, <1>3 DEF Dialog

\* A key in the list.
LEMMA ListKeyTyped == TypeOK /\ ListKey => TypeOK'
<1> SUFFICES ASSUME TypeOK, ListKey PROVE TypeOK'
  OBVIOUS
<1>1. ASSUME NEW id \in ID, Select(id) PROVE TypeOK'
  BY <1>1 DEF TypeOK, Select, LoadDetails, world
<1>2. ASSUME NEW call \in Call, Start(call, TRUE),
             UNCHANGED <<world, list, selected, details, dialog, flight>>
      PROVE  TypeOK'
  BY <1>2, StartFacts DEF TypeOK, world, flight
<1>3. CASE Toggle
  <2>1. Calls("option", None) \in Call
    BY DEF Calls, Call
  <2>. QED
    BY <1>2, <1>3, <2>1 DEF Toggle
<1>4. CASE SetSelectedFilePriority
  <2>1. Calls("priority", details) \in Call
    BY <1>4 DEF Calls, Call, Kind, TypeOK, SetSelectedFilePriority
  <2>. QED
    BY <1>2, <1>4, <2>1 DEF SetSelectedFilePriority
<1>5. ASSUME NEW offset \in Offset, MoveSelected(offset) PROVE TypeOK'
  <2>1. [Calls("move", selected) EXCEPT !.offset = offset] \in Call
    BY <1>5 DEF Calls, Call, Kind, Offset, TypeOK, MoveSelected
  <2>. QED
    BY <1>2, <1>5, <2>1 DEF MoveSelected
<1>6. CASE OpenActions \/ OpenRemove \/ OpenAdd
  BY <1>6, DialogFacts DEF OpenActions, OpenRemove, OpenAdd, Opens, TypeOK, world, flight
<1>. QED
  BY <1>1, <1>3, <1>4, <1>5, <1>6 DEF ListKey

\* A key in a dialog of the selected torrent.
LEMMA DialogKeyTyped == TypeOK /\ DialogKey => TypeOK'
<1> SUFFICES ASSUME TypeOK, DialogKey PROVE TypeOK'
  OBVIOUS
<1>1. CASE Leave
  BY <1>1, DialogFacts DEF Leave, CloseDialog, TypeOK, world, flight
<1>2. CASE ChooseAction
  <2>1. Calls("option", None) \in Call
    BY DEF Calls, Call
  <2>2. /\ commands' \in [Slot -> Command \union {None}]
        /\ pending' \in BOOLEAN /\ lost' \in BOOLEAN
    BY <1>2, <2>1, StartFacts DEF ChooseAction, TypeOK
  <2>. QED
    BY <1>2, <2>2, DialogFacts DEF ChooseAction, CloseDialog, TypeOK, world, flight
<1>3. CASE ChooseRemove
  BY <1>3, DialogFacts DEF ChooseRemove, TypeOK, world, flight
<1>4. CASE Confirm
  <2>1. Index(list, selected) # 0 => selected \in ID
    BY IndexFacts, OrderFacts DEF TypeOK
  <2>2. Index(list, selected) # 0 => Calls("remove", selected) \in Call
    BY <2>1 DEF Calls, Call, Kind
  <2>3. /\ commands' \in [Slot -> Command \union {None}]
        /\ pending' \in BOOLEAN /\ lost' \in BOOLEAN
    BY <1>4, <2>2, StartFacts DEF Confirm, TypeOK
  <2>. QED
    BY <1>4, <2>3, DialogFacts DEF Confirm, CloseDialog, TypeOK, world, flight
<1>. QED
  BY <1>1, <1>2, <1>3, <1>4 DEF DialogKey

\* A key in the add dialog.
LEMMA FormKeyTyped == TypeOK /\ FormKey => TypeOK'
<1> SUFFICES ASSUME TypeOK, FormKey PROVE TypeOK'
  OBVIOUS
<1>1. Adding => dialog \in AddDialog
  BY DialogFacts DEF TypeOK, Adding
<1>2. ASSUME dialog' \in Dialog, UNCHANGED formOnly, previews' \subseteq Text
      PROVE  TypeOK'
  BY <1>2 DEF TypeOK, formOnly, world
<1>3. ASSUME Adding, Preview PROVE previews' \subseteq Text
  BY <1>1, <1>3, TextAssumption DEF Preview, TypeOK, AddDialog
<1>4. CASE ControlC
  <2>1. Adding => [dialog EXCEPT !.input = Empty, !.preview = Empty] \in AddDialog
    BY <1>1, TextAssumption DEF AddDialog
  <2>2. dialog' \in Dialog
    BY <1>4, <2>1, DialogFacts DEF ControlC, TypeOK
  <2>. QED
    BY <1>2, <1>4, <2>2 DEF ControlC, TypeOK
<1>5. CASE Escape
  BY <1>2, <1>5, DialogFacts DEF Escape, CloseDialog, TypeOK
<1>6. ASSUME NEW delta \in {1, AddSubmit}, MoveField(delta) PROVE TypeOK'
  <2>1. Adding => (dialog.field + delta) % (AddSubmit + 1) \in 0..AddSubmit
    BY <1>1 DEF AddDialog, AddSubmit
  <2>2. dialog' \in AddDialog
    BY <1>1, <1>6, <2>1 DEF MoveField, AddDialog
  <2>3. previews' \subseteq Text
    BY <1>3, <1>6 DEF MoveField, TypeOK
  <2>. QED
    BY <1>2, <1>6, <2>2, <2>3, DialogFacts DEF MoveField
<1>7. CASE NextField
  <2>1. dialog' \in AddDialog
    BY <1>1, <1>7 DEF NextField, AddDialog, AddPath, AddSubmit
  <2>. QED
    BY <1>2, <1>3, <1>7, <2>1, DialogFacts DEF NextField
<1>8. CASE SubmitForm
  <2>1. Adding => [dialog EXCEPT !.field = AddSource] \in AddDialog
    BY <1>1 DEF AddDialog, AddSource, AddSubmit
  <2>2. dialog' \in Dialog
    BY <1>8, <2>1, DialogFacts DEF SubmitForm, TypeOK
  <2>3. \A id \in ID : Calls("add", id) \in Call
    BY DEF Calls, Call, Kind
  <2>4. /\ commands' \in [Slot -> Command \union {None}]
        /\ pending' \in BOOLEAN /\ lost' \in BOOLEAN
    BY <1>8, <2>3, StartFacts DEF SubmitForm, TypeOK
  <2>. QED
    BY <1>8, <2>2, <2>4 DEF SubmitForm, TypeOK, world, flight
<1>9. ASSUME NEW text \in Text, EditSource(text) PROVE TypeOK'
  <2>1. dialog' \in AddDialog
    BY <1>1, <1>9, TextAssumption DEF EditSource, AddDialog
  <2>. QED
    BY <1>2, <1>9, <2>1, DialogFacts DEF EditSource, TypeOK
<1>. QED
  BY <1>4, <1>5, <1>6, <1>7, <1>8, <1>9 DEF FormKey

\* A result.
LEMMA ResultTyped == TypeOK /\ Result => TypeOK'
<1> SUFFICES ASSUME TypeOK, Result PROVE TypeOK'
  OBVIOUS
<1>1. ASSUME NEW s \in Slot, NEW at, Ends(s, at)
      PROVE  /\ commands[s] \in Command
             /\ commands' \in [Slot -> Command \union {None}] /\ pending' \in BOOLEAN
             /\ UNCHANGED <<world, flight, lost>>
  BY <1>1 DEF Ends, TypeOK
<1>2. ASSUME NEW s \in Slot, CommandFailed(s) PROVE TypeOK'
  BY <1>1, <1>2 DEF CommandFailed, TypeOK, world, flight
<1>3. ASSUME NEW s \in Slot, CommandDone(s) PROVE TypeOK'
  <2> DEFINE call == commands[s].call
  <2>1. Ends(s, "done")
    BY <1>3 DEF CommandDone
  <2>2. call \in Call /\ commands[s].order \in Orders
    BY <1>1, <2>1 DEF Command
  <2>3. call.kind # "option" => call.id \in ID
    BY <2>2 DEF Call
  <2>4. /\ list' \in Orders /\ selected' \in ID \union {None}
        /\ details' \in ID \union {None} /\ dialog' \in Dialog
    <3>1. CASE call.kind \in {"option", "priority"}
      BY <1>3, <2>3, <3>1 DEF CommandDone, TypeOK
    <3>2. CASE call.kind = "move"
      BY <1>3, <2>2, <3>2, ShowFacts DEF CommandDone, TypeOK
    <3>3. CASE call.kind = "remove"
      BY <1>3, <2>2, <3>3, ShowFacts, WithoutFacts DEF CommandDone, TypeOK
    <3>4. CASE call.kind = "add"
      BY <1>3, <2>3, <3>4, ShowFacts, UpsertedFacts, DialogFacts
      DEF CommandDone, CloseDialog, TypeOK
    <3>. QED
      BY <2>2, <3>1, <3>2, <3>3, <3>4 DEF Call, Kind
  <2> HIDE DEF call
  <2>. QED
    BY <1>1, <2>1, <2>4 DEF TypeOK, world, flight
<1>4. ASSUME NEW order \in lists, ListArrives(order) PROVE TypeOK'
  <2>1. list' \in Orders /\ selected' \in ID \union {None}
    BY <1>4, ShowFacts DEF ListArrives, TypeOK
  <2>2. fetching' \subseteq ID
    BY <1>4, <2>1 DEF ListArrives, LoadDetails, TypeOK
  <2>. QED
    BY <1>4, <2>1, <2>2 DEF ListArrives, TypeOK, world
<1>5. ASSUME NEW id \in fetching, DetailsArrive(id) \/ DetailsFail(id) PROVE TypeOK'
  BY <1>5 DEF DetailsArrive, DetailsFail, TypeOK, world
<1>6. ASSUME NEW text \in previews, PreviewArrives(text) PROVE TypeOK'
  <2>1. dialog.kind = "add" => [dialog EXCEPT !.preview = text] \in AddDialog
    BY DialogFacts DEF TypeOK, AddDialog
  <2>2. dialog' \in Dialog
    BY <1>6, <2>1, DialogFacts DEF PreviewArrives, TypeOK
  <2>. QED
    BY <1>6, <2>2 DEF PreviewArrives, TypeOK, formOnly, world
<1>. QED
  BY <1>2, <1>3, <1>4, <1>5, <1>6 DEF Result

\* A call that the daemon accepts leaves it an order.
LEMMA AcceptedFacts ==
  ASSUME TypeOK, NEW call \in Call, Accepts(call)
  PROVE  Effect(daemon, call) \in Orders
BY EffectFacts DEF Accepts, TypeOK

\* A command that was sent is another command afterwards, and the daemon's
\* torrents are an order: the command has not ended.
LEMMA SentFacts ==
  ASSUME TypeOK, NEW s \in Slot, Perform(s) \/ Refuse(s) \/ TimeOut(s)
  PROVE  /\ daemon' \in Orders /\ late' \subseteq Call
         /\ commands[s] \in Command
         /\ \E command \in Command : commands' = [commands EXCEPT ![s] = command]
<1>1. commands[s] \in Command
  BY DEF Perform, Refuse, TimeOut, Sent, TypeOK
<1>2. commands[s].call \in Call
  BY <1>1 DEF Command
<1>3. CASE Perform(s)
  <2>1. daemon' \in Orders
    BY <1>2, <1>3, AcceptedFacts DEF Perform
  <2> DEFINE order == IF commands[s].call.kind = "move" THEN daemon' ELSE <<>>
  <2>2. order \in Orders
    BY <2>1, EmptyOrder
  <2>3. commands' = [commands EXCEPT ![s] = [commands[s] EXCEPT !.at = "done", !.order = order]]
    BY <1>1, <1>3 DEF Perform, TypeOK, Command
  <2> HIDE DEF order
  <2>4. [commands[s] EXCEPT !.at = "done", !.order = order] \in Command
    BY <1>1, <2>2 DEF Command
  <2>5. late' \subseteq Call
    BY <1>3 DEF Perform, flight, TypeOK
  <2>. QED
    BY <1>1, <2>1, <2>3, <2>4, <2>5
<1>4. CASE Refuse(s) \/ TimeOut(s)
  <2>1. [commands[s] EXCEPT !.at = "failed"] \in Command
    BY <1>1 DEF Command
  <2>2. commands' = [commands EXCEPT ![s] = [commands[s] EXCEPT !.at = "failed"]]
    BY <1>4 DEF Refuse, TimeOut
  <2>3. daemon' \in Orders /\ late' \subseteq Call
    BY <1>2, <1>4 DEF Refuse, TimeOut, TypeOK, world, flight
  <2>. QED
    BY <1>1, <2>1, <2>2, <2>3
<1>. QED
  BY <1>3, <1>4

\* A step of the daemon or of another client.
LEMMA ServerTyped == TypeOK /\ (Server \/ OtherClient) => TypeOK'
<1> SUFFICES ASSUME TypeOK, Server \/ OtherClient PROVE TypeOK'
  OBVIOUS
<1>1. ASSUME NEW s \in Slot, Perform(s) \/ Refuse(s) \/ TimeOut(s) PROVE TypeOK'
  <2>1. commands' \in [Slot -> Command \union {None}]
    BY <1>1, SentFacts DEF TypeOK
  <2>2. daemon' \in Orders /\ late' \subseteq Call
    BY <1>1, SentFacts
  <2>3. UNCHANGED <<habits, shown, lists, fetching, previews>>
    BY <1>1 DEF Perform, Refuse, TimeOut, world, flight
  <2>. QED
    BY <2>1, <2>2, <2>3 DEF TypeOK, shown
<1>2. ASSUME NEW call \in late, PerformLate(call) PROVE TypeOK'
  <2>1. daemon' \in Orders /\ late' \subseteq Call
    BY <1>2, AcceptedFacts DEF PerformLate, TypeOK
  <2>. QED
    BY <1>2, <2>1 DEF PerformLate, TypeOK, shown
<1>3. CASE Refresh
  BY <1>3 DEF Refresh, TypeOK, world, shown
<1>4. CASE OtherClient
  <2>1. PICK id \in ID, kind \in Reordering, offset \in Offset :
           LET call == [kind |-> kind, id |-> id, offset |-> offset]
           IN  Accepts(call) /\ daemon' = Effect(daemon, call)
    BY <1>4 DEF OtherClient
  <2>2. [kind |-> kind, id |-> id, offset |-> offset] \in Call
    BY DEF Reordering, Call, Kind, Offset
  <2>3. daemon' \in Orders
    BY <2>1, <2>2, AcceptedFacts
  <2>. QED
    BY <1>4, <2>3 DEF OtherClient, TypeOK, shown, flight
<1>. QED
  BY <1>1, <1>2, <1>3, <1>4 DEF Server

\* In every behaviour of the interface no list shows a torrent twice, and
\* every variable keeps its type (update.go:15).
THEOREM TypeCorrect == Spec => []TypeOK
<1>1. Init => TypeOK
  BY StartedAssumption, EmptyOrder, DialogFacts DEF Init, TypeOK, Closed
<1>2. TypeOK /\ [Next]_vars => TypeOK'
  <2> SUFFICES ASSUME TypeOK, [Next]_vars PROVE TypeOK'
    OBVIOUS
  <2>1. CASE FallQuiet
    BY <2>1 DEF FallQuiet, TypeOK, shown, flight
  <2>2. CASE UNCHANGED vars
    BY <2>2 DEF TypeOK, vars
  <2>. QED
    BY <2>1, <2>2, ListKeyTyped, DialogKeyTyped, FormKeyTyped, ResultTyped, ServerTyped DEF Next
<1>. QED
  BY <1>1, <1>2, PTL DEF Spec

-----------------------------------------------------------------------------
(***************************************************************************)
(* The selection                                                           *)
(***************************************************************************)
\* A command that ends shows an order, or leaves list and selection alone.
LEMMA DoneShows ==
  ASSUME TypeOK, NEW s \in Slot, CommandDone(s)
  PROVE  UNCHANGED <<list, selected>> \/ \E order \in Orders : Show(order)
<1> DEFINE call == commands[s].call
<1>1. commands[s] \in Command
  BY DEF CommandDone, Ends, TypeOK
<1>2. call \in Call /\ commands[s].order \in Orders
  BY <1>1 DEF Command
<1>3. call.kind # "option" => call.id \in ID
  BY <1>2 DEF Call
<1>4. CASE call.kind \in {"option", "priority"}
  BY <1>4 DEF CommandDone
<1>5. CASE call.kind = "move"
  BY <1>2, <1>5 DEF CommandDone
<1>6. CASE call.kind = "remove"
  BY <1>6, WithoutFacts DEF CommandDone, TypeOK
<1>7. CASE call.kind = "add"
  BY <1>3, <1>7, UpsertedFacts DEF CommandDone, TypeOK
<1>. QED
  BY <1>2, <1>4, <1>5, <1>6, <1>7 DEF Call, Kind

\* Only keys in the list, lists and results of commands touch what is shown.
LEMMA ShowsOrSelects ==
  ASSUME TypeOK, [Next]_vars
  PROVE  \/ UNCHANGED <<list, selected>>
         \/ \E order \in Orders : Show(order)
         \/ \E id \in ID : Select(id)
<1>1. CASE ListKey
  BY <1>1 DEF ListKey, Toggle, SetSelectedFilePriority, MoveSelected, OpenActions, OpenRemove,
              OpenAdd, Opens
<1>2. CASE DialogKey
  BY <1>2 DEF DialogKey, Leave, ChooseAction, ChooseRemove, Confirm
<1>3. CASE FormKey
  BY <1>3 DEF FormKey, ControlC, Escape, MoveField, NextField, SubmitForm, EditSource, formOnly
<1>4. CASE Result
  <2>1. ASSUME NEW s \in Slot, CommandFailed(s) PROVE UNCHANGED <<list, selected>>
    BY <2>1 DEF CommandFailed
  <2>2. ASSUME NEW order \in lists, ListArrives(order) PROVE order \in Orders /\ Show(order)
    BY <2>2 DEF ListArrives, TypeOK
  <2>3. ASSUME NEW id \in fetching, DetailsArrive(id) \/ DetailsFail(id)
        PROVE  UNCHANGED <<list, selected>>
    BY <2>3 DEF DetailsArrive, DetailsFail
  <2>4. ASSUME NEW text \in previews, PreviewArrives(text) PROVE UNCHANGED <<list, selected>>
    BY <2>4 DEF PreviewArrives, formOnly
  <2>. QED
    BY <1>4, <2>1, <2>2, <2>3, <2>4, DoneShows DEF Result
<1>5. CASE Server
  BY <1>5 DEF Server, Perform, Refuse, TimeOut, PerformLate, Refresh, shown
<1>6. CASE OtherClient \/ FallQuiet \/ UNCHANGED vars
  BY <1>6 DEF OtherClient, FallQuiet, vars, shown
<1>. QED
  BY <1>1, <1>2, <1>3, <1>4, <1>5, <1>6 DEF Next

\* Whatever lists and results arrive, in whatever order, the selected torrent
\* is one that is shown (update.go:212).
THEOREM SelectionListed == Spec => []SelectionIsListed
<1>1. Init => SelectionIsListed
  BY DEF Init, SelectionIsListed
<1>2. TypeOK /\ SelectionIsListed /\ [Next]_vars => SelectionIsListed'
  <2> SUFFICES ASSUME TypeOK, SelectionIsListed, [Next]_vars PROVE SelectionIsListed'
    OBVIOUS
  <2>1. CASE UNCHANGED <<list, selected>>
    BY <2>1 DEF SelectionIsListed
  <2>2. ASSUME NEW order \in Orders, Show(order) PROVE SelectionIsListed'
    BY <2>2, ShowFacts
  <2>3. ASSUME NEW id \in ID, Select(id) PROVE SelectionIsListed'
    <3>1. list \in Orders
      BY DEF TypeOK
    <3>2. Index(list, selected) \in 1..Len(list)
      BY <2>3, <3>1, IndexFacts DEF Select
    <3>3. id \in ToSet(list) /\ list # <<>>
      BY <2>3, <3>1, <3>2, OrderFacts DEF Select
    <3>. QED
      BY <2>3, <3>3 DEF Select, SelectionIsListed
  <2>. QED
    BY <2>1, <2>2, <2>3, ShowsOrSelects
<1>. QED
  BY <1>1, <1>2, TypeCorrect, PTL DEF Spec

-----------------------------------------------------------------------------
(***************************************************************************)
(* Commands                                                                *)
(***************************************************************************)
\* When a slot is free there is a first one.
LEMMA LeastSlot ==
  ASSUME Free # {}
  PROVE  \E s \in Free : \A r \in Free : s <= r
<1> DEFINE Less == OpToRel(<, Nat)
<1>1. IsWellFoundedOn(Less, Nat)
  BY NatLessThanWellFounded
<1>2. Free \subseteq Nat
  BY BoundsAssumption DEF Free, Slot
<1>3. \A x, y \in Nat : <<y, x>> \in Less <=> y < x
  BY DEF OpToRel
<1> HIDE DEF Less
<1>4. PICK s \in Free : \A r \in Free : ~ (<<r, s>> \in Less)
  BY <1>1, <1>2, WFMin
<1>5. s \in Nat
  BY <1>2, <1>4
<1>6. ASSUME NEW r \in Free PROVE s <= r
  <2>1. r \in Nat /\ ~ (<<r, s>> \in Less)
    BY <1>2, <1>4, <1>6
  <2>2. ~ (r < s)
    BY <1>3, <1>5, <2>1
  <2>. QED
    BY <1>5, <2>1, <2>2
<1>. QED
  BY <1>4, <1>6

\* A command that starts without pending mark is under way, and is the only one
\* unless its own mark, or one before, was lost.
LEMMA StartAlone ==
  ASSUME TypeOK, OneCommandAtATime, NEW call \in Call, NEW kept \in BOOLEAN, ~pending,
         Start(call, kept)
  PROVE  OneCommandAtATime'
<1>1. Running(call) # None
  BY EmptyOrder, NoneAssumption DEF Running, Command
<1>2. PICK s \in Slot : commands' = [commands EXCEPT ![s] = Running(call)]
  <2> DEFINE first == CHOOSE s \in Free : \A r \in Free : s <= r
  <2>1. first \in Free
    BY LeastSlot DEF Start
  <2>2. first \in Slot
    BY <2>1 DEF Free
  <2>. QED
    BY <2>2 DEF Start
<1>3. commands'[s] # None
  BY <1>1, <1>2 DEF TypeOK
<1>4. ASSUME ~lost'
      PROVE  pending' /\ \A r \in Slot : commands'[r] # None => r = s
  <2>1. ~lost /\ kept /\ pending'
    BY <1>4 DEF Start, TypeOK
  <2>2. \A r \in Slot : commands[r] = None
    BY <2>1 DEF OneCommandAtATime
  <2>. QED
    BY <1>2, <2>1, <2>2 DEF TypeOK
<1>. QED
  BY <1>3, <1>4 DEF OneCommandAtATime

\* A step that neither starts nor ends a command.
LEMMA BusyKept ==
  ASSUME OneCommandAtATime, UNCHANGED <<pending, lost>>,
         \A s \in Slot : commands'[s] # None <=> commands[s] # None
  PROVE  OneCommandAtATime'
BY DEF OneCommandAtATime

\* A command that ends leaves no mark, and was the only one if none was lost.
LEMMA EndsAlone ==
  ASSUME TypeOK, OneCommandAtATime, NEW s \in Slot, NEW at, Ends(s, at)
  PROVE  OneCommandAtATime'
<1>1. commands[s] # None /\ ~pending' /\ commands' = [commands EXCEPT ![s] = None] /\ lost' = lost
  BY DEF Ends
<1>2. ~lost => \A r \in Slot : commands[r] # None => r = s
  BY <1>1 DEF OneCommandAtATime
<1>3. ~lost => \A r \in Slot : commands'[r] = None
  BY <1>1, <1>2 DEF TypeOK
<1>. QED
  BY <1>1, <1>3 DEF OneCommandAtATime

\* The pending mark is never set without a command that will clear it; and it is
\* set as long as one is under way, so that there is never a second, until a mark
\* is set in a model that is not returned (actions.go:212, 217, 219).
THEOREM OneCommand == Spec => []OneCommandAtATime
<1>1. Init => OneCommandAtATime
  BY DEF Init, OneCommandAtATime
<1>2. TypeOK /\ OneCommandAtATime /\ [Next]_vars => OneCommandAtATime'
  <2> SUFFICES ASSUME TypeOK, OneCommandAtATime, [Next]_vars PROVE OneCommandAtATime'
    OBVIOUS
  <2>1. ASSUME UNCHANGED <<pending, lost, commands>> PROVE OneCommandAtATime'
    BY <2>1 DEF OneCommandAtATime
  <2>2. CASE ListKey
    <3>1. ASSUME NEW id \in ID, Select(id) PROVE OneCommandAtATime'
      BY <2>1, <3>1 DEF Select
    <3>2. CASE Toggle
      <4>1. Calls("option", None) \in Call
        BY DEF Calls, Call
      <4>. QED
        BY <3>2, <4>1, StartAlone DEF Toggle
    <3>3. CASE SetSelectedFilePriority
      <4>1. Calls("priority", details) \in Call
        BY <3>3 DEF Calls, Call, Kind, TypeOK, SetSelectedFilePriority
      <4>. QED
        BY <3>3, <4>1, StartAlone DEF SetSelectedFilePriority
    <3>4. ASSUME NEW offset \in Offset, MoveSelected(offset) PROVE OneCommandAtATime'
      <4>1. [Calls("move", selected) EXCEPT !.offset = offset] \in Call
        BY <3>4 DEF Calls, Call, Kind, Offset, TypeOK, MoveSelected
      <4>. QED
        BY <3>4, <4>1, StartAlone DEF MoveSelected
    <3>5. CASE OpenActions \/ OpenRemove \/ OpenAdd
      BY <2>1, <3>5 DEF OpenActions, OpenRemove, OpenAdd, Opens
    <3>. QED
      BY <2>2, <3>1, <3>2, <3>3, <3>4, <3>5 DEF ListKey
  <2>3. CASE DialogKey
    <3>1. CASE Leave \/ ChooseRemove
      BY <2>1, <3>1 DEF Leave, ChooseRemove
    <3>2. CASE ChooseAction
      <4>1. Calls("option", None) \in Call
        BY DEF Calls, Call
      <4>. QED
        BY <2>1, <3>2, <4>1, StartAlone DEF ChooseAction
    <3>3. CASE Confirm
      <4>1. Index(list, selected) # 0 => Calls("remove", selected) \in Call
        BY IndexFacts, OrderFacts DEF TypeOK, Calls, Call, Kind
      <4>. QED
        BY <2>1, <3>3, <4>1, StartAlone DEF Confirm
    <3>. QED
      BY <2>3, <3>1, <3>2, <3>3 DEF DialogKey
  <2>4. CASE FormKey
    <3>1. CASE SubmitForm
      <4>1. \A id \in ID : Calls("add", id) \in Call
        BY DEF Calls, Call, Kind
      <4>. QED
        BY <2>1, <3>1, <4>1, StartAlone DEF SubmitForm
    <3>2. CASE ~SubmitForm
      BY <2>1, <2>4, <3>2 DEF FormKey, ControlC, Escape, MoveField, NextField, EditSource, formOnly
    <3>. QED
      BY <3>1, <3>2
  <2>5. CASE Result
    <3>1. ASSUME NEW s \in Slot, CommandFailed(s) \/ CommandDone(s) PROVE OneCommandAtATime'
      BY <3>1, EndsAlone DEF CommandFailed, CommandDone
    <3>2. ASSUME NEW order \in lists, ListArrives(order) PROVE OneCommandAtATime'
      BY <2>1, <3>2 DEF ListArrives
    <3>3. ASSUME NEW id \in fetching, DetailsArrive(id) \/ DetailsFail(id)
          PROVE  OneCommandAtATime'
      BY <2>1, <3>3 DEF DetailsArrive, DetailsFail
    <3>4. ASSUME NEW text \in previews, PreviewArrives(text) PROVE OneCommandAtATime'
      BY <2>1, <3>4 DEF PreviewArrives, formOnly
    <3>. QED
      BY <2>5, <3>1, <3>2, <3>3, <3>4 DEF Result
  <2>6. CASE Server
    <3>1. ASSUME NEW s \in Slot, Perform(s) \/ Refuse(s) \/ TimeOut(s) PROVE OneCommandAtATime'
      <4>1. PICK command \in Command : commands' = [commands EXCEPT ![s] = command]
        BY <3>1, SentFacts
      <4>2. commands[s] # None /\ command # None
        BY <3>1, SentFacts, NoneAssumption
      <4>3. UNCHANGED <<pending, lost>>
        BY <3>1 DEF Perform, Refuse, TimeOut, shown
      <4>. QED
        BY <4>1, <4>2, <4>3, BusyKept DEF TypeOK
    <3>2. CASE Refresh \/ \E call \in late : PerformLate(call)
      BY <2>1, <3>2 DEF Refresh, PerformLate, shown
    <3>. QED
      BY <2>6, <3>1, <3>2 DEF Server
  <2>7. CASE OtherClient \/ FallQuiet \/ UNCHANGED vars
    BY <2>1, <2>7 DEF OtherClient, FallQuiet, vars, shown
  <2>. QED
    BY <2>2, <2>3, <2>4, <2>5, <2>6, <2>7 DEF Next
<1>. QED
  BY <1>1, <1>2, TypeCorrect, PTL DEF Spec

-----------------------------------------------------------------------------
(***************************************************************************)
(* The add dialog                                                          *)
(***************************************************************************)
\* A preview is of the source in the field, also when previews of what was
\* there before, or in an earlier dialog, arrive late (update.go:96).
THEOREM PreviewOfSource == Spec => []PreviewIsOfSource
<1>1. Init => PreviewIsOfSource
  BY DEF Init, PreviewIsOfSource, Closed
<1>2. TypeOK /\ PreviewIsOfSource /\ [Next]_vars => PreviewIsOfSource'
  <2> SUFFICES ASSUME TypeOK, PreviewIsOfSource, [Next]_vars PROVE PreviewIsOfSource'
    OBVIOUS
  <2>1. ASSUME UNCHANGED dialog PROVE PreviewIsOfSource'
    BY <2>1 DEF PreviewIsOfSource
  <2>2. ASSUME dialog'.kind # "add" PROVE PreviewIsOfSource'
    BY <2>2 DEF PreviewIsOfSource
  <2>3. Closed.kind # "add" /\ Asking.kind # "add" /\ [kind |-> "actions"].kind # "add"
    BY DEF Closed, Asking
  <2>4. ASSUME dialog'.preview = Empty PROVE PreviewIsOfSource'
    BY <2>4 DEF PreviewIsOfSource
  <2>5. Form.preview = Empty
    BY DEF Form
  <2>6. dialog.kind = "add" => dialog \in AddDialog
    BY DialogFacts DEF TypeOK
  <2>7. ASSUME dialog.kind = "add", NEW field, dialog' = [dialog EXCEPT !.field = field]
        PROVE  PreviewIsOfSource'
    BY <2>6, <2>7 DEF PreviewIsOfSource, AddDialog
  <2>8. CASE ListKey
    BY <2>1, <2>2, <2>3, <2>4, <2>5, <2>8
    DEF ListKey, Select, Toggle, SetSelectedFilePriority, MoveSelected, OpenActions,
        OpenRemove, OpenAdd, Opens
  <2>9. CASE DialogKey
    BY <2>2, <2>3, <2>9 DEF DialogKey, Leave, ChooseAction, ChooseRemove, Confirm, CloseDialog
  <2>10. CASE FormKey
    <3>1. CASE ControlC
      <4>1. dialog.kind = "add" =>
              [dialog EXCEPT !.input = Empty, !.preview = Empty].preview = Empty
        BY <2>6 DEF AddDialog
      <4>. QED
        BY <2>1, <2>2, <2>3, <2>4, <3>1, <4>1 DEF ControlC, Adding
    <3>2. CASE Escape
      BY <2>2, <2>3, <3>2 DEF Escape, CloseDialog
    <3>3. ASSUME NEW text \in Text, EditSource(text) PROVE PreviewIsOfSource'
      <4>1. dialog'.preview = Empty
        BY <2>6, <3>3 DEF EditSource, Adding, AddDialog
      <4>. QED
        BY <2>4, <4>1
    <3>4. CASE (\E delta \in {1, AddSubmit} : MoveField(delta)) \/ NextField
      BY <2>7, <3>4 DEF MoveField, NextField, Adding
    <3>5. CASE SubmitForm
      BY <2>1, <2>7, <3>5 DEF SubmitForm, Adding
    <3>. QED
      BY <2>10, <3>1, <3>2, <3>3, <3>4, <3>5 DEF FormKey
  <2>11. CASE Result
    <3>1. ASSUME NEW s \in Slot, CommandFailed(s) \/ CommandDone(s) PROVE PreviewIsOfSource'
      <4>1. UNCHANGED dialog \/ dialog' = Closed
        <5>1. CASE CommandFailed(s)
          BY <5>1 DEF CommandFailed
        <5>2. CASE CommandDone(s)
          <6>1. commands[s] \in Command
            BY <5>2 DEF CommandDone, Ends, TypeOK
          <6>2. commands[s].call.kind \in Kind
            BY <6>1 DEF Command, Call, Kind
          <6>. QED
            BY <5>2, <6>2 DEF CommandDone, CloseDialog, Kind
        <5>. QED
          BY <3>1, <5>1, <5>2
      <4>. QED
        BY <2>1, <2>2, <2>3, <4>1
    <3>2. ASSUME NEW order \in lists, ListArrives(order) PROVE PreviewIsOfSource'
      BY <2>1, <3>2 DEF ListArrives
    <3>3. ASSUME NEW id \in fetching, DetailsArrive(id) \/ DetailsFail(id)
          PROVE  PreviewIsOfSource'
      BY <2>1, <3>3 DEF DetailsArrive, DetailsFail
    <3>4. ASSUME NEW text \in previews, PreviewArrives(text) PROVE PreviewIsOfSource'
      <4>1. CASE dialog.kind = "add" /\ Trim[dialog.input] = text
        <5>1. dialog' = [dialog EXCEPT !.preview = text]
          BY <3>4, <4>1 DEF PreviewArrives
        <5>. QED
          BY <2>6, <4>1, <5>1 DEF PreviewIsOfSource, AddDialog
      <4>2. CASE ~(dialog.kind = "add" /\ Trim[dialog.input] = text)
        BY <2>1, <3>4, <4>2 DEF PreviewArrives
      <4>. QED
        BY <4>1, <4>2
    <3>. QED
      BY <2>11, <3>1, <3>2, <3>3, <3>4 DEF Result
  <2>12. CASE Server \/ OtherClient \/ FallQuiet \/ UNCHANGED vars
    BY <2>1, <2>12 DEF Server, Perform, Refuse, TimeOut, PerformLate, Refresh, OtherClient,
                       FallQuiet, vars, shown
  <2>. QED
    BY <2>8, <2>9, <2>10, <2>11, <2>12 DEF Next
<1>. QED
  BY <1>1, <1>2, TypeCorrect, PTL DEF Spec
=============================================================================
