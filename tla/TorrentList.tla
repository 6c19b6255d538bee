---------------------------- MODULE TorrentList ----------------------------
(***************************************************************************)
(* What the daemon promises its clients: an ordered list of torrents, with *)
(* what they asked of each. Only requests change it: one at a time, each   *)
(* in one step or not at all, and each only as it says. A request that is  *)
(* answered was carried out; one that is refused was not. Neither passes,  *)
(* restarts nor what happens to the torrents change what was asked.        *)
(*                                                                         *)
(* One promise has an exception: a removal that fails can be reported to   *)
(* have failed although the torrent is no longer listed.                   *)
(***************************************************************************)
EXTENDS Integers, SequencesExt

CONSTANTS TorrentID, Requests

VARIABLES order,    \* the listed torrents
          asked,    \* what clients asked of each torrent
          request,  \* the request that is handled
          carried,  \* it has been carried out
          told,     \* the state clients were last told to be asked of a torrent
          doubt     \* torrents whose removal was wrongly reported to have failed

listVars == <<order, asked, request, carried, told, doubt>>

NoRequest == [method |-> "none"]
Unlisted == [desired |-> "none", sequential |-> FALSE]
Listed(id) == asked[id] # Unlisted

ListInit == /\ order = <<>>
            /\ asked = [id \in TorrentID |-> Unlisted]
            /\ request = NoRequest /\ carried = FALSE
            /\ told = [id \in TorrentID |-> "none"]
            /\ doubt = {}

(***************************************************************************)
(* What requests do to the list                                            *)
(***************************************************************************)
\* A listed torrent keeps its place.
List(r) == /\ r.method = "add"
           /\ asked' = [asked EXCEPT ![r.id] =
                          [desired |-> IF r.paused THEN "paused" ELSE "downloading",
                           sequential |-> r.sequential]]
           /\ order' = IF Listed(r.id) THEN order ELSE Append(order, r.id)

Unlist(r) == /\ r.method = "remove" /\ Listed(r.id)
             /\ asked' = [asked EXCEPT ![r.id] = Unlisted]
             /\ order' = RemoveFirst(order, r.id)

SetDesired(r) ==
    /\ r.method \in {"pause", "resume"} /\ Listed(r.id)
    /\ asked' = [asked EXCEPT ![r.id].desired =
                   IF r.method = "pause" THEN "paused" ELSE "downloading"]
    /\ UNCHANGED order

SetSequential(r) == /\ r.method = "sequential" /\ Listed(r.id)
                    /\ asked' = [asked EXCEPT ![r.id].sequential = r.enabled]
                    /\ UNCHANGED order

\* The torrent changes places with a neighbour, if it has one on that side.
Move(r) ==
    /\ r.method = "move" /\ Listed(r.id)
    /\ \E i \in DOMAIN order :
         LET j == i + r.offset
         IN  /\ order[i] = r.id
             /\ order' = IF j \in DOMAIN order
                         THEN [order EXCEPT ![i] = order[j], ![j] = order[i]]
                         ELSE order
    /\ UNCHANGED asked

CarryOut(r) == List(r) \/ Unlist(r) \/ SetDesired(r) \/ SetSequential(r) \/ Move(r)

(***************************************************************************)
(* How requests are handled                                                *)
(***************************************************************************)
Begin(r) == /\ request = NoRequest /\ request' = r
            /\ \/ carried' = FALSE /\ UNCHANGED <<order, asked>>
               \/ carried' = TRUE /\ CarryOut(r)
            /\ UNCHANGED <<told, doubt>>

Perform == /\ ~carried /\ CarryOut(request)
           /\ carried' = TRUE
           /\ UNCHANGED <<request, told, doubt>>

\* Success is reported, and with it (except of a move) what is now asked.
Answer == /\ carried
          /\ told' = IF request.method = "move" THEN told
                     ELSE [told EXCEPT ![request.id] = asked[request.id].desired]
          /\ request' = NoRequest /\ carried' = FALSE
          /\ UNCHANGED <<order, asked, doubt>>

\* A failure is reported; or the request is about something else than the list.
Conclude == /\ request # NoRequest /\ ~carried
            /\ request' = NoRequest
            /\ UNCHANGED <<order, asked, carried, told, doubt>>

\* A failure is reported, wrongly.
Misreport == /\ request.method = "remove" /\ ~carried /\ CarryOut(request)
             /\ request' = NoRequest
             /\ doubt' = doubt \union {request.id}
             /\ UNCHANGED <<carried, told>>

\* The daemon stops or dies. The request under way may have been carried out;
\* clients look at the list again.
Restart == /\ \/ UNCHANGED <<order, asked>>
              \/ ~carried /\ CarryOut(request)
           /\ told' = [id \in TorrentID |->
                         IF id \in doubt \/ (request # NoRequest /\ request.id = id)
                         THEN asked'[id].desired ELSE told[id]]
           /\ request' = NoRequest /\ carried' = FALSE /\ doubt' = {}

ListNext == \/ \E r \in Requests : Begin(r)
            \/ Perform
            \/ Answer
            \/ Conclude
            \/ Misreport
            \/ Restart

ListSpec == ListInit /\ [][ListNext]_listVars
=============================================================================
