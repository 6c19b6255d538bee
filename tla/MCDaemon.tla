------------------------------ MODULE MCDaemon ------------------------------
(* Small instances of Daemon. Each run sends the requests whose interplay  *)
(* it is about.                                                            *)
EXTENDS DaemonProperties, TLC

CONSTANTS a, b  \* torrents

TwoTorrents == {a, b}
OneTorrent == {a}

\* One file with two priorities: the normal one and one of its own.
OneFile == {0}
TwoPriorities == {"normal", "high"}

\* Adding, pausing, resuming, checking and removing torrents.
ControlRequests == [method : {"add"}, id : TorrentID, paused : BOOLEAN, sequential : {FALSE}]
                     \cup TorrentRequest

\* The same with a list that is reordered.
SaveRequests == ControlRequests \cup MoveRequest

\* Options of torrents that come and go, pause and are checked.
OptionRequests == AddRequest \cup TorrentRequest \cup SequentialRequest \cup PriorityRequest

\* Options of a torrent that runs.
PriorityRequests == [method : {"add"}, id : TorrentID, paused : {FALSE}, sequential : {FALSE}]
                      \cup PriorityRequest

\* One handler is enough to meet a daemon that stops.
StopRequests == [method : {"add"}, id : TorrentID, paused : {FALSE}, sequential : {FALSE}]
                  \cup [method : {"pause"}, id : TorrentID]

Symmetry == Permutations(TorrentID)
=============================================================================
