SPECIFICATION FairSpec
CONSTANTS
  a = a
  b = b
  TorrentID <- TwoTorrents
  File <- OneFile
  Priority <- TwoPriorities
  NormalPriority = "normal"
  Requests <- ControlRequests
  MaxActiveDownloads = 1
  MaxActiveSeeds = 1
  MetadataAtAdd = {TRUE}
  Faults = {"io", "source", "cancel", "crash"}
INVARIANT PausedStaysPaused
PROPERTIES Settles StopsUnlessItWaitsForActor
