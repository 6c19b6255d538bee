SPECIFICATION FairSpec
CONSTANTS
  a = a
  b = b
  TorrentID <- OneTorrent
  File <- OneFile
  Priority <- TwoPriorities
  NormalPriority = "normal"
  Requests <- StopRequests
  MaxActiveDownloads = 1
  MaxActiveSeeds = 1
  MetadataAtAdd = {TRUE}
  Faults = {"cancel"}
PROPERTY StopsWhenTold
CHECK_DEADLOCK FALSE
