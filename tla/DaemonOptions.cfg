SPECIFICATION Spec
CONSTANTS
  a = a
  b = b
  TorrentID <- OneTorrent
  File <- OneFile
  Priority <- TwoPriorities
  NormalPriority = "normal"
  Requests <- OptionRequests
  MaxActiveDownloads = 1
  MaxActiveSeeds = 1
  MetadataAtAdd = {TRUE, FALSE}
  Faults = {"save", "source", "io", "close", "cancel", "crash"}
INVARIANTS TypeOK NoOrphans SequentialAgrees PrioritiesAgree
