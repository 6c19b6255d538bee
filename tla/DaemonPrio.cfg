SPECIFICATION Spec
CONSTANTS
  a = a
  b = b
  TorrentID <- OneTorrent
  File <- OneFile
  Priority <- TwoPriorities
  NormalPriority = "normal"
  Requests <- PriorityRequests
  MaxActiveDownloads = 1
  MaxActiveSeeds = 1
  MetadataAtAdd = {TRUE}
  Faults = {"savepriority"}
INVARIANT PrioritiesAgree
