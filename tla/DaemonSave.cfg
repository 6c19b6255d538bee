SPECIFICATION Spec
CONSTANTS
  a = a
  b = b
  TorrentID <- TwoTorrents
  File <- OneFile
  Priority <- TwoPriorities
  NormalPriority = "normal"
  Requests <- SaveRequests
  MaxActiveDownloads = 1
  MaxActiveSeeds = 1
  MetadataAtAdd = {TRUE}
  Faults = {"save", "io", "source", "crash", "cancel", "listener", "drift"}
SYMMETRY Symmetry
INVARIANTS SessionsValid ScheduleCacheRight AnswersAreDurable OrdersAgree PassRespectsLimits
PROPERTY ImplementsTorrentList
