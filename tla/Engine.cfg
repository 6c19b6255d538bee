SPECIFICATION FairSpec
CONSTANTS
  t1 = t1
  t2 = t2
  NoEntry = NoEntry
  Torrent <- MCTorrent
  Dir <- MCDir
  RealDirOf <- MCRealDirOf
  Name <- MCName
  PartOf <- MCPartOf
  Starts <- MCStarts
  MaxGen = 2
INVARIANTS
  TypeOK
  EntriesFollowTorrents
  OptionsReachLibrary
  BoostsAreAccountedFor
PROPERTIES
  RemovalSparesOthers
  LegacyDataIsKept
  SequentialGetsFirstPiece
