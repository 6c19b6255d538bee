SPECIFICATION FairSpec
CONSTANTS
  a = a
  b = b
  None = None
  ID <- MCID
  Started <- MCStarted
  Text <- MCText
  Empty = ""
  Trim <- MCTrim
  Users <- MCUsers
  Slots = 2
  MaxAway = 2
INVARIANTS
  TypeOK
  SelectionIsListed
  OneCommandAtATime
  PreviewIsOfSource
PROPERTIES
  CatchesUp
