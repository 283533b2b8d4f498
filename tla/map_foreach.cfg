SPECIFICATION MapSpec
CONSTANTS
  a = a
  b = b
  None = none
  Key <- Keys
  Hash <- Hashes
  Movable <- NoneMove
  NewHash <- NoHashes
  Capacity = 8
  First <- Filling
  MaxSeq = 3
  MaxGone = 2
PROPERTIES VisitsLiveEntries
