SPECIFICATION MovingSpec
CONSTANTS
  a = a
  b = b
  c = c
  d = d
  e = e
  f = f
  g = g
  h = h
  None = none
  Key <- Keys
  Hash <- Hashes
  Movable <- Moves
  NewHash <- NewHashes
  Capacity = 8
  First <- Filling
  MaxSeq = 3
  MaxGone = 1
INVARIANTS MembershipSurvives
