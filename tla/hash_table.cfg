SPECIFICATION Spec
CONSTANTS
  a = a
  b = b
  c = c
  d = d
  e = e
  f = f
  g = g
  h = h
  None = none
  Key <- Keys
  Hash <- Hashes
  Movable <- NoneMove
  NewHash <- NoHashes
  Capacity = 8
  First <- Filling
  MaxSeq = 8
  MaxGone = 4
INVARIANTS TypeOK CountersExact EmptySlotRemains LookupExact
PROPERTIES ImplementsOrderedMap
