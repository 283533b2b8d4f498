SPECIFICATION Spec
CONSTANTS
  Nursery = {n1, n2}
  OldGen = {o1, o2}
  Field = {f}
  Stack = {s1, s2}
  Global = {g}
  Registry = {r}
  Obj = {x, y, z}
  Null = null
  n1 = n1
  n2 = n2
  o1 = o1
  o2 = o2
  f = f
  s1 = s1
  s2 = s2
  g = g
  r = r
  x = x
  y = y
  z = z
  null = null
SYMMETRY Symmetry
INVARIANTS TypeOK NoDangling INV1 UniqueHome
PROPERTIES StackStable ImplementsGraph
