SPECIFICATION Spec
CONSTANTS
  Threads = {t1}
  NoThread = NoThread
  Root = Root
  i1 = i1
  g1 = g1
  g2 = g2
  g3 = g3
  d1 = d1
  p1 = p1
  b1 = b1
  Objects <- ListHandles
  Kind <- KindOfList
  MaxFound = 2
SYMMETRY SymmetricLists
INVARIANTS
  CountIsTotal
