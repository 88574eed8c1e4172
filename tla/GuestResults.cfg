SPECIFICATION Spec
CONSTANTS
  Threads = {t1, t2}
  NoThread = NoThread
  Root = Root
  i1 = i1
  g1 = g1
  g2 = g2
  g3 = g3
  d1 = d1
  p1 = p1
  b1 = b1
  Objects <- TreeHandles
  Kind <- KindOfTree
  MaxFound = 2
SYMMETRY SymmetricTree
INVARIANTS
  TypeOK
  RollbackComplete
  AnswersAgree
PROPERTIES
  ToldIsRegistered
  ImplementsLifetimes
