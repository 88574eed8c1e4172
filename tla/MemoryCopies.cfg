SPECIFICATION Spec
CONSTANTS
  Threads = {t1, t2}
  NoThread = NoThread
  Memories = {m1, m2}
  Cells = {c1, c2}
  Values = {v1, v2}
SYMMETRY Symmetric
INVARIANTS
  TypeOK
  MappedWhileCopied
  MappingsPaired
  CopiesAreExact
PROPERTIES
  ImplementsCellCopies
