SPECIFICATION Spec
CONSTANTS
  Threads = {t1, t2}
  Word = 4
  LimitWithinLength = TRUE
SYMMETRY Symmetric
INVARIANTS
  TypeOK
  DirectInBounds
PROPERTIES
  AtomicAccess
