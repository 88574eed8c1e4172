SPECIFICATION Spec
CONSTANTS
  Threads = {t1}
  NoThread = NoThread
  Natives = {n1, n2, n3, n4, n5}
  NoNative = NoNative
  Limit <- TreeLimit
  UnboundedWaits = FALSE
SYMMETRY SymmetricNatives
INVARIANTS
  TypeOK
  TablesClosed
  RecordsBacked
  SequentialCallsAreSafe
PROPERTIES
  ImplementsLifetimes
