SPECIFICATION Spec
CONSTANTS
  Threads = {t1, t2}
  NoThread = NoThread
  Natives = {n1, n2, n3, n4}
  NoNative = NoNative
  Limit <- ThreadsLimit
  UnboundedWaits = TRUE
SYMMETRY SymmetricAll
CHECK_DEADLOCK FALSE
INVARIANTS
  TeardownCurrent
  ParentsOutliveChildren
  ExactlyOneOwner
  LockedCallsAreSafe
PROPERTIES
  HandlesFinal
