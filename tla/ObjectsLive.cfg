SPECIFICATION FairSpec
CONSTANTS
  Threads = {t1, t2}
  NoThread = NoThread
  Natives = {n1, n2, n3}
  NoNative = NoNative
  Limit <- LiveLimit
  UnboundedWaits = TRUE
CHECK_DEADLOCK FALSE
PROPERTIES
  LockReleased
  CallsReturn
