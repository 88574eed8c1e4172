SPECIFICATION Spec
CONSTANTS
  Candidates = 2
  Libraries <- MCLibraries
  ChildLimit = 2
INVARIANTS
  TypeOK
  CallsReachTheLibrary
  DeadOnlyIfShrunk
  LeaksNeedGap
  OrphansNeedGap
PROPERTIES
  LoadedOnce
