SPECIFICATION Spec
CONSTANTS
  Threads = {t1, t2}
  Tables <- MCTables
  NoTable = NoTable
  Contents <- MCContents
CHECK_DEADLOCK FALSE
INVARIANTS
  TypeOK
  OnlyReplacementFaults
  AnswersMatchTable
