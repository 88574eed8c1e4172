SPECIFICATION Spec
CONSTANTS
  MaxCount = 2
INVARIANTS
  TypeOK
  ReadsFit
  DriverGetsWhatItCounts
