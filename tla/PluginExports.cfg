SPECIFICATION Spec
CONSTANTS
  Packed = TRUE
  Results = {"success", "error"}
INVARIANTS
  EveryImportLinks
  ArgumentsArrive
  ReadsStayInBlock
