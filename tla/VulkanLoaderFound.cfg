SPECIFICATION Spec
CONSTANTS
  Candidates = 2
  Libraries <- MCLibraries
  ChildLimit = 1
PROPERTIES
  HostLoaderIsFound
