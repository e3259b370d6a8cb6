\* ROLLBACK of an outer transaction leaves what an inner one created.
SPECIFICATION QuietSpec
CONSTANTS
  Paths = {p}
  FileContents = {a, b}
  Absent = Absent
  CkFile = CkFile
  MaxCommits = 5
  MaxNesting = 2
SYMMETRY FileSymmetry
PROPERTY RemovesInnerCreations
CHECK_DEADLOCK FALSE
