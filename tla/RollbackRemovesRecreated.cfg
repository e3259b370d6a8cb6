\* A file deleted and created again inside a transaction is gone after ROLLBACK.
SPECIFICATION QuietSpec
CONSTANTS
  Paths = {p}
  FileContents = {a, b}
  Absent = Absent
  CkFile = CkFile
  MaxCommits = 5
  MaxNesting = 2
SYMMETRY FileSymmetry
INVARIANT RemovesNothingElse
CHECK_DEADLOCK FALSE
