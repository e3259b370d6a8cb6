\* COMMIT after ROLLBACK of an inner transaction is put on a checkpoint commit.
SPECIFICATION QuietSpec
CONSTANTS
  Paths = {p}
  FileContents = {a, b}
  Absent = Absent
  CkFile = CkFile
  MaxCommits = 5
  MaxNesting = 2
SYMMETRY FileSymmetry
PROPERTY UserCommitsOnUserCommits
CHECK_DEADLOCK FALSE
