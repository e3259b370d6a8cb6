\* Two sessions that share the job pool, or one session with two gated steps
\* and transactions: every order of edits, rollbacks, jobs, polls and commits.
\* And every crash point of three nested transactions on one file.
SPECIFICATION ScopedSpec
CONSTANTS
  Sessions = {s1, s2}
  Steps = {g1, g2, run}
  Gates = {g1, g2}
  Contents = {a, b}
  NoTree = NoTree
  MaxJobs = 2
  MaxConcurrent = 2
  MaxSeq = 2
  MaxDepth = 1
  Paths = {f}
  FileContents = {a, b}
  Absent = Absent
  CkFile = CkFile
  MaxCommits = 4
  MaxNesting = 3
SYMMETRY Symmetry
INVARIANTS
  GateSound
  PassNotLost
  RestartTransparent
  RestoresUntouchedPaths
  RemovesCreatedPaths
PROPERTIES
  CommitsValidated
  NoStaleOpening
  HistoryClean
CHECK_DEADLOCK FALSE
