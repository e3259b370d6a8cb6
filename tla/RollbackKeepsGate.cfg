\* ROLLBACK leaves a passed gate satisfied on another tree.
SPECIFICATION Spec
CONSTANTS
  Sessions = {s1}
  Steps = {g1}
  Gates = {g1}
  Contents = {a, b}
  NoTree = NoTree
  MaxJobs = 1
  MaxConcurrent = 1
  MaxSeq = 1
  MaxDepth = 1
INVARIANT RollbackClosesGate
CHECK_DEADLOCK FALSE
