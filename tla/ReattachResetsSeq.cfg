\* A job of the previous session object opens the gate of the new one.
SPECIFICATION Spec
CONSTANTS
  Sessions = {s1}
  Steps = {g1}
  Gates = {g1}
  Contents = {a, b}
  NoTree = NoTree
  MaxJobs = 1
  MaxConcurrent = 1
  MaxSeq = 1
  MaxDepth = 1
INVARIANT OldJobsOpenNoGate
CHECK_DEADLOCK FALSE
