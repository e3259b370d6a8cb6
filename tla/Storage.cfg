\* Two processes, started at most four times, on one worktree; two callers, two
\* keys and three gates; two attachers, in one process or in two, two segments
\* and one fault.
SPECIFICATION StorageSpec
CONSTANTS
  Procs = {p1, p2}
  Nobody = Nobody
  MaxStarts = 4
  Callers = {t1, t2}
  Keys = {k1, k2}
  GateIds = {m1, m2, m3}
  ValueIds = {v1, v2}
  Nil = Nil
  Attachers = {a1, a2}
  Segs = {x, y}
  Unlocked = Unlocked
  MaxFaults = 1
INVARIANTS
  SweepAlone
  SessionsKeepWorktree
  BranchGoesWithWorktree
  ServesWhole
  DecodesOnce
  NoGateLeft
  NeverSmaller
  BuildsOnce
PROPERTIES
  ResumesWholeCheckout
  UseGetsClaim
  CallReturns
  KeepsReadable
  RefusesForCause
  AttachEnds
CHECK_DEADLOCK FALSE
