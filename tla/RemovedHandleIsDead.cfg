\* A committed file of two functions alike: the handle of the one that was
\* deleted resolves to the other.
SPECIFICATION HandlesSpec
CONSTANTS
  Names = {f}
  Guards = {u}
  Texts = {x}
  NoSegment = NoSegment
  MaxLines = 2
  MaxSweep = 1
  MaxEdits = 1
INVARIANT RemovedHandleIsDead
CHECK_DEADLOCK FALSE
