\* Two processes: a start-up sweep judges by a sentinel it read before it had
\* the lock.
SPECIFICATION Spec
CONSTANTS
  Procs = {p1, p2}
  Nobody = Nobody
  MaxStarts = 2
PROPERTY WorkKeptForTTL
CHECK_DEADLOCK FALSE
