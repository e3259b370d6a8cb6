\* One file is enough: a derived manifest, a moved base, and the overlay of
\* the base.
SPECIFICATION IndexSpec
CONSTANTS
  Paths = {p}
  Contents = {a, b}
  Absent = Absent
  None = None
  Thresholds = {1, 2}
  MaxChanges = 2
  MaxCommits = 3
  MaxDepth = 1
PROPERTIES
  PicksUpTheBase
CHECK_DEADLOCK FALSE
