\* Two indexed files, one there at first; two changes of files or of the index
\* generation, one transaction and two commits over the first; a manifest is
\* compacted when it names both files.  And two edits, one of them BEGIN or
\* not, of a file of at most two constructs, then three.  And queries over two
\* files of at most three rows, with budgets small enough to be passed.
SPECIFICATION SessionSpec
CONSTANTS
  Paths = {p, q}
  Contents = {a, b}
  Absent = Absent
  None = None
  Thresholds = {2}
  MaxChanges = 2
  MaxCommits = 3
  MaxDepth = 1
  Names = {p, q}
  Guards = {u, v}
  Texts = {a, b}
  NoSegment = NoSegment
  MaxStart = 2
  MaxLines = 3
  MaxSweep = 2
  MaxEdits = 2
  Corpora <- MCCorpora
  Queries <- MCQueries
  Default = 1
  Applicable = {1}
  PostingBudget = 1
  OverlayBudget = 1
  OverFetch = 2
  TopKThreshold = 1
  MaxRowIds = 5
  MaxViews = 4
  MaxRows = 3
INVARIANTS
  SessionExact
  StampsVouch
  DeltaRestores
  ArtefactsExact
  HandlesSound
  PageExact
  GroupsExact
  TotalExact
PROPERTIES
  KeepsHandles
  UndoRestores
SYMMETRY SessionSymmetry
CHECK_DEADLOCK FALSE
