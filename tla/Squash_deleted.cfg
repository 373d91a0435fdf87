CONSTANTS
  d = d
  x = x
  y = y
  e = e
  m = m
  dir = dir
  f1 = f1
  f2 = f2
  Absent = Absent
  Paths <- FlatPaths
  Beneath <- FlatBeneath
  Entries <- MCEntries
  Dirs <- MCDirs
  AufsMeta = {}
  Shapes = {}
  NumLayers = 3

SPECIFICATION Spec

INVARIANTS
  DeletedStaysDeleted

\* Rebase stops applying when the archives are read or Apply fails.
CHECK_DEADLOCK FALSE
