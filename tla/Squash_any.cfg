CONSTANTS
  d = d
  x = x
  y = y
  e = e
  m = m
  dir = dir
  bare = bare
  f1 = f1
  f2 = f2
  Absent = Absent
  Paths <- DeepPaths
  Beneath <- DeepBeneath
  Entries <- AllEntries
  Dirs <- AllDirs
  AufsMeta = {m}
  Bare = bare
  Shapes = {"implicit", "retype"}
  NumLayers = 3

SPECIFICATION RepackSpec

SYMMETRY Versions

INVARIANTS
  NothingLost
  WhiteoutsAreGone
  
  

\* A run stops when the layer is saved, or Apply or Save fails.
CHECK_DEADLOCK FALSE
