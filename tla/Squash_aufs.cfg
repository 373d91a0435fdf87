CONSTANTS
  d = d
  x = x
  y = y
  e = e
  m = m
  dir = dir
  bare = bare
  f1 = f1
  f2 = f2
  Absent = Absent
  Paths <- DeepPaths
  Beneath <- DeepBeneath
  Entries <- MCEntries
  Dirs <- MCDirs
  AufsMeta = {m}
  Bare = dir
  Shapes = {"retype"}
  NumLayers = 4

SPECIFICATION RepackSpec

SYMMETRY Versions

INVARIANTS
  RepackTypeOK
  IInv
  NothingLost
  WhiteoutsAreGone
  NothingLeaks
  OnlyBaseContentReturns
  DeletionsKept
  ParentsListed
  MetadataIsKept
  
  
  

\* A run stops when the layer is saved, or Apply or Save fails.
CHECK_DEADLOCK FALSE
