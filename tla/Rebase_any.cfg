CONSTANTS
  a = a
  b = b
  c = c
  g = g
  h = h
  short = short
  NoParent = NoParent
  NoImage = NoImage
  Shared = {b}
  Ids <- Three
  Names <- ThreeNames
  Denotes <- ThreeDenote
  MaxHistory = 4
  Parentages <- AnyParentage

SPECIFICATION Spec

INVARIANTS
  TypeOK
  IInv
  IndexInRange
  NameMeansItsImage
  LayersFromArchive
  WalkEnds

PROPERTY EveryStepCounts

\* A run stops when it is done or has failed.
CHECK_DEADLOCK FALSE
