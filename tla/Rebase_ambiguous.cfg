CONSTANTS
  a = a
  b = b
  c = c
  g = g
  h = h
  short = short
  NoParent = NoParent
  NoImage = NoImage
  Shared = {}
  Ids <- Three
  Names <- ThreeNames
  Denotes <- ThreeDenote
  MaxHistory = 4
  Parentages <- Forests

SPECIFICATION Spec

INVARIANT AmbiguityIsRefused

\* A run stops when it is done or has failed.
CHECK_DEADLOCK FALSE
