CONSTANTS
  a = a
  b = b
  c = c
  g = g
  h = h
  short = short
  NoParent = NoParent
  NoImage = NoImage
  Shared = {}
  Ids <- Five
  Names <- Five
  Denotes <- FiveDenote
  Parentages <- Chain
  MaxHistory = 6

SPECIFICATION FairSpec

INVARIANTS
  AppliedIsStretch
  NoneLeftOut
  BaseNotRepeated

PROPERTIES
  KeepsPromise
  RunEnds

\* A run stops when it is done or has failed.
CHECK_DEADLOCK FALSE
