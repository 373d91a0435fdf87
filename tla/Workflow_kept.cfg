CONSTANTS
  Whole = 3
  Extra = 1

SPECIFICATION Spec

INVARIANT NothingIsKept

\* The process ends.
CHECK_DEADLOCK FALSE
