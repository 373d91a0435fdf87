CONSTANTS
  Whole = 3
  Extra = 1

SPECIFICATION Spec

INVARIANT OutputIsWhole

\* The process ends.
CHECK_DEADLOCK FALSE
