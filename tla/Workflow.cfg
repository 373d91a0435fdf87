CONSTANTS
  Whole = 3
  Extra = 1

SPECIFICATION FairSpec

INVARIANTS
  TypeOK
  IInv
  NoStageEndsEarly
  HeadersReachFile
  BuildIsNamed
  OutputMeansEndedInput
  NoDeadlock

PROPERTIES
  ProcessEnds
  EveryProcessStepCounts
  ProcessKeepsPromise

\* The process ends.
CHECK_DEADLOCK FALSE
