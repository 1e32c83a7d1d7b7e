\* Up to three calls outstanding; chunks end between frames, inside a prefix,
\* after it, and inside a body.
SPECIFICATION LoopFairSpec
CONSTANTS
  MaxCalls = 4
  MaxOverlap = 3
  Garbage = {28, 37}
  Cuts = {0, 2, 4, 20}
INVARIANTS
  TypeOK
  OwnCode
  CodesInOrder
  AwaitedInStep
PROPERTIES
  EndSettlesAll
  AnsweredSettles
CHECK_DEADLOCK FALSE
