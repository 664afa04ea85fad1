\* The ping of start() and two calls, with a respawn or two each.
CONSTANTS
  MaxCalls = 2
  MaxGens = 3
SPECIFICATION FairSpec
INVARIANTS
  OncePerCall
  AnsweredIsDone
  ClosedLeavesNothing
PROPERTIES
  ImplementsSerialCalls
  CallsEnd
\* The session ends.
CHECK_DEADLOCK FALSE
