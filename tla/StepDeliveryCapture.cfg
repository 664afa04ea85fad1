\* What the retry rules take for granted, against what the env raises.
CONSTANTS
  MaxSteps = 2
  BatchLen = 2
  ClientAttempts = 2
  RouterTries = 2
  ServerAttempts = 2
  MaxReq = 3
SPECIFICATION Spec
INVARIANT
  AppliedOnce
\* The episode ends.
CHECK_DEADLOCK FALSE
