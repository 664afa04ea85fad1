\* Three requests: two sends of the reset and a step, or one and two steps of two
\* actions each.  Every hop may fail before, during and after each of them.
CONSTANTS
  MaxSteps = 2
  BatchLen = 2
  ClientAttempts = 2
  RouterTries = 2
  ServerAttempts = 2
  MaxReq = 3
SPECIFICATION FairSpec
INVARIANTS
  StepsServedOnce
  AppliedInOrder
  AnswersTellWhatRan
PROPERTIES
  EpisodeKeepsItsEnv
  ImplementsEpisode
  CallsReturn
\* The episode ends.
CHECK_DEADLOCK FALSE
