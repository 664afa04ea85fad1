\* Cancellations that hit a coroutine whose thread is inside acquire().
CONSTANTS
  ThreadBoot = {t1, t2}
  AsyncBoot = {a1, a2}
  Capacity = 1
  CancelPoints = {"acquiring"}
SPECIFICATION Spec
INVARIANT NoSlotLost
CHECK_DEADLOCK FALSE
