\* Cancellations at every await but the one for the thread inside acquire().
CONSTANTS
  ThreadBoot = {t1, t2}
  AsyncBoot = {a1, a2}
  Capacity = 1
  CancelPoints = {"submitted", "delivered", "holding"}
SPECIFICATION FairSpec
INVARIANTS
  NoSlotLost
  PendingHonest
PROPERTY CallersAnswered
\* Every boot is over in the end.
CHECK_DEADLOCK FALSE
