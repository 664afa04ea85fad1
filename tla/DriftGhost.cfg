\* A container that is still booting when the cycle asks docker what runs.
CONSTANTS
  Inst = {i1}
  MaxBoots = 1
  MaxOrphans = 1
  MaxGhosts = 1
  MaxRestarts = 0
  Stuck = {}
  Events = {}
SPECIFICATION Spec
PROPERTY PoppedGhostsAreGone
