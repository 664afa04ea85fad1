\* One session that boots up to three times, the second time a container docker
\* refuses to remove (fewer of these than the cap), and a restart of the server.
CONSTANTS
  Inst = {i1}
  MaxBoots = 3
  MaxOrphans = 2
  MaxGhosts = 1
  MaxRestarts = 1
  Stuck = {2}
  Events = {"abandon"}
SPECIFICATION FairSpec
INVARIANTS
  NamesAreFree
  GhostsHadVanished
PROPERTIES
  SweepSparesOwned
  OrphansGo
  GhostsGo
