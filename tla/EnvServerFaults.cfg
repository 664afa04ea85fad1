\* A writer and a reader of one key: clients give up on their calls, and sweeps
\* come while a reset is still queued.
CONSTANTS
  w = w
  r = r
  p = p
  k1 = k1
  k2 = k2
  chrome = chrome
  desktop = desktop
  alice = alice
  bob = bob
  s1 = s1
  s2 = s2
  NoInst = NoInst
  Inst = {w, r}
  Call = {c1, c2}
  Key = {k1}
  EnvId = {chrome, desktop}
  Token = {alice, bob}
  Session = {s1, s2}
  EnvOf <- MC_EnvOf
  OwnerOf <- MC_OwnerOf
  SessionOf <- MC_SessionOf
  KeysOf <- MC_KeysOf
  Mutating <- MC_Mutating
  MaxLiveEnvs = 2
  ResetConcurrency = 1
  Attempts = 2
  Faults = {"abandon", "queued"}
SPECIFICATION FairSpec
INVARIANTS
  SlotsAccounted
  InFlightCountsCalls
  PermitsAccounted
  LiveInstancesIsolated
PROPERTIES
  SweepsSpareBusy
  KeysComeBack
  QueuedResetRuns
\* The finite stock of instance ids runs out.
CHECK_DEADLOCK FALSE
