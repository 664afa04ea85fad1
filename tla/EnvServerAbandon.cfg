\* A client deletes its instance while the reset still runs.
CONSTANTS
  w = w
  r = r
  p = p
  k1 = k1
  k2 = k2
  chrome = chrome
  desktop = desktop
  alice = alice
  bob = bob
  s1 = s1
  s2 = s2
  NoInst = NoInst
  Inst = {w, r}
  Call = {c1}
  Key = {k1}
  EnvId = {chrome, desktop}
  Token = {alice, bob}
  Session = {s1, s2}
  EnvOf <- MC_EnvOf
  OwnerOf <- MC_OwnerOf
  SessionOf <- MC_SessionOf
  KeysOf <- MC_KeysOf
  Mutating <- MC_Mutating
  MaxLiveEnvs = 2
  ResetConcurrency = 1
  Attempts = 2
  Faults = {"abandon"}
SPECIFICATION Spec
INVARIANT HeldThroughRestore
\* The finite stock of instance ids runs out.
CHECK_DEADLOCK FALSE
