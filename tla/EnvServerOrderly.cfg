\* A writer of two keys and a reader of each, closed by nobody while a call is
\* under way or queued.
CONSTANTS
  w = w
  r = r
  p = p
  k1 = k1
  k2 = k2
  chrome = chrome
  desktop = desktop
  alice = alice
  bob = bob
  s1 = s1
  s2 = s2
  NoInst = NoInst
  Inst = {w, r, p}
  Call = {c1, c2}
  Key = {k1, k2}
  EnvId = {chrome, desktop}
  Token = {alice, bob}
  Session = {s1, s2}
  EnvOf <- MC_EnvOf
  OwnerOf <- MC_OwnerOf
  SessionOf <- MC_SessionOf
  KeysOf <- MC_KeysOf
  Mutating <- MC_Mutating
  MaxLiveEnvs = 3
  ResetConcurrency = 1
  Attempts = 2
  Faults = {}
SPECIFICATION Spec
INVARIANTS
  HeldThroughRestore
  NoConflictingCalls
  FailedRestoreKeepsKeys
PROPERTIES
  CleanHandOver
  ImplementsReadersWriter
\* The finite stock of instance ids runs out.
CHECK_DEADLOCK FALSE
