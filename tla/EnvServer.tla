----------------------------- MODULE EnvServer -----------------------------
(***************************************************************************)
(* One env-server process (lite/gym/remote/server.py): the registry of     *)
(* live instances and the handlers and background tasks that race over it. *)
(*                                                                         *)
(* The server is one asyncio event loop, so a step of this specification   *)
(* is the code between two awaits of one coroutine.  No holder of          *)
(* State.lock awaits anything inside it, so the lock is never contended    *)
(* and taking it is no point of interleaving either.                       *)
(*                                                                         *)
(*   POST   /instances             Create, MakeEnv, MakeFails              *)
(*   POST   /instances/{id}/reset  StartReset .. ResetFails                *)
(*   POST   /instances/{id}/step   StartStep .. StepReturns                *)
(*   DELETE /instances/{id}        Delete                                  *)
(*   DELETE /instances             BulkClose                               *)
(*   _reap_idle, _reap_drift_...   IdleReap, DriftReap                     *)
(*   _close_quietly                CloseEnv, RestoreOk, RestoreFails       *)
(*                                                                         *)
(* An instance id stands for the POST /instances request that mints it, so *)
(* what that request fixes is a constant function of the id.  A refused    *)
(* request (503, 4xx) leaves no trace in the state and is not a step.      *)
(***************************************************************************)
EXTENDS ConflictKeyTable, Naturals, FiniteSets

CONSTANTS
  Call,              \* handler coroutines of /reset and /step
  EnvId, Token, Session,
  EnvOf, OwnerOf, SessionOf,  \* Inst -> what the create request says
  KeysOf,            \* Inst -> conflict keys of its task
  Mutating,          \* the instances whose task may write under its keys
  MaxLiveEnvs,       \* AdmissionConfig.max_live_envs
  ResetConcurrency,  \* permits of each per-env_id reset semaphore
  Attempts,          \* _OUTER_RETRY_ATTEMPTS
  Faults             \* what the surroundings may do, see FaultKinds

(***************************************************************************)
(* abandon: a client gives up on a call it made and DELETEs the instance   *)
(*          while the handler still runs (client.py: RemoteCallTimeout).   *)
(* resend:  a client re-sends a call whose answer was lost while the first *)
(*          copy still runs (replay-safe /reset, client.py).               *)
(* queued:  a sweep (idle TTL, bulk DELETE, drift) comes while a reset of  *)
(*          the instance still waits for its jitter or its semaphore.      *)
(***************************************************************************)
FaultKinds == {"abandon", "resend", "queued"}

ASSUME RequestAssumption ==
  /\ EnvOf \in [Inst -> EnvId] /\ OwnerOf \in [Inst -> Token]
  /\ SessionOf \in [Inst -> Session]
  /\ KeysOf \in [Inst -> SUBSET Key] /\ Mutating \subseteq Inst

ASSUME LimitAssumption ==
  /\ IsFiniteSet(Inst) /\ IsFiniteSet(Call)
  /\ MaxLiveEnvs \in Nat /\ ResetConcurrency \in Nat /\ Attempts \in Nat \ {0}
  /\ Faults \subseteq FaultKinds

VARIABLES
  phase,         \* where each instance is in its life
  inFlight,      \* AdmissionGate._in_flight
  busy,          \* _EnvSession.in_flight
  resetDone,     \* the sessions whose reset_done is True
  resetSlots,    \* free permits of reset_sema_for(env_id)
  call,          \* what each handler coroutine is doing
  closer,        \* closer[i][o]: the _close_quietly(i) that o spawned
  dirty,         \* keys whose backend a writer touched since its last restore
  restoreFailed  \* the instances counted in restore_fail_total

serverVars == <<phase, inFlight, busy, resetDone, resetSlots, call, closer,
                dirty, restoreFailed>>
vars == <<conflictVars, serverVars>>

Phases  == {"new", "making", "live", "gone"}
InReset == {"reset", "reset_wait"}               \* holds a semaphore permit
InStep  == {"step", "step_wait"}
CallPcs == {"idle", "queued"} \cup InReset \cup InStep
Sweeps  == {"delete", "bulk", "idle", "drift"}
Origin  == Call \cup Sweeps                      \* who can spawn a close
Stages  == {"none", "closing", "restoring", "done"}

ASSUME OriginAssumption == Call \cap Sweeps = {}

Envs       == {i \in Inst : phase[i] = "live"}   \* state.envs
HoldOf(i)  == HoldOn(KeysOf[i], i \in Mutating)
IdleCall   == [pc |-> "idle", inst |-> NoInst, attempt |-> 0]
On(c, i)   == call[c].pc # "idle" /\ call[c].inst = i
Quiet(i)   == \A c \in Call : ~On(c, i)
\* The keys the env code of instance i dirties when it runs.
Touches(i) == IF i \in Mutating THEN KeysOf[i] ELSE {}

Init ==
  /\ ConflictInit
  /\ phase = [i \in Inst |-> "new"]
  /\ inFlight = 0
  /\ busy = [i \in Inst |-> 0]
  /\ resetDone = {}
  /\ resetSlots = [e \in EnvId |-> ResetConcurrency]
  /\ call = [c \in Call |-> IdleCall]
  /\ closer = [i \in Inst |-> [o \in Origin |-> "none"]]
  /\ dirty = {}
  /\ restoreFailed = {}

-----------------------------------------------------------------------------
(* AdmissionGate: L1, the host sensors, and L2, the cap on live instances. *)

\* require_capacity passes L2.  L1 reads the host's memory, load, disk and swap
\* and may refuse at any time: that is a Create that does not happen.
HasCapacity == inFlight < MaxLiveEnvs
Admit == inFlight' = inFlight + 1
ReleaseSlots(n) == inFlight' = inFlight - n

-----------------------------------------------------------------------------
(* POST /instances *)

\* The conflict gate, then require_capacity (which undoes the gate when it
\* refuses), then admit, under one lock.
Create(i) ==
  /\ phase[i] = "new"
  /\ HasCapacity
  /\ TryAcquire(i, KeysOf[i], i \in Mutating)
  /\ phase' = [phase EXCEPT ![i] = "making"]
  /\ Admit
  /\ UNCHANGED <<busy, resetDone, resetSlots, call, closer, dirty, restoreFailed>>

\* A plausible bug of create: the finally clause returns the keys of an env
\* that was inserted.
Mut_InsertedReleasesKeys(i) ==
  /\ phase[i] = "making"
  /\ phase' = [phase EXCEPT ![i] = "live"]
  /\ Release(i)
  /\ UNCHANGED <<inFlight, busy, resetDone, resetSlots, call, closer, dirty,
                 restoreFailed>>

\* gym.make returned: the session enters state.envs.
MakeEnv(i) ==
  /\ phase[i] = "making"
  /\ phase' = [phase EXCEPT ![i] = "live"]
  /\ UNCHANGED <<conflictVars, inFlight, busy, resetDone, resetSlots, call,
                 closer, dirty, restoreFailed>>

\* A plausible bug of create: the finally clause forgets the admission slot.
Mut_FailureKeepsSlot(i) ==
  /\ phase[i] = "making"
  /\ phase' = [phase EXCEPT ![i] = "gone"]
  /\ Release(i)
  /\ UNCHANGED <<inFlight, busy, resetDone, resetSlots, call, closer, dirty,
                 restoreFailed>>

\* gym.make raised: the finally clause returns the slot and the keys.
MakeFails(i) ==
  /\ phase[i] = "making"
  /\ phase' = [phase EXCEPT ![i] = "gone"]
  /\ ReleaseSlots(1)
  /\ Release(i)
  /\ UNCHANGED <<busy, resetDone, resetSlots, call, closer, dirty, restoreFailed>>

-----------------------------------------------------------------------------
(* POST /instances/{id}/reset *)

\* _require_own_env finds a session; the handler then waits, first for its
\* jitter, then for a permit.  It is not yet counted in busy.
StartReset(c, i) ==
  /\ call[c].pc = "idle"
  /\ phase[i] = "live"
  /\ "resend" \in Faults \/ Quiet(i)
  /\ call' = [call EXCEPT ![c] = [pc |-> "queued", inst |-> i, attempt |-> 0]]
  /\ UNCHANGED <<conflictVars, phase, inFlight, busy, resetDone, resetSlots,
                 closer, dirty, restoreFailed>>

\* The permit is granted.  The handler holds the session object it looked up
\* at entry: nothing asks again whether the instance is still in state.envs.
EnterReset(c) ==
  LET i == call[c].inst IN
  /\ call[c].pc = "queued"
  /\ resetSlots[EnvOf[i]] > 0
  /\ resetSlots' = [resetSlots EXCEPT ![EnvOf[i]] = @ - 1]
  /\ busy' = [busy EXCEPT ![i] = @ + 1]
  /\ call' = [call EXCEPT ![c].pc = "reset"]
  /\ dirty' = dirty \cup Touches(i)
  /\ UNCHANGED <<conflictVars, phase, inFlight, resetDone, closer, restoreFailed>>

\* The handler's finally clause, and the end of its coroutine.
LeaveReset(c) ==
  LET i == call[c].inst IN
  /\ busy' = [busy EXCEPT ![i] = @ - 1]
  /\ resetSlots' = [resetSlots EXCEPT ![EnvOf[i]] = @ + 1]
  /\ call' = [call EXCEPT ![c] = IdleCall]

ResetOk(c) ==
  LET i == call[c].inst IN
  /\ call[c].pc = "reset"
  /\ LeaveReset(c)
  /\ resetDone' = resetDone \cup {i}
  /\ dirty' = dirty \cup Touches(i)
  /\ UNCHANGED <<conflictVars, phase, inFlight, closer, restoreFailed>>

\* A plausible bug: the early raise of CapacityExhausted skips the finally.
Mut_BusyKeepsPermit(c) ==
  LET i == call[c].inst IN
  /\ call[c].pc = "reset"
  /\ busy' = [busy EXCEPT ![i] = @ - 1]
  /\ call' = [call EXCEPT ![c] = IdleCall]
  /\ dirty' = dirty \cup Touches(i)
  /\ UNCHANGED <<conflictVars, phase, inFlight, resetDone, resetSlots, closer,
                 restoreFailed>>

\* CapacityExhausted from env.reset(): 503, and the instance stays alive for
\* the client to retry on the same id.
ResetBusy(c) ==
  /\ call[c].pc = "reset"
  /\ LeaveReset(c)
  /\ dirty' = dirty \cup Touches(call[c].inst)
  /\ UNCHANGED <<conflictVars, phase, inFlight, resetDone, closer, restoreFailed>>

\* A transport failure with attempts left: sleep, with the permit held.
ResetBackoff(c) ==
  /\ call[c].pc = "reset"
  /\ call[c].attempt + 1 < Attempts
  /\ call' = [call EXCEPT ![c].pc = "reset_wait", ![c].attempt = @ + 1]
  /\ dirty' = dirty \cup Touches(call[c].inst)
  /\ UNCHANGED <<conflictVars, phase, inFlight, busy, resetDone, resetSlots,
                 closer, restoreFailed>>

ResetAgain(c) ==
  /\ call[c].pc = "reset_wait"
  /\ call' = [call EXCEPT ![c].pc = "reset"]
  /\ dirty' = dirty \cup Touches(call[c].inst)
  /\ UNCHANGED <<conflictVars, phase, inFlight, busy, resetDone, resetSlots,
                 closer, restoreFailed>>

\* Any other failure, or the last attempt: reclaim the instance.  The slot is
\* released only by whoever pops, but the close is spawned by everyone.
ResetFails(c) ==
  LET i == call[c].inst IN
  /\ call[c].pc = "reset"
  /\ phase' = [phase EXCEPT ![i] = "gone"]
  /\ ReleaseSlots(IF phase[i] = "live" THEN 1 ELSE 0)
  /\ closer' = [closer EXCEPT ![i][c] = "closing"]
  /\ LeaveReset(c)
  /\ dirty' = dirty \cup Touches(i)
  /\ UNCHANGED <<conflictVars, resetDone, restoreFailed>>

-----------------------------------------------------------------------------
(* POST /instances/{id}/step: no permit, and no reclaim when it fails. *)

StartStep(c, i) ==
  /\ call[c].pc = "idle"
  /\ phase[i] = "live"
  /\ i \in resetDone
  /\ "resend" \in Faults \/ Quiet(i)
  /\ call' = [call EXCEPT ![c] = [pc |-> "step", inst |-> i, attempt |-> 0]]
  /\ busy' = [busy EXCEPT ![i] = @ + 1]
  /\ dirty' = dirty \cup Touches(i)
  /\ UNCHANGED <<conflictVars, phase, inFlight, resetDone, resetSlots, closer,
                 restoreFailed>>

\* The env was never reached (the only failure a step may retry).
StepBackoff(c) ==
  /\ call[c].pc = "step"
  /\ call[c].attempt + 1 < Attempts
  /\ call' = [call EXCEPT ![c].pc = "step_wait", ![c].attempt = @ + 1]
  /\ UNCHANGED <<conflictVars, phase, inFlight, busy, resetDone, resetSlots,
                 closer, dirty, restoreFailed>>

StepAgain(c) ==
  /\ call[c].pc = "step_wait"
  /\ call' = [call EXCEPT ![c].pc = "step"]
  /\ dirty' = dirty \cup Touches(call[c].inst)
  /\ UNCHANGED <<conflictVars, phase, inFlight, busy, resetDone, resetSlots,
                 closer, restoreFailed>>

\* A plausible bug: the decrement sits on the success path only, so a failed
\* step leaves its session in flight for ever.
Mut_StepLeaksBusy(c) ==
  /\ call[c].pc = "step"
  /\ call' = [call EXCEPT ![c] = IdleCall]
  /\ dirty' = dirty \cup Touches(call[c].inst)
  /\ \/ busy' = [busy EXCEPT ![call[c].inst] = @ - 1]
     \/ UNCHANGED busy
  /\ UNCHANGED <<conflictVars, phase, inFlight, resetDone, resetSlots, closer,
                 restoreFailed>>

\* The step answers or raises; either way the instance stays registered.
StepReturns(c) ==
  /\ call[c].pc = "step"
  /\ call' = [call EXCEPT ![c] = IdleCall]
  /\ dirty' = dirty \cup Touches(call[c].inst)
  /\ busy' = [busy EXCEPT ![call[c].inst] = @ - 1]
  /\ UNCHANGED <<conflictVars, phase, inFlight, resetDone, resetSlots, closer,
                 restoreFailed>>

-----------------------------------------------------------------------------
(* The closes: pop and release under the lock, then spawn _close_quietly. *)

PopAll(S, o) ==
  /\ phase' = [i \in Inst |-> IF i \in S THEN "gone" ELSE phase[i]]
  /\ ReleaseSlots(Cardinality(S))
  /\ closer' = [i \in Inst |-> IF i \in S THEN [closer[i] EXCEPT ![o] = "closing"]
                              ELSE closer[i]]
  /\ UNCHANGED <<conflictVars, busy, resetDone, resetSlots, call, dirty,
                 restoreFailed>>

\* What the sweeps skip: a session with a call in flight.  A queued reset is
\* not in flight.
Evictable == {i \in Envs : busy[i] = 0 /\ ("queued" \in Faults \/ Quiet(i))}

\* DELETE /instances/{id} by the owner: always destroys.
Delete(i) ==
  /\ phase[i] = "live"
  /\ "abandon" \in Faults \/ Quiet(i)
  /\ PopAll({i}, "delete")

\* DELETE /instances: the caller's own instances, by session and env_id (a
\* filter left out, with force, matches everything).
BulkClose(t, sessions, envIds) ==
  LET victims == {i \in Evictable : /\ OwnerOf[i] = t
                                    /\ SessionOf[i] \in sessions
                                    /\ EnvOf[i] \in envIds}
  IN /\ victims # {}
     /\ PopAll(victims, "bulk")

\* A reaper awaits the closes of its last sweep before it sweeps again.
SweepOver(o) == \A i \in Inst : closer[i][o] # "closing" /\ closer[i][o] # "restoring"

\* A plausible bug: the sweep does not look at in_flight.
Mut_IdleReapsBusy(S) ==
  /\ SweepOver("idle")
  /\ S # {} /\ S \subseteq Envs
  /\ PopAll(S, "idle")

\* The idle reaper: any set of evictable sessions may have outlived its TTL.
IdleReap(S) ==
  /\ SweepOver("idle")
  /\ S # {} /\ S \subseteq Evictable
  /\ PopAll(S, "idle")

\* The drift reaper: any set of sessions may be reported as ghosts; the ones
\* popped meanwhile and the ones in flight are skipped (DriftReaper models
\* where the report comes from).
DriftReap(S) ==
  /\ SweepOver("drift")
  /\ S # {} /\ S \subseteq Evictable
  /\ PopAll(S, "drift")

-----------------------------------------------------------------------------
(* _close_quietly, one coroutine for each pop and each failed reset. *)

Close(i, o, stage) == closer' = [closer EXCEPT ![i][o] = stage]

\* A plausible bug: a reader's close forgets to release its keys.
Mut_CloseKeepsReader(i, o) ==
  /\ closer[i][o] = "closing"
  /\ Close(i, o, IF holders[i].mutating THEN "restoring" ELSE "done")
  /\ UNCHANGED <<conflictVars, phase, inFlight, busy, resetDone, resetSlots, call,
                 dirty, restoreFailed>>

\* A plausible bug: the keys are released before the backend is restored.
Mut_ReleaseBeforeRestore(i, o) ==
  /\ closer[i][o] = "closing"
  /\ Close(i, o, IF holders[i].mutating THEN "restoring" ELSE "done")
  /\ Release(i)
  /\ UNCHANGED <<phase, inFlight, busy, resetDone, resetSlots, call, dirty,
                 restoreFailed>>

\* env.close() returned or raised (swallowed).  A writer goes on to restore
\* its backend; anyone else releases what it holds, if anything.
CloseEnv(i, o) ==
  /\ closer[i][o] = "closing"
  /\ IF holders[i].mutating
     THEN Close(i, o, "restoring") /\ UNCHANGED conflictVars
     ELSE Close(i, o, "done") /\ Release(i)
  /\ UNCHANGED <<phase, inFlight, busy, resetDone, resetSlots, call, dirty,
                 restoreFailed>>

\* Every key of the writer is restored; then its keys are released.
RestoreOk(i, o) ==
  /\ closer[i][o] = "restoring"
  /\ Close(i, o, "done")
  /\ dirty' = dirty \ KeysOf[i]
  /\ Release(i)
  /\ UNCHANGED <<phase, inFlight, busy, resetDone, resetSlots, call, restoreFailed>>

\* A plausible bug: a failed restore releases the keys like a good one.
Mut_FailedRestoreReleases(i, o) ==
  /\ closer[i][o] = "restoring"
  /\ Close(i, o, "done")
  /\ restoreFailed' = restoreFailed \cup {i}
  /\ Release(i)
  /\ UNCHANGED <<phase, inFlight, busy, resetDone, resetSlots, call, dirty>>

\* The restore of some key raised: the keys stay held, for good.
RestoreFails(i, o) ==
  /\ closer[i][o] = "restoring"
  /\ Close(i, o, "done")
  /\ \E restored \in SUBSET KeysOf[i] : /\ restored # KeysOf[i]
                                       /\ dirty' = dirty \ restored
  /\ restoreFailed' = restoreFailed \cup {i}
  /\ UNCHANGED <<conflictVars, phase, inFlight, busy, resetDone, resetSlots, call>>

-----------------------------------------------------------------------------
Next ==
  \/ \E i \in Inst : Create(i) \/ MakeEnv(i) \/ MakeFails(i) \/ Delete(i)
  \/ \E c \in Call, i \in Inst : StartReset(c, i) \/ StartStep(c, i)
  \/ \E c \in Call :
       \/ EnterReset(c) \/ ResetOk(c) \/ ResetBusy(c) \/ ResetBackoff(c)
       \/ ResetAgain(c) \/ ResetFails(c)
       \/ StepBackoff(c) \/ StepAgain(c) \/ StepReturns(c)
  \/ \E t \in Token, sessions \in {Session} \cup {{s} : s \in Session},
        envIds \in {EnvId} \cup {{e} : e \in EnvId} : BulkClose(t, sessions, envIds)
  \/ \E S \in SUBSET Inst : IdleReap(S) \/ DriftReap(S)
  \/ \E i \in Inst, o \in Origin : CloseEnv(i, o) \/ RestoreOk(i, o) \/ RestoreFails(i, o)

Spec == Init /\ [][Next]_vars

(***************************************************************************)
(* Fairness.  env.reset and env.step end by the server's timeout; that     *)
(* gym.make, env.close and restore_backend return or raise is assumed (the *)
(* server sets them no deadline); and the loop runs what is ready.         *)
(* A permit that is free only from time to time still reaches              *)
(* every waiter, for asyncio.Semaphore wakes its waiters in FIFO order:    *)
(* strong fairness of EnterReset.  Nothing obliges a client to call.       *)
(***************************************************************************)
FairMake(i) == WF_vars(MakeEnv(i) \/ MakeFails(i))

\* Of the closes of an instance some one gets on; the code promises it of each.
FairClose(i) ==
  /\ WF_vars(\E o \in Origin : CloseEnv(i, o))
  /\ WF_vars(\E o \in Origin : RestoreOk(i, o) \/ RestoreFails(i, o))

FairCall(c) ==
  /\ SF_vars(EnterReset(c))
  /\ WF_vars(ResetOk(c) \/ ResetBusy(c) \/ ResetFails(c)) /\ WF_vars(ResetAgain(c))
  /\ WF_vars(StepReturns(c)) /\ WF_vars(StepAgain(c))

Fairness ==
  /\ \A i \in Inst : FairMake(i) /\ FairClose(i)
  /\ \A c \in Call : FairCall(c)

FairSpec == Spec /\ Fairness

-----------------------------------------------------------------------------
Admitted     == {i \in Inst : phase[i] \in {"making", "live"}}
Inside(c)    == call[c].pc \in InReset \cup InStep
CallsIn(i)   == {c \in Call : Inside(c) /\ call[c].inst = i}
ResetsOf(e)  == {c \in Call : call[c].pc \in InReset /\ EnvOf[call[c].inst] = e}

\* The type invariant.
TypeOK ==
  /\ ConflictTypeOK
  /\ phase \in [Inst -> Phases]
  /\ inFlight \in Nat
  /\ busy \in [Inst -> Nat]
  /\ resetDone \subseteq Inst
  /\ resetSlots \in [EnvId -> Nat]
  /\ call \in [Call -> [pc : CallPcs, inst : Inst \cup {NoInst}, attempt : Nat]]
  /\ \A c \in Call : call[c].pc # "idle" => call[c].inst \in Inst
  /\ closer \in [Inst -> [Origin -> Stages]]
  /\ dirty \subseteq Key
  /\ restoreFailed \subseteq Inst

\* The admission counter always equals what it stands for: the creates under
\* way plus the sessions in state.envs.  A failed create, a DELETE, two kinds
\* of sweep and a failed reset race to give a slot back; it is given back once.
SlotsAccounted == inFlight = Cardinality(Admitted)

\* The server never runs more instances than max_live_envs allows, those
\* still being built included.
NeverOverAdmitted == Cardinality(Admitted) <= MaxLiveEnvs

\* in_flight of a session, which the sweeps trust, is the number of handlers
\* inside its env, whatever way each of them leaves.
InFlightCountsCalls == \A i \in Inst : busy[i] = Cardinality(CallsIn(i))

\* No path through /reset loses or doubles a permit of its env_id.
PermitsAccounted ==
  \A e \in EnvId : resetSlots[e] + Cardinality(ResetsOf(e)) = ResetConcurrency

\* Shared-backend isolation, end to end: two instances that are both being
\* built or live and share a key are both readers of it.
LiveInstancesIsolated ==
  \A i, j \in Admitted : i # j => Locks!Compatible(HoldOf(i), HoldOf(j))

\* A sweep (idle, drift, bulk) never closes an instance while a step or a
\* reset runs inside its env.
SweepsSpareBusy ==
  [][\A i \in Inst, o \in Sweeps \ {"delete"} :
       closer[i][o] = "none" /\ closer'[i][o] # "none" => CallsIn(i) = {}]_vars

\* _close_quietly's promise: "the key stays held through restore".
HeldThroughRestore ==
  \A i \in Inst, o \in Origin : closer[i][o] = "restoring" => holders[i] = HoldOf(i)

\* ... "so the next claimant sees a clean backend": no instance is admitted
\* on a key whose backend a writer left unrestored.
CleanHandOver ==
  [][\A i \in Inst : phase[i] = "new" /\ phase'[i] = "making"
                      => KeysOf[i] \cap dirty = {}]_vars

\* The readers-writer contract of conflict.py applied to what it protects:
\* the code of two conflicting instances is never inside its envs at once.
NoConflictingCalls ==
  \A c, d \in Call : Inside(c) /\ Inside(d) /\ call[c].inst # call[d].inst
    => Locks!Compatible(HoldOf(call[c].inst), HoldOf(call[d].inst))

\* A key whose restore failed is never leased again.
FailedRestoreKeepsKeys == \A i \in restoreFailed : holders[i] = HoldOf(i)

\* Whatever way an instance ends, its keys come back, unless its restore
\* failed.
KeysBack(i)  == holders[i] = NoHold \/ i \in restoreFailed
Returns(i)   == phase[i] = "gone" ~> KeysBack(i)
KeysComeBack == \A i \in Inst : Returns(i)

\* A reset that waits for a permit gets one.
QueuedResetRuns == \A c \in Call : call[c].pc = "queued" ~> call[c].pc # "queued"
=============================================================================
