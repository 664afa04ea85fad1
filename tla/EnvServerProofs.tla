-------------------------- MODULE EnvServerProofs --------------------------
(***************************************************************************)
(* The safety of the env server, for every set of instances, callers,      *)
(* keys and limits and under every fault.  The inductive invariant IInv    *)
(* adds to the properties what ties them together: an instance holds its   *)
(* keys from its gate to its pop (KeysHeld), a close exists only after a   *)
(* pop, and a handler works on an instance that was registered.            *)
(* Orderly, in the second half, is what is added where nothing is          *)
(* abandoned, re-sent or swept from the queue.                             *)
(***************************************************************************)
EXTENDS EnvServer, ConflictKeyTableProofs, FiniteSetTheorems

KeysHeld ==
  \A i \in Inst :
    /\ phase[i] = "new" => holders[i] = NoHold
    /\ phase[i] \in {"making", "live"} => holders[i] = HoldOf(i)

CloseAfterPop ==
  \A i \in Inst, o \in Origin : closer[i][o] # "none" => phase[i] = "gone"

CallsOnRegistered ==
  \A c \in Call : call[c].pc # "idle" => phase[call[c].inst] \in {"live", "gone"}

IInv ==
  /\ TypeOK /\ TableInv
  /\ KeysHeld /\ CloseAfterPop /\ CallsOnRegistered
  /\ SlotsAccounted /\ NeverOverAdmitted
  /\ InFlightCountsCalls /\ PermitsAccounted

-----------------------------------------------------------------------------
(* Finite sets of instances and calls *)

\* The sets the counters count are finite.
LEMMA CountedSetsAreFinite ==
  /\ IsFiniteSet(Admitted)
  /\ \A i : IsFiniteSet(CallsIn(i))
  /\ \A e : IsFiniteSet(ResetsOf(e))
  BY LimitAssumption, FS_Subset DEF Admitted, CallsIn, ResetsOf

\* The same in the next state.
LEMMA CountedSetsStayFinite ==
  /\ IsFiniteSet(Admitted')
  /\ \A i : IsFiniteSet(CallsIn(i)')
  /\ \A e : IsFiniteSet(ResetsOf(e)')
  BY LimitAssumption, FS_Subset DEF Admitted, CallsIn, ResetsOf

\* Cardinalities of finite sets are natural numbers, and removing part of a
\* set subtracts.
LEMMA CardinalityOfRest ==
  ASSUME NEW A, IsFiniteSet(A), NEW S \in SUBSET A
  PROVE  /\ Cardinality(A) \in Nat /\ Cardinality(S) \in Nat
         /\ Cardinality(A \ S) = Cardinality(A) - Cardinality(S)
<1>1. IsFiniteSet(S)
  BY FS_Subset
<1>2. A \cap S = S
  OBVIOUS
<1>3. QED
  BY <1>1, <1>2, FS_CardinalityType, FS_Difference

-----------------------------------------------------------------------------
(* Admission slots *)

\* A step admits one instance below the cap, lets some admitted ones go, or
\* leaves the admitted set and its counter alone.
AdmitsOne ==
  /\ inFlight < MaxLiveEnvs
  /\ inFlight' = inFlight + 1
  /\ \E i \in Inst \ Admitted : Admitted' = Admitted \cup {i}

LetsGo ==
  \E S \in SUBSET Admitted : /\ Admitted' = Admitted \ S
                             /\ inFlight' = inFlight - Cardinality(S)

\* Every pop gives back exactly the slots of what it pops.
LEMMA PopAllLetsGo ==
  ASSUME TypeOK, NEW S \in SUBSET Envs, NEW o, PopAll(S, o)
  PROVE  LetsGo
<1>1. S \subseteq Admitted
  BY DEF Envs, Admitted
<1>2. Admitted' = Admitted \ S
  BY DEF ReleaseSlots, PopAll, TypeOK, Admitted, Envs
<1>3. QED
  BY <1>1, <1>2 DEF ReleaseSlots, LetsGo, PopAll

\* Letting one instance go.
LEMMA OneLetsGo ==
  ASSUME TypeOK, NEW i \in Admitted, phase' = [phase EXCEPT ![i] = "gone"],
         inFlight' = inFlight - 1
  PROVE  LetsGo
<1>1. Admitted' = Admitted \ {i}
  BY DEF TypeOK, Admitted
<1>2. Cardinality({i}) = 1
  BY FS_Singleton
<1>3. QED
  BY <1>1, <1>2 DEF LetsGo

\* What each action does to the admission slots.
LEMMA SlotSteps ==
  ASSUME IInv, [Next]_vars
  PROVE  AdmitsOne \/ LetsGo \/ (Admitted' = Admitted /\ inFlight' = inFlight)
<1> USE DEF IInv
<1>1. ASSUME NEW i \in Inst, Create(i)
      PROVE  AdmitsOne
  <2>1. i \notin Admitted /\ Admitted' = Admitted \cup {i}
    BY <1>1 DEF Admit, HasCapacity, Create, TypeOK, Admitted
  <2>2. QED
    BY <1>1, <2>1 DEF Admit, HasCapacity, Create, AdmitsOne
<1>2. ASSUME NEW i \in Inst, MakeEnv(i)
      PROVE  Admitted' = Admitted /\ inFlight' = inFlight
  BY <1>2 DEF MakeEnv, TypeOK, Admitted
<1>3. ASSUME NEW i \in Inst, MakeFails(i)
      PROVE  LetsGo
  BY <1>3, OneLetsGo DEF ReleaseSlots, MakeFails, Admitted
<1>4. ASSUME NEW i \in Inst, Delete(i)
      PROVE  LetsGo
  BY <1>4, PopAllLetsGo DEF Delete, Envs
<1>5. ASSUME NEW c \in Call, ResetFails(c)
      PROVE  LetsGo \/ (Admitted' = Admitted /\ inFlight' = inFlight)
  <2> DEFINE i == call[c].inst
  <2>1. i \in Inst /\ phase[i] \in {"live", "gone"}
    BY <1>5 DEF ReleaseSlots, ResetFails, TypeOK, CallsOnRegistered
  <2>2. CASE phase[i] = "live"
    BY <1>5, <2>1, <2>2, OneLetsGo DEF ReleaseSlots, ResetFails, Admitted
  <2>3. CASE phase[i] = "gone"
    BY <1>5, <2>1, <2>3 DEF ReleaseSlots, ResetFails, TypeOK, Admitted
  <2>4. QED
    BY <2>1, <2>2, <2>3
<1>6. ASSUME NEW t \in Token, NEW sessions, NEW envIds, BulkClose(t, sessions, envIds)
      PROVE  LetsGo
  BY <1>6, PopAllLetsGo DEF BulkClose, Evictable
<1>7. ASSUME NEW S \in SUBSET Inst, IdleReap(S) \/ DriftReap(S)
      PROVE  LetsGo
  BY <1>7, PopAllLetsGo DEF IdleReap, DriftReap, Evictable
<1>8. CASE \E c \in Call, i \in Inst : StartReset(c, i) \/ StartStep(c, i)
  BY <1>8 DEF StartReset, StartStep, Admitted
<1>9. CASE \E c \in Call :
             \/ EnterReset(c) \/ ResetOk(c) \/ ResetBusy(c) \/ ResetBackoff(c)
             \/ ResetAgain(c) \/ StepBackoff(c) \/ StepAgain(c) \/ StepReturns(c)
  BY <1>9 DEF EnterReset, ResetOk, ResetBusy, ResetBackoff, ResetAgain, StepBackoff,
              StepAgain, StepReturns, Admitted
<1>10. CASE \E i \in Inst, o \in Origin :
              CloseEnv(i, o) \/ RestoreOk(i, o) \/ RestoreFails(i, o)
  BY <1>10 DEF CloseEnv, RestoreOk, RestoreFails, Admitted
<1>11. CASE UNCHANGED vars
  BY <1>11 DEF vars, serverVars, Admitted
<1>12. QED
  BY <1>1, <1>2, <1>3, <1>4, <1>5, <1>6, <1>7, <1>8, <1>9, <1>10, <1>11 DEF Next

\* A step keeps the admission counter equal to what it counts, and under the cap.
LEMMA SlotsStep ==
  ASSUME IInv, [Next]_vars
  PROVE  inFlight' \in Nat /\ SlotsAccounted' /\ NeverOverAdmitted'
<1> USE LimitAssumption, CountedSetsAreFinite DEF IInv, SlotsAccounted, NeverOverAdmitted
<1>0. inFlight = Cardinality(Admitted) /\ inFlight \in Nat /\ inFlight <= MaxLiveEnvs
  BY DEF TypeOK
<1>1. CASE AdmitsOne
  <2>1. Cardinality(Admitted') = Cardinality(Admitted) + 1
    BY <1>1, FS_AddElement DEF AdmitsOne
  <2>2. QED
    BY <1>0, <1>1, <2>1 DEF AdmitsOne
<1>2. CASE LetsGo
  <2>1. PICK S \in SUBSET Admitted : /\ Admitted' = Admitted \ S
                                     /\ inFlight' = inFlight - Cardinality(S)
    BY <1>2 DEF LetsGo
  <2>2. Cardinality(Admitted') = Cardinality(Admitted) - Cardinality(S)
    BY <2>1, CardinalityOfRest
  <2>3. Cardinality(Admitted') \in Nat /\ Cardinality(S) \in Nat
    BY <2>1, CountedSetsStayFinite, CardinalityOfRest, FS_CardinalityType
  <2>4. QED
    BY <1>0, <2>1, <2>2, <2>3
<1>3. CASE Admitted' = Admitted /\ inFlight' = inFlight
  BY <1>0, <1>3
<1>4. QED
  BY <1>1, <1>2, <1>3, SlotSteps
-----------------------------------------------------------------------------
(* Handlers inside an env *)

\* A handler enters the env of an instance, leaves it, or nobody does either.
Enters(c, i) ==
  /\ c \notin CallsIn(i) /\ CallsIn(i)' = CallsIn(i) \cup {c}
  /\ \A j \in Inst \ {i} : CallsIn(j)' = CallsIn(j)
  /\ busy' = [busy EXCEPT ![i] = @ + 1]

Leaves(c, i) ==
  /\ c \in CallsIn(i) /\ CallsIn(i)' = CallsIn(i) \ {c}
  /\ \A j \in Inst \ {i} : CallsIn(j)' = CallsIn(j)
  /\ busy' = [busy EXCEPT ![i] = @ - 1]

NobodyMoves == (\A i \in Inst : CallsIn(i)' = CallsIn(i)) /\ busy' = busy

\* What each action does to the handlers inside and to busy.
LEMMA BusySteps ==
  ASSUME IInv, [Next]_vars
  PROVE  (\E c \in Call, i \in Inst : Enters(c, i) \/ Leaves(c, i)) \/ NobodyMoves
<1> USE DEF IInv, CallsIn, Inside, InReset, InStep
<1> SUFFICES ASSUME ~NobodyMoves
             PROVE  \E c \in Call, i \in Inst : Enters(c, i) \/ Leaves(c, i)
  OBVIOUS
<1>0. \A c \in Call : call[c].pc # "idle" => call[c].inst \in Inst
  BY DEF TypeOK
<1>1. ASSUME NEW c \in Call, NEW i \in Inst, i = call[c].inst, EnterReset(c)
      PROVE  Enters(c, i)
  BY <1>1 DEF EnterReset, Enters, TypeOK, CallPcs
<1>2. ASSUME NEW c \in Call, NEW i \in Inst, StartStep(c, i)
      PROVE  Enters(c, i)
  BY <1>2 DEF StartStep, Enters, TypeOK, CallPcs
<1>3. ASSUME NEW c \in Call, NEW i \in Inst, i = call[c].inst,
             ResetOk(c) \/ ResetBusy(c) \/ ResetFails(c)
      PROVE  Leaves(c, i)
  <2>1. call[c].pc = "reset" /\ LeaveReset(c)
    BY <1>3 DEF ResetOk, ResetBusy, ResetFails
  <2>2. QED
    BY <1>3, <2>1 DEF LeaveReset, IdleCall, Leaves, TypeOK, CallPcs
<1>4. ASSUME NEW c \in Call, NEW i \in Inst, i = call[c].inst, StepReturns(c)
      PROVE  Leaves(c, i)
  BY <1>4 DEF StepReturns, IdleCall, Leaves, TypeOK, CallPcs
<1>5. ASSUME NEW c \in Call,
             ResetBackoff(c) \/ ResetAgain(c) \/ StepBackoff(c) \/ StepAgain(c)
      PROVE  NobodyMoves
  BY <1>5 DEF ResetBackoff, ResetAgain, StepBackoff, StepAgain, NobodyMoves, TypeOK,
              CallPcs
<1>6. ASSUME NEW c \in Call, NEW i \in Inst, StartReset(c, i)
      PROVE  NobodyMoves
  BY <1>6 DEF StartReset, NobodyMoves, TypeOK, CallPcs
<1>7. ASSUME UNCHANGED <<call, busy>>
      PROVE  NobodyMoves
  BY <1>7 DEF NobodyMoves
<1>8. CASE \E i \in Inst : Create(i) \/ MakeEnv(i) \/ MakeFails(i) \/ Delete(i)
  BY <1>7, <1>8 DEF Create, MakeEnv, MakeFails, Delete, PopAll
<1>9. CASE \E t \in Token, sessions \in {Session} \cup {{s} : s \in Session},
             envIds \in {EnvId} \cup {{e} : e \in EnvId} : BulkClose(t, sessions, envIds)
  BY <1>7, <1>9 DEF BulkClose, PopAll
<1>10. CASE \E S \in SUBSET Inst : IdleReap(S) \/ DriftReap(S)
  BY <1>7, <1>10 DEF IdleReap, DriftReap, PopAll
<1>11. CASE \E i \in Inst, o \in Origin :
              CloseEnv(i, o) \/ RestoreOk(i, o) \/ RestoreFails(i, o)
  BY <1>7, <1>11 DEF CloseEnv, RestoreOk, RestoreFails
<1>12. CASE UNCHANGED vars
  BY <1>7, <1>12 DEF vars, serverVars
<1>13. CASE \E c \in Call :
              EnterReset(c) \/ ResetOk(c) \/ ResetBusy(c) \/ ResetFails(c) \/ StepReturns(c)
  <2>1. PICK c \in Call :
          EnterReset(c) \/ ResetOk(c) \/ ResetBusy(c) \/ ResetFails(c) \/ StepReturns(c)
    BY <1>13
  <2>2. call[c].pc # "idle"
    BY <2>1 DEF EnterReset, ResetOk, ResetBusy, ResetFails, StepReturns
  <2>3. PICK i \in Inst : i = call[c].inst
    BY <1>0, <2>2
  <2>4. QED
    BY <1>1, <1>3, <1>4, <2>1, <2>3
<1>14. QED
  BY <1>2, <1>5, <1>6, <1>8, <1>9, <1>10, <1>11, <1>12, <1>13 DEF Next

\* A step keeps in_flight equal to the number of handlers inside.
LEMMA BusyStep ==
  ASSUME IInv, [Next]_vars
  PROVE  busy' \in [Inst -> Nat] /\ InFlightCountsCalls'
<1>1. /\ busy \in [Inst -> Nat]
      /\ \A i \in Inst : busy[i] = Cardinality(CallsIn(i)) /\ IsFiniteSet(CallsIn(i))
  BY CountedSetsAreFinite DEF IInv, TypeOK, InFlightCountsCalls
<1>2. ASSUME NEW c \in Call, NEW i \in Inst, Enters(c, i)
      PROVE  busy' \in [Inst -> Nat] /\ InFlightCountsCalls'
  <2>1. Cardinality(CallsIn(i)') = Cardinality(CallsIn(i)) + 1
    BY <1>1, <1>2, FS_AddElement DEF Enters
  <2>2. Cardinality(CallsIn(i)') \in Nat
    BY CountedSetsStayFinite, FS_CardinalityType
  <2>3. QED
    BY <1>1, <1>2, <2>1, <2>2 DEF Enters, InFlightCountsCalls
<1>3. ASSUME NEW c \in Call, NEW i \in Inst, Leaves(c, i)
      PROVE  busy' \in [Inst -> Nat] /\ InFlightCountsCalls'
  <2>1. Cardinality(CallsIn(i)') = Cardinality(CallsIn(i)) - 1
    BY <1>1, <1>3, FS_RemoveElement DEF Leaves
  <2>2. Cardinality(CallsIn(i)') \in Nat
    BY CountedSetsStayFinite, FS_CardinalityType
  <2>3. QED
    BY <1>1, <1>3, <2>1, <2>2 DEF Leaves, InFlightCountsCalls
<1>4. CASE NobodyMoves
  BY <1>1, <1>4 DEF NobodyMoves, InFlightCountsCalls
<1>5. QED
  BY <1>2, <1>3, <1>4, BusySteps

-----------------------------------------------------------------------------
(* Reset permits *)

\* A handler takes a permit of an env_id, returns one, or none moves.
TakesPermit(c, e) ==
  /\ c \notin ResetsOf(e) /\ ResetsOf(e)' = ResetsOf(e) \cup {c}
  /\ \A f \in EnvId \ {e} : ResetsOf(f)' = ResetsOf(f)
  /\ resetSlots[e] > 0 /\ resetSlots' = [resetSlots EXCEPT ![e] = @ - 1]

ReturnsPermit(c, e) ==
  /\ c \in ResetsOf(e) /\ ResetsOf(e)' = ResetsOf(e) \ {c}
  /\ \A f \in EnvId \ {e} : ResetsOf(f)' = ResetsOf(f)
  /\ resetSlots' = [resetSlots EXCEPT ![e] = @ + 1]

NoPermitMoves == (\A e \in EnvId : ResetsOf(e)' = ResetsOf(e)) /\ resetSlots' = resetSlots

\* What each action does to the permits.
LEMMA PermitSteps ==
  ASSUME IInv, [Next]_vars
  PROVE  \/ \E c \in Call, e \in EnvId : TakesPermit(c, e) \/ ReturnsPermit(c, e)
         \/ NoPermitMoves
<1> USE RequestAssumption DEF IInv, ResetsOf, InReset
<1> SUFFICES ASSUME ~NoPermitMoves
             PROVE  \E c \in Call, e \in EnvId : TakesPermit(c, e) \/ ReturnsPermit(c, e)
  OBVIOUS
<1>0. \A c \in Call : call[c].pc # "idle" => EnvOf[call[c].inst] \in EnvId
  BY DEF TypeOK
<1>1. ASSUME NEW c \in Call, NEW e \in EnvId, e = EnvOf[call[c].inst], EnterReset(c)
      PROVE  TakesPermit(c, e)
  BY <1>1 DEF EnterReset, TakesPermit, TypeOK, CallPcs
<1>2. ASSUME NEW c \in Call, NEW e \in EnvId, e = EnvOf[call[c].inst],
             ResetOk(c) \/ ResetBusy(c) \/ ResetFails(c)
      PROVE  ReturnsPermit(c, e)
  <2>1. call[c].pc = "reset" /\ LeaveReset(c)
    BY <1>2 DEF ResetOk, ResetBusy, ResetFails
  <2>2. QED
    BY <1>2, <2>1 DEF LeaveReset, IdleCall, ReturnsPermit, TypeOK, CallPcs
<1>3. ASSUME NEW c \in Call,
             \/ ResetBackoff(c) \/ ResetAgain(c) \/ StepBackoff(c) \/ StepAgain(c)
             \/ StepReturns(c)
      PROVE  NoPermitMoves
  <2>1. CASE ResetBackoff(c) \/ ResetAgain(c)
    <3>1. \A d \in Call : /\ call'[d].inst = call[d].inst
                          /\ call'[d].pc \in InReset <=> call[d].pc \in InReset
      BY <2>1 DEF ResetBackoff, ResetAgain, TypeOK, CallPcs
    <3>2. resetSlots' = resetSlots
      BY <2>1 DEF ResetBackoff, ResetAgain
    <3>3. QED
      BY <3>1, <3>2 DEF NoPermitMoves
  <2>2. CASE StepBackoff(c) \/ StepAgain(c)
    BY ZenonT(60), <2>2 DEF StepBackoff, StepAgain, NoPermitMoves, TypeOK, CallPcs
  <2>3. CASE StepReturns(c)
    BY <2>3 DEF StepReturns, IdleCall, NoPermitMoves, TypeOK, CallPcs
  <2>4. QED
    BY <1>3, <2>1, <2>2, <2>3
<1>4. ASSUME NEW c \in Call, NEW i \in Inst, StartReset(c, i) \/ StartStep(c, i)
      PROVE  NoPermitMoves
  BY <1>4 DEF StartReset, StartStep, NoPermitMoves, TypeOK, CallPcs
<1>5. ASSUME UNCHANGED <<call, resetSlots>>
      PROVE  NoPermitMoves
  BY <1>5 DEF NoPermitMoves
<1>6. CASE \E i \in Inst : Create(i) \/ MakeEnv(i) \/ MakeFails(i) \/ Delete(i)
  BY <1>5, <1>6 DEF Create, MakeEnv, MakeFails, Delete, PopAll
<1>7. CASE \E t \in Token, sessions \in {Session} \cup {{s} : s \in Session},
             envIds \in {EnvId} \cup {{e} : e \in EnvId} : BulkClose(t, sessions, envIds)
  BY <1>5, <1>7 DEF BulkClose, PopAll
<1>8. CASE \E S \in SUBSET Inst : IdleReap(S) \/ DriftReap(S)
  BY <1>5, <1>8 DEF IdleReap, DriftReap, PopAll
<1>9. CASE \E i \in Inst, o \in Origin :
             CloseEnv(i, o) \/ RestoreOk(i, o) \/ RestoreFails(i, o)
  BY <1>5, <1>9 DEF CloseEnv, RestoreOk, RestoreFails
<1>10. CASE UNCHANGED vars
  BY <1>5, <1>10 DEF vars, serverVars
<1>11. CASE \E c \in Call : EnterReset(c) \/ ResetOk(c) \/ ResetBusy(c) \/ ResetFails(c)
  <2>1. PICK c \in Call : EnterReset(c) \/ ResetOk(c) \/ ResetBusy(c) \/ ResetFails(c)
    BY <1>11
  <2>2. call[c].pc # "idle"
    BY <2>1 DEF EnterReset, ResetOk, ResetBusy, ResetFails
  <2>3. PICK e \in EnvId : e = EnvOf[call[c].inst]
    BY <1>0, <2>2
  <2>4. QED
    BY <1>1, <1>2, <2>1, <2>3
<1>12. QED
  BY <1>3, <1>4, <1>6, <1>7, <1>8, <1>9, <1>10, <1>11 DEF Next

\* A step neither loses nor doubles a permit.
LEMMA PermitsStep ==
  ASSUME IInv, [Next]_vars
  PROVE  resetSlots' \in [EnvId -> Nat] /\ PermitsAccounted'
<1>1. /\ resetSlots \in [EnvId -> Nat] /\ ResetConcurrency \in Nat
      /\ \A e \in EnvId : /\ resetSlots[e] + Cardinality(ResetsOf(e)) = ResetConcurrency
                          /\ IsFiniteSet(ResetsOf(e)) /\ Cardinality(ResetsOf(e)) \in Nat
  BY CountedSetsAreFinite, FS_CardinalityType, LimitAssumption
  DEF IInv, TypeOK, PermitsAccounted
<1>2. ASSUME NEW c \in Call, NEW e \in EnvId, TakesPermit(c, e)
      PROVE  resetSlots' \in [EnvId -> Nat] /\ PermitsAccounted'
  <2>1. Cardinality(ResetsOf(e)') = Cardinality(ResetsOf(e)) + 1
    BY <1>1, <1>2, FS_AddElement DEF TakesPermit
  <2>2. resetSlots'[e] + Cardinality(ResetsOf(e)') = ResetConcurrency
    BY <1>1, <1>2, <2>1 DEF TakesPermit
  <2>3. \A f \in EnvId \ {e} : resetSlots'[f] + Cardinality(ResetsOf(f)') = ResetConcurrency
    BY <1>1, <1>2 DEF TakesPermit
  <2>4. resetSlots' \in [EnvId -> Nat]
    BY <1>1, <1>2 DEF TakesPermit
  <2>5. QED
    BY <2>2, <2>3, <2>4 DEF PermitsAccounted
<1>3. ASSUME NEW c \in Call, NEW e \in EnvId, ReturnsPermit(c, e)
      PROVE  resetSlots' \in [EnvId -> Nat] /\ PermitsAccounted'
  <2>1. Cardinality(ResetsOf(e)') = Cardinality(ResetsOf(e)) - 1
    BY <1>1, <1>3, FS_RemoveElement DEF ReturnsPermit
  <2>2. resetSlots'[e] + Cardinality(ResetsOf(e)') = ResetConcurrency
    BY <1>1, <1>3, <2>1 DEF ReturnsPermit
  <2>3. \A f \in EnvId \ {e} : resetSlots'[f] + Cardinality(ResetsOf(f)') = ResetConcurrency
    BY <1>1, <1>3 DEF ReturnsPermit
  <2>4. resetSlots' \in [EnvId -> Nat]
    BY <1>1, <1>3 DEF ReturnsPermit
  <2>5. QED
    BY <2>2, <2>3, <2>4 DEF PermitsAccounted
<1>4. CASE NoPermitMoves
  BY <1>1, <1>4 DEF NoPermitMoves, PermitsAccounted
<1>5. QED
  BY <1>2, <1>3, <1>4, PermitSteps
-----------------------------------------------------------------------------
(* The life of an instance *)

\* An instance moves forward through its phases, and what is popped is popped
\* by somebody who spawns its close.
LifeGoesOn ==
  /\ phase' \in [Inst -> Phases]
  /\ closer' \in [Inst -> [Origin -> Stages]]
  /\ \A i \in Inst :
       /\ phase'[i] = "new" => phase[i] = "new"
       /\ phase[i] = "gone" => phase'[i] = "gone"
       /\ phase[i] = "live" => phase'[i] \in {"live", "gone"}
       /\ phase'[i] = "live" => phase[i] \in {"making", "live"}
       /\ \A o \in Origin : closer'[i][o] # "none" => closer[i][o] # "none" \/ phase'[i] = "gone"

\* A pop of live instances is such a step.
LEMMA PopAllLife ==
  ASSUME IInv, NEW S \in SUBSET Envs, NEW o \in Origin, PopAll(S, o)
  PROVE  LifeGoesOn
  BY DEF IInv, TypeOK, PopAll, Envs, LifeGoesOn, Phases, Stages

\* Every step is.
LEMMA LifeSteps ==
  ASSUME IInv, [Next]_vars
  PROVE  LifeGoesOn
<1> USE DEF IInv
<1>1. ASSUME NEW i \in Inst, Create(i) \/ MakeEnv(i) \/ MakeFails(i)
      PROVE  LifeGoesOn
  BY <1>1 DEF Create, MakeEnv, MakeFails, LifeGoesOn, TypeOK, Phases
<1>2. ASSUME NEW i \in Inst, Delete(i)
      PROVE  LifeGoesOn
  BY <1>2, PopAllLife DEF Delete, Envs, Origin, Sweeps
<1>3. ASSUME NEW t \in Token, NEW sessions, NEW envIds, BulkClose(t, sessions, envIds)
      PROVE  LifeGoesOn
  BY <1>3, PopAllLife DEF BulkClose, Evictable, Origin, Sweeps
<1>4. ASSUME NEW S \in SUBSET Inst, IdleReap(S) \/ DriftReap(S)
      PROVE  LifeGoesOn
  BY <1>4, PopAllLife DEF IdleReap, DriftReap, Evictable, Origin, Sweeps
<1>5. ASSUME NEW c \in Call, ResetFails(c)
      PROVE  LifeGoesOn
  <2>1. /\ call[c].inst \in Inst /\ phase[call[c].inst] \in {"live", "gone"}
        /\ c \in Origin
    BY <1>5 DEF ResetFails, TypeOK, CallsOnRegistered, Origin
  <2>2. QED
    BY <1>5, <2>1 DEF ResetFails, LifeGoesOn, TypeOK, Phases, Stages
<1>6. ASSUME NEW i \in Inst, NEW o \in Origin,
             CloseEnv(i, o) \/ RestoreOk(i, o) \/ RestoreFails(i, o)
      PROVE  LifeGoesOn
  <2>1. PICK stage \in Stages : closer' = [closer EXCEPT ![i][o] = stage]
    BY <1>6 DEF CloseEnv, RestoreOk, RestoreFails, Close, Stages
  <2>2. phase' = phase /\ closer[i][o] # "none"
    BY <1>6 DEF CloseEnv, RestoreOk, RestoreFails
  <2>3. QED
    BY <2>1, <2>2 DEF LifeGoesOn, TypeOK, Phases
<1>7. ASSUME UNCHANGED <<phase, closer>>
      PROVE  LifeGoesOn
  BY <1>7 DEF LifeGoesOn, TypeOK, Phases
<1>8. CASE \E c \in Call, i \in Inst : StartReset(c, i) \/ StartStep(c, i)
  BY <1>7, <1>8 DEF StartReset, StartStep
<1>9. CASE \E c \in Call :
             \/ EnterReset(c) \/ ResetOk(c) \/ ResetBusy(c) \/ ResetBackoff(c)
             \/ ResetAgain(c) \/ StepBackoff(c) \/ StepAgain(c) \/ StepReturns(c)
  BY <1>7, <1>9 DEF EnterReset, ResetOk, ResetBusy, ResetBackoff, ResetAgain, StepBackoff,
                    StepAgain, StepReturns
<1>10. CASE UNCHANGED vars
  BY <1>7, <1>10 DEF vars, serverVars
<1>11. QED
  BY <1>1, <1>2, <1>3, <1>4, <1>5, <1>6, <1>8, <1>9, <1>10 DEF Next

\* A close still follows a pop.
LEMMA CloseAfterPopStep ==
  ASSUME IInv, [Next]_vars
  PROVE  CloseAfterPop'
  BY LifeSteps DEF IInv, CloseAfterPop, LifeGoesOn

-----------------------------------------------------------------------------
(* The conflict table *)

\* A create claims the keys of its instance; other steps admit nobody, and an
\* instance whose keys they release is gone.
NobodyAdmitted ==
  \A i \in Inst : phase'[i] \in {"making", "live"} => phase[i] \in {"making", "live"}

ClaimsKeys(i) ==
  /\ phase[i] = "new" /\ phase' = [phase EXCEPT ![i] = "making"]
  /\ Claim(i, KeysOf[i], i \in Mutating)

FreesKeys(i) == NobodyAdmitted /\ phase'[i] = "gone" /\ Release(i)

KeepsKeys == NobodyAdmitted /\ UNCHANGED conflictVars

\* What each action does to the conflict table.
LEMMA KeySteps ==
  ASSUME IInv, [Next]_vars
  PROVE  (\E i \in Inst : ClaimsKeys(i) \/ FreesKeys(i)) \/ KeepsKeys
<1> USE DEF IInv
<1>1. ASSUME NEW i \in Inst, Create(i)
      PROVE  ClaimsKeys(i)
  BY <1>1 DEF Create, ClaimsKeys, Claim, KeysHeld
<1>2. ASSUME NEW i \in Inst, MakeEnv(i)
      PROVE  KeepsKeys
  BY <1>2 DEF MakeEnv, KeepsKeys, NobodyAdmitted, TypeOK
<1>3. ASSUME NEW i \in Inst, MakeFails(i)
      PROVE  FreesKeys(i)
  BY <1>3 DEF MakeFails, FreesKeys, NobodyAdmitted, TypeOK
<1>4. ASSUME NEW S, NEW o, PopAll(S, o)
      PROVE  KeepsKeys
  BY <1>4 DEF PopAll, KeepsKeys, NobodyAdmitted
<1>5. ASSUME NEW c \in Call, ResetFails(c)
      PROVE  KeepsKeys
  BY <1>5 DEF ResetFails, KeepsKeys, NobodyAdmitted, TypeOK
<1>6. ASSUME NEW i \in Inst, NEW o \in Origin,
             CloseEnv(i, o) \/ RestoreOk(i, o) \/ RestoreFails(i, o)
      PROVE  FreesKeys(i) \/ KeepsKeys
  <2>1. phase' = phase /\ phase[i] = "gone"
    BY <1>6 DEF CloseEnv, RestoreOk, RestoreFails, CloseAfterPop
  <2>2. Release(i) \/ UNCHANGED conflictVars
    BY <1>6 DEF CloseEnv, RestoreOk, RestoreFails
  <2>3. QED
    BY <2>1, <2>2 DEF FreesKeys, KeepsKeys, NobodyAdmitted
<1>7. ASSUME UNCHANGED <<conflictVars, phase>>
      PROVE  KeepsKeys
  BY <1>7 DEF KeepsKeys, NobodyAdmitted
<1>8. CASE \E i \in Inst : Create(i) \/ MakeEnv(i) \/ MakeFails(i) \/ Delete(i)
  BY <1>1, <1>2, <1>3, <1>4, <1>8 DEF Delete
<1>9. CASE \E c \in Call, i \in Inst : StartReset(c, i) \/ StartStep(c, i)
  BY <1>7, <1>9 DEF StartReset, StartStep
<1>10. CASE \E c \in Call :
             \/ EnterReset(c) \/ ResetOk(c) \/ ResetBusy(c) \/ ResetBackoff(c)
             \/ ResetAgain(c) \/ StepBackoff(c) \/ StepAgain(c) \/ StepReturns(c)
  BY <1>7, <1>10 DEF EnterReset, ResetOk, ResetBusy, ResetBackoff, ResetAgain, StepBackoff,
                     StepAgain, StepReturns
<1>11. CASE \E t \in Token, sessions \in {Session} \cup {{s} : s \in Session},
              envIds \in {EnvId} \cup {{e} : e \in EnvId} : BulkClose(t, sessions, envIds)
  BY <1>4, <1>11 DEF BulkClose
<1>12. CASE \E S \in SUBSET Inst : IdleReap(S) \/ DriftReap(S)
  BY <1>4, <1>12 DEF IdleReap, DriftReap
<1>13. CASE UNCHANGED vars
  BY <1>7, <1>13 DEF vars, serverVars
<1>14. QED
  BY <1>5, <1>6, <1>8, <1>9, <1>10, <1>11, <1>12, <1>13 DEF Next

\* A step keeps the table consistent and exclusive.
LEMMA TableStep ==
  ASSUME IInv, [Next]_vars
  PROVE  TableInv'
<1>1. ASSUME NEW i \in Inst, ClaimsKeys(i)
      PROVE  TableInv'
  <2>1. KeysOf[i] \in SUBSET Key /\ (i \in Mutating) \in BOOLEAN
    BY RequestAssumption
  <2>2. QED
    BY <1>1, <2>1, ClaimKeepsTableInv DEF IInv, ClaimsKeys
<1>2. ASSUME NEW i \in Inst, FreesKeys(i)
      PROVE  TableInv'
  BY <1>2, ReleaseKeepsTableInv DEF IInv, FreesKeys
<1>3. QED
  BY <1>1, <1>2, KeySteps, StutterKeepsTableInv DEF IInv, KeepsKeys

\* An instance holds its keys from its gate to its pop.
LEMMA KeysHeldStep ==
  ASSUME IInv, [Next]_vars
  PROVE  KeysHeld'
<1> USE DEF IInv, KeysHeld
<1>1. phase \in [Inst -> Phases] /\ holders \in [Inst -> Locks!Hold]
  BY DEF TypeOK, ConflictTypeOK
<1>2. ASSUME NEW i \in Inst, ClaimsKeys(i)
      PROVE  KeysHeld'
  <2>1. holders' = [holders EXCEPT ![i] = HoldOf(i)]
    BY <1>1, <1>2 DEF ClaimsKeys, Claim, TryAcquire, HoldOf, HoldOn
  <2>2. QED
    BY <1>1, <1>2, <2>1 DEF ClaimsKeys, HoldOf
<1>3. ASSUME NEW i \in Inst, FreesKeys(i)
      PROVE  KeysHeld'
  <2>1. holders' = [holders EXCEPT ![i] = NoHold]
    BY <1>3 DEF FreesKeys, Release
  <2>2. QED
    BY <1>1, <1>3, <2>1, LifeSteps DEF FreesKeys, NobodyAdmitted, LifeGoesOn, HoldOf
<1>4. CASE KeepsKeys
  BY <1>4, LifeSteps DEF KeepsKeys, NobodyAdmitted, LifeGoesOn, conflictVars, HoldOf
<1>5. QED
  BY <1>2, <1>3, <1>4, KeySteps
-----------------------------------------------------------------------------
(* The handlers, and the rest of the type invariant *)

\* The calls stay well typed, and a call is made on a live instance.
CallsGoOn ==
  /\ call' \in [Call -> [pc : CallPcs, inst : Inst \cup {NoInst}, attempt : Nat]]
  /\ \A c \in Call : call'[c].pc # "idle" =>
       /\ call'[c].inst \in Inst
       /\ \/ call[c].pc # "idle" /\ call[c].inst = call'[c].inst
          \/ phase[call'[c].inst] = "live"

\* What each action does to the calls.
LEMMA CallSteps ==
  ASSUME IInv, [Next]_vars
  PROVE  CallsGoOn
<1> USE DEF IInv, TypeOK
<1>1. ASSUME NEW c \in Call, NEW i \in Inst, StartReset(c, i) \/ StartStep(c, i)
      PROVE  CallsGoOn
  <2>1. phase[i] = "live"
    BY <1>1 DEF StartReset, StartStep
  <2>2. PICK pc \in CallPcs :
          call' = [call EXCEPT ![c] = [pc |-> pc, inst |-> i, attempt |-> 0]]
    BY <1>1 DEF StartReset, StartStep, CallPcs, InStep
  <2>3. QED
    BY <2>1, <2>2 DEF CallsGoOn
<1>2. ASSUME NEW c \in Call, call' = [call EXCEPT ![c] = IdleCall]
      PROVE  CallsGoOn
  BY <1>2 DEF IdleCall, CallsGoOn, CallPcs
<1>3. ASSUME NEW c \in Call, call[c].pc # "idle", NEW pc \in CallPcs, NEW n \in Nat,
             call' = [call EXCEPT ![c].pc = pc, ![c].attempt = n]
      PROVE  CallsGoOn
  <2>1. call' \in [Call -> [pc : CallPcs, inst : Inst \cup {NoInst}, attempt : Nat]]
    BY <1>3
  <2>2. \A d \in Call : call'[d].inst = call[d].inst /\ (d = c \/ call'[d].pc = call[d].pc)
    BY <1>3
  <2>3. QED
    BY <1>3, <2>1, <2>2 DEF CallsGoOn
<1>4. ASSUME UNCHANGED call
      PROVE  CallsGoOn
  BY <1>4 DEF CallsGoOn
<1>5. ASSUME NEW c \in Call,
             ResetOk(c) \/ ResetBusy(c) \/ ResetFails(c) \/ StepReturns(c)
      PROVE  CallsGoOn
  BY <1>2, <1>5 DEF ResetOk, ResetBusy, ResetFails, StepReturns, LeaveReset
<1>6. ASSUME NEW c \in Call, EnterReset(c) \/ ResetAgain(c) \/ StepAgain(c)
      PROVE  CallsGoOn
  <2>1. call[c].pc # "idle"
    BY <1>6 DEF EnterReset, ResetAgain, StepAgain
  <2>2. PICK pc \in CallPcs : call' = [call EXCEPT ![c].pc = pc]
    BY <1>6 DEF EnterReset, ResetAgain, StepAgain, CallPcs, InReset, InStep
  <2>3. call' \in [Call -> [pc : CallPcs, inst : Inst \cup {NoInst}, attempt : Nat]]
    BY <2>2
  <2>4. \A d \in Call : call'[d].inst = call[d].inst /\ (d = c \/ call'[d].pc = call[d].pc)
    BY <2>2
  <2>5. QED
    BY <2>1, <2>3, <2>4 DEF CallsGoOn
<1>7. ASSUME NEW c \in Call, ResetBackoff(c) \/ StepBackoff(c)
      PROVE  CallsGoOn
  <2>1. call[c].pc # "idle" /\ call[c].attempt + 1 \in Nat
    BY <1>7 DEF ResetBackoff, StepBackoff
  <2>2. PICK pc \in CallPcs : call' = [call EXCEPT ![c].pc = pc, ![c].attempt = @ + 1]
    BY <1>7 DEF ResetBackoff, StepBackoff, CallPcs, InReset, InStep
  <2>3. QED
    BY <1>3, <2>1, <2>2
<1>8. CASE \E i \in Inst : Create(i) \/ MakeEnv(i) \/ MakeFails(i) \/ Delete(i)
  BY <1>4, <1>8 DEF Create, MakeEnv, MakeFails, Delete, PopAll
<1>9. CASE \E t \in Token, sessions \in {Session} \cup {{s} : s \in Session},
             envIds \in {EnvId} \cup {{e} : e \in EnvId} : BulkClose(t, sessions, envIds)
  BY <1>4, <1>9 DEF BulkClose, PopAll
<1>10. CASE \E S \in SUBSET Inst : IdleReap(S) \/ DriftReap(S)
  BY <1>4, <1>10 DEF IdleReap, DriftReap, PopAll
<1>11. CASE \E i \in Inst, o \in Origin :
              CloseEnv(i, o) \/ RestoreOk(i, o) \/ RestoreFails(i, o)
  BY <1>4, <1>11 DEF CloseEnv, RestoreOk, RestoreFails
<1>12. CASE UNCHANGED vars
  BY <1>4, <1>12 DEF vars, serverVars
<1>13. QED
  BY <1>1, <1>5, <1>6, <1>7, <1>8, <1>9, <1>10, <1>11, <1>12 DEF Next

\* A handler still works on an instance that was registered.
LEMMA CallsOnRegisteredStep ==
  ASSUME IInv, [Next]_vars
  PROVE  CallsOnRegistered'
<1> SUFFICES ASSUME NEW c \in Call, call'[c].pc # "idle"
             PROVE  phase'[call'[c].inst] \in {"live", "gone"}
  BY DEF CallsOnRegistered
<1>1. call'[c].inst \in Inst /\ phase[call'[c].inst] \in {"live", "gone"}
  BY CallSteps DEF CallsGoOn, IInv, CallsOnRegistered
<1>2. QED
  BY <1>1, LifeSteps DEF LifeGoesOn

\* What the env code leaves behind is named by keys and instances.
LEMMA TraceTypes ==
  ASSUME IInv, [Next]_vars
  PROVE  resetDone' \subseteq Inst /\ dirty' \subseteq Key /\ restoreFailed' \subseteq Inst
<1> USE DEF IInv, TypeOK
<1>1. \A i \in Inst : KeysOf[i] \subseteq Key /\ Touches(i) \subseteq Key
  BY RequestAssumption DEF Touches
<1>2. ASSUME UNCHANGED <<resetDone, dirty, restoreFailed>>
      PROVE  resetDone' \subseteq Inst /\ dirty' \subseteq Key /\ restoreFailed' \subseteq Inst
  BY <1>2
<1>3. CASE \E i \in Inst : Create(i) \/ MakeEnv(i) \/ MakeFails(i) \/ Delete(i)
  BY <1>2, <1>3 DEF Create, MakeEnv, MakeFails, Delete, PopAll
<1>4. CASE \E t \in Token, sessions \in {Session} \cup {{s} : s \in Session},
             envIds \in {EnvId} \cup {{e} : e \in EnvId} : BulkClose(t, sessions, envIds)
  BY <1>2, <1>4 DEF BulkClose, PopAll
<1>5. CASE \E S \in SUBSET Inst : IdleReap(S) \/ DriftReap(S)
  BY <1>2, <1>5 DEF IdleReap, DriftReap, PopAll
<1>6. CASE \E c \in Call, i \in Inst : StartReset(c, i) \/ StartStep(c, i)
  BY <1>1, <1>6 DEF StartReset, StartStep
<1>7. CASE \E c \in Call :
             \/ EnterReset(c) \/ ResetOk(c) \/ ResetBusy(c) \/ ResetFails(c)
             \/ ResetBackoff(c) \/ ResetAgain(c) \/ StepAgain(c) \/ StepReturns(c)
  BY <1>1, <1>7 DEF EnterReset, ResetOk, ResetBusy, ResetFails, ResetBackoff, ResetAgain,
                    StepAgain, StepReturns
<1>8. CASE \E c \in Call : StepBackoff(c)
  BY <1>2, <1>8 DEF StepBackoff
<1>9. CASE \E i \in Inst, o \in Origin :
             CloseEnv(i, o) \/ RestoreOk(i, o) \/ RestoreFails(i, o)
  BY <1>1, <1>9 DEF CloseEnv, RestoreOk, RestoreFails
<1>10. CASE UNCHANGED vars
  BY <1>2, <1>10 DEF vars, serverVars
<1>11. QED
  BY <1>3, <1>4, <1>5, <1>6, <1>7, <1>8, <1>9, <1>10 DEF Next

-----------------------------------------------------------------------------
(* The inductive invariant *)

\* It holds when the server starts.
LEMMA InitIInv == Init => IInv
<1> SUFFICES ASSUME Init PROVE IInv
  OBVIOUS
<1> USE DEF Init
<1>1. TableInv
  BY InitTableInv
<1>2. Admitted = {} /\ (\A i : CallsIn(i) = {}) /\ (\A e : ResetsOf(e) = {})
  BY DEF Admitted, CallsIn, Inside, ResetsOf, InReset, InStep, IdleCall
<1>3. SlotsAccounted /\ NeverOverAdmitted /\ InFlightCountsCalls /\ PermitsAccounted
  BY <1>2, FS_EmptySet, LimitAssumption
  DEF SlotsAccounted, NeverOverAdmitted, InFlightCountsCalls, PermitsAccounted
<1>4. TypeOK
  BY <1>1, LimitAssumption
  DEF TableInv, TypeOK, Phases, CallPcs, IdleCall, Stages
<1>5. KeysHeld /\ CloseAfterPop /\ CallsOnRegistered
  BY DEF KeysHeld, CloseAfterPop, CallsOnRegistered, ConflictInit, IdleCall
<1>6. QED
  BY <1>1, <1>3, <1>4, <1>5 DEF IInv

\* Every step keeps it.
LEMMA StepIInv == IInv /\ [Next]_vars => IInv'
<1> SUFFICES ASSUME IInv, [Next]_vars PROVE IInv'
  OBVIOUS
<1>1. TypeOK'
  BY TableStep, LifeSteps, SlotsStep, BusyStep, PermitsStep, CallSteps, TraceTypes
  DEF TypeOK, TableInv, LifeGoesOn, CallsGoOn
<1>2. QED
  BY <1>1, TableStep, KeysHeldStep, CloseAfterPopStep, CallsOnRegisteredStep, SlotsStep,
     BusyStep, PermitsStep
  DEF IInv

\* The inductive invariant holds in every reachable state of the server.
THEOREM ServerInvariant == Spec => []IInv
  BY InitIInv, StepIInv, PTL DEF Spec

\* The server's state is always well typed: no counter goes below zero, however
\* deletes, sweeps, failed creates and failed resets race.
THEOREM ServerTypeOK == Spec => []TypeOK
<1>1. IInv => TypeOK
  BY DEF IInv
<1>2. QED
  BY <1>1, ServerInvariant, PTL

\* The admission slot of every instance is returned exactly once, and no more
\* than max_live_envs instances are admitted.
THEOREM AdmissionIsExact == Spec => [](SlotsAccounted /\ NeverOverAdmitted)
<1>1. IInv => SlotsAccounted /\ NeverOverAdmitted
  BY DEF IInv
<1>2. QED
  BY <1>1, ServerInvariant, PTL

\* in_flight is the number of handlers inside an env.
THEOREM CallsAreCounted == Spec => []InFlightCountsCalls
<1>1. IInv => InFlightCountsCalls
  BY DEF IInv
<1>2. QED
  BY <1>1, ServerInvariant, PTL

\* No permit of a reset semaphore is lost or doubled, whichever way a reset
\* that holds one ends.
THEOREM PermitsAreExact == Spec => []PermitsAccounted
<1>1. IInv => PermitsAccounted
  BY DEF IInv
<1>2. QED
  BY <1>1, ServerInvariant, PTL

\* Two admitted instances that share a key are both readers of it.
THEOREM LiveIsolation == Spec => []LiveInstancesIsolated
<1>1. IInv => LiveInstancesIsolated
  BY DEF IInv, TableInv, KeysHeld, ReadersWriterExclusion, LiveInstancesIsolated, Admitted
<1>2. QED
  BY <1>1, ServerInvariant, PTL

\* Seen through its conflict table the server makes no step but those of the
\* table: it claims once for each instance id, and all else it does is release.
THEOREM ServerDrivesTable == Spec => ConflictSpec
<1>1. ASSUME IInv, [Next]_vars
      PROVE  [ConflictNext]_conflictVars
  <2>1. ASSUME NEW i \in Inst, ClaimsKeys(i)
        PROVE  ConflictNext
    <3>1. KeysOf[i] \in SUBSET Key /\ (i \in Mutating) \in BOOLEAN
      BY RequestAssumption
    <3>2. QED
      BY <2>1, <3>1 DEF ClaimsKeys, ConflictNext
  <2>2. ASSUME NEW i \in Inst, FreesKeys(i)
        PROVE  ConflictNext
    BY <2>2 DEF FreesKeys, ConflictNext
  <2>3. QED
    BY <1>1, <2>1, <2>2, KeySteps DEF KeepsKeys
<1>2. Init => ConflictInit
  BY DEF Init
<1>3. QED
  BY <1>1, <1>2, ServerInvariant, PTL DEF Spec, ConflictSpec

\* The instances of a server hold their keys like readers and writers of one
\* lock, through every close, sweep and failed restore.
THEOREM ServerImplementsReadersWriter == Spec => ImplementsReadersWriter
BY ServerDrivesTable, TableImplementsReadersWriter

\* A sweep closes no instance with a handler inside its env.
THEOREM SweepsAreSafe == Spec => SweepsSpareBusy
<1>1. ASSUME IInv, [Next]_vars, NEW i \in Inst, NEW o \in Sweeps \ {"delete"},
             closer[i][o] = "none", closer'[i][o] # "none"
      PROVE  CallsIn(i) = {}
  <2>1. closer \in [Inst -> [Origin -> Stages]]
    BY <1>1 DEF IInv, TypeOK
  <2>2. busy[i] = 0
    <3>1. ASSUME NEW S \in SUBSET Evictable, NEW q, PopAll(S, q)
          PROVE  busy[i] = 0
      BY <1>1, <2>1, <3>1 DEF PopAll, Evictable
    <3>2. ASSUME NEW j \in Inst, Delete(j)
          PROVE  FALSE
      BY <1>1, <2>1, <3>2 DEF Delete, PopAll
    <3>3. ASSUME NEW c \in Call, ResetFails(c)
          PROVE  FALSE
      BY <1>1, <2>1, <3>3, OriginAssumption DEF ResetFails
    <3>4. ASSUME NEW j \in Inst, NEW q \in Origin,
                 CloseEnv(j, q) \/ RestoreOk(j, q) \/ RestoreFails(j, q)
          PROVE  FALSE
      <4>1. PICK stage \in Stages : closer' = [closer EXCEPT ![j][q] = stage]
        BY <3>4 DEF CloseEnv, RestoreOk, RestoreFails, Close, Stages
      <4>2. closer[j][q] # "none"
        BY <3>4 DEF CloseEnv, RestoreOk, RestoreFails
      <4>3. QED
        BY <1>1, <2>1, <4>1, <4>2
    <3>5. closer' # closer
      BY <1>1
    <3>6. CASE \E j \in Inst : Create(j) \/ MakeEnv(j) \/ MakeFails(j)
      BY <3>5, <3>6 DEF Create, MakeEnv, MakeFails
    <3>7. CASE \E c \in Call, j \in Inst : StartReset(c, j) \/ StartStep(c, j)
      BY <3>5, <3>7 DEF StartReset, StartStep
    <3>8. CASE \E c \in Call :
                 \/ EnterReset(c) \/ ResetOk(c) \/ ResetBusy(c) \/ ResetBackoff(c)
                 \/ ResetAgain(c) \/ StepBackoff(c) \/ StepAgain(c) \/ StepReturns(c)
      BY <3>5, <3>8 DEF EnterReset, ResetOk, ResetBusy, ResetBackoff, ResetAgain,
                        StepBackoff, StepAgain, StepReturns
    <3>9. CASE \E t \in Token, sessions \in {Session} \cup {{s} : s \in Session},
                 envIds \in {EnvId} \cup {{e} : e \in EnvId} : BulkClose(t, sessions, envIds)
      BY <3>1, <3>9 DEF BulkClose
    <3>10. CASE \E S \in SUBSET Inst : IdleReap(S) \/ DriftReap(S)
      BY <3>1, <3>10 DEF IdleReap, DriftReap
    <3>11. CASE UNCHANGED vars
      BY <3>5, <3>11 DEF vars, serverVars
    <3>12. QED
      BY <1>1, <3>2, <3>3, <3>4, <3>6, <3>7, <3>8, <3>9, <3>10, <3>11 DEF Next
  <2>3. Cardinality(CallsIn(i)) = 0
    BY <1>1, <2>2 DEF IInv, InFlightCountsCalls
  <2>4. QED
    BY <2>3, CountedSetsAreFinite, FS_EmptySet
<1>2. IInv /\ [Next]_vars =>
        [\A i \in Inst, o \in Sweeps \ {"delete"} :
           closer[i][o] = "none" /\ closer'[i][o] # "none" => CallsIn(i) = {}]_vars
  BY <1>1
<1>3. QED
  BY <1>2, ServerInvariant, PTL DEF Spec, SweepsSpareBusy
-----------------------------------------------------------------------------
(* The closes of an instance, and what they owe it.  This holds under every   *)
(* fault: of several closes of one instance, any may be the one to return its *)
(* keys.                                                                      *)

Closing(i)   == \E o \in Origin : closer[i][o] = "closing"
Restoring(i) == \E o \in Origin : closer[i][o] = "restoring"

\* No path out of the registry forgets the keys: they are back, or somebody is
\* on the way to return them.
NoKeyLeaks == \A i \in Inst : phase[i] = "gone" => KeysBack(i) \/ Closing(i) \/ Restoring(i)

\* A handler that spawned a close of an instance is done with it, so it spawns
\* no second one.
OwnClose == \A i \in Inst, c \in Call : closer[i][c] # "none" => ~On(c, i)

CloseInv == NoKeyLeaks /\ OwnClose

CloseRuns(i, o) == CloseEnv(i, o) \/ RestoreOk(i, o) \/ RestoreFails(i, o)

\* The rest of what a step can be: nobody is popped, and who goes without a
\* close returns its keys at once.
NoCloseMoves ==
  /\ UNCHANGED <<closer, restoreFailed>>
  /\ \A i \in Inst : /\ phase[i] = "gone" => holders'[i] = holders[i]
                     /\ phase'[i] = "gone" /\ phase[i] # "gone" => holders'[i] = NoHold

\* Each step pops some instances, fails a reset, runs a close or is none of these.
LEMMA CloseKinds ==
  ASSUME IInv, [Next]_vars
  PROVE  \/ \E S \in SUBSET Envs, o \in Sweeps : PopAll(S, o)
         \/ \E c \in Call : ResetFails(c)
         \/ \E i \in Inst, o \in Origin : CloseRuns(i, o)
         \/ NoCloseMoves
<1> USE DEF IInv, TypeOK, ConflictTypeOK
<1>1. ASSUME NEW i \in Inst, Create(i)
      PROVE  NoCloseMoves
  <2>1. \A j \in Inst \ {i} : holders'[j] = holders[j]
    BY <1>1 DEF Create, TryAcquire
  <2>2. QED
    BY <1>1, <2>1 DEF Create, NoCloseMoves
<1>2. ASSUME NEW i \in Inst, MakeEnv(i)
      PROVE  NoCloseMoves
  BY <1>2 DEF MakeEnv, NoCloseMoves, conflictVars
<1>3. ASSUME NEW i \in Inst, MakeFails(i)
      PROVE  NoCloseMoves
  <2>1. holders' = [holders EXCEPT ![i] = NoHold]
    BY <1>3 DEF MakeFails, Release
  <2>2. QED
    BY <1>3, <2>1 DEF MakeFails, NoCloseMoves
<1>4. ASSUME NEW i \in Inst, Delete(i)
      PROVE  \E S \in SUBSET Envs, o \in Sweeps : PopAll(S, o)
  BY <1>4 DEF Delete, Envs, Sweeps
<1>5. ASSUME UNCHANGED <<closer, restoreFailed, phase, holders>>
      PROVE  NoCloseMoves
  BY <1>5 DEF NoCloseMoves
<1>6. CASE \E c \in Call, i \in Inst : StartReset(c, i) \/ StartStep(c, i)
  BY <1>5, <1>6 DEF StartReset, StartStep, conflictVars
<1>7. CASE \E c \in Call :
             \/ EnterReset(c) \/ ResetOk(c) \/ ResetBusy(c) \/ ResetBackoff(c)
             \/ ResetAgain(c) \/ StepBackoff(c) \/ StepAgain(c) \/ StepReturns(c)
  BY <1>5, <1>7 DEF EnterReset, ResetOk, ResetBusy, ResetBackoff, ResetAgain, StepBackoff,
                    StepAgain, StepReturns, conflictVars
<1>8. CASE \E t \in Token, sessions \in {Session} \cup {{s} : s \in Session},
             envIds \in {EnvId} \cup {{e} : e \in EnvId} : BulkClose(t, sessions, envIds)
  BY <1>8 DEF BulkClose, Evictable, Sweeps
<1>9. CASE \E S \in SUBSET Inst : IdleReap(S) \/ DriftReap(S)
  BY <1>9 DEF IdleReap, DriftReap, Evictable, Sweeps
<1>10. CASE UNCHANGED vars
  BY <1>5, <1>10 DEF vars, serverVars, conflictVars
<1>11. QED
  BY <1>1, <1>2, <1>3, <1>4, <1>6, <1>7, <1>8, <1>9, <1>10 DEF Next, CloseRuns

\* A close under way gets on, or its instance has its keys back; and a gone
\* instance does not lose them again.
CloseGoesOn(i) ==
  /\ phase'[i] = "gone" /\ (KeysBack(i) => KeysBack(i)')
  /\ Closing(i) => (Closing(i) \/ Restoring(i) \/ KeysBack(i))'
  /\ Restoring(i) => (Restoring(i) \/ KeysBack(i))'

\* No step takes a gone instance further from having its keys back.
LEMMA CloseSteps ==
  ASSUME IInv, CloseInv, [Next]_vars, NEW i \in Inst, phase[i] = "gone"
  PROVE  CloseGoesOn(i)
<1> USE DEF CloseGoesOn, KeysBack, Closing, Restoring
<1>1. phase'[i] = "gone"
  BY LifeSteps DEF LifeGoesOn
<1>2. closer \in [Inst -> [Origin -> Stages]] /\ holders \in [Inst -> Locks!Hold]
  BY DEF IInv, TypeOK, ConflictTypeOK
<1>3. ASSUME NEW S \in SUBSET Envs, NEW o \in Sweeps, PopAll(S, o)
      PROVE  CloseGoesOn(i)
  <2>1. closer'[i] = closer[i] /\ holders' = holders /\ restoreFailed' = restoreFailed
    BY <1>3 DEF PopAll, Envs, conflictVars
  <2>2. QED
    BY <1>1, <2>1
<1>4. ASSUME NEW c \in Call, ResetFails(c)
      PROVE  CloseGoesOn(i)
  <2>1. /\ holders' = holders /\ restoreFailed' = restoreFailed
        /\ closer' = [closer EXCEPT ![call[c].inst][c] = "closing"]
    BY <1>4 DEF ResetFails, conflictVars
  <2>2. closer[i][c] = "none" \/ closer'[i][c] = closer[i][c]
    BY <1>2, <1>4, <2>1 DEF CloseInv, OwnClose, On, ResetFails
  <2>3. \A o \in Origin \ {c} : closer'[i][o] = closer[i][o]
    BY <1>2, <2>1
  <2>4. QED
    BY <1>1, <2>1, <2>2, <2>3
<1>5. ASSUME NEW j \in Inst, NEW o \in Origin, CloseRuns(j, o)
      PROVE  CloseGoesOn(i)
  <2>1. \/ /\ closer[j][o] = "closing" /\ closer' = [closer EXCEPT ![j][o] = "restoring"]
           /\ holders' = holders /\ restoreFailed' = restoreFailed
        \/ /\ closer' = [closer EXCEPT ![j][o] = "done"]
           /\ holders' = [holders EXCEPT ![j] = NoHold] /\ restoreFailed' = restoreFailed
        \/ /\ closer' = [closer EXCEPT ![j][o] = "done"]
           /\ holders' = holders /\ restoreFailed' = restoreFailed \cup {j}
    BY <1>5 DEF CloseRuns, CloseEnv, RestoreOk, RestoreFails, Close, Release, conflictVars
  <2>2. CASE i = j
    BY <1>1, <1>2, <2>1, <2>2
  <2>3. CASE i # j
    <3>1. closer'[i] = closer[i] /\ holders'[i] = holders[i] /\ restoreFailed \subseteq restoreFailed'
      BY <1>2, <2>1, <2>3
    <3>2. QED
      BY <1>1, <3>1
  <2>4. QED
    BY <2>2, <2>3
<1>6. CASE NoCloseMoves
  BY <1>1, <1>6 DEF NoCloseMoves
<1>7. QED
  BY <1>3, <1>4, <1>5, <1>6, CloseKinds

\* No step loses keys.
LEMMA CloseInvStep ==
  ASSUME IInv, CloseInv, [Next]_vars
  PROVE  CloseInv'
<1>1. closer \in [Inst -> [Origin -> Stages]] /\ phase \in [Inst -> Phases] /\ Call \subseteq Origin
  BY DEF IInv, TypeOK, Origin
<1>2. ASSUME NEW i \in Inst, phase'[i] = "gone"
      PROVE  (KeysBack(i) \/ Closing(i) \/ Restoring(i))'
  <2> USE DEF KeysBack, Closing, Restoring
  <2>1. CASE phase[i] = "gone"
    BY <2>1, CloseSteps DEF CloseInv, NoKeyLeaks, CloseGoesOn
  <2>2. CASE phase[i] # "gone"
    <3>1. ASSUME NEW S \in SUBSET Envs, NEW o \in Sweeps, PopAll(S, o)
          PROVE  Closing(i)'
      BY <1>1, <1>2, <2>2, <3>1 DEF PopAll, Origin
    <3>2. ASSUME NEW c \in Call, ResetFails(c)
          PROVE  Closing(i)'
      BY <1>1, <1>2, <2>2, <3>2 DEF ResetFails
    <3>3. ASSUME NEW j \in Inst, NEW o \in Origin, CloseRuns(j, o)
          PROVE  FALSE
      BY <1>2, <2>2, <3>3 DEF CloseRuns, CloseEnv, RestoreOk, RestoreFails
    <3>4. CASE NoCloseMoves
      BY <1>2, <2>2, <3>4 DEF NoCloseMoves
    <3>5. QED
      BY <3>1, <3>2, <3>3, <3>4, CloseKinds
  <2>3. QED
    BY <2>1, <2>2
<1>3. ASSUME NEW i \in Inst, NEW c \in Call, closer'[i][c] # "none", On(c, i)'
      PROVE  FALSE
  <2>0. call \in [Call -> [pc : CallPcs, inst : Inst \cup {NoInst}, attempt : Nat]]
    BY DEF IInv, TypeOK
  <2>1. CASE closer[i][c] # "none"
    <3>1. phase[i] = "gone" /\ ~On(c, i)
      BY <1>1, <2>1 DEF IInv, CloseAfterPop, CloseInv, OwnClose
    <3>2. QED
      BY <1>3, <3>1, CallSteps DEF CallsGoOn, On
  <2>2. CASE closer[i][c] = "none"
    <3>1. ASSUME NEW S \in SUBSET Envs, NEW o \in Sweeps, PopAll(S, o)
          PROVE  FALSE
      <4>1. o # c
        BY OriginAssumption
      <4>2. QED
        BY <1>1, <1>3, <2>2, <3>1, <4>1 DEF PopAll
    <3>2. ASSUME NEW d \in Call, ResetFails(d)
          PROVE  FALSE
      <4>1. closer' = [closer EXCEPT ![call[d].inst][d] = "closing"]
            /\ call' = [call EXCEPT ![d] = IdleCall]
        BY <3>2 DEF ResetFails, LeaveReset
      <4>2. d = c
        BY <1>1, <1>3, <2>2, <4>1
      <4>3. QED
        BY <1>3, <2>0, <4>1, <4>2 DEF On, IdleCall
    <3>3. ASSUME NEW j \in Inst, NEW o \in Origin, CloseRuns(j, o)
          PROVE  FALSE
      <4>1. PICK stage \in Stages : closer' = [closer EXCEPT ![j][o] = stage]
        BY <3>3 DEF CloseRuns, CloseEnv, RestoreOk, RestoreFails, Close, Stages
      <4>2. closer[j][o] # "none"
        BY <3>3 DEF CloseRuns, CloseEnv, RestoreOk, RestoreFails
      <4>3. QED
        BY <1>1, <1>3, <2>2, <4>1, <4>2
    <3>4. CASE NoCloseMoves
      BY <1>3, <2>2, <3>4 DEF NoCloseMoves
    <3>5. QED
      BY <3>1, <3>2, <3>3, <3>4, CloseKinds
  <2>3. QED
    BY <2>1, <2>2
<1>4. QED
  BY <1>2, <1>3 DEF CloseInv, NoKeyLeaks, OwnClose

\* A gone instance always has its close, its keys or a failed restore.
LEMMA CloseInvariant == Spec => []CloseInv
<1>1. Init => CloseInv
  BY DEF Init, CloseInv, NoKeyLeaks, OwnClose, On, IdleCall
<1>2. IInv /\ CloseInv /\ [Next]_vars => CloseInv'
  BY CloseInvStep
<1>3. QED
  BY <1>1, <1>2, ServerInvariant, PTL DEF Spec

\* Whatever way an instance ends, under every fault and every race of closers,
\* its keys are back, its restore has failed, or a close is on its way to it.
THEOREM KeysAreNotLeaked == Spec => []NoKeyLeaks
<1>1. CloseInv => NoKeyLeaks
  BY DEF CloseInv
<1>2. QED
  BY <1>1, CloseInvariant, PTL

\* ENABLED is opaque to the provers: that a close under way can get on is a
\* hypothesis.
CanClose(i) ==
  /\ Closing(i) => ENABLED <<\E o \in Origin : CloseEnv(i, o)>>_vars
  /\ Restoring(i) => ENABLED <<\E o \in Origin : RestoreOk(i, o) \/ RestoreFails(i, o)>>_vars

ClosesCanRun == \A i \in Inst : CanClose(i)

\* The keys of one instance, once its closes can run.
LEMMA KeysReturn ==
  ASSUME NEW i \in Inst
  PROVE  Spec /\ FairClose(i) /\ []CanClose(i) => Returns(i)
<1> DEFINE Owed == phase[i] = "gone" /\ Closing(i)
           Dirty == phase[i] = "gone" /\ Restoring(i)
<1>1. IInv /\ CloseInv /\ Owed /\ [Next]_vars => (Owed \/ Dirty \/ KeysBack(i))'
  BY CloseSteps DEF CloseGoesOn
<1>2. IInv /\ CloseInv /\ Dirty /\ [Next]_vars => (Dirty \/ KeysBack(i))'
  BY CloseSteps DEF CloseGoesOn
<1>3. ASSUME IInv, NEW o \in Origin, CloseEnv(i, o), phase[i] = "gone"
      PROVE  (Dirty \/ KeysBack(i))'
  BY <1>3 DEF IInv, TypeOK, ConflictTypeOK, CloseEnv, Close, Release, KeysBack, Restoring
<1>4. ASSUME IInv, NEW o \in Origin, RestoreOk(i, o) \/ RestoreFails(i, o)
      PROVE  KeysBack(i)'
  BY <1>4 DEF IInv, TypeOK, ConflictTypeOK, RestoreOk, RestoreFails, Release, KeysBack
<1>5. IInv /\ Owed /\ <<\E o \in Origin : CloseEnv(i, o)>>_vars => (Dirty \/ KeysBack(i))'
  BY <1>3
<1>6. IInv /\ Dirty /\ <<\E o \in Origin : RestoreOk(i, o) \/ RestoreFails(i, o)>>_vars => KeysBack(i)'
  BY <1>4
<1>7. CloseInv /\ phase[i] = "gone" => KeysBack(i) \/ Owed \/ Dirty
  BY DEF CloseInv, NoKeyLeaks
<1>8. (Owed => Closing(i)) /\ (Dirty => Restoring(i))
  OBVIOUS
<1> HIDE DEF Owed, Dirty
<1>9. QED
  BY <1>1, <1>2, <1>5, <1>6, <1>7, <1>8, ServerInvariant, CloseInvariant, PTL
     DEF Spec, FairClose, CanClose, Returns

\* Whatever way an instance ends - a failed create, a failed reset, a delete, a
\* sweep, or several of them - its keys come back or its restore has failed.
THEOREM AllKeysComeBack == FairSpec /\ []ClosesCanRun => KeysComeBack
<1>1. ASSUME NEW i \in Inst
      PROVE  FairSpec /\ []ClosesCanRun => Returns(i)
  <2>1. Spec /\ FairClose(i) /\ []CanClose(i) => Returns(i)
    BY KeysReturn, Zenon
  <2>2. Fairness => FairClose(i)
    BY Zenon DEF Fairness
  <2>3. ClosesCanRun => CanClose(i)
    BY Zenon DEF ClosesCanRun
  <2>4. QED
    BY <2>1, <2>2, <2>3, PTL DEF FairSpec
<1>2. (\A i \in Inst : FairSpec /\ []ClosesCanRun => Returns(i))
         => (FairSpec /\ []ClosesCanRun => \A i \in Inst : Returns(i))
  BY Zenon
<1>3. QED
  BY <1>1, <1>2, Zenon DEF KeysComeBack
-----------------------------------------------------------------------------
(***************************************************************************)
(* The conflict gate end to end, on a server whose clients neither abandon *)
(* nor re-send a call and whose sweeps find no queued reset (Faults = {}): *)
(* there an instance is popped once, by one closer, and with no call on    *)
(* it, so what a close releases is still the instance's own.               *)
(***************************************************************************)
OneCall ==
  \A c, d \in Call : c # d /\ call[c].pc # "idle" /\ call[d].pc # "idle"
    => call[c].inst # call[d].inst

CallsOnLive == \A c \in Call : call[c].pc # "idle" => phase[call[c].inst] = "live"

OneClose ==
  \A i \in Inst, o, q \in Origin : closer[i][o] # "none" /\ closer[i][q] # "none" => o = q

ClosesHold ==
  \A i \in Inst, o \in Origin : closer[i][o] \in {"closing", "restoring"} => holders[i] = HoldOf(i)

FailedHolds ==
  \A i \in restoreFailed : /\ holders[i] = HoldOf(i)
                           /\ \E o \in Origin : closer[i][o] = "done"

\* Every dirty key is still held by a writer whose env has run.
Dirties(i, k) ==
  /\ i \in Mutating /\ k \in KeysOf[i]
  /\ phase[i] \in {"live", "gone"} /\ holders[i] = HoldOf(i)
DirtyHeld == \A k \in dirty : \E i \in Inst : Dirties(i, k)

Orderly ==
  /\ OneCall /\ CallsOnLive /\ OneClose
  /\ ClosesHold /\ FailedHolds /\ DirtyHeld

LEMMA InitOrderly == Init => Orderly
BY DEF Init, Orderly, OneCall, CallsOnLive, OneClose, ClosesHold, FailedHolds, DirtyHeld, IdleCall

\* What its writer is recorded to hold.
LEMMA DirtiesHold ==
  ASSUME NEW i \in Inst, NEW k, Dirties(i, k)
  PROVE  k \in holders[i].keys /\ holders[i].mutating
<1>1. (i \in Mutating) = TRUE
  BY DEF Dirties
<1>2. KeysOf[i] # {} /\ k \in KeysOf[i] /\ holders[i] = HoldOn(KeysOf[i], TRUE)
  BY <1>1 DEF Dirties, HoldOf
<1>3. holders[i] = [keys |-> KeysOf[i], mutating |-> TRUE]
  BY <1>2 DEF HoldOn
<1>4. holders[i].keys = KeysOf[i]
  BY <1>3
<1>5. holders[i].mutating = TRUE
  BY <1>3
<1>6. holders[i].mutating
  BY <1>5, Zenon
<1>7. QED
  BY <1>2, <1>4, <1>6

-----------------------------------------------------------------------------
(* Steps of handlers *)

\* Code of a live instance runs and may touch its keys.
LEMMA LiveTouches ==
  ASSUME IInv, Orderly, NEW i \in Inst, phase[i] = "live",
         dirty' \in {dirty, dirty \cup Touches(i)}, UNCHANGED conflictVars,
         \A j \in Inst : phase[j] \in {"live", "gone"} => phase'[j] \in {"live", "gone"}
  PROVE  DirtyHeld'
<1> SUFFICES ASSUME NEW k \in dirty' PROVE \E j \in Inst : Dirties(j, k)'
  BY DEF DirtyHeld
<1>1. CASE k \in dirty
  <2>1. PICK j \in Inst : Dirties(j, k)
    BY <1>1 DEF Orderly, DirtyHeld
  <2>2. QED
    BY <2>1 DEF Dirties, conflictVars, HoldOf
<1>2. CASE k \in Touches(i)
  <2>1. i \in Mutating /\ k \in KeysOf[i]
    BY <1>2 DEF Touches
  <2>2. holders[i] = HoldOf(i)
    BY DEF IInv, KeysHeld
  <2>3. QED
    BY <2>1, <2>2 DEF Dirties, conflictVars, HoldOf
<1>3. QED
  BY <1>1, <1>2

\* A handler begins, goes on or ends on a live instance nobody else is on.
LEMMA HandlerMoves ==
  ASSUME IInv, Orderly, NEW c \in Call, NEW i \in Inst, phase[i] = "live",
         UNCHANGED <<conflictVars, phase, closer, restoreFailed>>,
         dirty' \in {dirty, dirty \cup Touches(i)},
         \A d \in Call \ {c} : call'[d] = call[d] /\ ~On(d, i),
         call'[c].pc = "idle" \/ call'[c].inst = i
  PROVE  Orderly'
<1>1. OneCall' /\ CallsOnLive'
  BY DEF Orderly, OneCall, CallsOnLive, On
<1>2. OneClose' /\ ClosesHold' /\ FailedHolds'
  BY DEF Orderly, OneClose, ClosesHold, FailedHolds, conflictVars, HoldOf
<1>3. DirtyHeld'
  BY LiveTouches
<1>4. QED
  BY <1>1, <1>2, <1>3 DEF Orderly

LEMMA HandlerSteps ==
  ASSUME IInv, Orderly, Faults = {}, NEW c \in Call,
         \/ \E i \in Inst : StartReset(c, i) \/ StartStep(c, i)
         \/ EnterReset(c) \/ ResetOk(c) \/ ResetBusy(c) \/ ResetBackoff(c) \/ ResetAgain(c)
         \/ StepBackoff(c) \/ StepAgain(c) \/ StepReturns(c)
  PROVE  Orderly'
<1>0. call \in [Call -> [pc : CallPcs, inst : Inst \cup {NoInst}, attempt : Nat]]
  BY DEF IInv, TypeOK
<1>1. ASSUME NEW i \in Inst, StartReset(c, i) \/ StartStep(c, i) PROVE Orderly'
  <2>1. /\ phase[i] = "live" /\ \A d \in Call : ~On(d, i)
        /\ dirty' \in {dirty, dirty \cup Touches(i)}
        /\ UNCHANGED <<conflictVars, phase, closer, restoreFailed>>
    BY <1>1 DEF StartReset, StartStep, Quiet
  <2>2. call'[c].inst = i /\ \A d \in Call \ {c} : call'[d] = call[d]
    BY <1>0, <1>1 DEF StartReset, StartStep
  <2>3. QED
    BY <2>1, <2>2, HandlerMoves
<1>2. ASSUME \/ EnterReset(c) \/ ResetOk(c) \/ ResetBusy(c) \/ ResetBackoff(c) \/ ResetAgain(c)
             \/ StepBackoff(c) \/ StepAgain(c) \/ StepReturns(c)
      PROVE  Orderly'
  <2> DEFINE i == call[c].inst
  <2>1. call[c].pc # "idle"
    BY <1>2 DEF EnterReset, ResetOk, ResetBusy, ResetBackoff, ResetAgain, StepBackoff, StepAgain,
                StepReturns
  <2>2. i \in Inst /\ phase[i] = "live" /\ \A d \in Call \ {c} : ~On(d, i)
    BY <2>1 DEF IInv, TypeOK, Orderly, CallsOnLive, OneCall, On
  <2>3. /\ dirty' \in {dirty, dirty \cup Touches(i)}
        /\ UNCHANGED <<conflictVars, phase, closer, restoreFailed>>
    BY <1>2 DEF EnterReset, ResetOk, ResetBusy, ResetBackoff, ResetAgain, StepBackoff, StepAgain,
                StepReturns
  <2>4. /\ \A d \in Call \ {c} : call'[d] = call[d]
        /\ call'[c].pc = "idle" \/ call'[c].inst = i
    <3>1. CASE EnterReset(c) \/ ResetAgain(c) \/ StepAgain(c)
      BY <1>0, <3>1 DEF EnterReset, ResetAgain, StepAgain
    <3>2. CASE ResetBackoff(c) \/ StepBackoff(c)
      BY <1>0, <3>2 DEF ResetBackoff, StepBackoff
    <3>3. CASE ResetOk(c) \/ ResetBusy(c) \/ StepReturns(c)
      <4>1. call' = [call EXCEPT ![c] = IdleCall]
        BY <3>3 DEF ResetOk, ResetBusy, StepReturns, LeaveReset
      <4>2. QED
        BY <1>0, <4>1 DEF IdleCall
    <3>4. QED
      BY <1>2, <3>1, <3>2, <3>3
  <2> HIDE DEF i
  <2>5. QED
    BY <2>2, <2>3, <2>4, HandlerMoves
<1>3. QED
  BY <1>1, <1>2

-----------------------------------------------------------------------------
(* Pops *)

\* Live instances that nobody is on, or that their last call leaves, are popped
\* and get their one closer.
LEMMA Pops ==
  ASSUME IInv, Orderly, NEW S \in SUBSET Envs, NEW o \in Origin,
         \A i \in Inst : phase'[i] = IF i \in S THEN "gone" ELSE phase[i],
         \A i \in Inst, q \in Origin :
           closer'[i][q] = IF i \in S /\ q = o THEN "closing" ELSE closer[i][q],
         \A c \in Call : call'[c].pc # "idle" => call'[c] = call[c] /\ call[c].inst \notin S,
         UNCHANGED <<conflictVars, restoreFailed>>, DirtyHeld'
  PROVE  Orderly'
<1>1. S \subseteq Inst /\ \A i \in S : phase[i] = "live"
  BY DEF Envs
<1>2. \A i \in S, q \in Origin : closer[i][q] = "none"
  BY <1>1 DEF IInv, CloseAfterPop
<1>3. OneCall' /\ CallsOnLive'
  <2>1. \A c \in Call : call'[c].pc # "idle" => call'[c].inst \in Inst
    BY DEF IInv, TypeOK
  <2>2. QED
    BY <2>1 DEF Orderly, OneCall, CallsOnLive
<1>4. OneClose'
  BY <1>1, <1>2 DEF Orderly, OneClose
<1>5. ClosesHold'
  BY <1>1 DEF Orderly, ClosesHold, IInv, KeysHeld, conflictVars, HoldOf
<1>6. FailedHolds'
  <2>1. restoreFailed \subseteq Inst
    BY DEF IInv, TypeOK
  <2>2. QED
    BY <1>2, <2>1 DEF Orderly, FailedHolds, conflictVars, HoldOf
<1>7. QED
  BY <1>3, <1>4, <1>5, <1>6 DEF Orderly

LEMMA SweepPops ==
  ASSUME IInv, Orderly, NEW S \in SUBSET Envs, NEW o \in Sweeps, PopAll(S, o),
         \A i \in S : Quiet(i)
  PROVE  Orderly'
<1>1. o \in Origin /\ closer \in [Inst -> [Origin -> Stages]]
  BY DEF Origin, IInv, TypeOK
<1>2. \A i \in Inst : phase'[i] = IF i \in S THEN "gone" ELSE phase[i]
  BY DEF PopAll
<1>3. \A i \in Inst, q \in Origin :
        closer'[i][q] = IF i \in S /\ q = o THEN "closing" ELSE closer[i][q]
  BY <1>1 DEF PopAll
<1>4. \A c \in Call : call'[c].pc # "idle" => call'[c] = call[c] /\ call[c].inst \notin S
  BY DEF PopAll, Quiet, On
<1>5. DirtyHeld'
  BY <1>2 DEF PopAll, Orderly, DirtyHeld, Dirties, conflictVars, HoldOf
<1>6. QED
  BY <1>1, <1>2, <1>3, <1>4, <1>5, Pops DEF PopAll

LEMMA ResetFailsOrderly ==
  ASSUME IInv, Orderly, NEW c \in Call, ResetFails(c)
  PROVE  Orderly'
<1> DEFINE i == call[c].inst
<1>1. i \in Inst /\ phase[i] = "live" /\ c \in Origin /\ {i} \in SUBSET Envs
  BY DEF ResetFails, IInv, TypeOK, Orderly, CallsOnLive, Origin, Envs
<1>2. phase \in [Inst -> Phases] /\ closer \in [Inst -> [Origin -> Stages]]
      /\ call \in [Call -> [pc : CallPcs, inst : Inst \cup {NoInst}, attempt : Nat]]
  BY DEF IInv, TypeOK
<1>3. \A j \in Inst : phase'[j] = IF j \in {i} THEN "gone" ELSE phase[j]
  BY <1>2 DEF ResetFails
<1>4. \A j \in Inst, q \in Origin :
        closer'[j][q] = IF j \in {i} /\ q = c THEN "closing" ELSE closer[j][q]
  BY <1>2 DEF ResetFails
<1>5. call[c].pc # "idle" /\ call'[c].pc = "idle" /\ \A d \in Call \ {c} : call'[d] = call[d]
  BY <1>2 DEF ResetFails, LeaveReset, IdleCall
<1>6. \A d \in Call : call'[d].pc # "idle" => call'[d] = call[d] /\ call[d].inst \notin {i}
  BY <1>5 DEF Orderly, OneCall
<1>7. UNCHANGED <<conflictVars, restoreFailed>> /\ dirty' = dirty \cup Touches(i)
  BY DEF ResetFails
<1> HIDE DEF i
<1>8. DirtyHeld'
  BY <1>1, <1>3, <1>7, LiveTouches
<1>9. QED
  BY <1>1, <1>3, <1>4, <1>6, <1>7, <1>8, Pops

-----------------------------------------------------------------------------
(* Creates and closes *)

\* A hold changes hands only between nobody and its instance.
LEMMA CreateOrderly ==
  ASSUME IInv, Orderly, NEW i \in Inst, Create(i) \/ MakeEnv(i) \/ MakeFails(i)
  PROVE  Orderly'
<1>1. UNCHANGED <<call, closer, dirty, restoreFailed>>
  BY DEF Create, MakeEnv, MakeFails
<1>2. phase \in [Inst -> Phases] /\ holders \in [Inst -> Locks!Hold] /\ Mutating \subseteq Inst
      /\ restoreFailed \subseteq Inst
  BY RequestAssumption DEF IInv, TypeOK, ConflictTypeOK
<1>3. /\ phase[i] \in {"new", "making"}
      /\ \A j \in Inst \ {i} : phase'[j] = phase[j] /\ holders'[j] = holders[j]
  <2>1. CASE Create(i)
    BY <1>2, <2>1 DEF Create, TryAcquire
  <2>2. CASE MakeEnv(i)
    BY <1>2, <2>2 DEF MakeEnv, conflictVars
  <2>3. CASE MakeFails(i)
    BY <1>2, <2>3 DEF MakeFails, Release
  <2>4. QED
    BY <2>1, <2>2, <2>3
<1>4. \A o \in Origin : closer[i][o] = "none"
  BY <1>3 DEF IInv, CloseAfterPop
<1>5. i \notin restoreFailed /\ \A k : ~Dirties(i, k)
  BY <1>3, <1>4 DEF Orderly, FailedHolds, Dirties
<1>6. \A c \in Call : call[c].pc # "idle" => call[c].inst \in Inst \ {i}
  BY <1>3 DEF IInv, TypeOK, Orderly, CallsOnLive
<1>7. OneCall' /\ CallsOnLive' /\ OneClose'
  BY <1>1, <1>3, <1>6 DEF Orderly, OneCall, CallsOnLive, OneClose
<1>8. ClosesHold' /\ FailedHolds'
  BY <1>1, <1>2, <1>3, <1>4, <1>5 DEF Orderly, ClosesHold, FailedHolds, HoldOf
<1>9. DirtyHeld'
  <2> SUFFICES ASSUME NEW k \in dirty PROVE \E j \in Inst : Dirties(j, k)'
    BY <1>1 DEF DirtyHeld
  <2>1. PICK j \in Inst : Dirties(j, k)
    BY DEF Orderly, DirtyHeld
  <2>2. j # i
    BY <1>5, <2>1
  <2>3. QED
    BY <1>3, <2>1, <2>2 DEF Dirties, HoldOf
<1>10. QED
  BY <1>7, <1>8, <1>9 DEF Orderly

\* The one closer of an instance moves on; what it releases is its own hold.
LEMMA CloseOrderly ==
  ASSUME IInv, Orderly, NEW i \in Inst, NEW o \in Origin,
         CloseEnv(i, o) \/ RestoreOk(i, o) \/ RestoreFails(i, o)
  PROVE  Orderly'
<1>1. /\ UNCHANGED <<call, phase>> /\ closer[i][o] \in {"closing", "restoring"}
      /\ closer \in [Inst -> [Origin -> Stages]] /\ holders \in [Inst -> Locks!Hold]
      /\ restoreFailed \subseteq Inst
  BY DEF CloseEnv, RestoreOk, RestoreFails, IInv, TypeOK, ConflictTypeOK
<1>2. /\ phase[i] = "gone" /\ holders[i] = HoldOf(i)
      /\ \A q \in Origin \ {o} : closer[i][q] = "none"
  BY <1>1 DEF IInv, CloseAfterPop, Orderly, ClosesHold, OneClose
<1>3. i \notin restoreFailed
  BY <1>1, <1>2 DEF Orderly, FailedHolds
<1>4. PICK stage \in {"restoring", "done"} : closer' = [closer EXCEPT ![i][o] = stage]
  BY DEF CloseEnv, RestoreOk, RestoreFails, Close
<1>5. \A j \in Inst, q \in Origin :
        closer'[j][q] = IF j = i /\ q = o THEN stage ELSE closer[j][q]
  BY <1>1, <1>4
<1>6. OneCall' /\ CallsOnLive' /\ OneClose'
  BY <1>1, <1>2, <1>5 DEF Orderly, OneCall, CallsOnLive, OneClose
<1>7. CASE UNCHANGED <<conflictVars, restoreFailed>> /\ dirty' \subseteq dirty
  <2>1. ClosesHold' /\ FailedHolds'
    BY <1>1, <1>2, <1>3, <1>5, <1>7 DEF Orderly, ClosesHold, FailedHolds, conflictVars, HoldOf
  <2>2. DirtyHeld'
    BY <1>1, <1>7 DEF Orderly, DirtyHeld, Dirties, conflictVars, HoldOf
  <2>3. QED
    BY <1>6, <2>1, <2>2 DEF Orderly
\* Its keys are clean, or it never wrote.
<1>8. CASE /\ Release(i) /\ stage = "done" /\ UNCHANGED restoreFailed
           /\ dirty' \subseteq dirty /\ \A k \in dirty' : ~Dirties(i, k)
  <2>1. \A j \in Inst \ {i} : holders'[j] = holders[j]
    BY <1>1, <1>8 DEF Release
  <2>2. ClosesHold' /\ FailedHolds'
    BY <1>1, <1>2, <1>3, <1>5, <1>8, <2>1 DEF Orderly, ClosesHold, FailedHolds, HoldOf
  <2>3. DirtyHeld'
    <3> SUFFICES ASSUME NEW k \in dirty' PROVE \E j \in Inst : Dirties(j, k)'
      BY DEF DirtyHeld
    <3>1. PICK j \in Inst : Dirties(j, k)
      BY <1>8 DEF Orderly, DirtyHeld
    <3>2. j # i
      BY <1>8, <3>1
    <3>3. QED
      BY <1>1, <2>1, <3>1, <3>2 DEF Dirties, HoldOf
  <2>4. QED
    BY <1>6, <2>2, <2>3 DEF Orderly
<1>9. CASE CloseEnv(i, o)
  <2>1. CASE holders[i].mutating
    BY <1>7, <1>9, <2>1 DEF CloseEnv
  <2>2. CASE ~holders[i].mutating
    <3>1. Release(i) /\ UNCHANGED <<dirty, restoreFailed>> /\ closer' = [closer EXCEPT ![i][o] = "done"]
      BY <1>9, <2>2 DEF CloseEnv, Close
    <3>2. stage = "done"
      BY <1>1, <1>5, <3>1
    <3>3. \A k : ~Dirties(i, k)
      BY <2>2, DirtiesHold
    <3>4. QED
      BY <1>8, <3>1, <3>2, <3>3
  <2>3. QED
    BY <2>1, <2>2
<1>10. CASE RestoreOk(i, o)
  <2>1. /\ Release(i) /\ dirty' = dirty \ KeysOf[i] /\ UNCHANGED restoreFailed
        /\ closer' = [closer EXCEPT ![i][o] = "done"]
    BY <1>10 DEF RestoreOk, Close
  <2>2. stage = "done"
    BY <1>1, <1>5, <2>1
  <2>3. QED
    BY <1>8, <2>1, <2>2 DEF Dirties
<1>11. CASE RestoreFails(i, o)
  <2>1. /\ restoreFailed' = restoreFailed \cup {i} /\ UNCHANGED conflictVars
        /\ dirty' \subseteq dirty /\ closer' = [closer EXCEPT ![i][o] = "done"]
    BY <1>11 DEF RestoreFails, Close
  <2>2. stage = "done"
    BY <1>1, <1>5, <2>1
  <2>3. ClosesHold' /\ FailedHolds'
    BY <1>1, <1>2, <1>3, <1>5, <2>1, <2>2 DEF Orderly, ClosesHold, FailedHolds, conflictVars, HoldOf
  <2>4. DirtyHeld'
    BY <1>1, <2>1 DEF Orderly, DirtyHeld, Dirties, conflictVars, HoldOf
  <2>5. QED
    BY <1>6, <2>3, <2>4 DEF Orderly
<1>12. QED
  BY <1>9, <1>10, <1>11

-----------------------------------------------------------------------------
(* Every step *)

LEMMA StepOrderly ==
  ASSUME Faults = {}, IInv, Orderly, [Next]_vars
  PROVE  Orderly'
<1>1. ASSUME NEW i \in Inst, Delete(i) PROVE Orderly'
  <2>1. {i} \in SUBSET Envs /\ "delete" \in Sweeps /\ \A j \in {i} : Quiet(j)
    BY <1>1 DEF Delete, Envs, Sweeps
  <2>2. QED
    BY <1>1, <2>1, SweepPops DEF Delete
<1>2. ASSUME NEW S \in SUBSET Evictable, NEW o \in Sweeps, PopAll(S, o) PROVE Orderly'
  <2>1. S \in SUBSET Envs /\ \A j \in S : Quiet(j)
    BY <1>2 DEF Evictable
  <2>2. QED
    BY <1>2, <2>1, SweepPops
<1>3. ASSUME NEW t \in Token, NEW sessions, NEW envIds, BulkClose(t, sessions, envIds)
      PROVE  Orderly'
  BY <1>2, <1>3 DEF BulkClose, Sweeps
<1>4. ASSUME NEW S \in SUBSET Inst, IdleReap(S) \/ DriftReap(S) PROVE Orderly'
  BY <1>2, <1>4 DEF IdleReap, DriftReap, Sweeps
<1>5. CASE UNCHANGED vars
  BY <1>5 DEF vars, conflictVars, serverVars, Orderly, OneCall, CallsOnLive, OneClose, ClosesHold,
     FailedHolds, DirtyHeld, Dirties, HoldOf
<1>6. QED
  BY <1>1, <1>3, <1>4, <1>5, HandlerSteps, ResetFailsOrderly, CreateOrderly, CloseOrderly DEF Next

LEMMA OrderlyServer == ASSUME Faults = {} PROVE Spec => [](IInv /\ Orderly)
<1>1. Init => IInv /\ Orderly
  BY InitIInv, InitOrderly
<1>2. IInv /\ Orderly /\ [Next]_vars => (IInv /\ Orderly)'
  BY StepIInv, StepOrderly
<1>3. QED
  BY <1>1, <1>2, PTL DEF Spec

\* "The key stays held through restore", on an orderly server.
THEOREM RestoresHoldKeys == ASSUME Faults = {} PROVE Spec => []HeldThroughRestore
<1>1. Orderly => HeldThroughRestore
  BY DEF Orderly, ClosesHold, HeldThroughRestore
<1>2. QED
  BY <1>1, OrderlyServer, PTL

\* A key whose restore failed is never leased again.
THEOREM FailedRestoresKeepKeys == ASSUME Faults = {} PROVE Spec => []FailedRestoreKeepsKeys
<1>1. Orderly => FailedRestoreKeepsKeys
  BY DEF Orderly, FailedHolds, FailedRestoreKeepsKeys
<1>2. QED
  BY <1>1, OrderlyServer, PTL

\* The code of two conflicting instances is never inside its envs at once: a
\* call's instance is live, and live instances are kept apart by the table.
THEOREM CallsNeverConflict == ASSUME Faults = {} PROVE Spec => []NoConflictingCalls
<1>1. ASSUME IInv, Orderly PROVE NoConflictingCalls
  <2> SUFFICES ASSUME NEW c \in Call, NEW d \in Call, Inside(c), Inside(d),
                      call[c].inst # call[d].inst
               PROVE  Locks!Compatible(HoldOf(call[c].inst), HoldOf(call[d].inst))
    BY DEF NoConflictingCalls
  <2>1. call[c].pc # "idle" /\ call[d].pc # "idle"
    BY DEF Inside, InReset, InStep
  <2>2. /\ call[c].inst \in Inst /\ call[d].inst \in Inst
        /\ phase[call[c].inst] = "live" /\ phase[call[d].inst] = "live"
    BY <1>1, <2>1 DEF IInv, TypeOK, Orderly, CallsOnLive
  <2>3. QED
    BY <1>1, <2>2 DEF IInv, KeysHeld, TableInv, ReadersWriterExclusion
<1>2. QED
  BY <1>1, OrderlyServer, PTL

\* "So the next claimant sees a clean backend": a dirty key is still held by its
\* writer, and the table admits nobody beside a writer.
THEOREM HandOversAreClean == ASSUME Faults = {} PROVE Spec => CleanHandOver
<1>1. ASSUME IInv, Orderly, [Next]_vars, NEW i \in Inst, phase[i] = "new", phase'[i] = "making"
      PROVE  KeysOf[i] \cap dirty = {}
  <2> SUFFICES ASSUME NEW k \in KeysOf[i], k \in dirty PROVE FALSE
    OBVIOUS
  <2>1. PICK j \in Inst : Dirties(j, k)
    BY <1>1 DEF Orderly, DirtyHeld
  <2>2. k \in Key
    BY RequestAssumption
  <2>3. writer[k] = j
    BY <1>1, <2>1, <2>2, DirtiesHold DEF IInv, TableInv, TableMatchesHolders
  <2>4. PICK m \in Inst : ClaimsKeys(m)
    BY <1>1, KeySteps DEF FreesKeys, KeepsKeys, NobodyAdmitted
  <2>5. m = i
    BY <1>1, <2>4 DEF ClaimsKeys, IInv, TypeOK
  <2>6. writer[k] = NoInst
    BY <2>4, <2>5 DEF ClaimsKeys, Claim, TryAcquire, CanAcquire
  <2>7. QED
    BY <2>3, <2>6, NoInstAssumption
<1>2. IInv /\ Orderly /\ [Next]_vars =>
        [\A i \in Inst : phase[i] = "new" /\ phase'[i] = "making" => KeysOf[i] \cap dirty = {}]_vars
  BY <1>1
<1>3. QED
  BY <1>2, OrderlyServer, PTL DEF Spec, CleanHandOver
=============================================================================
