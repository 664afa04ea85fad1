------------------------- MODULE DockerSlotsProofs -------------------------
(***************************************************************************)
(* The docker create semaphore for every number of boots and slots, and    *)
(* every choice of the points where a cancellation may strike.  The slots  *)
(* are conserved when the ones a thread took are counted whoever waits for *)
(* them (SlotsConserved), so the bound holds under every cancellation.     *)
(* That each taken slot also has somebody to give it back needs that no    *)
(* cancellation hits a thread inside acquire().                            *)
(***************************************************************************)
EXTENDS DockerSlots, FiniteSetTheorems, TLAPS

Took == {b \in Boot : worker[b] = "took"}

SlotsConserved == free + Cardinality(Took) = Capacity

\* Where the context manager, the thread and acquire_task of a boot can be
\* together.
Lockstep ==
  \A b \in Boot :
    /\ user[b] = "new" => worker[b] = "none" /\ task[b] = "none"
    /\ user[b] = "waiting" =>
         \/ task[b] = "running" /\ worker[b] # "none"
         \/ task[b] = "done" /\ worker[b] \in {"took", "missed"}
    /\ user[b] = "holding" => worker[b] = "took" /\ task[b] = "done"
    /\ user[b] = "left" => worker[b] \in {"none", "missed"} /\ task[b] = "done"
    /\ user[b] = "cancelled" =>
         \/ task[b] = "cancelled"
         \/ task[b] = "done" /\ worker[b] \in {"none", "took", "missed"}

\* Nobody waits for the answer of a cancelled acquire_task: no thread may be
\* on its way to one.
NoOrphan == \A b \in Boot : task[b] = "cancelled" => worker[b] = "none"

IInv == TypeOK /\ SlotsConserved /\ PendingHonest /\ Lockstep

-----------------------------------------------------------------------------
\* The sets the counters count are finite.
LEMMA BootSetsAreFinite ==
  /\ IsFiniteSet(Boot)
  /\ IsFiniteSet(Took) /\ IsFiniteSet(Waiting)
  /\ IsFiniteSet(Holding) /\ IsFiniteSet(InTransit)
<1>1. IsFiniteSet(Boot)
  BY SlotAssumption, FS_Union DEF Boot
<1>2. QED
  BY <1>1, FS_Subset DEF Took, Waiting, Holding, InTransit

\* What an action does to the semaphore: takes a slot, gives one back, or
\* neither.
TakesSlot == free > 0 /\ free' = free - 1 /\ \E b \in Boot \ Took : Took' = Took \cup {b}
GivesSlot == free' = free + 1 /\ \E b \in Took : Took' = Took \ {b}
KeepsSlots == free' = free /\ Took' = Took

LEMMA SlotSteps ==
  ASSUME IInv, [Next]_vars
  PROVE  TakesSlot \/ GivesSlot \/ KeepsSlots
<1> USE DEF IInv, TypeOK, Took
<1>1. ASSUME NEW b \in Boot, Takes(b)
      PROVE  TakesSlot
  BY <1>1 DEF Takes, TakesSlot
<1>2. ASSUME NEW b \in Boot, Exits(b) \/ CancelHolding(b)
      PROVE  GivesSlot
  BY <1>2 DEF Exits, CancelHolding, GivesSlot, Lockstep
<1>3. ASSUME NEW b \in AsyncBoot, LateRelease(b)
      PROVE  GivesSlot \/ KeepsSlots
  BY <1>3 DEF LateRelease, GivesSlot, KeepsSlots, Boot
<1>4. ASSUME NEW b \in Boot, Enter(b) \/ ThreadStarts(b) \/ GivesUp(b)
      PROVE  KeepsSlots
  BY <1>4 DEF Enter, ThreadStarts, GivesUp, KeepsSlots, Lockstep
<1>5. ASSUME NEW b \in Boot, Delivers(b) \/ Resumes(b)
      PROVE  KeepsSlots
  BY <1>5 DEF Delivers, Resumes, KeepsSlots
<1>6. ASSUME NEW b \in AsyncBoot, NEW at \in CancelPoints, CancelWaiting(b, at)
      PROVE  KeepsSlots
  BY <1>6 DEF CancelWaiting, KeepsSlots, Boot
<1>7. CASE UNCHANGED vars
  BY <1>7 DEF vars, KeepsSlots
<1>8. QED
  BY <1>1, <1>2, <1>3, <1>4, <1>5, <1>6, <1>7 DEF Next, Cancel, Boot

\* The slots taken and the slots free always add up.
LEMMA SlotsConservedStep ==
  ASSUME IInv, [Next]_vars
  PROVE  SlotsConserved' /\ free' \in 0..Capacity
<1>1. /\ free \in 0..Capacity /\ Capacity \in Nat /\ Cardinality(Took) \in Nat
      /\ free + Cardinality(Took) = Capacity
  BY SlotAssumption, BootSetsAreFinite, FS_CardinalityType DEF IInv, TypeOK, SlotsConserved
<1>2. CASE TakesSlot
  <2>1. Cardinality(Took') = Cardinality(Took) + 1
    BY <1>2, BootSetsAreFinite, FS_AddElement DEF TakesSlot
  <2>2. QED
    BY <1>1, <1>2, <2>1 DEF TakesSlot, SlotsConserved
<1>3. CASE GivesSlot
  <2>1. Cardinality(Took') = Cardinality(Took) - 1 /\ Cardinality(Took) # 0
    BY <1>3, BootSetsAreFinite, FS_RemoveElement, FS_EmptySet DEF GivesSlot
  <2>2. QED
    BY <1>1, <1>3, <2>1 DEF GivesSlot, SlotsConserved
<1>4. CASE KeepsSlots
  BY <1>1, <1>4 DEF KeepsSlots, SlotsConserved
<1>5. QED
  BY <1>2, <1>3, <1>4, SlotSteps

-----------------------------------------------------------------------------
\* What an action does to the queue: somebody joins it, leaves it, or neither.
Joins  == pending' = pending + 1 /\ \E b \in Boot \ Waiting : Waiting' = Waiting \cup {b}
Leaves == pending' = pending - 1 /\ \E b \in Waiting : Waiting' = Waiting \ {b}
Stays  == pending' = pending /\ Waiting' = Waiting

LEMMA QueueSteps ==
  ASSUME IInv, [Next]_vars
  PROVE  Joins \/ Leaves \/ Stays
<1> USE DEF IInv, TypeOK, Waiting
<1>1. ASSUME NEW b \in Boot, Enter(b)
      PROVE  Joins
  BY <1>1 DEF Enter, Joins
<1>2. ASSUME NEW b \in Boot, Resumes(b)
      PROVE  Leaves
  BY <1>2 DEF Resumes, Leaves
<1>3. ASSUME NEW b \in AsyncBoot, NEW at \in CancelPoints, CancelWaiting(b, at)
      PROVE  Leaves
  BY <1>3 DEF CancelWaiting, Leaves, Boot
<1>4. ASSUME NEW b \in Boot, ThreadStarts(b) \/ Takes(b) \/ GivesUp(b) \/ Delivers(b)
      PROVE  Stays
  BY <1>4 DEF ThreadStarts, Takes, GivesUp, Delivers, Stays
<1>5. ASSUME NEW b \in Boot, Exits(b) \/ CancelHolding(b) \/ LateRelease(b)
      PROVE  Stays
  BY <1>5 DEF Exits, CancelHolding, LateRelease, Stays
<1>6. CASE UNCHANGED vars
  BY <1>6 DEF vars, Stays
<1>7. QED
  BY <1>1, <1>2, <1>3, <1>4, <1>5, <1>6 DEF Next, Cancel, Boot

\* The pending counter follows the queue.
LEMMA PendingHonestStep ==
  ASSUME IInv, [Next]_vars
  PROVE  PendingHonest' /\ pending' \in Nat
<1>1. pending \in Nat /\ pending = Cardinality(Waiting)
  BY DEF IInv, TypeOK, PendingHonest
<1>2. CASE Joins
  <2>1. Cardinality(Waiting') = Cardinality(Waiting) + 1
    BY <1>2, BootSetsAreFinite, FS_AddElement DEF Joins
  <2>2. QED
    BY <1>1, <1>2, <2>1 DEF Joins, PendingHonest
<1>3. CASE Leaves
  <2>1. Cardinality(Waiting') = Cardinality(Waiting) - 1 /\ Cardinality(Waiting) # 0
    BY <1>3, BootSetsAreFinite, FS_RemoveElement, FS_EmptySet DEF Leaves
  <2>2. QED
    BY <1>1, <1>3, <2>1 DEF Leaves, PendingHonest
<1>4. CASE Stays
  BY <1>1, <1>4 DEF Stays, PendingHonest
<1>5. QED
  BY <1>2, <1>3, <1>4, QueueSteps

-----------------------------------------------------------------------------
\* The three records of a boot move together.
LEMMA LockstepStep ==
  ASSUME IInv, [Next]_vars
  PROVE  /\ Lockstep'
         /\ user' \in [Boot -> {"new", "waiting", "holding", "left", "cancelled"}]
         /\ worker' \in [Boot -> {"none", "submitted", "blocked", "took", "missed"}]
         /\ task' \in [Boot -> {"none", "running", "done", "cancelled"}]
<1> USE DEF IInv, TypeOK, Lockstep
<1>1. ASSUME NEW b \in Boot, Enter(b)
      PROVE  Lockstep'
  BY <1>1 DEF Enter
<1>2. ASSUME NEW b \in Boot, ThreadStarts(b) \/ Takes(b) \/ GivesUp(b)
      PROVE  Lockstep'
  BY <1>2 DEF ThreadStarts, Takes, GivesUp
<1>3. ASSUME NEW b \in Boot, Delivers(b)
      PROVE  Lockstep'
  BY <1>3 DEF Delivers
<1>4. ASSUME NEW b \in Boot, Resumes(b)
      PROVE  Lockstep'
  BY <1>4 DEF Resumes
<1>5. ASSUME NEW b \in Boot, Exits(b) \/ CancelHolding(b)
      PROVE  Lockstep'
  BY <1>5 DEF Exits, CancelHolding
<1>6. ASSUME NEW b \in AsyncBoot, NEW at \in CancelPoints, CancelWaiting(b, at)
      PROVE  Lockstep'
  BY <1>6 DEF CancelWaiting, Boot
<1>7. ASSUME NEW b \in AsyncBoot, LateRelease(b)
      PROVE  Lockstep'
  BY <1>7 DEF LateRelease, Boot
<1>8. CASE UNCHANGED vars
  BY <1>8 DEF vars
<1>9. Lockstep'
  BY <1>1, <1>2, <1>3, <1>4, <1>5, <1>6, <1>7, <1>8 DEF Next, Cancel, Boot
<1>10. /\ user' \in [Boot -> {"new", "waiting", "holding", "left", "cancelled"}]
       /\ worker' \in [Boot -> {"none", "submitted", "blocked", "took", "missed"}]
       /\ task' \in [Boot -> {"none", "running", "done", "cancelled"}]
  BY DEF Next, vars, Enter, ThreadStarts, Takes, GivesUp, Delivers, Resumes, Exits,
         Cancel, CancelWaiting, CancelHolding, LateRelease
<1>11. QED
  BY <1>9, <1>10

\* The inductive invariant of the semaphore.
THEOREM DockerInvariant == Spec => []IInv
<1>1. Init => IInv
  <2> SUFFICES ASSUME Init PROVE IInv
    OBVIOUS
  <2>1. Took = {} /\ Waiting = {}
    BY DEF Init, Took, Waiting
  <2>2. SlotsConserved /\ PendingHonest
    BY <2>1, SlotAssumption, FS_EmptySet DEF Init, SlotsConserved, PendingHonest
  <2>3. TypeOK /\ Lockstep
    BY SlotAssumption DEF Init, TypeOK, Lockstep
  <2>4. QED
    BY <2>2, <2>3 DEF IInv
<1>2. IInv /\ [Next]_vars => IInv'
  BY SlotsConservedStep, PendingHonestStep, LockstepStep DEF IInv, TypeOK
<1>3. QED
  BY <1>1, <1>2, PTL DEF Spec

\* Type correctness of the semaphore and its users.
THEOREM DockerTypeOK == Spec => []TypeOK
<1>1. IInv => TypeOK
  BY DEF IInv
<1>2. QED
  BY <1>1, DockerInvariant, PTL

\* Never more boots under way than docker_create_concurrency, wherever a
\* cancellation strikes: a lost slot makes the bound tighter, not looser.
THEOREM BootsAreBounded == Spec => []BootsBounded
<1>1. ASSUME IInv
      PROVE  BootsBounded
  <2>1. Holding \subseteq Took
    BY <1>1 DEF IInv, Lockstep, Holding, Took
  <2>2. Cardinality(Holding) <= Cardinality(Took)
    BY <2>1, BootSetsAreFinite, FS_Subset
  <2>3. /\ free \in 0..Capacity /\ free + Cardinality(Took) = Capacity /\ Capacity \in Nat
        /\ Cardinality(Took) \in Nat /\ Cardinality(Holding) \in Nat
    BY <1>1, SlotAssumption, BootSetsAreFinite, FS_CardinalityType
       DEF IInv, TypeOK, SlotsConserved
  <2>4. QED
    BY <2>2, <2>3 DEF BootsBounded
<1>2. QED
  BY <1>1, DockerInvariant, PTL

\* The pending counter, which sizes the retry hint of a 503, counts exactly
\* the callers still waiting, wherever a cancellation strikes.
THEOREM PendingIsHonest == Spec => []PendingHonest
<1>1. IInv => PendingHonest
  BY DEF IInv
<1>2. QED
  BY <1>1, DockerInvariant, PTL

-----------------------------------------------------------------------------
\* If no cancellation hits a coroutine whose thread is inside acquire(), every
\* slot is free, under a boot or on its way.  (With one that does, the run
\* docker_cancelled_acquire shows a slot lost.)
THEOREM SlotsAreNotLost ==
  ASSUME "acquiring" \notin CancelPoints
  PROVE  Spec => []NoSlotLost
<1>1. Init => NoOrphan
  BY DEF Init, NoOrphan
<1>2. ASSUME IInv, NoOrphan, [Next]_vars
      PROVE  NoOrphan'
  <2> USE DEF IInv, TypeOK, NoOrphan
  <2>1. ASSUME NEW b \in AsyncBoot, NEW at \in CancelPoints, CancelWaiting(b, at)
        PROVE  NoOrphan'
    BY <1>2, <2>1 DEF CancelWaiting, Boot
  <2>2. ASSUME NEW b \in Boot, Enter(b) \/ Exits(b) \/ CancelHolding(b) \/ LateRelease(b)
        PROVE  NoOrphan'
    BY <1>2, <2>2 DEF Enter, Exits, CancelHolding, LateRelease
  <2>3. ASSUME NEW b \in Boot, ThreadStarts(b) \/ Takes(b) \/ GivesUp(b)
        PROVE  NoOrphan'
    BY <1>2, <2>3 DEF ThreadStarts, Takes, GivesUp
  <2>4. ASSUME NEW b \in Boot, Delivers(b) \/ Resumes(b)
        PROVE  NoOrphan'
    BY <1>2, <2>4 DEF Delivers, Resumes
  <2>5. CASE UNCHANGED vars
    BY <1>2, <2>5 DEF vars
  <2>6. QED
    BY <1>2, <2>1, <2>2, <2>3, <2>4, <2>5 DEF Next, Cancel, Boot
<1>3. ASSUME IInv, NoOrphan
      PROVE  NoSlotLost
  <2>1. Took = Holding \cup InTransit /\ Holding \cap InTransit = {}
    BY <1>3 DEF IInv, TypeOK, Lockstep, NoOrphan, Took, Holding, InTransit
  <2>2. Cardinality(Took) = Cardinality(Holding) + Cardinality(InTransit)
    <3>1. Cardinality(Took) = Cardinality(Holding) + Cardinality(InTransit) - Cardinality({})
      BY <2>1, BootSetsAreFinite, FS_Union
    <3>2. QED
      BY <3>1, BootSetsAreFinite, FS_EmptySet, FS_CardinalityType
  <2>3. /\ free \in Nat /\ Cardinality(Holding) \in Nat /\ Cardinality(InTransit) \in Nat
        /\ free + Cardinality(Took) = Capacity
    BY <1>3, BootSetsAreFinite, FS_CardinalityType DEF IInv, TypeOK, SlotsConserved
  <2>4. QED
    BY <2>2, <2>3 DEF NoSlotLost
<1>4. QED
  BY <1>1, <1>2, <1>3, DockerInvariant, PTL DEF Spec

-----------------------------------------------------------------------------
(* Liveness.  ENABLED is opaque to the provers: that each fair step can be   *)
(* taken when its guard holds is a hypothesis.                               *)

\* The guards of the fair steps of a boot say when they can be taken.
CanStep(b) ==
  /\ worker[b] = "submitted" => ENABLED <<ThreadStarts(b)>>_vars
  /\ worker[b] = "blocked" => ENABLED <<Takes(b) \/ GivesUp(b)>>_vars
  /\ worker[b] \in {"took", "missed"} /\ task[b] = "running" => ENABLED <<Delivers(b)>>_vars
  /\ user[b] = "waiting" /\ task[b] = "done" => ENABLED <<Resumes(b)>>_vars

GuardsSuffice == \A b \in Boot : CanStep(b)

\* The stages of a call of acquire() somebody waits for.
Submitted(b) == user[b] = "waiting" /\ task[b] = "running" /\ worker[b] = "submitted"
Blocked(b)   == user[b] = "waiting" /\ task[b] = "running" /\ worker[b] = "blocked"
Settled(b)   == user[b] = "waiting" /\ task[b] = "running" /\ worker[b] \in {"took", "missed"}
Delivered(b) == user[b] = "waiting" /\ task[b] = "done"
Out(b)       == user[b] # "waiting"

\* A boot keeps its stage or goes to the next one, whatever the others do.
LEMMA StageSteps ==
  ASSUME NEW b \in Boot, IInv, [Next]_vars
  PROVE  /\ Submitted(b) => (Submitted(b) \/ Blocked(b) \/ Out(b))'
         /\ Blocked(b) => (Blocked(b) \/ Settled(b) \/ Out(b))'
         /\ Settled(b) => (Settled(b) \/ Delivered(b) \/ Out(b))'
         /\ Delivered(b) => (Delivered(b) \/ Out(b))'
<1> USE DEF IInv, TypeOK, Submitted, Blocked, Settled, Delivered, Out
<1> DEFINE Goal == /\ Submitted(b) => (Submitted(b) \/ Blocked(b) \/ Out(b))'
                   /\ Blocked(b) => (Blocked(b) \/ Settled(b) \/ Out(b))'
                   /\ Settled(b) => (Settled(b) \/ Delivered(b) \/ Out(b))'
                   /\ Delivered(b) => (Delivered(b) \/ Out(b))'
<1>1. ASSUME NEW c \in Boot, Enter(c) \/ Exits(c) \/ CancelHolding(c)
      PROVE  Goal
  BY <1>1 DEF Enter, Exits, CancelHolding
<1>2. ASSUME NEW c \in Boot, ThreadStarts(c) \/ Takes(c) \/ GivesUp(c)
      PROVE  Goal
  BY <1>2 DEF ThreadStarts, Takes, GivesUp
<1>3. ASSUME NEW c \in Boot, Delivers(c) \/ Resumes(c)
      PROVE  Goal
  BY <1>3 DEF Delivers, Resumes
<1>4. ASSUME NEW c \in AsyncBoot, NEW at \in CancelPoints, CancelWaiting(c, at)
      PROVE  Goal
  BY <1>4 DEF CancelWaiting, Boot
<1>5. ASSUME NEW c \in AsyncBoot, LateRelease(c)
      PROVE  Goal
  BY <1>5 DEF LateRelease, Boot
<1>6. CASE UNCHANGED vars
  BY <1>6 DEF vars
<1>7. QED
  BY <1>1, <1>2, <1>3, <1>4, <1>5, <1>6 DEF Next, Cancel, Boot

\* Each stage is left by a fair step: to the next one, and at last out.
LEMMA BootAnswered ==
  ASSUME NEW b \in Boot
  PROVE  Spec /\ FairBoot(b) /\ []CanStep(b) => Answered(b)
<1>1. /\ IInv /\ Submitted(b) /\ [Next]_vars => (Submitted(b) \/ Blocked(b) \/ Out(b))'
      /\ IInv /\ Blocked(b) /\ [Next]_vars => (Blocked(b) \/ Settled(b) \/ Out(b))'
      /\ IInv /\ Settled(b) /\ [Next]_vars => (Settled(b) \/ Delivered(b) \/ Out(b))'
      /\ IInv /\ Delivered(b) /\ [Next]_vars => (Delivered(b) \/ Out(b))'
  BY StageSteps
<1>2. IInv /\ Submitted(b) /\ <<ThreadStarts(b)>>_vars => Blocked(b)'
  BY DEF IInv, TypeOK, Submitted, Blocked, ThreadStarts
<1>3. IInv /\ Blocked(b) /\ <<Takes(b) \/ GivesUp(b)>>_vars => Settled(b)'
  BY DEF IInv, TypeOK, Blocked, Settled, Takes, GivesUp
<1>4. IInv /\ Settled(b) /\ <<Delivers(b)>>_vars => Delivered(b)'
  BY DEF IInv, TypeOK, Settled, Delivered, Delivers
<1>5. IInv /\ Delivered(b) /\ <<Resumes(b)>>_vars => Out(b)'
  BY DEF IInv, TypeOK, Delivered, Out, Resumes
<1>6. /\ Submitted(b) => worker[b] = "submitted"
      /\ Blocked(b) => worker[b] = "blocked"
      /\ Settled(b) => worker[b] \in {"took", "missed"} /\ task[b] = "running"
      /\ Delivered(b) => user[b] = "waiting" /\ task[b] = "done"
  BY DEF Submitted, Blocked, Settled, Delivered
<1>7. IInv /\ user[b] = "waiting" => Submitted(b) \/ Blocked(b) \/ Settled(b) \/ Delivered(b)
  BY DEF IInv, TypeOK, Lockstep, Submitted, Blocked, Settled, Delivered
<1>8. Out(b) => user[b] # "waiting"
  BY DEF Out
<1>9. QED
  BY <1>1, <1>2, <1>3, <1>4, <1>5, <1>6, <1>7, <1>8, DockerInvariant, PTL
     DEF Spec, FairBoot, CanStep, Answered

\* Every caller of either context manager is let in, told to come back or
\* cancelled, whatever the others do with the slots.
THEOREM CallersAreAnswered == FairSpec /\ []GuardsSuffice => CallersAnswered
<1>1. ASSUME NEW b \in Boot
      PROVE  FairSpec /\ []GuardsSuffice => Answered(b)
  <2>1. Spec /\ FairBoot(b) /\ []CanStep(b) => Answered(b)
    BY BootAnswered, Zenon
  <2>2. Fairness => FairBoot(b)
    BY Zenon DEF Fairness
  <2>3. GuardsSuffice => CanStep(b)
    BY Zenon DEF GuardsSuffice
  <2>4. QED
    BY <2>1, <2>2, <2>3, PTL DEF FairSpec
<1>2. (\A b \in Boot : FairSpec /\ []GuardsSuffice => Answered(b))
         => (FairSpec /\ []GuardsSuffice => \A b \in Boot : Answered(b))
  BY Zenon
<1>3. QED
  BY <1>1, <1>2, Zenon DEF CallersAnswered
=============================================================================
