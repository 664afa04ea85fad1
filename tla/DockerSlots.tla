---------------------------- MODULE DockerSlots ----------------------------
(***************************************************************************)
(* lite/gym/remote/admission.py: the process-wide semaphore that bounds    *)
(* the container boots under way.  One threading.Semaphore serves two      *)
(* kinds of user: worker threads that block in it (docker_create_slot) and *)
(* coroutines that send a worker thread to block in it for them            *)
(* (docker_create_slot_async).  A coroutine can be cancelled; the thread   *)
(* it sent cannot.                                                         *)
(*                                                                         *)
(* A boot stands for one pass through one of the two context managers.     *)
(* For a thread, "task" is its own call of acquire().                      *)
(***************************************************************************)
EXTENDS Naturals, FiniteSets

CONSTANTS
  ThreadBoot,   \* boots under docker_create_slot
  AsyncBoot,    \* boots under docker_create_slot_async
  Capacity,     \* docker_create_concurrency
  CancelPoints  \* where a CancelledError may strike, see AllCancelPoints

\* submitted: no worker thread has picked the acquire up yet; acquiring: one
\* has, and its answer has not reached acquire_task; delivered: acquire_task
\* is done and the coroutine not resumed; holding: inside the with block.
AllCancelPoints == {"submitted", "acquiring", "delivered", "holding"}

ASSUME SlotAssumption ==
  /\ IsFiniteSet(ThreadBoot) /\ IsFiniteSet(AsyncBoot) /\ ThreadBoot \cap AsyncBoot = {}
  /\ Capacity \in Nat \ {0}
  /\ CancelPoints \subseteq AllCancelPoints

VARIABLES
  free,     \* _docker_sema._value
  pending,  \* _docker_sema_pending
  user,     \* where the context manager of each boot is
  worker,   \* the thread inside _docker_sema.acquire()
  task      \* acquire_task

vars == <<free, pending, user, worker, task>>

Boot == ThreadBoot \cup AsyncBoot

Init ==
  /\ free = Capacity
  /\ pending = 0
  /\ user   = [b \in Boot |-> "new"]
  /\ worker = [b \in Boot |-> "none"]
  /\ task   = [b \in Boot |-> "none"]

-----------------------------------------------------------------------------
\* Entry: count the caller as pending and start the acquire.
Enter(b) ==
  /\ user[b] = "new"
  /\ pending' = pending + 1
  /\ user' = [user EXCEPT ![b] = "waiting"]
  /\ worker' = [worker EXCEPT ![b] = IF b \in AsyncBoot THEN "submitted" ELSE "blocked"]
  /\ task' = [task EXCEPT ![b] = "running"]
  /\ UNCHANGED free

\* A thread of the executor picks the acquire up.
ThreadStarts(b) ==
  /\ worker[b] = "submitted"
  /\ worker' = [worker EXCEPT ![b] = "blocked"]
  /\ UNCHANGED <<free, pending, user, task>>

\* acquire() takes a slot, whether or not anybody still waits for it.
Takes(b) ==
  /\ worker[b] = "blocked"
  /\ free > 0
  /\ free' = free - 1
  /\ worker' = [worker EXCEPT ![b] = "took"]
  /\ UNCHANGED <<pending, user, task>>

\* acquire() gives up after DOCKER_CREATE_WAIT_TIMEOUT_S with no slot free.
GivesUp(b) ==
  /\ worker[b] = "blocked"
  /\ free = 0
  /\ worker' = [worker EXCEPT ![b] = "missed"]
  /\ UNCHANGED <<free, pending, user, task>>

\* The thread's answer reaches acquire_task.
Delivers(b) ==
  /\ worker[b] \in {"took", "missed"}
  /\ task[b] = "running"
  /\ task' = [task EXCEPT ![b] = "done"]
  /\ UNCHANGED <<free, pending, user, worker>>

\* A plausible bug: a caller that got no slot is never told.
Mut_RefusalForgotten(b) ==
  /\ user[b] = "waiting" /\ task[b] = "done" /\ worker[b] = "took"
  /\ pending' = pending - 1
  /\ user' = [user EXCEPT ![b] = "holding"]
  /\ UNCHANGED <<free, worker, task>>

\* The caller goes on: into the boot, or out with CapacityExhausted (503).
Resumes(b) ==
  /\ user[b] = "waiting" /\ task[b] = "done"
  /\ pending' = pending - 1
  /\ user' = [user EXCEPT ![b] = IF worker[b] = "took" THEN "holding" ELSE "left"]
  /\ UNCHANGED <<free, worker, task>>

\* The boot is over, well or badly: the finally clause releases.
Exits(b) ==
  /\ user[b] = "holding"
  /\ free' = free + 1
  /\ user' = [user EXCEPT ![b] = "left"]
  /\ worker' = [worker EXCEPT ![b] = "none"]
  /\ UNCHANGED <<pending, task>>

-----------------------------------------------------------------------------
(* Cancellation of a coroutine *)

\* A plausible bug: the decrement of pending is not in a finally clause.
Mut_CancelKeepsPending(b, at) ==
  /\ user[b] = "waiting"
  /\ at = IF task[b] = "done" THEN "delivered"
          ELSE IF worker[b] = "submitted" THEN "submitted" ELSE "acquiring"
  /\ user' = [user EXCEPT ![b] = "cancelled"]
  /\ task' = [task EXCEPT ![b] = IF at = "delivered" THEN "done" ELSE "cancelled"]
  /\ worker' = [worker EXCEPT ![b] = IF at = "submitted" THEN "none" ELSE @]
  /\ UNCHANGED <<free, pending>>

\* In "await acquire_task".  Cancelling the coroutine cancels the task it
\* awaits, unless that is done already, and the task's future, unless a
\* thread runs it already.  The done-callback is installed in every case.
CancelWaiting(b, at) ==
  /\ user[b] = "waiting"
  /\ at = IF task[b] = "done" THEN "delivered"
          ELSE IF worker[b] = "submitted" THEN "submitted" ELSE "acquiring"
  /\ pending' = pending - 1
  /\ user' = [user EXCEPT ![b] = "cancelled"]
  /\ task' = [task EXCEPT ![b] = IF at = "delivered" THEN "done" ELSE "cancelled"]
  /\ worker' = [worker EXCEPT ![b] = IF at = "submitted" THEN "none" ELSE @]
  /\ UNCHANGED free

\* Inside the with block: the finally clause releases.
CancelHolding(b) ==
  /\ user[b] = "holding"
  /\ free' = free + 1
  /\ user' = [user EXCEPT ![b] = "cancelled"]
  /\ worker' = [worker EXCEPT ![b] = "none"]
  /\ UNCHANGED <<pending, task>>

Cancel(b) ==
  \/ \E at \in CancelPoints : CancelWaiting(b, at)
  \/ "holding" \in CancelPoints /\ CancelHolding(b)

\* A plausible bug: the callback releases without looking at the answer.
Mut_LateReleaseUnchecked(b) ==
  /\ user[b] = "cancelled" /\ task[b] = "done" /\ worker[b] # "none"
  /\ free' = free + 1
  /\ worker' = [worker EXCEPT ![b] = "none"]
  /\ UNCHANGED <<pending, user, task>>

\* _release_on_late_acquire, run when acquire_task is over: it gives the slot
\* back if the task has a true answer, and does nothing for a cancelled task.
LateRelease(b) ==
  /\ user[b] = "cancelled" /\ task[b] = "done" /\ worker[b] # "none"
  /\ free' = IF worker[b] = "took" THEN free + 1 ELSE free
  /\ worker' = [worker EXCEPT ![b] = "none"]
  /\ UNCHANGED <<pending, user, task>>

-----------------------------------------------------------------------------
Next ==
  \/ \E b \in Boot : \/ Enter(b) \/ ThreadStarts(b) \/ Takes(b) \/ GivesUp(b)
                     \/ Delivers(b) \/ Resumes(b) \/ Exits(b)
  \/ \E b \in AsyncBoot : Cancel(b) \/ LateRelease(b)

Spec == Init /\ [][Next]_vars

\* The threads run, acquire() returns within its timeout, the loop resumes
\* what is ready, and a boot ends (it has its own timeouts).
FairBoot(b) ==
  /\ WF_vars(ThreadStarts(b)) /\ WF_vars(Takes(b) \/ GivesUp(b))
  /\ WF_vars(Delivers(b)) /\ WF_vars(Resumes(b)) /\ WF_vars(Exits(b))

Fairness == \A b \in Boot : FairBoot(b)

FairSpec == Spec /\ Fairness

-----------------------------------------------------------------------------
Waiting == {b \in Boot : user[b] = "waiting"}
Holding == {b \in Boot : user[b] = "holding"}
\* A slot on its way to a caller, or back from one cancelled too late for it.
InTransit == {b \in Boot : /\ worker[b] = "took"
                           /\ user[b] = "waiting" \/ (user[b] = "cancelled" /\ task[b] = "done")}

\* The type invariant.
TypeOK ==
  /\ free \in 0..Capacity /\ pending \in Nat
  /\ user \in [Boot -> {"new", "waiting", "holding", "left", "cancelled"}]
  /\ worker \in [Boot -> {"none", "submitted", "blocked", "took", "missed"}]
  /\ task \in [Boot -> {"none", "running", "done", "cancelled"}]

\* No slot is ever lost or made up: each is free, under a boot, or on its way,
\* through timeouts and cancellations.
NoSlotLost == free + Cardinality(Holding) + Cardinality(InTransit) = Capacity

\* The bound the semaphore is there for: the boots under way.
BootsBounded == Cardinality(Holding) <= Capacity

\* The queue depth that sizes the retry hint of a 503 counts the callers still
\* waiting, cancelled ones excluded.
PendingHonest == pending = Cardinality(Waiting)

\* Every caller is let in or told to come back, or is cancelled.
Answered(b) == user[b] = "waiting" ~> user[b] # "waiting"
CallersAnswered == \A b \in Boot : Answered(b)
=============================================================================
