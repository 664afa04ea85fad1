---------------------------- MODULE AgentEpisode ----------------------------
(***************************************************************************)
(* What a remote episode promises its agent: steps that are taken one      *)
(* after the other and executed in that order.  An action is executed only *)
(* while its step is under way, or after the agent has given up on it, its *)
(* last; and the answer to a step tells what was executed.  There are no   *)
(* requests, hops, retries or handlers here; StepDelivery implements this  *)
(* specification.                                                          *)
(*                                                                         *)
(* The promise has one weakness, which the code has as well: a batch may   *)
(* be executed again, and then there is no order within that step.         *)
(***************************************************************************)
EXTENDS Naturals, Sequences

CONSTANTS
  Box,       \* containers the actions may be executed in
  MaxSteps,  \* steps of an episode
  BatchLen,  \* actions of a step
  Untold     \* told[n] of a step that has not been answered

VARIABLES
  step,      \* the step under way, or the last one; the reset is step 0
  at,        \* "calling" while it is under way; "ready" or "over" after it
  did,       \* did[c]: the actions executed in c, in order; action k of step n is <<n, k>>
  told,      \* told[n]: the actions that step n was said to have executed
  again      \* the steps whose batch is executed again

episodeVars == <<step, at, did, told, again>>

In(c)    == {did[c][i] : i \in DOMAIN did[c]}
Executed == UNION {In(c) : c \in Box}

Before(a, b) == a[1] < b[1] \/ (a[1] = b[1] /\ a[2] < b[2])

Init ==
  /\ step = 0 /\ at = "calling" /\ did = [c \in Box |-> <<>>]
  /\ told = [n \in 1..MaxSteps |-> Untold] /\ again = {}

Begin ==
  /\ at = "ready" /\ step < MaxSteps
  /\ step' = step + 1 /\ at' = "calling"
  /\ UNCHANGED <<did, told, again>>

\* An action of the step is executed, after all that was executed before.
Execute(c, k) ==
  /\ at # "ready" /\ step > 0
  /\ step \notin again => \A a \in Executed : Before(a, <<step, k>>)
  /\ did' = [did EXCEPT ![c] = Append(@, <<step, k>>)]
  /\ UNCHANGED <<step, at, told, again>>

\* The batch is begun again.
Restart ==
  /\ at # "ready" /\ again' = again \cup {step}
  /\ UNCHANGED <<step, at, did, told>>

\* The step is answered: its first k actions were executed, all in one container,
\* and nothing but perhaps the one after them besides.
Hear(k) ==
  /\ at = "calling" /\ at' = "ready"
  /\ step > 0 =>
       /\ \E c \in Box : \A j \in 1..k : <<step, j>> \in In(c)
       /\ step \notin again => \A a \in Executed : a[1] = step => a[2] <= k + 1
  /\ told' = IF step > 0 THEN [told EXCEPT ![step] = k] ELSE told
  /\ UNCHANGED <<step, did, again>>

\* The agent gives the episode up; what is under way is not told.
GiveUp ==
  /\ at = "calling" /\ at' = "over"
  /\ UNCHANGED <<step, did, told, again>>

Next ==
  \/ Begin \/ Restart \/ GiveUp
  \/ \E c \in Box, k \in 1..BatchLen : Execute(c, k)
  \/ \E k \in 0..BatchLen : Hear(k)

Spec == Init /\ [][Next]_episodeVars
=============================================================================
