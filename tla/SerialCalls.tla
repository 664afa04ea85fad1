---------------------------- MODULE SerialCalls ----------------------------
(***************************************************************************)
(* What an exec-stdio session promises those who call it: one call at a    *)
(* time, each with an op that is executed in the container at most once,   *)
(* or at most twice if it only reads.  A call that is answered was         *)
(* executed; a call that fails may still be executed later.  There are no  *)
(* pipes, processes or requests here; ExecStdio implements this            *)
(* specification.                                                          *)
(***************************************************************************)
EXTENDS Naturals

CONSTANT Call     \* the calls, numbered from 1 in the order of their turns

VARIABLES turn,     \* the call under way, 0 if there is none
          reads,    \* reads[n]: the op of call n only reads
          outcome,  \* how call n has ended
          runs      \* how often the op of call n has been executed

promiseVars == <<turn, reads, outcome, runs>>

Init ==
  /\ turn = 0 /\ reads = [n \in Call |-> FALSE]
  /\ outcome = [n \in Call |-> "none"] /\ runs = [n \in Call |-> 0]

\* Call n has its turn, after all those before it have ended.
Begin(n, readOnly) ==
  /\ turn = 0 /\ outcome[n] = "none" /\ \A m \in 1..(n - 1) : outcome[m] # "none"
  /\ turn' = n /\ reads' = [reads EXCEPT ![n] = readOnly]
  /\ UNCHANGED <<outcome, runs>>

\* Its op is executed: while the call is under way, or after it has failed.
Execute(n) ==
  /\ turn = n \/ outcome[n] # "none"
  /\ outcome[n] = "answered" => reads[n]
  /\ runs[n] < (IF reads[n] THEN 2 ELSE 1)
  /\ runs' = [runs EXCEPT ![n] = @ + 1]
  /\ UNCHANGED <<turn, reads, outcome>>

\* The call returns an answer, which only an executed op has, or raises.
End(how) ==
  /\ turn # 0 /\ (how = "answered" => runs[turn] > 0)
  /\ turn' = 0 /\ outcome' = [outcome EXCEPT ![turn] = how]
  /\ UNCHANGED <<reads, runs>>

Next ==
  \/ \E n \in Call : Execute(n) \/ \E readOnly \in BOOLEAN : Begin(n, readOnly)
  \/ \E how \in {"answered", "failed"} : End(how)

Spec == Init /\ [][Next]_promiseVars
=============================================================================
