---------------------------- MODULE MCPortLeases ----------------------------
(***************************************************************************)
(* Two boots of one process and one of another, both processes on the host *)
(* or the second in a container.                                           *)
(***************************************************************************)
EXTENDS PortLeases, TLC

CONSTANTS pid1, pid2, b1, b2, b3, slime

MC_ProcOf == [b \in Boot |-> IF b = b3 THEN pid2 ELSE pid1]
MC_Layouts ==
  {[P \in Proc |-> Host], [P \in Proc |-> IF P = pid1 THEN Host ELSE slime]}
MC_Symmetry == Permutations(Port) \cup Permutations({b1, b2})
=============================================================================
