--------------------------- MODULE MCFleetRouter ---------------------------
(***************************************************************************)
(* Two servers A and B, and a Node object for each: a server that left the *)
(* roster joins it again only under a new router process.                 *)
(***************************************************************************)
EXTENDS FleetRouter

CONSTANTS A, B, a1, b1

MC_NameOf == [o \in NodeObj |-> IF o = b1 THEN B ELSE A]
MC_Rank   == [s \in Server |-> IF s = A THEN 1 ELSE 2]

MC_Surroundings == {{"restart", "roster", "bulk"}, {"crash", "drop", "bulk"}}
=============================================================================
