---------------------------- MODULE MCEnvServer ----------------------------
(***************************************************************************)
(* The instances TLC gives EnvServer: w, that writes under every key, r,   *)
(* that reads them on the same env_id, and p, of another tenant and        *)
(* env_id, that reads the keys other than k1 (none where Key is {k1}).     *)
(***************************************************************************)
EXTENDS EnvServer

CONSTANTS w, r, p, k1, k2, chrome, desktop, alice, bob, s1, s2

MC_EnvOf     == [i \in Inst |-> IF i = p THEN desktop ELSE chrome]
MC_OwnerOf   == [i \in Inst |-> IF i = p THEN bob ELSE alice]
MC_SessionOf == [i \in Inst |-> IF i = r THEN s2 ELSE s1]
MC_KeysOf    == [i \in Inst |-> IF i = p THEN Key \ {k1} ELSE Key]
MC_Mutating  == Inst \cap {w}
=============================================================================
