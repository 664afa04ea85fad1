--------------------------- MODULE ReadersWriter ---------------------------
(***************************************************************************)
(* What the conflict gate promises the tasks that share a backend: a set   *)
(* of instances, each holding a set of keys either to read or to write,    *)
(* where no two holders of one key conflict.  There is no key table here,  *)
(* only the holds; ConflictKeyTable implements this specification.         *)
(***************************************************************************)
CONSTANTS Inst,   \* instance ids
          Key     \* opaque conflict keys

VARIABLE hold     \* what each instance holds

Hold   == [keys : SUBSET Key, mutating : BOOLEAN]
NoHold == [keys |-> {}, mutating |-> FALSE]

\* Readers share a key; a writer shares it with nobody.
Compatible(g, h) == g.keys \cap h.keys = {} \/ (~g.mutating /\ ~h.mutating)

Grant(i, h) ==
  /\ hold[i] = NoHold
  /\ h.keys # {}
  /\ \A j \in Inst : Compatible(hold[j], h)
  /\ hold' = [hold EXCEPT ![i] = h]

Free(i) == hold' = [hold EXCEPT ![i] = NoHold]

Init == hold = [i \in Inst |-> NoHold]

Next == \E i \in Inst : Free(i) \/ \E h \in Hold : Grant(i, h)

Spec == Init /\ [][Next]_hold
=============================================================================
