---------------------- MODULE ConflictKeyTableProofs ----------------------
(***************************************************************************)
(* The conflict table, for every set of instances and keys.  The two       *)
(* conjuncts of TableInv are what the check of try_acquire relies on: it   *)
(* reads readers and writer, and the exclusion is about holders.           *)
(***************************************************************************)
EXTENDS ConflictKeyTable, TLAPS

TableInv == ConflictTypeOK /\ TableMatchesHolders /\ ReadersWriterExclusion

\* The empty table satisfies the invariant.
LEMMA InitTableInv == ConflictInit => TableInv
  BY NoInstAssumption
  DEF ConflictInit, TableInv, ConflictTypeOK, TableMatchesHolders,
      ReadersWriterExclusion, NoHold, Locks!NoHold, Locks!Hold, Locks!Compatible

\* What the check of try_acquire establishes: a granted hold is compatible
\* with every hold in the table.
LEMMA CheckedHoldIsCompatible ==
  ASSUME TableInv, NEW i \in Inst, NEW keys \in SUBSET Key,
         NEW mutating \in BOOLEAN, CanAcquire(keys, mutating), NEW j \in Inst
  PROVE  Locks!Compatible(holders[j], HoldOn(keys, mutating))
<1>1. CASE keys = {}
  BY <1>1 DEF HoldOn, NoHold, Locks!NoHold, Locks!Compatible
<1>2. CASE keys # {}
  <2>1. ASSUME NEW k \in holders[j].keys \cap keys
        PROVE  ~holders[j].mutating /\ ~mutating
    BY <2>1, NoInstAssumption
    DEF TableInv, ConflictTypeOK, TableMatchesHolders, CanAcquire, Locks!Hold
  <2>2. QED
    BY <1>2, <2>1 DEF HoldOn, Locks!Compatible
<1>3. QED
  BY <1>1, <1>2

\* The hold a claim records, in every case one of the abstract holds.
LEMMA HoldOnType ==
  ASSUME NEW keys \in SUBSET Key, NEW mutating \in BOOLEAN
  PROVE  HoldOn(keys, mutating) \in Locks!Hold
  BY DEF HoldOn, NoHold, Locks!NoHold, Locks!Hold

\* A claim of a fresh instance keeps the invariant.
LEMMA ClaimKeepsTableInv ==
  ASSUME TableInv, NEW i \in Inst, NEW keys \in SUBSET Key,
         NEW mutating \in BOOLEAN, Claim(i, keys, mutating)
  PROVE  TableInv'
<1>1. holders' = [holders EXCEPT ![i] = HoldOn(keys, mutating)]
  BY DEF Claim, TryAcquire, HoldOn, TableInv, ConflictTypeOK
<1>2. ConflictTypeOK'
  BY <1>1, HoldOnType DEF Claim, TryAcquire, TableInv, ConflictTypeOK
<1>3. TableMatchesHolders'
  <2> SUFFICES ASSUME NEW j \in Inst, NEW k \in Key
               PROVE  /\ j \in readers'[k] <=> k \in holders'[j].keys /\ ~holders'[j].mutating
                      /\ writer'[k] = j    <=> k \in holders'[j].keys /\ holders'[j].mutating
    BY DEF TableMatchesHolders
  <2>1. CASE j = i
    <3>1. holders'[j] = HoldOn(keys, mutating)
      BY <1>1, <2>1 DEF TableInv, ConflictTypeOK
    <3>2. i \notin readers[k] /\ writer[k] # i
      BY DEF Claim, NoHold, Locks!NoHold, TableInv, TableMatchesHolders
    <3>3. QED
      BY <2>1, <3>1, <3>2
      DEF Claim, TryAcquire, HoldOn, NoHold, Locks!NoHold
  <2>2. CASE j # i
    <3>1. holders'[j] = holders[j]
      BY <1>1, <2>2 DEF TableInv, ConflictTypeOK
    <3>2. j \in readers'[k] <=> j \in readers[k]
      BY <2>2 DEF Claim, TryAcquire
    <3>3. writer'[k] = j <=> writer[k] = j
      BY <2>2, NoInstAssumption DEF Claim, TryAcquire, CanAcquire
    <3>4. QED
      BY <3>1, <3>2, <3>3 DEF TableInv, TableMatchesHolders
  <2>3. QED
    BY <2>1, <2>2
<1>4. ReadersWriterExclusion'
  <2>1. \A j \in Inst : Locks!Compatible(holders[j], HoldOn(keys, mutating))
    BY CheckedHoldIsCompatible DEF Claim, TryAcquire
  <2>2. QED
    BY <1>1, <2>1
    DEF TableInv, ConflictTypeOK, ReadersWriterExclusion, Locks!Compatible
<1>5. QED
  BY <1>2, <1>3, <1>4 DEF TableInv

\* A release keeps the invariant, whoever asks for it and however often.
LEMMA ReleaseKeepsTableInv ==
  ASSUME TableInv, NEW i \in Inst, Release(i)
  PROVE  TableInv'
<1>1. holders' = [holders EXCEPT ![i] = NoHold]
  BY DEF Release
<1>2. ConflictTypeOK'
  BY <1>1 DEF Release, TableInv, ConflictTypeOK, NoHold, Locks!NoHold, Locks!Hold
<1>3. TableMatchesHolders'
  BY <1>1, NoInstAssumption
  DEF Release, TableInv, ConflictTypeOK, TableMatchesHolders, NoHold,
      Locks!NoHold, Locks!Hold
<1>4. ReadersWriterExclusion'
  BY <1>1
  DEF TableInv, ConflictTypeOK, ReadersWriterExclusion, Locks!Compatible,
      NoHold, Locks!NoHold
<1>5. QED
  BY <1>2, <1>3, <1>4 DEF TableInv

\* Nothing in the table changes when its variables do not.
LEMMA StutterKeepsTableInv ==
  TableInv /\ UNCHANGED conflictVars => TableInv'
  BY DEF TableInv, ConflictTypeOK, TableMatchesHolders, ReadersWriterExclusion,
         Locks!Compatible, conflictVars

\* The invariant holds in every reachable state of the table.
THEOREM TableInvariant == ConflictSpec => []TableInv
<1>1. TableInv /\ [ConflictNext]_conflictVars => TableInv'
  BY ClaimKeepsTableInv, ReleaseKeepsTableInv, StutterKeepsTableInv DEF ConflictNext
<1>2. QED
  BY <1>1, InitTableInv, PTL DEF ConflictSpec

\* Two instances that hold a common key are both readers of it, and the key
\* map always agrees with the holder map.
THEOREM TableIsolates ==
  ConflictSpec => [](ReadersWriterExclusion /\ TableMatchesHolders)
<1>1. TableInv => ReadersWriterExclusion /\ TableMatchesHolders
  BY DEF TableInv
<1>2. QED
  BY <1>1, TableInvariant, PTL

\* The key table implements the abstract readers-writer lock: a claim is a
\* grant (or, with no keys, a stutter) and a release frees.
THEOREM TableImplementsReadersWriter == ConflictSpec => ImplementsReadersWriter
<1>1. ConflictInit => Locks!Init
  BY DEF ConflictInit, Locks!Init, NoHold
<1>2. TableInv /\ [ConflictNext]_conflictVars => [Locks!Next]_holders
  <2> SUFFICES ASSUME TableInv, [ConflictNext]_conflictVars
               PROVE  Locks!Next \/ UNCHANGED holders
    OBVIOUS
  <2>1. CASE UNCHANGED conflictVars
    BY <2>1 DEF conflictVars
  <2>2. ASSUME NEW i \in Inst, Release(i)
        PROVE  Locks!Next
    BY <2>2 DEF Release, NoHold, Locks!Next, Locks!Free
  <2>3. ASSUME NEW i \in Inst, NEW keys \in SUBSET Key, NEW mutating \in BOOLEAN,
               Claim(i, keys, mutating)
        PROVE  Locks!Next \/ UNCHANGED holders
    <3>1. CASE keys = {}
      BY <2>3, <3>1 DEF Claim, TryAcquire, TableInv, ConflictTypeOK
    <3>2. CASE keys # {}
      <4> DEFINE h == HoldOn(keys, mutating)
      <4>1. h \in Locks!Hold /\ h.keys # {}
        BY <3>2, HoldOnType DEF HoldOn
      <4>2. \A j \in Inst : Locks!Compatible(holders[j], h)
        BY <2>3, CheckedHoldIsCompatible DEF Claim, TryAcquire
      <4>3. Locks!Grant(i, h)
        BY <2>3, <3>2, <4>1, <4>2 DEF Claim, TryAcquire, NoHold, Locks!Grant
      <4>4. QED
        BY <4>1, <4>3 DEF Locks!Next
    <3>3. QED
      BY <3>1, <3>2
  <2>4. QED
    BY <2>1, <2>2, <2>3 DEF ConflictNext
<1>3. QED
  BY <1>1, <1>2, TableInvariant, PTL
  DEF ConflictSpec, ImplementsReadersWriter, Locks!Spec
=============================================================================
