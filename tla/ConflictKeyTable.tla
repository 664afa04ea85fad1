------------------------- MODULE ConflictKeyTable -------------------------
(***************************************************************************)
(* lite/gym/remote/conflict.py: the readers-writer table that keeps two    *)
(* instances sharing a mutable backend apart.  The table has no lock of    *)
(* its own; every operation below is one critical section of State.lock,   *)
(* hence one step.  A key the code has garbage-collected is a key with no  *)
(* reader and no writer, and an instance that is not in _holders is one    *)
(* that holds NoHold (an acquire of no keys records nothing).              *)
(***************************************************************************)
CONSTANTS Inst,    \* instance ids (uuid4 hex in the code: never reused)
          Key,     \* opaque labels of shared resources
          NoInst   \* the None of _KeyState.writer

ASSUME NoInstAssumption == NoInst \notin Inst

VARIABLES readers,   \* _keys[k].readers
          writer,    \* _keys[k].writer
          holders    \* _holders[i] = (keys, mutating)

conflictVars == <<readers, writer, holders>>

Locks == INSTANCE ReadersWriter WITH hold <- holders

NoHold == Locks!NoHold

HoldOn(keys, mutating) ==
  IF keys = {} THEN NoHold ELSE [keys |-> keys, mutating |-> mutating]

ConflictInit ==
  /\ readers = [k \in Key |-> {}]
  /\ writer  = [k \in Key |-> NoInst]
  /\ holders = [i \in Inst |-> NoHold]

-----------------------------------------------------------------------------
\* A plausible bug of try_acquire: a writer is let in beside readers.
Mut_WriterIgnoresReaders(keys, mutating) == \A k \in keys : writer[k] = NoInst

\* The check half of try_acquire: it looks at ALL the keys before it takes one.
CanAcquire(keys, mutating) ==
  \A k \in keys : writer[k] = NoInst /\ (mutating => readers[k] = {})

\* try_acquire returning True.  When it returns False nothing changes, and
\* the caller answers 503.
TryAcquire(i, keys, mutating) ==
  /\ CanAcquire(keys, mutating)
  /\ writer'  = [k \in Key |-> IF mutating /\ k \in keys THEN i ELSE writer[k]]
  /\ readers' = [k \in Key |-> IF ~mutating /\ k \in keys
                               THEN readers[k] \cup {i} ELSE readers[k]]
  /\ holders' = [holders EXCEPT ![i] = IF keys = {} THEN @
                                       ELSE HoldOn(keys, mutating)]

\* release: idempotent, and a no-op for an instance that holds nothing.
Release(i) ==
  LET held      == holders[i]
      writes(k) == held.mutating /\ writer[k] = i
  IN /\ writer'  = [k \in Key |-> IF k \in held.keys /\ writes(k)
                                  THEN NoInst ELSE writer[k]]
     /\ readers' = [k \in Key |-> IF k \in held.keys /\ ~writes(k)
                                  THEN readers[k] \ {i} ELSE readers[k]]
     /\ holders' = [holders EXCEPT ![i] = NoHold]

-----------------------------------------------------------------------------
\* The table on its own, under any caller that claims once per instance id.
Claim(i, keys, mutating) == holders[i] = NoHold /\ TryAcquire(i, keys, mutating)

ConflictNext ==
  \E i \in Inst :
    \/ Release(i)
    \/ \E keys \in SUBSET Key, mutating \in BOOLEAN : Claim(i, keys, mutating)

ConflictSpec == ConflictInit /\ [][ConflictNext]_conflictVars

-----------------------------------------------------------------------------
\* The type invariant of the table.
ConflictTypeOK ==
  /\ readers \in [Key -> SUBSET Inst]
  /\ writer  \in [Key -> Inst \cup {NoInst}]
  /\ holders \in [Inst -> Locks!Hold]

\* The two maps of the table never disagree: a key's readers and writer are
\* exactly the instances whose recorded hold says so, so that a release by
\* instance id alone (every close and failure path) frees what was taken.
TableMatchesHolders ==
  \A i \in Inst, k \in Key :
    /\ i \in readers[k] <=> k \in holders[i].keys /\ ~holders[i].mutating
    /\ writer[k] = i    <=> k \in holders[i].keys /\ holders[i].mutating

\* The isolation contract of the module's docstring: two instances that hold
\* a common key are both readers of it.
ReadersWriterExclusion ==
  \A i, j \in Inst : i # j => Locks!Compatible(holders[i], holders[j])

\* The key-by-key check of try_acquire implements the pairwise readers-writer
\* lock it is meant to be.
ImplementsReadersWriter == Locks!Spec
=============================================================================
