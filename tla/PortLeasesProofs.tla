------------------------- MODULE PortLeasesProofs -------------------------
(***************************************************************************)
(* For any number of ports, processes and boots, wherever the processes    *)
(* run: owners of a port have its entry and are alone with it, unless the  *)
(* lease ran out, a process of another place pruned it or the file was     *)
(* torn, and no entry of a living process is left behind.                  *)
(*                                                                         *)
(* The three need each other.  A new owner meets another one only through  *)
(* an entry that the prune did not keep, which by LeaseKept names a living *)
(* process; a release pops the entries of its own ports only, because by   *)
(* PortsExclusive no other lease that is in force is among them.           *)
(***************************************************************************)
EXTENDS PortLeases, TLAPS

IdleOwnsNothing == \A b \in Boot : pc[b] = "idle" => ports[b] = {}
DeadAreIdle == \A b \in Boot : ProcOf[b] \in dead => pc[b] = "idle"

IInv ==
  /\ TypeOK /\ IdleOwnsNothing /\ DeadAreIdle
  /\ PortsExclusive /\ LeaseKept /\ NoPortLeaks

-----------------------------------------------------------------------------
(* Types *)

\* allocate_ports writes the file and the cache with values of their types.
LEMMA ReserveType ==
  ASSUME TypeOK, NEW P \in Proc, NEW l, NEW S \in SUBSET Port, Reserve(P, l, S)
  PROVE  /\ res' \in [Port -> Proc \cup {None}] /\ wall' \subseteq Port
         /\ cache' \in [Proc -> [Port -> {"absent", "old", "recent"}]]
         /\ lost' \subseteq Port /\ place' \in Layouts
<1>1. res' \in [Port -> Proc \cup {None}]
  BY DEF TypeOK, Reserve
<1>2. wall' \subseteq Port /\ lost' \subseteq Port /\ place' \in Layouts
  BY DEF TypeOK, Reserve, Overdue, Foreign
<1>3. cache' \in [Proc -> [Port -> {"absent", "old", "recent"}]]
  BY DEF TypeOK, Reserve
<1> QED BY <1>1, <1>2, <1>3

\* Every step leaves the variables in their types.
LEMMA TypeStep ==
  ASSUME TypeOK, [Next]_vars
  PROVE  TypeOK'
<1> USE LeaseAssumption
<1>1. ASSUME NEW b \in Boot, Allocate(b)
      PROVE  TypeOK'
  <2>0. PICK l \in Looks(ProcOf[b]) :
          \E S \in SUBSET (Port \ (Kept(ProcOf[b], l) \cup l.taken)) :
            Reserve(ProcOf[b], l, S) /\ ports' = [ports EXCEPT ![b] = S]
    BY <1>1 DEF Allocate
  <2>1. PICK S \in SUBSET (Port \ (Kept(ProcOf[b], l) \cup l.taken)) :
          Reserve(ProcOf[b], l, S) /\ ports' = [ports EXCEPT ![b] = S]
    BY <2>0
  <2>2. ProcOf[b] \in Proc /\ S \in SUBSET Port
    OBVIOUS
  <2>3. pc' \in [Boot -> {"idle", "held", "run", "up", "ending", "removed", "release"}]
    BY <1>1 DEF Allocate, Goes, TypeOK
  <2>4. ports' \in [Boot -> SUBSET Port]
    BY <2>1, <2>2 DEF TypeOK
  <2> QED BY <1>1, <2>1, <2>2, <2>3, <2>4, ReserveType DEF Allocate, TypeOK, dockerVars
<1>2. ASSUME NEW b \in Boot, Exhausted(b)
      PROVE  TypeOK'
  <2>1. PICK l \in Looks(ProcOf[b]) : ProcOf[b] \in Proc /\ Reserve(ProcOf[b], l, {})
    BY <1>2 DEF Exhausted
  <2> QED BY <1>2, <2>1, ReserveType DEF Exhausted, TypeOK, dockerVars
<1>3. ASSUME NEW b \in Boot, Touch(b)
      PROVE  TypeOK'
  <2>1. cache' \in [Proc -> [Port -> {"absent", "old", "recent"}]]
    BY <1>3 DEF Touch, TypeOK
  <2>2. wall' \subseteq Port
    BY <1>3 DEF Touch, TypeOK
  <2> QED BY <1>3, <2>1, <2>2 DEF Touch, Goes, TypeOK, dockerVars
<1>4. ASSUME NEW b \in Boot, RunOk(b) \/ RunFails(b) \/ RunTimesOut(b) \/ Destroy(b) \/ Remove(b)
      PROVE  TypeOK'
  <2>1. pc' \in [Boot -> {"idle", "held", "run", "up", "ending", "removed", "release"}]
    BY <1>4 DEF RunOk, RunFails, RunTimesOut, Destroy, Remove, Goes, TypeOK
  <2>2. live' \subseteq Boot /\ stray' \subseteq Port /\ late' \subseteq Port
    BY <1>4 DEF RunOk, RunFails, RunTimesOut, Destroy, Remove, TypeOK, dockerVars
  <2>3. UNCHANGED <<place, res, wall, cache, lost, ports, dead>>
    BY <1>4 DEF RunOk, RunFails, RunTimesOut, Destroy, Remove, leaseVars
  <2> QED BY <2>1, <2>2, <2>3 DEF TypeOK
<1>5. ASSUME NEW b \in Boot, ReleaseCache(b)
      PROVE  TypeOK'
  <2>1. cache' \in [Proc -> [Port -> {"absent", "old", "recent"}]]
    BY <1>5 DEF ReleaseCache, TypeOK
  <2> QED BY <1>5, <2>1 DEF ReleaseCache, Goes, TypeOK, dockerVars
<1>6. ASSUME NEW b \in Boot, Release(b)
      PROVE  TypeOK'
  BY <1>6 DEF Release, Goes, TypeOK, dockerVars
<1>7. ASSUME NEW p \in Port, Lapse(p)
      PROVE  TypeOK'
  <2>1. cache' \in [Proc -> [Port -> {"absent", "old", "recent"}]]
    <3>1. CASE UNCHANGED cache
      BY <3>1 DEF TypeOK
    <3>2. ASSUME NEW P \in Proc, cache' = [cache EXCEPT ![P][p] = "old"]
          PROVE  cache' \in [Proc -> [Port -> {"absent", "old", "recent"}]]
      BY <3>2 DEF TypeOK
    <3> QED BY <1>7, <3>1, <3>2 DEF Lapse
  <2>2. wall' \subseteq Port
    BY <1>7 DEF Lapse, TypeOK
  <2> QED BY <1>7, <2>1, <2>2 DEF Lapse, TypeOK, dockerVars
<1>8. ASSUME NEW p \in Port, LateBind(p) \/ StrayGone(p)
      PROVE  TypeOK'
  BY <1>8 DEF LateBind, StrayGone, TypeOK, leaseVars
<1>9. ASSUME NEW P \in Proc, Crash(P) \/ Torn(P)
      PROVE  TypeOK'
  <2> DEFINE mine == {b \in Boot : ProcOf[b] = P}
  <2>0. Dies(P)
    BY <1>9 DEF Crash, Torn
  <2>1. stray' \subseteq Port
    BY <2>0 DEF Dies, TypeOK
  <2>2. late' \subseteq Port
    BY <2>0 DEF Dies, TypeOK
  <2>3. pc' \in [Boot -> {"idle", "held", "run", "up", "ending", "removed", "release"}]
        /\ ports' \in [Boot -> SUBSET Port]
    BY <2>0 DEF Dies, TypeOK
  <2>4. live' \subseteq Boot /\ dead' \subseteq Proc
    BY <2>0 DEF Dies, TypeOK
  <2>5. /\ res' \in [Port -> Proc \cup {None}] /\ wall' \subseteq Port
        /\ lost' \subseteq Port /\ UNCHANGED <<place, cache>>
    BY <1>9 DEF Crash, Torn, TypeOK
  <2> QED BY <2>1, <2>2, <2>3, <2>4, <2>5 DEF TypeOK
<1>10. CASE UNCHANGED vars
  BY <1>10 DEF TypeOK, vars
<1> QED BY <1>1, <1>2, <1>3, <1>4, <1>5, <1>6, <1>7, <1>8, <1>9, <1>10 DEF Next, BootStep

-----------------------------------------------------------------------------
(* Leases *)

\* A prune by allocate_ports spares the lease of every owner, or marks it.
LEMMA PruneSpares ==
  ASSUME IInv, NEW P \in Proc, NEW l \in Looks(P), NEW S, Reserve(P, l, S),
         NEW b \in Boot, NEW p \in ports[b], p \notin lost'
  PROVE  p \in Kept(P, l) /\ res[p] = ProcOf[b]
<1> USE LeaseAssumption
<1>1. p \in Port
  BY DEF IInv, TypeOK
<1>2. p \notin lost /\ p \notin Overdue(P, l) /\ p \notin Foreign(P, l)
  BY DEF Reserve
<1>3. res[p] = ProcOf[b]
  BY <1>2 DEF IInv, LeaseKept
<1>4. ProcOf[b] \notin dead
  BY DEF IInv, DeadAreIdle, IdleOwnsNothing
<1>5. ProcOf[b] \in l.alive
  <2>1. CASE place[ProcOf[b]] = place[P]
    BY <1>4, <2>1 DEF Looks
  <2>2. CASE place[ProcOf[b]] # place[P]
    BY <1>1, <1>2, <2>2 DEF Foreign
  <2> QED BY <2>1, <2>2
<1> QED BY <1>1, <1>2, <1>3, <1>5 DEF Kept, Overdue, Owned

\* The steps that neither prune nor release: the file names the same owners.
LEMMA QuietStep ==
  ASSUME IInv, TypeOK', UNCHANGED <<res, ports, lost, dead>>,
         \A b \in Boot : pc'[b] = "idle" <=> pc[b] = "idle"
  PROVE  IInv'
<1>1. IdleOwnsNothing' /\ DeadAreIdle'
  BY DEF IInv, IdleOwnsNothing, DeadAreIdle
<1>2. PortsExclusive' /\ LeaseKept' /\ NoPortLeaks'
  BY DEF IInv, PortsExclusive, LeaseKept, NoPortLeaks
<1> QED BY <1>1, <1>2 DEF IInv

\* allocate_ports for a boot.
LEMMA AllocateStep ==
  ASSUME IInv, TypeOK', NEW b \in Boot, Allocate(b)
  PROVE  IInv'
<1> USE LeaseAssumption
<1> DEFINE P == ProcOf[b]
<1>0. P \in Proc
  OBVIOUS
<1>view. PICK l \in Looks(P) :
         \E S \in SUBSET (Port \ (Kept(P, l) \cup l.taken)) :
           Reserve(P, l, S) /\ ports' = [ports EXCEPT ![b] = S]
  BY DEF Allocate
<1>1. PICK S \in SUBSET (Port \ (Kept(P, l) \cup l.taken)) :
        Reserve(P, l, S) /\ ports' = [ports EXCEPT ![b] = S]
  BY <1>view
<1>2. /\ P \notin dead /\ dead' = dead /\ pc[b] = "idle" /\ ports[b] = {}
      /\ pc' = [pc EXCEPT ![b] = "held"]
  BY DEF Allocate, Goes, IInv, IdleOwnsNothing
<1>3. pc'[b] = "held" /\ ports'[b] = S /\ \A c \in Boot \ {b} : pc'[c] = pc[c] /\ ports'[c] = ports[c]
  BY <1>1, <1>2 DEF IInv, TypeOK
<1>4. \A p \in Port : res'[p] = IF p \in S THEN P ELSE IF p \in Kept(P, l) THEN res[p] ELSE None
  BY <1>1 DEF Reserve
<1>5. \A c \in Boot \ {b} : \A p \in ports[c] \ lost' : p \in Kept(P, l) /\ res[p] = ProcOf[c]
  BY <1>0, <1>1, PruneSpares
<1>6. IdleOwnsNothing' /\ DeadAreIdle'
  BY <1>2, <1>3 DEF IInv, IdleOwnsNothing, DeadAreIdle
<1>7. PortsExclusive'
  <2> SUFFICES ASSUME NEW a \in Boot, NEW c \in Boot, a # c, NEW p \in ports'[a] \cap ports'[c]
               PROVE  p \in lost'
    BY DEF PortsExclusive
  <2>1. CASE a # b /\ c # b
    <3>1. p \in lost
      BY <1>3, <2>1 DEF IInv, PortsExclusive
    <3> QED BY <1>1, <3>1 DEF Reserve
  <2>2. CASE a = b \/ c = b
    BY <1>3, <1>5, <2>2
  <2> QED BY <2>1, <2>2
<1>8. LeaseKept'
  <2> SUFFICES ASSUME NEW c \in Boot, NEW p \in ports'[c] \ lost'
               PROVE  res'[p] = ProcOf[c]
    BY DEF LeaseKept
  <2>1. p \in Port
    BY DEF TypeOK
  <2>2. CASE c = b
    BY <1>3, <1>4, <2>1, <2>2
  <2>3. CASE c # b
    BY <1>3, <1>4, <1>5, <2>1, <2>3
  <2> QED BY <2>2, <2>3
<1>9. NoPortLeaks'
  <2> SUFFICES ASSUME NEW p \in Port, res'[p] \notin dead \cup {None}
               PROVE  \E c \in Boot : ProcOf[c] = res'[p] /\ p \in ports'[c]
    BY <1>2 DEF NoPortLeaks
  <2>1. CASE p \in S
    BY <1>3, <1>4, <2>1
  <2>2. CASE p \notin S
    <3>1. res'[p] = res[p]
      BY <1>4, <2>2
    <3>2. PICK c \in Boot : ProcOf[c] = res[p] /\ p \in ports[c]
      BY <3>1 DEF IInv, NoPortLeaks
    <3> QED BY <1>2, <1>3, <3>1, <3>2
  <2> QED BY <2>1, <2>2
<1> QED BY <1>6, <1>7, <1>8, <1>9 DEF IInv

\* allocate_ports that finds too few.
LEMMA ExhaustedStep ==
  ASSUME IInv, TypeOK', NEW b \in Boot, Exhausted(b)
  PROVE  IInv'
<1> USE LeaseAssumption
<1> DEFINE P == ProcOf[b]
<1>1. PICK l \in Looks(P) : P \in Proc /\ Reserve(P, l, {}) /\ UNCHANGED <<pc, ports, dead>>
  BY DEF Exhausted
<1>2. \A p \in Port : res'[p] = IF p \in Kept(P, l) THEN res[p] ELSE None
  BY <1>1 DEF Reserve
<1>3. \A c \in Boot : \A p \in ports[c] \ lost' : p \in Kept(P, l) /\ res[p] = ProcOf[c]
  BY <1>1, PruneSpares
<1>4. IdleOwnsNothing' /\ DeadAreIdle'
  BY <1>1 DEF IInv, IdleOwnsNothing, DeadAreIdle
<1>5. PortsExclusive'
  BY <1>1 DEF Reserve, IInv, PortsExclusive
<1>6. LeaseKept'
  BY <1>1, <1>2, <1>3 DEF LeaseKept, TypeOK
<1>7. NoPortLeaks'
  BY <1>1, <1>2 DEF IInv, NoPortLeaks
<1> QED BY <1>4, <1>5, <1>6, <1>7 DEF IInv

\* release_ports pops the entries of its own ports only.
LEMMA ReleaseStep ==
  ASSUME IInv, TypeOK', NEW b \in Boot, Release(b)
  PROVE  IInv'
<1>1. /\ pc'[b] = "idle" /\ ports'[b] = {} /\ dead' = dead
      /\ \A c \in Boot \ {b} : pc'[c] = pc[c] /\ ports'[c] = ports[c]
  BY DEF Release, Goes, IInv, TypeOK
<1>2. \A p \in Port : res'[p] = IF p \in ports[b] THEN None ELSE res[p]
  BY DEF Release
<1>3. \A c \in Boot : \A p \in ports'[c] : p \in lost <=> p \in lost'
  BY DEF Release, Owned
<1>4. IdleOwnsNothing' /\ DeadAreIdle'
  BY <1>1 DEF IInv, IdleOwnsNothing, DeadAreIdle
<1>5. PortsExclusive'
  <2> SUFFICES ASSUME NEW a \in Boot, NEW c \in Boot, a # c, NEW p \in ports'[a] \cap ports'[c]
               PROVE  p \in lost'
    BY DEF PortsExclusive
  <2>1. a # b /\ c # b
    BY <1>1
  <2>2. p \in lost
    BY <1>1, <2>1 DEF IInv, PortsExclusive
  <2> QED BY <1>3, <2>2
<1>6. LeaseKept'
  <2> SUFFICES ASSUME NEW c \in Boot, NEW p \in ports'[c] \ lost'
               PROVE  res'[p] = ProcOf[c]
    BY DEF LeaseKept
  <2>1. p \in Port /\ c # b /\ p \in ports[c] /\ p \notin lost
    BY <1>1, <1>3 DEF TypeOK
  <2>2. p \notin ports[b]
    BY <2>1 DEF IInv, PortsExclusive
  <2> QED BY <1>2, <2>1, <2>2 DEF IInv, LeaseKept
<1>7. NoPortLeaks'
  <2> SUFFICES ASSUME NEW p \in Port, res'[p] \notin dead \cup {None}
               PROVE  \E c \in Boot : ProcOf[c] = res'[p] /\ p \in ports'[c]
    BY <1>1 DEF NoPortLeaks
  <2>1. p \notin ports[b] /\ res'[p] = res[p]
    BY <1>2
  <2>2. PICK c \in Boot : ProcOf[c] = res[p] /\ p \in ports[c]
    BY <2>1 DEF IInv, NoPortLeaks
  <2> QED BY <1>1, <2>1, <2>2
<1> QED BY <1>4, <1>5, <1>6, <1>7 DEF IInv

\* The boots of a process that dies own nothing any more.
LEMMA Orphaned ==
  ASSUME IInv, NEW P \in Proc, Dies(P)
  PROVE  /\ dead' = dead \cup {P}
         /\ \A b \in Boot : ProcOf[b] = P => pc'[b] = "idle" /\ ports'[b] = {}
         /\ \A b \in Boot : ProcOf[b] # P => pc'[b] = pc[b] /\ ports'[b] = ports[b]
         /\ IdleOwnsNothing' /\ DeadAreIdle'
<1>1. /\ dead' = dead \cup {P}
      /\ \A b \in Boot : ProcOf[b] = P => pc'[b] = "idle" /\ ports'[b] = {}
      /\ \A b \in Boot : ProcOf[b] # P => pc'[b] = pc[b] /\ ports'[b] = ports[b]
  BY DEF Dies
<1> QED BY <1>1 DEF IInv, IdleOwnsNothing, DeadAreIdle

\* A process dies; its entries stay, and are a dead process's from now on.
LEMMA CrashStep ==
  ASSUME IInv, TypeOK', NEW P \in Proc, Crash(P)
  PROVE  IInv'
<1> USE LeaseAssumption
<1>1. /\ res' = res /\ dead' = dead \cup {P} /\ IdleOwnsNothing' /\ DeadAreIdle'
      /\ \A b \in Boot : ProcOf[b] = P => pc'[b] = "idle" /\ ports'[b] = {}
      /\ \A b \in Boot : ProcOf[b] # P => pc'[b] = pc[b] /\ ports'[b] = ports[b]
  BY Orphaned DEF Crash
<1>2. \A c \in Boot : \A p \in ports'[c] : p \in lost <=> p \in lost'
  BY DEF Crash, Owned
<1>3. PortsExclusive'
  BY <1>1, <1>2 DEF IInv, PortsExclusive
<1>4. LeaseKept'
  BY <1>1, <1>2 DEF IInv, LeaseKept
<1>5. NoPortLeaks'
  <2> SUFFICES ASSUME NEW p \in Port, res[p] \notin dead' \cup {None}
               PROVE  \E c \in Boot : ProcOf[c] = res[p] /\ p \in ports'[c]
    BY <1>1 DEF NoPortLeaks
  <2>1. res[p] # P /\ res[p] \notin dead \cup {None}
    BY <1>1
  <2>2. PICK c \in Boot : ProcOf[c] = res[p] /\ p \in ports[c]
    BY <2>1 DEF IInv, NoPortLeaks
  <2> QED BY <1>1, <2>1, <2>2
<1> QED BY <1>1, <1>3, <1>4, <1>5 DEF IInv

\* It tears the file: all that is owned is marked, and no entry is left.
LEMMA TornStep ==
  ASSUME IInv, TypeOK', NEW P \in Proc, Torn(P)
  PROVE  IInv'
<1>1. /\ IdleOwnsNothing' /\ DeadAreIdle'
      /\ \A p \in Port : res'[p] = None
  BY Orphaned DEF Torn
<1>2. \A c \in Boot : ports'[c] \subseteq lost'
  BY DEF Torn, Owned, TypeOK
<1>3. PortsExclusive' /\ LeaseKept'
  BY <1>2 DEF PortsExclusive, LeaseKept
<1>4. NoPortLeaks'
  BY <1>1 DEF NoPortLeaks
<1> QED BY <1>1, <1>3, <1>4 DEF IInv

-----------------------------------------------------------------------------
\* No process has a lease when the machine comes up.
LEMMA InitHolds == Init => IInv
<1> SUFFICES ASSUME Init PROVE IInv
  OBVIOUS
<1>1. TypeOK
  BY DEF Init, TypeOK
<1>2. IdleOwnsNothing /\ DeadAreIdle /\ PortsExclusive /\ LeaseKept /\ NoPortLeaks
  BY DEF Init, IdleOwnsNothing, DeadAreIdle, PortsExclusive, LeaseKept, NoPortLeaks
<1> QED BY <1>1, <1>2 DEF IInv

\* Every step of every process keeps the whole invariant.
LEMMA NextHolds == IInv /\ [Next]_vars => IInv'
<1> SUFFICES ASSUME IInv, [Next]_vars PROVE IInv'
  OBVIOUS
<1>0. TypeOK'
  BY TypeStep DEF IInv
<1>1. ASSUME NEW b \in Boot, BootStep(b)
      PROVE  IInv'
  <2>1. CASE Allocate(b)
    BY <1>0, <2>1, AllocateStep
  <2>2. CASE Exhausted(b)
    BY <1>0, <2>2, ExhaustedStep
  <2>3. CASE Release(b)
    BY <1>0, <2>3, ReleaseStep
  <2>4. CASE Touch(b) \/ RunOk(b) \/ RunFails(b) \/ RunTimesOut(b) \/ Destroy(b) \/ Remove(b) \/ ReleaseCache(b)
    <3>1. UNCHANGED <<res, ports, lost, dead>>
      BY <2>4 DEF Touch, RunOk, RunFails, RunTimesOut, Destroy, Remove, ReleaseCache, leaseVars
    <3>2. PICK from, to \in {"held", "run", "up", "ending", "removed", "release"} : Goes(b, from, to)
      BY <2>4 DEF Touch, RunOk, RunFails, RunTimesOut, Destroy, Remove, ReleaseCache
    <3>3. \A c \in Boot : pc'[c] = "idle" <=> pc[c] = "idle"
      BY <3>2 DEF Goes, IInv, TypeOK
    <3> QED BY <1>0, <3>1, <3>3, QuietStep
  <2> QED BY <1>1, <2>1, <2>2, <2>3, <2>4 DEF BootStep
<1>2. ASSUME NEW p \in Port, Lapse(p) \/ LateBind(p) \/ StrayGone(p)
      PROVE  IInv'
  <2>1. UNCHANGED <<res, ports, lost, dead, pc>>
    BY <1>2 DEF Lapse, LateBind, StrayGone, leaseVars
  <2> QED BY <1>0, <2>1, QuietStep
<1>3. ASSUME NEW P \in Proc, Crash(P) \/ Torn(P)
      PROVE  IInv'
  BY <1>0, <1>3, CrashStep, TornStep
<1>4. CASE UNCHANGED vars
  <2>1. UNCHANGED <<res, ports, lost, dead, pc>>
    BY <1>4 DEF vars
  <2> QED BY <1>0, <2>1, QuietStep
<1> QED BY <1>1, <1>2, <1>3, <1>4 DEF Next

\* The invariant of the whole history.
LEMMA LeasesHold == Spec => []IInv
BY InitHolds, NextHolds, PTL DEF Spec

\* Type correctness of the reservation file, the caches and the boots.
THEOREM PortTypeOK == Spec => []TypeOK
<1>1. IInv => TypeOK
  BY DEF IInv
<1> QED BY <1>1, LeasesHold, PTL

\* No two boots are given the same host port (allocate_ports) unless an owner may
\* have lost its entry: its lease ran out before docker bound the port, a process
\* of another place pruned it, or the file was torn by a kill.
THEOREM PortsAreExclusive == Spec => []PortsExclusive
<1>1. IInv => PortsExclusive
  BY DEF IInv
<1> QED BY <1>1, LeasesHold, PTL

\* Beyond these three, no prune, no release and no crash of anyone takes an entry
\* from its owner.
THEOREM LeasesAreKept == Spec => []LeaseKept
<1>1. IInv => LeaseKept
  BY DEF IInv
<1> QED BY <1>1, LeasesHold, PTL

\* destroy() gives back every entry: what remains in the file for a living
\* process is owned by one of its boots.
THEOREM PortsDoNotLeak == Spec => []NoPortLeaks
<1>1. IInv => NoPortLeaks
  BY DEF IInv
<1> QED BY <1>1, LeasesHold, PTL
=============================================================================
