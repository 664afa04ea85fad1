------------------------- MODULE DriftReaperProofs -------------------------
(***************************************************************************)
(* What the drift reaper may do to the containers of live sessions, for    *)
(* any number of sessions, boots, restarts and refusals.                   *)
(***************************************************************************)
EXTENDS DriftReaper, TLAPS

-----------------------------------------------------------------------------
(* The type invariant *)

LEMMA NameFacts == /\ Name \subseteq Nat /\ None \notin Name
                   /\ MaxBoots \in Nat /\ MaxRestarts \in Nat
BY ReaperAssumption DEF Name, None

LEMMA InitType == Init => TypeOK
BY NameFacts DEF Init, TypeOK, NoReset, Asleep, Name, None

LEMMA RemovedType ==
  ASSUME TypeOK, NEW n \in Name, Removed(n) \/ Refused(n)
  PROVE  /\ ps' \subseteq Name /\ older' \subseteq ps' \X ps' /\ up' \subseteq ps'
         /\ ps' \subseteq ps /\ up' \subseteq up
BY DEF TypeOK, Removed, Refused, hostVars

LEMMA LetGoType ==
  ASSUME TypeOK, NEW i \in Inst, LetGo(i)
  PROVE  /\ ps' \subseteq Name /\ older' \subseteq ps' \X ps' /\ up' \subseteq ps'
         /\ ps' \subseteq ps /\ up' \subseteq up
<1>1. CASE ext[i] = None
  BY <1>1 DEF LetGo, TypeOK, hostVars
<1>2. CASE ext[i] # None
  BY <1>2, RemovedType DEF LetGo, TypeOK
<1>3. QED
  BY <1>1, <1>2

\* A name is minted from a counter.
LEMMA MintType ==
  ASSUME TypeOK, NEW i \in Inst, Mint(i)
  PROVE  /\ boots' \in 0..MaxBoots /\ boots' = boots + 1
         /\ boots' \in Name /\ boots \in Nat
         /\ ext' = [ext EXCEPT ![i] = boots']
         /\ reset' = [reset EXCEPT ![i] = [pc |-> "boot", name |-> boots']]
BY NameFacts DEF TypeOK, Mint, Name

Cycles == [pc : {"sleep", "probe", "scan", "rm", "pop", "closes", "boot", "bootrm"},
           snap : [Inst -> Name \cup {None}], fresh : SUBSET Name, inUse : SUBSET Name,
           todo : SUBSET Name, ghosts : SUBSET Inst]

LEMMA AsleepType == Asleep \in Cycles
BY DEF Asleep, Cycles

LEMMA NewestIn == ASSUME NEW S, NEW k PROVE Newest(S, k) \subseteq S
BY DEF Newest

LEMMA StepType == TypeOK /\ [Next]_vars => TypeOK'
<1> SUFFICES ASSUME TypeOK, [Next]_vars
             PROVE  TypeOK'
  OBVIOUS
<1> USE NameFacts
<1>1. ASSUME NEW n \in Name, ContainerDies(n) \/ BackoffEnds(n)
      PROVE  TypeOK'
  <2>1. CASE ContainerDies(n)
    BY <2>1 DEF TypeOK, ContainerDies, envVars
  <2>2. CASE BackoffEnds(n)
    BY <2>2 DEF TypeOK, BackoffEnds, envVars, hostVars
  <2>3. QED
    BY <1>1, <2>1, <2>2
<1>2. ASSUME NEW n \in Name, SkipQuarantined(n) \/ RemoveOrphan(n) \/ RefuseOrphan(n)
      PROVE  TypeOK'
  <2>1. Removed(n) \/ Refused(n)
    BY <1>2 DEF SkipQuarantined, RemoveOrphan, RefuseOrphan, Refused
  <2>2. cycle' \in Cycles
    BY <1>2 DEF TypeOK, Cycles, SkipQuarantined, RemoveOrphan, RefuseOrphan, NextOrphan
  <2>3. cooling' \subseteq Name /\ UNCHANGED <<envVars, restarts>>
    BY <1>2 DEF TypeOK, SkipQuarantined, RemoveOrphan, RefuseOrphan, NextOrphan
  <2>4. QED
    BY <2>1, <2>2, <2>3, RemovedType DEF TypeOK, Cycles, envVars
<1>3. ASSUME NEW i \in Inst, Make(i) \/ Evict(i) \/ ResetOk(i) \/ ResetRaises(i) \/ ResetFails(i)
      PROVE  TypeOK'
  <2>1. CASE Make(i) \/ Evict(i)
    BY <2>1 DEF TypeOK, Make, Evict, hostVars
  <2>2. CASE ResetOk(i) \/ ResetRaises(i) \/ ResetFails(i)
    <3>1. reset' \in [Inst -> [pc : {"boot", "setup"}, name : Name]
                             \cup [pc : {"idle", "release"}, name : {None}]]
      BY <2>2 DEF TypeOK, ResetOk, ResetRaises, ResetFails, NoReset
    <3>2. session' \in [Inst -> {"new", "live", "closing", "gone"}]
      BY <2>2 DEF TypeOK, ResetOk, ResetRaises, ResetFails
    <3>3. QED
      BY <2>2, <3>1, <3>2 DEF TypeOK, ResetOk, ResetRaises, ResetFails, hostVars
  <2>3. QED
    BY <1>3, <2>1, <2>2
<1>4. ASSUME NEW i \in Inst, StartReset(i)
      PROVE  TypeOK'
  <2>1. CASE ext[i] = None /\ Mint(i)
    BY <1>4, <2>1, MintType DEF TypeOK, StartReset, hostVars
  <2>2. CASE ext[i] # None
    BY <1>4, <2>2 DEF TypeOK, StartReset, hostVars
  <2>3. QED
    BY <1>4, <2>1, <2>2 DEF StartReset
<1>5. ASSUME NEW i \in Inst, DockerRun(i)
      PROVE  TypeOK'
  <2> DEFINE n == reset[i].name
  <2>1. n \in Name
    BY <1>5 DEF TypeOK, DockerRun
  <2>2. reset'[i] = [pc |-> "setup", name |-> n] /\ \A j \in Inst \ {i} : reset'[j] = reset[j]
    BY <1>5 DEF TypeOK, DockerRun
  <2>3. reset' = [j \in Inst |-> reset'[j]]
    BY <1>5 DEF TypeOK, DockerRun
  <2>4. cycle' \in Cycles
    <3>1. cycle \in Cycles
      BY DEF TypeOK, Cycles
    <3>2. cycle' = cycle \/ cycle' = [cycle EXCEPT !.fresh = @ \cup {n}]
      BY <1>5 DEF DockerRun
    <3>3. QED
      BY <2>1, <3>1, <3>2 DEF Cycles
  <2>5. /\ ps' \subseteq Name /\ older' \subseteq ps' \X ps' /\ up' \subseteq ps'
    BY <1>5, <2>1 DEF TypeOK, DockerRun
  <2>6. reset' \in [Inst -> [pc : {"boot", "setup"}, name : Name]
                           \cup [pc : {"idle", "release"}, name : {None}]]
    BY <2>1, <2>2, <2>3 DEF TypeOK
  <2>7. QED
    BY <1>5, <2>4, <2>5, <2>6 DEF TypeOK, Cycles, DockerRun
<1>6. ASSUME NEW i \in Inst, ReleaseFailed(i)
      PROVE  TypeOK'
  <2>1. LetGo(i) /\ UNCHANGED <<restarts, cooling, cycle>>
    BY <1>6 DEF ReleaseFailed
  <2>2. CASE Mint(i) /\ UNCHANGED session
    BY <2>1, <2>2, MintType, LetGoType DEF TypeOK
  <2>3. CASE /\ ext' = [ext EXCEPT ![i] = None] /\ reset' = [reset EXCEPT ![i] = NoReset]
             /\ session' \in {session, [session EXCEPT ![i] = "closing"]} /\ UNCHANGED boots
    BY <2>1, <2>3, LetGoType DEF TypeOK, NoReset
  <2>4. QED
    BY <1>6, <2>2, <2>3 DEF ReleaseFailed
<1>7. ASSUME NEW i \in Inst, CloseEnv(i)
      PROVE  TypeOK'
  BY <1>7, LetGoType DEF TypeOK, CloseEnv
<1>8. ASSUME Snapshot \/ Probe \/ ProbeFails \/ PopGhosts \/ CycleOver
      PROVE  TypeOK'
  <2>1. cycle' \in Cycles
    <3>1. cycle \in Cycles /\ ext \in [Inst -> Name \cup {None}] /\ up \subseteq Name
      BY DEF TypeOK, Cycles
    <3>2. CASE Snapshot
      BY <3>1, <3>2, AsleepType DEF Cycles, Snapshot
    <3>3. CASE Probe
      BY <3>1, <3>3 DEF Cycles, Probe
    <3>4. CASE PopGhosts
      BY <3>1, <3>4, AsleepType DEF Cycles, PopGhosts
    <3>5. CASE ProbeFails \/ CycleOver
      BY <3>5, AsleepType DEF ProbeFails, CycleOver
    <3>6. QED
      BY <1>8, <3>2, <3>3, <3>4, <3>5
  <2>2. session' \in [Inst -> {"new", "live", "closing", "gone"}]
    BY <1>8 DEF TypeOK, Snapshot, Probe, ProbeFails, PopGhosts, CycleOver, envVars
  <2>3. UNCHANGED <<ext, reset, boots, hostVars, restarts, cooling>>
    BY <1>8 DEF Snapshot, Probe, ProbeFails, PopGhosts, CycleOver, envVars
  <2>4. QED
    BY <2>1, <2>2, <2>3 DEF TypeOK, Cycles, hostVars
<1>9. ASSUME ServerRestarts \/ StartServing
      PROVE  TypeOK'
  <2>1. cycle' \in Cycles
    BY <1>9, AsleepType DEF Cycles, ServerRestarts, StartServing
  <2>2. QED
    BY <1>9, <2>1 DEF TypeOK, Cycles, ServerRestarts, StartServing, NoReset, envVars, hostVars
<1>10. ASSUME NEW seen \in {ps, {}}, BootScan(seen)
       PROVE  TypeOK'
  BY <1>10 DEF TypeOK, BootScan, envVars, hostVars
<1>11. ASSUME NEW seen \in {ps, {}}, NEW old \in SUBSET CanBeOld, Scan(seen, old)
       PROVE  TypeOK'
  <2>1. cycle'.todo \subseteq seen
    <3>1. Newest({n \in seen : IsOrphan(n, old)}, MaxOrphans) \subseteq seen
      BY NewestIn
    <3>2. QED
      BY <3>1, <1>11 DEF TypeOK, Scan
  <2>2. cycle' \in Cycles
    BY <1>11, <2>1 DEF TypeOK, Cycles, Scan
  <2>3. QED
    BY <1>11, <2>2 DEF TypeOK, Cycles, Scan, envVars, hostVars
<1>12. ASSUME NEW ghosts \in SUBSET Inst, FindGhosts(ghosts)
       PROVE  TypeOK'
  BY <1>12 DEF TypeOK, FindGhosts, envVars, hostVars
<1>13. ASSUME UNCHANGED vars
       PROVE  TypeOK'
  BY <1>13 DEF TypeOK, vars, envVars, hostVars
<1>14. QED
  BY <1>1, <1>2, <1>3, <1>4, <1>5, <1>6, <1>7, <1>8, <1>9, <1>10, <1>11, <1>12, <1>13
     DEF Next

\* Every variable keeps its type.
THEOREM ReaperTypeOK == Spec => []TypeOK
BY InitType, StepType, PTL DEF Spec

-----------------------------------------------------------------------------
(* The names of containers *)

\* What has a name was minted.
Minted ==
  /\ ps \cup cycle.todo \subseteq 1..boots
  /\ \A i \in Inst : ext[i] \in 0..boots /\ reset[i].name \in 0..boots

\* No other session, nor the reset of one, has the name of a boot attempt.
Apart ==
  \A i, j \in Inst : reset[i].pc = "boot" /\ i # j => reset[i].name \notin {ext[j], reset[j].name}

\* A session that was never made has no container and no reset.
Unborn == \A i \in Inst : session[i] = "new" => ext[i] = None /\ ~InFlight(i)

\* Boot recovery runs before there is a session.
BootIsQuiet == ~Serving => \A i \in Inst : session[i] # "live" /\ ~InFlight(i)

Names == Minted /\ NamesAreFree /\ Apart /\ Unborn /\ BootIsQuiet

LEMMA InitNames == Init => Names
BY NameFacts DEF Init, Names, Minted, NamesAreFree, Apart, Unborn, BootIsQuiet, NoReset, Asleep, InFlight,
                 Serving, None

\* A removal, refused or not, lists nothing new.
LEMMA RemovalNames ==
  ASSUME TypeOK, Names, ps' \subseteq ps, cycle'.todo \subseteq cycle.todo,
         cycle'.pc = cycle.pc, UNCHANGED envVars
  PROVE  Names'
BY DEF Names, Minted, NamesAreFree, Apart, Unborn, BootIsQuiet, Serving, InFlight, envVars

\* Sessions, and resets of them, end.
Ending ==
  /\ ps' \subseteq ps /\ boots' = boots /\ cycle' = cycle
  /\ \A j \in Inst : /\ session'[j] = session[j] \/ session'[j] \in {"closing", "gone"}
                     /\ ext'[j] = ext[j] \/ ext'[j] = None
                     /\ \/ reset'[j] = reset[j]
                        \/ InFlight(j) /\ reset'[j].pc \in {"idle", "release"} /\ reset'[j].name = None

LEMMA EndingNames == ASSUME TypeOK, Names, Ending PROVE Names'
<1>1. boots \in Nat /\ \A j \in Inst : reset[j].pc = "boot" => reset[j].name # None
  BY NameFacts DEF TypeOK
<1>2. Minted'
  BY <1>1 DEF Names, Minted, None, Ending
<1>3. NamesAreFree'
  BY DEF Names, NamesAreFree, Ending
<1>4. Apart'
  BY <1>1 DEF Names, Apart, Ending
<1>5. Unborn' /\ BootIsQuiet'
  BY DEF Names, Unborn, BootIsQuiet, Serving, InFlight, Ending
<1>6. QED
  BY <1>2, <1>3, <1>4, <1>5 DEF Names

LEMMA StepNames == TypeOK /\ Names /\ [Next]_vars => Names'
<1> SUFFICES ASSUME TypeOK, Names, [Next]_vars
             PROVE  Names'
  OBVIOUS
<1> USE NameFacts
<1>1. ASSUME NEW n \in Name, ContainerDies(n) \/ BackoffEnds(n)
      PROVE  Names'
  BY <1>1, RemovalNames DEF ContainerDies, BackoffEnds, hostVars
<1>2. ASSUME NEW n \in Name, SkipQuarantined(n) \/ RemoveOrphan(n) \/ RefuseOrphan(n)
      PROVE  Names'
  <2>1. ps' \subseteq ps
    BY <1>2 DEF SkipQuarantined, RemoveOrphan, RefuseOrphan, Removed, Refused, hostVars
  <2>2. /\ cycle'.pc = cycle.pc /\ cycle'.todo \subseteq cycle.todo
        /\ UNCHANGED envVars
    BY <1>2 DEF TypeOK, SkipQuarantined, RemoveOrphan, RefuseOrphan, NextOrphan
  <2>3. QED
    BY <2>1, <2>2, RemovalNames
<1>3. ASSUME NEW i \in Inst, Make(i)
      PROVE  Names'
  BY <1>3 DEF TypeOK, Names, Minted, NamesAreFree, Apart, Unborn, BootIsQuiet, Serving, InFlight, Make,
              hostVars
<1>4. ASSUME NEW i \in Inst, ResetOk(i) \/ ResetRaises(i) \/ ResetFails(i)
      PROVE  Names'
  <2>1. ps' = ps /\ ext' = ext /\ boots' = boots /\ cycle' = cycle
    BY <1>4 DEF ResetOk, ResetRaises, ResetFails, hostVars
  <2>2. /\ InFlight(i) /\ reset'[i].pc \in {"idle", "release"} /\ reset'[i].name = None
        /\ \A j \in Inst \ {i} : reset'[j] = reset[j]
    BY <1>4 DEF TypeOK, ResetOk, ResetRaises, ResetFails, NoReset, InFlight
  <2>3. \A j \in Inst : session'[j] = session[j] \/ session'[j] = "closing"
    BY <1>4 DEF TypeOK, ResetOk, ResetRaises, ResetFails
  <2>4. Ending
    BY <2>1, <2>2, <2>3 DEF Ending
  <2>5. QED
    BY <2>4, EndingNames
<1>5. ASSUME NEW i \in Inst, Mint(i), session[i] # "new", Serving,
             session' \in {session, [session EXCEPT ![i] = "closing"]},
             ps' \subseteq ps, UNCHANGED cycle
      PROVE  Names'
  <2>1. /\ boots \in Nat /\ boots' = boots + 1
        /\ ext'[i] = boots' /\ reset'[i] = [pc |-> "boot", name |-> boots']
        /\ \A j \in Inst \ {i} : ext'[j] = ext[j] /\ reset'[j] = reset[j]
        /\ session'[i] # "new" /\ \A j \in Inst \ {i} : session'[j] = session[j]
    BY <1>5, MintType DEF TypeOK
  <2>2. Minted'
    BY <1>5, <2>1 DEF Names, Minted
  <2>3. NamesAreFree' /\ Apart'
    BY <1>5, <2>1 DEF Names, Minted, NamesAreFree, Apart
  <2>4. Unborn' /\ BootIsQuiet'
    BY <1>5, <2>1 DEF Names, Unborn, BootIsQuiet, Serving, InFlight
  <2>5. QED
    BY <2>2, <2>3, <2>4 DEF Names
<1>6. ASSUME NEW i \in Inst, StartReset(i)
      PROVE  Names'
  <2>1. CASE ext[i] = None /\ Mint(i)
    BY <1>5, <1>6, <2>1 DEF TypeOK, StartReset, hostVars
  <2>2. CASE /\ ext[i] # None
             /\ reset' = [reset EXCEPT ![i] = [pc |-> "setup", name |-> ext[i]]]
             /\ UNCHANGED <<ext, boots>>
    BY <1>6, <2>2 DEF TypeOK, Names, Minted, NamesAreFree, Apart, Unborn, BootIsQuiet, Serving, InFlight,
                      StartReset, hostVars
  <2>3. QED
    BY <1>6, <2>1, <2>2 DEF StartReset
<1>7. ASSUME NEW i \in Inst, DockerRun(i)
      PROVE  Names'
  <2> DEFINE n == reset[i].name
  <2>1. /\ reset[i].pc = "boot" /\ n \in 1..boots /\ ps' = ps \cup {n}
        /\ reset'[i].pc = "setup" /\ \A j \in Inst \ {i} : reset'[j] = reset[j]
        /\ cycle'.pc = cycle.pc /\ cycle'.todo = cycle.todo
        /\ UNCHANGED <<session, ext, boots>>
    <3>1. boots \in Nat /\ reset[i].pc = "boot" /\ n \in Name /\ n \in 0..boots
      BY <1>7 DEF TypeOK, Names, Minted, DockerRun
    <3>2. n \in 1..boots
      BY <3>1 DEF Name
    <3>3. QED
      BY <1>7, <3>1, <3>2 DEF TypeOK, DockerRun
  <2>2. /\ reset'[i].name = n
        /\ \A j \in Inst \ {i} : reset[j].pc = "boot" => reset[j].name # n
    BY <1>7 DEF TypeOK, Names, Apart, DockerRun
  <2>3. QED
    BY <2>1, <2>2 DEF Names, Minted, NamesAreFree, Apart, Unborn, BootIsQuiet, Serving, InFlight
<1>8. ASSUME NEW i \in Inst, ReleaseFailed(i)
      PROVE  Names'
  <2>1. /\ InFlight(i) /\ reset[i].pc = "release" /\ ps' \subseteq ps
        /\ UNCHANGED cycle
    BY <1>8, LetGoType DEF ReleaseFailed, InFlight
  <2>2. CASE Mint(i) /\ UNCHANGED session
    BY <1>5, <2>1, <2>2 DEF Names, Unborn, BootIsQuiet
  <2>3. CASE /\ ext' = [ext EXCEPT ![i] = None] /\ reset' = [reset EXCEPT ![i] = NoReset]
             /\ session' \in {session, [session EXCEPT ![i] = "closing"]} /\ UNCHANGED boots
    <3>1. /\ reset'[i] = NoReset /\ \A j \in Inst \ {i} : reset'[j] = reset[j]
          /\ \A j \in Inst : ext'[j] = ext[j] \/ ext'[j] = None
          /\ \A j \in Inst : session'[j] = session[j] \/ session'[j] \in {"closing", "gone"}
      BY <2>3 DEF TypeOK
    <3>2. Ending
      BY <2>1, <2>3, <3>1 DEF Ending, NoReset
    <3>3. QED
      BY <3>2, EndingNames
  <2>4. QED
    BY <1>8, <2>2, <2>3 DEF ReleaseFailed
<1>9. ASSUME NEW i \in Inst, Evict(i) \/ CloseEnv(i)
      PROVE  Names'
  <2>1. ps' \subseteq ps /\ reset' = reset /\ boots' = boots /\ cycle' = cycle
    BY <1>9, LetGoType DEF Evict, CloseEnv, hostVars
  <2>2. \A j \in Inst : /\ session'[j] = session[j] \/ session'[j] \in {"closing", "gone"}
                        /\ ext'[j] = ext[j] \/ ext'[j] = None
    BY <1>9 DEF TypeOK, Evict, CloseEnv
  <2>3. Ending
    BY <2>1, <2>2 DEF Ending
  <2>4. QED
    BY <2>3, EndingNames
<1>10. ASSUME UNCHANGED <<ext, reset, boots, ps>>, cycle'.todo \subseteq ps \cup cycle.todo,
              Serving' \/ ~Serving,
              \A j \in Inst : session'[j] = session[j] \/ session'[j] = "closing"
       PROVE  Names'
  BY <1>10 DEF TypeOK, Names, Minted, NamesAreFree, Apart, Unborn, BootIsQuiet, InFlight
<1>11. ASSUME Snapshot \/ Probe \/ ProbeFails \/ PopGhosts \/ CycleOver \/ StartServing
       PROVE  Names'
  <2>1. cycle'.todo \subseteq cycle.todo /\ Serving'
    <3>1. CASE Snapshot
      BY <3>1 DEF Snapshot, Asleep, Serving
    <3>2. CASE Probe
      BY <3>2 DEF TypeOK, Probe, Serving
    <3>3. CASE PopGhosts
      BY <3>3 DEF PopGhosts, Asleep, Serving
    <3>4. CASE ProbeFails \/ CycleOver \/ StartServing
      BY <3>4 DEF ProbeFails, CycleOver, StartServing, Asleep, Serving
    <3>5. QED
      BY <1>11, <3>1, <3>2, <3>3, <3>4
  <2>2. UNCHANGED <<ext, reset, boots, ps>>
    BY <1>11 DEF Snapshot, Probe, ProbeFails, PopGhosts, CycleOver, StartServing, envVars, hostVars
  <2>3. \A j \in Inst : session'[j] = session[j] \/ session'[j] = "closing"
    BY <1>11 DEF TypeOK, Snapshot, Probe, ProbeFails, PopGhosts, CycleOver, StartServing, envVars
  <2>4. QED
    BY <1>10, <2>1, <2>2, <2>3
<1>12. ASSUME ServerRestarts
       PROVE  Names'
  BY <1>12 DEF TypeOK, Names, Minted, NamesAreFree, Apart, Unborn, BootIsQuiet, InFlight, ServerRestarts,
               NoReset, Asleep, hostVars, None
<1>13. ASSUME NEW seen \in {ps, {}}, BootScan(seen)
       PROVE  Names'
  BY <1>10, <1>13 DEF TypeOK, BootScan, Serving, envVars, hostVars
<1>14. ASSUME NEW seen \in {ps, {}}, NEW old \in SUBSET CanBeOld, Scan(seen, old)
       PROVE  Names'
  BY <1>10, <1>14, NewestIn DEF TypeOK, Scan, Serving, envVars, hostVars
<1>15. ASSUME NEW ghosts \in SUBSET Inst, FindGhosts(ghosts)
       PROVE  Names'
  BY <1>10, <1>15 DEF TypeOK, FindGhosts, Serving, envVars, hostVars
<1>16. ASSUME UNCHANGED vars
       PROVE  Names'
  BY <1>10, <1>16 DEF vars, Serving, envVars, hostVars
<1>17. QED
  BY <1>1, <1>2, <1>3, <1>4, <1>6, <1>7, <1>8, <1>9, <1>11, <1>12, <1>13, <1>14, <1>15, <1>16
     DEF Next

-----------------------------------------------------------------------------
(* What the cycle knows *)

\* A live session's container that was up at the snapshot is the one it names.
StillNamed ==
  cycle.pc \in {"probe", "scan", "rm", "pop"} =>
    \A i \in Inst : session[i] = "live" /\ ext[i] \in up \ cycle.fresh => cycle.snap[i] = ext[i]

\* What the snapshot names and still runs was running at the probe.
InUseKnown ==
  cycle.pc \in {"scan", "rm", "pop"} => SnapNames \cap (up \ cycle.fresh) \subseteq cycle.inUse

\* No candidate is in use, nor younger than the cycle.
TodoSpares == cycle.pc = "rm" => cycle.todo \cap (cycle.inUse \cup cycle.fresh) = {}

GhostsVanished == cycle.pc = "pop" => cycle.ghosts \subseteq Vanished

Knows ==
  /\ StillNamed /\ InUseKnown /\ GhostsVanished
  /\ "slow" \notin Events => TodoSpares
-----------------------------------------------------------------------------
LEMMA InitKnows == Init => Knows
BY DEF Init, Knows, StillNamed, InUseKnown, TodoSpares, GhostsVanished, Asleep

\* While the cycle goes on with what it knows, containers only go away, and a live
\* session keeps its container or gets a name that is not up.
GoesOn ==
  /\ cycle'.pc = cycle.pc /\ cycle'.snap = cycle.snap /\ cycle'.fresh = cycle.fresh
  /\ cycle'.inUse = cycle.inUse /\ cycle'.ghosts = cycle.ghosts
  /\ cycle'.todo \subseteq cycle.todo /\ up' \subseteq up
  /\ \A j \in Inst : \/ session'[j] # "live"
                     \/ ext'[j] \notin up'
                     \/ session[j] = "live" /\ ext'[j] = ext[j]

LEMMA KeptKnows == ASSUME Knows, GoesOn PROVE Knows'
<1>1. StillNamed'
  BY DEF Knows, StillNamed, GoesOn
<1>2. InUseKnown'
  BY DEF Knows, InUseKnown, SnapNames, GoesOn
<1>3. GhostsVanished'
  BY DEF Knows, GhostsVanished, Vanished, GoesOn
<1>4. ("slow" \notin Events => TodoSpares)'
  BY DEF Knows, TodoSpares, GoesOn
<1>5. QED
  BY <1>1, <1>2, <1>3, <1>4 DEF Knows

LEMMA StepKnows == TypeOK /\ Names /\ Knows /\ [Next]_vars => Knows'
<1> SUFFICES ASSUME TypeOK, Names, Knows, [Next]_vars
             PROVE  Knows'
  OBVIOUS
<1> USE NameFacts
<1>0. up \subseteq Name
  BY DEF TypeOK
<1>1. ASSUME NEW n \in Name, ContainerDies(n) \/ BackoffEnds(n)
      PROVE  Knows'
  BY <1>1, KeptKnows DEF GoesOn, ContainerDies, BackoffEnds, envVars, hostVars
<1>2. ASSUME NEW n \in Name, SkipQuarantined(n) \/ RemoveOrphan(n) \/ RefuseOrphan(n)
      PROVE  Knows'
  <2>1. up' \subseteq up /\ UNCHANGED <<session, ext>>
    BY <1>2 DEF SkipQuarantined, RemoveOrphan, RefuseOrphan, NextOrphan, Removed, Refused, hostVars, envVars
  <2>2. cycle' = [cycle EXCEPT !.todo = @ \ {n}]
    BY <1>2 DEF SkipQuarantined, RemoveOrphan, RefuseOrphan, NextOrphan
  <2>3. QED
    BY <2>1, <2>2, KeptKnows DEF GoesOn, TypeOK
<1>3. ASSUME NEW i \in Inst, Make(i)
      PROVE  Knows'
  BY <1>0, <1>3, KeptKnows DEF GoesOn, TypeOK, Names, Unborn, Make, hostVars
<1>4. ASSUME NEW i \in Inst, ResetOk(i) \/ ResetRaises(i) \/ ResetFails(i) \/ Evict(i)
      PROVE  Knows'
  BY <1>4, KeptKnows DEF GoesOn, TypeOK, ResetOk, ResetRaises, ResetFails, Evict, hostVars
\* The name it mints is of no container.
<1>5. ASSUME NEW i \in Inst, Mint(i), UNCHANGED <<session, cycle>>, up' \subseteq up
      PROVE  Knows'
  <2>1. ext'[i] \notin up
    BY <1>5, MintType DEF TypeOK, Names, Minted
  <2>2. QED
    <3>1. \A j \in Inst \ {i} : ext'[j] = ext[j]
      BY <1>5, MintType DEF TypeOK
    <3>2. GoesOn
      BY <1>5, <2>1, <3>1 DEF GoesOn
    <3>3. QED
      BY <3>2, KeptKnows
<1>6. ASSUME NEW i \in Inst, StartReset(i)
      PROVE  Knows'
  <2>1. CASE Mint(i)
    BY <1>5, <1>6, <2>1 DEF StartReset, hostVars
  <2>2. CASE UNCHANGED ext
    BY <1>6, <2>2, KeptKnows DEF GoesOn, StartReset, hostVars
  <2>3. QED
    BY <1>6, <2>1, <2>2 DEF StartReset
\* The container it boots is fresh: the snapshot may or may not name it.
<1>7. ASSUME NEW i \in Inst, DockerRun(i)
      PROVE  Knows'
  <2> DEFINE n == reset[i].name
  <2>1. /\ up' = up \cup {n} /\ n \notin cycle.todo
        /\ UNCHANGED <<session, ext>>
    BY <1>7 DEF Names, NamesAreFree, DockerRun
  <2>2. CASE cycle.pc \notin {"probe", "scan", "rm", "pop"}
    BY <1>7, <2>2 DEF DockerRun, Knows, StillNamed, InUseKnown, TodoSpares, GhostsVanished
  <2>3. CASE cycle.pc \in {"probe", "scan", "rm", "pop"}
    <3>1. cycle' = [cycle EXCEPT !.fresh = @ \cup {n}]
      BY <1>7, <2>3 DEF DockerRun
    <3>2. /\ cycle'.pc = cycle.pc /\ cycle'.snap = cycle.snap /\ cycle'.fresh = cycle.fresh \cup {n}
          /\ cycle'.inUse = cycle.inUse /\ cycle'.ghosts = cycle.ghosts /\ cycle'.todo = cycle.todo
      BY <3>1 DEF TypeOK
    <3>3. StillNamed'
      BY <2>1, <3>2 DEF Knows, StillNamed
    <3>4. InUseKnown'
      BY <2>1, <3>2 DEF Knows, InUseKnown, SnapNames
    <3>5. GhostsVanished' /\ ("slow" \notin Events => TodoSpares)'
      BY <2>1, <3>2 DEF Knows, GhostsVanished, Vanished, TodoSpares
    <3>6. QED
      BY <3>3, <3>4, <3>5 DEF Knows
  <2>4. QED
    BY <2>2, <2>3
<1>8. ASSUME NEW i \in Inst, ReleaseFailed(i)
      PROVE  Knows'
  <2>1. up' \subseteq up /\ UNCHANGED cycle
    BY <1>8, LetGoType DEF ReleaseFailed
  <2>2. CASE Mint(i) /\ UNCHANGED session
    BY <1>5, <2>1, <2>2
  <2>3. CASE /\ ext' = [ext EXCEPT ![i] = None]
             /\ session' \in {session, [session EXCEPT ![i] = "closing"]}
    <3>1. /\ ext'[i] = None /\ None \notin up
          /\ \A j \in Inst \ {i} : ext'[j] = ext[j] /\ session'[j] = session[j]
      BY <1>0, <2>3 DEF TypeOK
    <3>2. GoesOn
      BY <2>1, <3>1 DEF GoesOn
    <3>3. QED
      BY <3>2, KeptKnows
  <2>4. QED
    BY <1>8, <2>2, <2>3 DEF ReleaseFailed
<1>9. ASSUME NEW i \in Inst, CloseEnv(i)
      PROVE  Knows'
  <2>1. up' \subseteq up /\ UNCHANGED cycle
    BY <1>9, LetGoType DEF CloseEnv
  <2>2. QED
    <3>1. /\ session'[i] = "gone"
          /\ \A j \in Inst \ {i} : ext'[j] = ext[j] /\ session'[j] = session[j]
      BY <1>9 DEF TypeOK, CloseEnv
    <3>2. GoesOn
      BY <2>1, <3>1 DEF GoesOn
    <3>3. QED
      BY <3>2, KeptKnows
<1>10. ASSUME Snapshot
       PROVE  Knows'
  BY <1>10 DEF TypeOK, Snapshot, Asleep, Knows, StillNamed, InUseKnown, TodoSpares, GhostsVanished,
               envVars, hostVars
<1>11. ASSUME Probe
       PROVE  Knows'
  <2>1. /\ cycle.pc = "probe" /\ cycle'.pc = "scan" /\ cycle'.snap = cycle.snap
        /\ cycle'.fresh = cycle.fresh /\ cycle'.inUse = SnapNames \cap up
        /\ UNCHANGED <<session, ext, up>>
    BY <1>11 DEF TypeOK, Probe, envVars, hostVars
  <2>2. SnapNames' = SnapNames
    BY <2>1 DEF SnapNames
  <2>3. QED
    BY <2>1, <2>2 DEF Knows, StillNamed, InUseKnown, TodoSpares, GhostsVanished
<1>12. ASSUME cycle'.pc \in {"sleep", "closes", "boot", "bootrm"}
       PROVE  Knows'
  BY <1>12 DEF Knows, StillNamed, InUseKnown, TodoSpares, GhostsVanished
<1>13. ASSUME ProbeFails \/ PopGhosts \/ CycleOver \/ ServerRestarts \/ StartServing
       PROVE  Knows'
  <2>1. CASE ProbeFails \/ CycleOver \/ StartServing
    BY <1>12, <2>1 DEF ProbeFails, CycleOver, StartServing, Asleep
  <2>2. CASE PopGhosts
    BY <1>12, <2>2 DEF PopGhosts, Asleep
  <2>3. CASE ServerRestarts
    BY <1>12, <2>3 DEF ServerRestarts, Asleep
  <2>4. QED
    BY <1>13, <2>1, <2>2, <2>3
<1>14. ASSUME NEW seen \in {ps, {}}, BootScan(seen)
       PROVE  Knows'
  BY <1>12, <1>14 DEF TypeOK, BootScan
<1>15. ASSUME NEW seen \in {ps, {}}, NEW old \in SUBSET CanBeOld, Scan(seen, old)
       PROVE  Knows'
  <2> DEFINE candidates == {n \in seen : IsOrphan(n, old)}
  <2>1. /\ cycle.pc = "scan" /\ cycle'.pc = "rm" /\ cycle'.snap = cycle.snap
        /\ cycle'.fresh = cycle.fresh /\ cycle'.inUse = cycle.inUse
        /\ cycle'.todo = Newest(candidates, MaxOrphans)
        /\ UNCHANGED <<session, ext, up>>
    BY <1>15 DEF TypeOK, Scan, envVars, hostVars
  <2>2. cycle'.todo \subseteq candidates
    BY <2>1, NewestIn
  <2>3. StillNamed' /\ InUseKnown' /\ GhostsVanished'
    BY <2>1 DEF Knows, StillNamed, InUseKnown, GhostsVanished, SnapNames
  <2>4. ("slow" \notin Events => TodoSpares)'
    BY <2>1, <2>2 DEF TodoSpares, IsOrphan, CanBeOld
  <2>5. QED
    BY <2>3, <2>4 DEF Knows
<1>16. ASSUME NEW ghosts \in SUBSET Inst, FindGhosts(ghosts)
       PROVE  Knows'
  <2>1. /\ cycle.pc = "rm" /\ cycle'.pc = "pop" /\ cycle'.snap = cycle.snap
        /\ cycle'.fresh = cycle.fresh /\ cycle'.inUse = cycle.inUse
        /\ cycle'.ghosts = ghosts /\ ghosts \subseteq Vanished
        /\ UNCHANGED <<session, ext, up>>
    BY <1>16 DEF TypeOK, FindGhosts, envVars, hostVars
  <2>2. QED
    BY <2>1 DEF Knows, StillNamed, InUseKnown, GhostsVanished, TodoSpares, SnapNames, Vanished
<1>17. ASSUME UNCHANGED vars
       PROVE  Knows'
  BY <1>17, KeptKnows DEF GoesOn, vars, envVars, hostVars
<1>18. QED
  BY <1>1, <1>2, <1>3, <1>4, <1>6, <1>7, <1>8, <1>9, <1>10, <1>11, <1>13, <1>14, <1>15, <1>16, <1>17
     DEF Next

SweepInv == TypeOK /\ Names /\ Knows

LEMMA SpecSweepInv == Spec => []SweepInv
<1>1. Init => SweepInv
  BY InitType, InitNames, InitKnows DEF SweepInv
<1>2. SweepInv /\ [Next]_vars => SweepInv'
  BY StepType, StepNames, StepKnows DEF SweepInv
<1>3. QED
  BY <1>1, <1>2, PTL DEF Spec

-----------------------------------------------------------------------------
\* docker run never meets a name that is taken, and no sweep removes what it made.
THEOREM BootsHaveFreeNames == Spec => []NamesAreFree
<1>1. SweepInv => NamesAreFree
  BY DEF SweepInv, Names
<1>2. QED
  BY <1>1, SpecSweepInv, PTL

\* Whatever is reported as a ghost had no running container since the snapshot.
THEOREM GhostsHadNoContainer == Spec => []GhostsHadVanished
<1>1. SweepInv => GhostsHadVanished
  BY DEF SweepInv, TypeOK, Knows, InUseKnown, GhostsVanished, Vanished, SnapNames, GhostsHadVanished
<1>2. QED
  BY <1>1, SpecSweepInv, PTL

\* If no cycle outlasts the age guard, no sweep removes a live session's container.
THEOREM SweepsSpareTheLiving ==
  ASSUME "slow" \notin Events
  PROVE  Spec => SweepSparesOwned
<1> DEFINE Sparing == cycle.pc \in {"rm", "bootrm"} /\ cycle'.todo # cycle.todo
                        => up \cap Owned \subseteq up'
<1>1. SweepInv /\ [Next]_vars => [Sparing]_vars
  <2> SUFFICES ASSUME SweepInv, Next, cycle.pc \in {"rm", "bootrm"}, cycle'.todo # cycle.todo,
                      NEW n \in up \cap Owned, n \notin up'
               PROVE  FALSE
    BY DEF vars
  <2>1. PICK i \in Inst : session[i] = "live" /\ ext[i] = n
    BY DEF Owned
  <2>2. cycle.pc = "rm" /\ n \in up
    BY <2>1 DEF SweepInv, Names, BootIsQuiet, Serving
  \* The only step there that stops a container at which todo changes.
  <2>3. PICK m \in Name : RemoveOrphan(m)
    <3>1. ASSUME NEW k \in Name, ContainerDies(k) \/ BackoffEnds(k) \/ SkipQuarantined(k) \/ RefuseOrphan(k)
          PROVE  FALSE
      BY <3>1, <2>2 DEF ContainerDies, BackoffEnds, SkipQuarantined, RefuseOrphan, Refused, hostVars
    <3>2. ASSUME NEW j \in Inst, Make(j) \/ StartReset(j) \/ ResetOk(j) \/ ResetRaises(j)
                                \/ ResetFails(j) \/ ReleaseFailed(j) \/ Evict(j) \/ CloseEnv(j)
          PROVE  FALSE
      BY <3>2 DEF Make, StartReset, ResetOk, ResetRaises, ResetFails, ReleaseFailed, Evict, CloseEnv
    <3>3. ASSUME NEW j \in Inst, DockerRun(j)
          PROVE  FALSE
      BY <3>3, <2>2 DEF DockerRun
    <3>4. ASSUME \/ Snapshot \/ Probe \/ ProbeFails \/ PopGhosts \/ CycleOver
                 \/ ServerRestarts \/ StartServing
          PROVE  FALSE
      BY <3>4, <2>2 DEF Snapshot, Probe, ProbeFails, PopGhosts, CycleOver, ServerRestarts, StartServing,
                        hostVars
    <3>5. ASSUME NEW seen \in {ps, {}}, BootScan(seen) \/ \E old \in SUBSET CanBeOld : Scan(seen, old)
          PROVE  FALSE
      BY <3>5, <2>2 DEF BootScan, Scan
    <3>6. ASSUME NEW ghosts \in SUBSET Inst, FindGhosts(ghosts)
          PROVE  FALSE
      BY <3>6, <2>2 DEF FindGhosts, hostVars
    <3>7. QED
      BY <3>1, <3>2, <3>3, <3>4, <3>5, <3>6, Zenon DEF Next
  <2>4. n \in cycle.todo
    BY <2>2, <2>3 DEF RemoveOrphan, NextOrphan, Newest, Removed
  <2>5. n \notin cycle.inUse \cup cycle.fresh
    BY <2>2, <2>4 DEF SweepInv, Knows, TodoSpares
  <2>6. n = cycle.snap[i]
    BY <2>1, <2>2, <2>5 DEF SweepInv, Knows, StillNamed
  <2>7. n \in SnapNames
    BY <2>2, <2>6, NameFacts DEF SweepInv, TypeOK, SnapNames
  <2>8. QED
    BY <2>2, <2>5, <2>7 DEF SweepInv, Knows, InUseKnown
<1>2. QED
  BY <1>1, SpecSweepInv, PTL DEF Spec, SweepSparesOwned
=============================================================================
