---------------------------- MODULE DriftReaper ----------------------------
(***************************************************************************)
(* The drift reaper of one env server (server.py, reconcile.py, reaper.py) *)
(* and the sandbox envs it sweeps behind (sandbox/base.py), for one env_id *)
(* whose instances own a docker container each.                            *)
(*                                                                         *)
(* A cycle takes a snapshot of the sessions, asks docker what runs, force- *)
(* removes containers nobody owns (orphans) and pops sessions whose        *)
(* container has vanished (ghosts).  All but the first and the last of its *)
(* steps run in a worker thread, beside resets and closes that change what *)
(* the snapshot says.                                                      *)
(*                                                                         *)
(* Every boot attempt mints a name, 1, 2, ...  Time does not show: a cycle *)
(* may find any set of sessions and containers old enough for their age    *)
(* guards, and a backoff may end at any time.                              *)
(***************************************************************************)
EXTENDS Integers, FiniteSets

CONSTANTS
  Inst,        \* the sessions' ids
  MaxBoots,    \* how many container names are minted (a bound)
  MaxOrphans,  \* MAX_ORPHANS_PER_CYCLE
  MaxGhosts,   \* MAX_GHOSTS_PER_CYCLE
  Stuck,       \* the containers docker refuses to remove
  MaxRestarts, \* how often the server may die (a bound)
  Events       \* what may happen around the reaper, see AllEvents

(***************************************************************************)
(* abandon: a session is DELETEd while its reset is still running.         *)
(* slow:    a cycle takes longer than the orphan age guard.                *)
(***************************************************************************)
AllEvents == {"abandon", "slow"}

ASSUME ReaperAssumption ==
  /\ IsFiniteSet(Inst)
  /\ MaxBoots \in Nat /\ MaxRestarts \in Nat /\ MaxOrphans \in Nat /\ MaxGhosts \in Nat
  /\ Stuck \subseteq 1..MaxBoots /\ Events \subseteq AllEvents

None == 0
Name == 1..MaxBoots

VARIABLES
  session,  \* "new", "live" (in state.envs), "closing" (_close_quietly) or "gone"
  ext,      \* the env's _container_name, which is its external_resource_id
  reset,    \* the reset of each session: its stage and the name it boots
  boots,    \* names minted so far
  restarts, \* restarts so far
  ps,       \* what docker ps -a lists
  older,    \* <<m, n>>: m and n are listed, and m was created first
  up,       \* the containers that run
  cooling,  \* the names in _RM_QUARANTINE whose next retry is ahead
  cycle     \* the reaper

envVars  == <<session, ext, reset, boots>>
hostVars == <<ps, older, up>>
vars == <<envVars, hostVars, restarts, cooling, cycle>>

NoReset == [pc |-> "idle", name |-> None]
Asleep  == [pc |-> "sleep", snap |-> [i \in Inst |-> None], fresh |-> {}, inUse |-> {},
            todo |-> {}, ghosts |-> {}]

Serving  == cycle.pc \notin {"boot", "bootrm"}
InFlight(i) == reset[i].pc # "idle"
Owned    == {ext[i] : i \in {j \in Inst : session[j] = "live"}}

Init ==
  /\ session = [i \in Inst |-> "new"] /\ ext = [i \in Inst |-> None]
  /\ reset = [i \in Inst |-> NoReset] /\ boots = 0 /\ restarts = 0
  /\ ps = {} /\ older = {} /\ up = {} /\ cooling = {} /\ cycle = Asleep

-----------------------------------------------------------------------------
(* The docker host *)

\* docker rm -f of one name: it goes, or the daemon refuses or times out.
Removed(n) ==
  /\ n \notin Stuck
  /\ ps' = ps \ {n} /\ up' = up \ {n}
  /\ older' = older \cap (ps' \X ps')
Refused(n) == UNCHANGED hostVars

ContainerDies(n) ==
  /\ n \in up
  /\ up' = up \ {n}
  /\ UNCHANGED <<envVars, ps, older, restarts, cooling, cycle>>

BackoffEnds(n) ==
  /\ n \in cooling
  /\ cooling' = cooling \ {n}
  /\ UNCHANGED <<envVars, hostVars, restarts, cycle>>

-----------------------------------------------------------------------------
(* Sessions and their env *)

Make(i) ==
  /\ Serving /\ session[i] = "new"
  /\ session' = [session EXCEPT ![i] = "live"]
  /\ UNCHANGED <<ext, reset, boots, hostVars, restarts, cooling, cycle>>

\* A boot attempt mints its name and stashes it before it calls docker.
Mint(i) ==
  /\ boots < MaxBoots
  /\ boots' = boots + 1
  /\ ext' = [ext EXCEPT ![i] = boots + 1]
  /\ reset' = [reset EXCEPT ![i] = [pc |-> "boot", name |-> boots + 1]]

\* boot() is idempotent: an env that has its container goes on to its setup.
StartReset(i) ==
  /\ Serving /\ session[i] = "live" /\ ~InFlight(i)
  /\ \/ ext[i] = None /\ Mint(i)
     \/ /\ ext[i] # None
        /\ reset' = [reset EXCEPT ![i] = [pc |-> "setup", name |-> ext[i]]]
        /\ UNCHANGED <<ext, boots>>
  /\ UNCHANGED <<session, hostVars, restarts, cooling, cycle>>

DockerRun(i) ==
  LET n == reset[i].name IN
  /\ reset[i].pc = "boot"
  /\ ps' = ps \cup {n} /\ up' = up \cup {n}
  /\ older' = older \cup (ps \X {n})
  /\ cycle' = IF cycle.pc \in {"probe", "scan", "rm", "pop"}
              THEN [cycle EXCEPT !.fresh = @ \cup {n}] ELSE cycle
  /\ reset' = [reset EXCEPT ![i].pc = "setup"]
  /\ UNCHANGED <<session, ext, boots, restarts, cooling>>

ResetOk(i) ==
  /\ reset[i].pc = "setup"
  /\ reset' = [reset EXCEPT ![i] = NoReset]
  /\ UNCHANGED <<session, ext, boots, hostVars, restarts, cooling, cycle>>

\* Its setup fails in a way the env does not clean up after: the handler pops and
\* closes the session.
ResetRaises(i) ==
  /\ reset[i].pc = "setup"
  /\ reset' = [reset EXCEPT ![i] = NoReset]
  /\ session' = [session EXCEPT ![i] = "closing"]
  /\ UNCHANGED <<ext, boots, hostVars, restarts, cooling, cycle>>

\* It fails in a way after which the env lets its container go.
ResetFails(i) ==
  /\ reset[i].pc \in {"boot", "setup"}
  /\ reset' = [reset EXCEPT ![i] = [pc |-> "release", name |-> None]]
  /\ UNCHANGED <<session, ext, boots, hostVars, restarts, cooling, cycle>>

\* Best effort: a removal that fails is swallowed, and the name forgotten.
LetGo(i) ==
  IF ext[i] = None THEN UNCHANGED hostVars
  ELSE Removed(ext[i]) \/ Refused(ext[i])

\* A plausible bug: the next attempt runs under the name of the last one.
Mut_RetrySameName(i) ==
  /\ reset[i].pc = "release"
  /\ LetGo(i)
  /\ \/ /\ ext' = [ext EXCEPT ![i] = None]
        /\ reset' = [reset EXCEPT ![i] = NoReset]
     \/ /\ ext[i] # None
        /\ reset' = [reset EXCEPT ![i] = [pc |-> "boot", name |-> ext[i]]]
        /\ UNCHANGED ext
  /\ UNCHANGED <<session, boots, restarts, cooling, cycle>>

\* _release_failed_attempt, and what follows: another attempt, a 503 that
\* leaves the session alone, or a terminal failure that pops and closes it.
ReleaseFailed(i) ==
  /\ reset[i].pc = "release"
  /\ LetGo(i)
  /\ \/ Mint(i) /\ UNCHANGED session
     \/ /\ ext' = [ext EXCEPT ![i] = None]
        /\ reset' = [reset EXCEPT ![i] = NoReset]
        /\ session' \in {session, [session EXCEPT ![i] = "closing"]}
        /\ UNCHANGED boots
  /\ UNCHANGED <<restarts, cooling, cycle>>

\* DELETE, a bulk close or the idle reaper; only DELETE comes in mid-call.
Evict(i) ==
  /\ session[i] = "live" /\ ("abandon" \in Events \/ ~InFlight(i))
  /\ session' = [session EXCEPT ![i] = "closing"]
  /\ UNCHANGED <<ext, reset, boots, hostVars, restarts, cooling, cycle>>

CloseEnv(i) ==
  /\ session[i] = "closing"
  /\ LetGo(i)
  /\ ext' = [ext EXCEPT ![i] = None]
  /\ session' = [session EXCEPT ![i] = "gone"]
  /\ UNCHANGED <<reset, boots, restarts, cooling, cycle>>

-----------------------------------------------------------------------------
(* The drift cycle *)

SnapNames == {cycle.snap[i] : i \in Inst} \ {None}

\* build_state_view, under the lock.
Snapshot ==
  /\ cycle.pc = "sleep"
  /\ cycle' = [Asleep EXCEPT !.pc = "probe",
       !.snap = [i \in Inst |-> IF session[i] = "live" THEN ext[i] ELSE None]]
  /\ UNCHANGED <<envVars, hostVars, restarts, cooling>>

\* A plausible bug: the probe lists the containers that exited, too.
Mut_ProbeListsExited ==
  /\ cycle.pc = "probe"
  /\ cycle' = [cycle EXCEPT !.pc = "scan", !.inUse = SnapNames \cap ps]
  /\ UNCHANGED <<envVars, hostVars, restarts, cooling>>

\* live_ids: the containers that run.
Probe ==
  /\ cycle.pc = "probe"
  /\ cycle' = [cycle EXCEPT !.pc = "scan", !.inUse = SnapNames \cap up]
  /\ UNCHANGED <<envVars, hostVars, restarts, cooling>>

\* A plausible bug: a docker ps that failed reads as an empty host.
Mut_ProbeFailsOpen ==
  /\ cycle.pc = "probe"
  /\ cycle' = [cycle EXCEPT !.pc = "scan", !.inUse = {}]
  /\ UNCHANGED <<envVars, hostVars, restarts, cooling>>

\* ... or a ReconcileProbeError, which ends the cycle.
ProbeFails ==
  /\ cycle.pc = "probe"
  /\ cycle' = Asleep
  /\ UNCHANGED <<envVars, hostVars, restarts, cooling>>

\* The names past the age guard, if they are not young: unless cycles are slow,
\* a container created after the snapshot still is when the cycle gets to it.
CanBeOld == IF "slow" \in Events THEN ps ELSE ps \ cycle.fresh

\* A plausible bug: no age guard, so a container just booted is an orphan.
Mut_NoAgeGuard(n, old) == n \notin cycle.inUse

IsOrphan(n, old) == n \notin cycle.inUse /\ n \in old

\* docker lists the newest first.
Newest(names, k) == {n \in names : Cardinality({m \in names : <<n, m>> \in older}) < k}

\* reap: what the quarantine forgets, and the containers to remove.  The cap
\* is applied before the quarantine is looked at.  A scan that fails reads as
\* an empty host, which clears the quarantine.
Scan(seen, old) ==
  /\ cycle.pc = "scan"
  /\ cooling' = cooling \cap seen
  /\ cycle' = [cycle EXCEPT !.pc = "rm",
       !.todo = Newest({n \in seen : IsOrphan(n, old)}, MaxOrphans)]
  /\ UNCHANGED <<envVars, hostVars, restarts>>

\* _try_orphan_rm on the next candidate: still under quarantine, gone, or refused.
NextOrphan(n) ==
  /\ cycle.pc \in {"rm", "bootrm"} /\ n \in Newest(cycle.todo, 1)
  /\ cycle' = [cycle EXCEPT !.todo = @ \ {n}]
  /\ UNCHANGED <<envVars, restarts>>

SkipQuarantined(n) == NextOrphan(n) /\ n \in cooling /\ UNCHANGED <<hostVars, cooling>>

RemoveOrphan(n) == NextOrphan(n) /\ n \notin cooling /\ Removed(n) /\ UNCHANGED cooling

\* A plausible bug: a refused removal leaves the candidate at the head.
Mut_RetryAtOnce(n) ==
  /\ cycle.pc \in {"rm", "bootrm"} /\ n \in Newest(cycle.todo, 1)
  /\ n \notin cooling /\ Refused(n)
  /\ UNCHANGED <<envVars, restarts, cooling, cycle>>

RefuseOrphan(n) ==
  /\ NextOrphan(n) /\ n \notin cooling
  /\ Refused(n)
  /\ cooling' = cooling \cup {n}

Vanished == {i \in Inst : cycle.snap[i] \notin cycle.inUse \cup {None}}

\* The sessions old enough, and no more than the cap.
FindGhosts(ghosts) ==
  /\ cycle.pc = "rm" /\ cycle.todo = {}
  /\ ghosts \subseteq Vanished /\ Cardinality(ghosts) <= MaxGhosts
  /\ cycle' = [cycle EXCEPT !.pc = "pop", !.ghosts = ghosts]
  /\ UNCHANGED <<envVars, hostVars, restarts, cooling>>

\* Back on the event loop: pop the ghosts that are still there and not in
\* flight, and spawn their closes.
PopGhosts ==
  LET popped == {i \in cycle.ghosts : session[i] = "live" /\ ~InFlight(i)} IN
  /\ cycle.pc = "pop"
  /\ session' = [i \in Inst |-> IF i \in popped THEN "closing" ELSE session[i]]
  /\ cycle' = [Asleep EXCEPT !.pc = "closes", !.ghosts = popped]
  /\ UNCHANGED <<ext, reset, boots, hostVars, restarts, cooling>>

CycleOver ==
  /\ cycle.pc = "closes" /\ \A i \in cycle.ghosts : session[i] = "gone"
  /\ cycle' = Asleep
  /\ UNCHANGED <<envVars, hostVars, restarts, cooling>>

-----------------------------------------------------------------------------
(* A restart, and boot recovery *)

ServerRestarts ==
  /\ restarts < MaxRestarts /\ restarts' = restarts + 1
  /\ session' = [i \in Inst |-> IF session[i] = "new" THEN "new" ELSE "gone"]
  /\ ext' = [i \in Inst |-> None] /\ reset' = [i \in Inst |-> NoReset]
  /\ cooling' = {} /\ cycle' = [Asleep EXCEPT !.pc = "boot"]
  /\ UNCHANGED <<boots, hostVars>>

\* recover: every container of the port, however young, uncapped.
BootScan(seen) ==
  /\ cycle.pc = "boot"
  /\ cycle' = [cycle EXCEPT !.pc = "bootrm", !.todo = seen]
  /\ UNCHANGED <<envVars, hostVars, restarts, cooling>>

StartServing ==
  /\ cycle.pc = "bootrm" /\ cycle.todo = {}
  /\ cycle' = Asleep
  /\ UNCHANGED <<envVars, hostVars, restarts, cooling>>

-----------------------------------------------------------------------------
Next ==
  \/ \E n \in Name :
       \/ ContainerDies(n) \/ BackoffEnds(n)
       \/ SkipQuarantined(n) \/ RemoveOrphan(n) \/ RefuseOrphan(n)
  \/ \E i \in Inst :
       \/ Make(i) \/ StartReset(i) \/ DockerRun(i) \/ ResetOk(i)
       \/ ResetRaises(i) \/ ResetFails(i) \/ ReleaseFailed(i) \/ Evict(i) \/ CloseEnv(i)
  \/ Snapshot \/ Probe \/ ProbeFails \/ PopGhosts \/ CycleOver
  \/ ServerRestarts \/ StartServing
  \/ \E seen \in {ps, {}} : BootScan(seen) \/ \E old \in SUBSET CanBeOld : Scan(seen, old)
  \/ \E ghosts \in SUBSET Inst : FindGhosts(ghosts)

Spec == Init /\ [][Next]_vars

(***************************************************************************)
(* Fairness.  The dispatcher never stops and its subprocess calls all have *)
(* timeouts; docker answers again and again, and a container that is not   *)
(* stuck is removed if that is tried again and again; a reset returns or   *)
(* raises; time passes.                                                    *)
(***************************************************************************)
Fairness ==
  /\ WF_vars(Snapshot) /\ SF_vars(Probe) /\ SF_vars(Scan(ps, CanBeOld))
  /\ WF_vars(\E ghosts \in SUBSET Inst : FindGhosts(ghosts))
  /\ WF_vars(PopGhosts) /\ WF_vars(CycleOver) /\ WF_vars(BootScan(ps)) /\ WF_vars(StartServing)
  /\ \A n \in Name : WF_vars(SkipQuarantined(n) \/ RefuseOrphan(n)) /\ WF_vars(BackoffEnds(n))
  /\ \A n \in Name \ Stuck : SF_vars(RemoveOrphan(n))
  /\ \A i \in Inst : /\ SF_vars(\E ghosts \in SUBSET Inst : i \in ghosts /\ FindGhosts(ghosts))
                     /\ WF_vars(CloseEnv(i)) /\ WF_vars(DockerRun(i))
                     /\ WF_vars(ResetOk(i) \/ ResetRaises(i) \/ ResetFails(i)) /\ WF_vars(ReleaseFailed(i))

FairSpec == Spec /\ Fairness

-----------------------------------------------------------------------------
\* The type invariant.
TypeOK ==
  /\ session \in [Inst -> {"new", "live", "closing", "gone"}]
  /\ ext \in [Inst -> Name \cup {None}]
  /\ reset \in [Inst -> [pc : {"boot", "setup"}, name : Name]
                      \cup [pc : {"idle", "release"}, name : {None}]]
  /\ boots \in 0..MaxBoots /\ restarts \in 0..MaxRestarts
  /\ ps \subseteq Name /\ older \subseteq ps \X ps /\ up \subseteq ps
  /\ cooling \subseteq Name
  /\ cycle \in [pc : {"sleep", "probe", "scan", "rm", "pop", "closes", "boot", "bootrm"},
                snap : [Inst -> Name \cup {None}], fresh : SUBSET Name, inUse : SUBSET Name,
                todo : SUBSET Name, ghosts : SUBSET Inst]

\* The name of a boot attempt is free: no container is listed under it, as one
\* that a failed removal left behind would be, and no sweep is about to remove it.
NamesAreFree ==
  \A i \in Inst : reset[i].pc = "boot" => reset[i].name \notin ps \cup cycle.todo

\* The sweep never removes the running container of a live session, although
\* it works from a snapshot that is minutes old.
SweepSparesOwned ==
  [][cycle.pc \in {"rm", "bootrm"} /\ cycle'.todo # cycle.todo
       => up \cap Owned \subseteq up']_vars

\* A ghost's container, as the snapshot named it, has not been running since
\* the snapshot: a docker outage ghosts nobody.
GhostsHadVanished ==
  cycle.pc = "pop" => \A i \in cycle.ghosts : cycle.snap[i] \notin up \ cycle.fresh

\* Only sessions whose container is gone are popped as ghosts.
PoppedGhostsAreGone ==
  [][\A i \in Inst : cycle.pc = "pop" /\ session[i] = "live" /\ session'[i] = "closing"
       => ext[i] \notin up \/ cycle'.pc = "pop"]_vars

\* A container nobody owns is removed in the end, unless docker never does it.
OrphansGo == \A n \in Name \ Stuck : []<>(n \notin ps \/ n \in Owned)

\* A session whose container has died does not stay for ever.
GhostsGo ==
  \A i \in Inst : []<>(session[i] # "live" \/ ext[i] \in up \cup {None} \/ InFlight(i))
=============================================================================
