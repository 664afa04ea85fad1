---------------------------- MODULE PortLeases ----------------------------
(***************************************************************************)
(* Host ports for the containers that processes of one host boot side by   *)
(* side (utils/backend/ports.py, container.py).  A port is reserved in a   *)
(* file that the processes share under a lock; docker binds it later, in   *)
(* `docker run'.  In between the reservation is a lease: within a grace    *)
(* period the processes of its own place do not prune it, after it whoever *)
(* allocates next may.                                                     *)
(*                                                                         *)
(* The processes run on the host and in containers that mount the file,    *)
(* and a process sees the pids and the bound ports of its own place only.  *)
(* The file is truncated and then written: a process killed in between     *)
(* leaves what the next reader takes for an empty file.                    *)
(*                                                                         *)
(* The age of a stamp is abstracted to within the grace or past it, on the *)
(* wall clock of the file and on the monotonic clock of each process.  A   *)
(* pid is not given to another process.                                    *)
(***************************************************************************)
EXTENDS FiniteSets, Naturals

CONSTANTS
  Port,    \* the band allocate_ports scans
  Proc,    \* processes (pids)
  Boot,    \* threads that boot containers, one after the other
  ProcOf,  \* the process of each
  Need,    \* ports of a container
  Host,    \* the namespaces of the host, where docker binds the ports
  Layouts, \* in which namespaces the processes may run: the host's, a container's
  None

ASSUME LeaseAssumption == ProcOf \in [Boot -> Proc] /\ None \notin Proc /\ Need \in Nat

VARIABLES
  place,   \* where each process runs, from the beginning
  res,     \* the reservation file: the pid of each entry, None for no entry
  wall,    \* entries whose ts is within the grace
  cache,   \* cache[P]: _RECENT_ALLOCATIONS of process P
  pc,      \* how far a boot or a teardown is
  ports,   \* _ports_owned
  live,    \* boots whose container is bound to its ports
  stray,   \* ports bound by a container nobody owns any more
  late,    \* ports that a docker run given up on may yet bind
  dead,    \* processes that have died
  lost     \* ports whose owners may have lost the entry: see Overdue, Foreign, Torn

vars == <<place, res, wall, cache, pc, ports, live, stray, late, dead, lost>>
leaseVars  == <<place, res, wall, cache, lost>>
dockerVars == <<live, stray, late>>

Init ==
  /\ place \in Layouts
  /\ res = [p \in Port |-> None] /\ wall = {}
  /\ cache = [P \in Proc |-> [p \in Port |-> "absent"]]
  /\ pc = [b \in Boot |-> "idle"] /\ ports = [b \in Boot |-> {}]
  /\ live = {} /\ stray = {} /\ late = {} /\ dead = {} /\ lost = {}

\* The ports that docker holds on the host.
Bound == stray \cup UNION {ports[b] : b \in live}

Goes(b, from, to) == pc[b] = from /\ pc' = [pc EXCEPT ![b] = to]

-----------------------------------------------------------------------------
(* allocate_ports, touch_ports, release_ports: each under the file lock *)

\* What _pid_alive and _is_port_free may tell P: the truth about the processes of
\* its own place, and about docker's ports if that is the host.  A pid of another
\* place names nobody in this one, or somebody else.
Looks(P) ==
  {l \in [alive : SUBSET Proc, taken : SUBSET Port] :
     /\ \A Q \in Proc : place[Q] = place[P] => (Q \in l.alive <=> Q \notin dead)
     /\ place[P] = Host => l.taken = Bound}

\* Plausible bugs: a prune knows no grace; it forgets to look at the port.
Mut_KeptIfBound(P, l) == {p \in Port : res[p] \in l.alive /\ p \in l.taken}
Mut_KeptIfRecent(P, l) ==
  {p \in Port : res[p] \in l.alive /\ (p \in wall \/ cache[P][p] = "recent")}

\* The entries that _prune_dead keeps when process P runs it and sees l.
Kept(P, l) ==
  {p \in Port : /\ res[p] \in l.alive
                /\ p \in wall \/ cache[P][p] = "recent" \/ p \in l.taken}

Owned(p) == \E b \in Boot : p \in ports[b]

\* Leases run out under boots that own the port: the stamp is past the grace, the
\* pruning process has none of its own, and sees nothing bound to the port.
Overdue(P, l) ==
  {p \in Port : p \notin wall /\ cache[P][p] # "recent" /\ p \notin l.taken /\ Owned(p)}

\* Owners in another place, who for the pruning process are not alive.
Foreign(P, l) ==
  {p \in Port : \E b \in Boot : /\ p \in ports[b] /\ ProcOf[b] \notin l.alive
                                /\ place[ProcOf[b]] # place[P]}

\* The file and the cache of P after the prune, with S reserved besides.
Reserve(P, l, S) ==
  LET looked == {p \in Port : res[p] \in l.alive /\ p \notin wall} IN
  /\ res' = [p \in Port |-> IF p \in S THEN P ELSE IF p \in Kept(P, l) THEN res[p] ELSE None]
  /\ wall' = (wall \cap Kept(P, l)) \cup S
  /\ cache' = [cache EXCEPT ![P] =
       [p \in Port |-> IF p \in S THEN "recent"
                       ELSE IF p \in looked /\ cache[P][p] = "old" THEN "absent"
                       ELSE cache[P][p]]]
  /\ lost' = lost \cup Overdue(P, l) \cup Foreign(P, l)
  /\ UNCHANGED place

\* build(): the ports of a container that is to be started.
Allocate(b) ==
  LET P == ProcOf[b] IN
  /\ P \notin dead /\ Goes(b, "idle", "held")
  /\ \E l \in Looks(P) : \E S \in SUBSET (Port \ (Kept(P, l) \cup l.taken)) :
       /\ Cardinality(S) = Need
       /\ Reserve(P, l, S) /\ ports' = [ports EXCEPT ![b] = S]
  /\ UNCHANGED <<dockerVars, dead>>

\* Too few are free: CapacityExhausted.  The pruned file is written.
Exhausted(b) ==
  LET P == ProcOf[b] IN
  /\ P \notin dead /\ pc[b] = "idle"
  /\ \E l \in Looks(P) :
       /\ Cardinality(Port \ (Kept(P, l) \cup l.taken)) < Need
       /\ Reserve(P, l, {})
  /\ UNCHANGED <<pc, ports, dockerVars, dead>>

\* touch_ports, then docker run: whether or not there was a lease to re-stamp.  The
\* entry of another place may bear the same number for a pid.
Touch(b) ==
  LET P == ProcOf[b] IN
  /\ Goes(b, "held", "run")
  /\ \E same \in SUBSET {Q \in Proc : place[Q] # place[P]} :
       wall' = wall \cup {p \in ports[b] : res[p] \in {P} \cup same}
  /\ cache' = [cache EXCEPT ![P] =
       [p \in Port |-> IF p \in ports[b] /\ cache[P][p] # "absent" THEN "recent" ELSE cache[P][p]]]
  /\ UNCHANGED <<place, res, ports, lost, dockerVars, dead>>

\* A stamp grows old; a clock that is set forward makes it old at once.
Lapse(p) ==
  /\ \/ p \in wall /\ wall' = wall \ {p} /\ UNCHANGED cache
     \/ \E P \in Proc : /\ cache[P][p] = "recent"
                        /\ cache' = [cache EXCEPT ![P][p] = "old"] /\ UNCHANGED wall
  /\ UNCHANGED <<place, res, lost, pc, ports, dockerVars, dead>>

-----------------------------------------------------------------------------
(* docker run, and destroy() *)

RunOk(b) ==
  /\ Goes(b, "run", "up") /\ ports[b] \cap Bound = {}
  /\ live' = live \cup {b}
  /\ UNCHANGED <<leaseVars, ports, stray, late, dead>>

\* docker refuses, for one because a port is taken.
RunFails(b) ==
  /\ Goes(b, "run", "ending")
  /\ UNCHANGED <<leaseVars, ports, dockerVars, dead>>

\* docker run is given up on; the daemon may come round to it later.
RunTimesOut(b) ==
  /\ Goes(b, "run", "ending") /\ late' = late \cup ports[b]
  /\ UNCHANGED <<leaseVars, ports, live, stray, dead>>

LateBind(p) ==
  /\ p \in late /\ late' = late \ {p}
  /\ stray' = IF p \in Bound THEN stray ELSE stray \cup {p}
  /\ UNCHANGED <<leaseVars, pc, ports, live, dead>>

\* The boot did not get ready, the episode is over, or the container crashed.
Destroy(b) ==
  /\ Goes(b, "up", "ending")
  /\ \/ UNCHANGED live
     \/ live' = live \ {b}
  /\ UNCHANGED <<leaseVars, ports, stray, late, dead>>

\* docker rm -f, which may fail.
Remove(b) ==
  /\ Goes(b, "ending", "removed") /\ live' = live \ {b}
  /\ \/ UNCHANGED stray
     \/ b \in live /\ stray' = stray \cup ports[b]
  /\ UNCHANGED <<leaseVars, ports, late, dead>>

\* release_ports drops the ports from the cache before it waits for the lock ...
ReleaseCache(b) ==
  /\ Goes(b, "removed", "release")
  /\ cache' = [cache EXCEPT ![ProcOf[b]] =
       [p \in Port |-> IF p \in ports[b] THEN "absent" ELSE cache[ProcOf[b]][p]]]
  /\ UNCHANGED <<place, res, wall, lost, ports, dockerVars, dead>>

\* A plausible bug: the entries stay.
Mut_EntriesStay(b) ==
  /\ Goes(b, "release", "idle")
  /\ ports' = [ports EXCEPT ![b] = {}]
  /\ lost' = {p \in lost : Owned(p)'}
  /\ UNCHANGED <<place, res, wall, cache, dockerVars, dead>>

\* ... and then their entries from the file, whoever they are of by now.
Release(b) ==
  /\ Goes(b, "release", "idle")
  /\ res' = [p \in Port |-> IF p \in ports[b] THEN None ELSE res[p]]
  /\ wall' = wall \ ports[b]
  /\ ports' = [ports EXCEPT ![b] = {}]
  /\ lost' = {p \in lost : Owned(p)'}
  /\ UNCHANGED <<place, cache, dockerVars, dead>>

\* A container that nobody owns is reaped, or ends.
StrayGone(p) ==
  /\ p \in stray /\ stray' = stray \ {p}
  /\ UNCHANGED <<leaseVars, pc, ports, live, late, dead>>

\* A process dies.  Its containers live on, and its runs go through.
Dies(P) ==
  LET mine == {b \in Boot : ProcOf[b] = P} IN
  /\ P \notin dead /\ dead' = dead \cup {P}
  /\ pc' = [b \in Boot |-> IF b \in mine THEN "idle" ELSE pc[b]]
  /\ ports' = [b \in Boot |-> IF b \in mine THEN {} ELSE ports[b]]
  /\ live' = live \ mine
  /\ stray' = stray \cup UNION {ports[b] : b \in live \cap mine}
  /\ late' = late \cup UNION {ports[b] : b \in {c \in mine : pc[c] = "run"}}

\* Its entries stay in the file.
Crash(P) ==
  /\ Dies(P)
  /\ lost' = {p \in lost : Owned(p)'}
  /\ UNCHANGED <<place, res, wall, cache>>

\* The boot may be writing the file: in allocate_ports, in release_ports, and in
\* touch_ports if an entry there bears its pid.
Writes(b) ==
  \/ pc[b] \in {"idle", "release"}
  \/ pc[b] = "held" /\ \E p \in ports[b] :
       res[p] # None /\ (res[p] = ProcOf[b] \/ place[res[p]] # place[ProcOf[b]])

\* It is killed in the middle of that: what is left of the file is read as one
\* without entries, and every owner that lives on has lost its own.
Torn(P) ==
  /\ Dies(P)
  /\ \E b \in Boot : ProcOf[b] = P /\ Writes(b)
  /\ res' = [p \in Port |-> None] /\ wall' = {}
  /\ lost' = {p \in Port : Owned(p)'}
  /\ UNCHANGED <<place, cache>>

-----------------------------------------------------------------------------
BootStep(b) ==
  \/ Allocate(b) \/ Exhausted(b) \/ Touch(b) \/ RunOk(b) \/ RunFails(b) \/ RunTimesOut(b)
  \/ Destroy(b) \/ Remove(b) \/ ReleaseCache(b) \/ Release(b)

Next ==
  \/ \E b \in Boot : BootStep(b)
  \/ \E p \in Port : Lapse(p) \/ LateBind(p) \/ StrayGone(p)
  \/ \E P \in Proc : Crash(P) \/ Torn(P)

Spec == Init /\ [][Next]_vars

-----------------------------------------------------------------------------
\* The type invariant.
TypeOK ==
  /\ place \in Layouts
  /\ res \in [Port -> Proc \cup {None}] /\ wall \subseteq Port
  /\ cache \in [Proc -> [Port -> {"absent", "old", "recent"}]]
  /\ pc \in [Boot -> {"idle", "held", "run", "up", "ending", "removed", "release"}]
  /\ ports \in [Boot -> SUBSET Port] /\ live \subseteq Boot
  /\ stray \subseteq Port /\ late \subseteq Port /\ dead \subseteq Proc /\ lost \subseteq Port

\* Two boots own the same port only where an owner may have lost its entry: it held
\* its lease past the grace and nothing bound to the port was seen, a process of
\* another place pruned, or one was killed in writing the file.  Neither the
\* threads of a process, nor processes of one place that start, prune, re-stamp
\* and release together, nor a crash elsewhere bring it about.
PortsExclusive ==
  \A a, b \in Boot : a # b => ports[a] \cap ports[b] \subseteq lost

\* Whoever owns a port has the entry for it, from before docker binds it until
\* after docker has unbound it, but for these three.
LeaseKept ==
  \A b \in Boot : \A p \in ports[b] \ lost : res[p] = ProcOf[b]

\* No entry of a process that is alive outlasts the boots that own its port.
NoPortLeaks ==
  \A p \in Port : res[p] \notin dead \cup {None} =>
    \E b \in Boot : ProcOf[b] = res[p] /\ p \in ports[b]
=============================================================================
