# Formal models of cua-lite's remote gym

cua-lite runs computer-use agents against environments (browsers, desktops,
phones) that live in containers. Its own hard logic is the *remote gym*
(`lite/gym/remote`) and what lies below it: a client asks a fleet router for
an environment instance, the router picks an env server, the server admits the
instance, keeps instances that share a mutable backend apart, drives resets
and steps, reserves host ports, talks to a server inside each container, and
reclaims what clients, crashes and docker leave behind. All of that is
concurrent, distributed and full of timeouts, and it is what these modules
model. The rest of the repository (agents, prompt formats, judges, generators
and conversions of datasets, losses) is sequential data processing, and most of
its lines (section 8).

Paths below are relative to the repository root; `PROJECT.json` maps each
definition to the lines it translates.

## 1. Inventory

| Component | State it keeps | Operations | Modelled by |
|---|---|---|---|
| Conflict gate (`remote/conflict.py`) | per key: readers and writer; per instance: what it holds | `try_acquire`, `release`, `holder` | `ConflictKeyTable` |
| Env server (`remote/server.py`) | `state.envs`, per-session `in_flight` and `reset_done`, reset semaphores, detached closes | create, reset, step, DELETE, bulk DELETE, idle and drift reapers | `EnvServer` |
| Admission (`remote/admission.py`) | admitted count, docker semaphore and its pending count | `require_capacity`/`admit`/`release`, `docker_create_slot(_async)` | `EnvServer`, `DockerSlots` |
| Fleet router (`remote/fleet.py`) | roster of nodes with health, cooldown and `outstanding`; sticky map | create cascade, sticky forward, recovery, bulk DELETE, poller | `FleetRouter` |
| Client and rpc (`remote/client.py`, `utils/backend/rpc.py`) | the call under way, its attempts | reset and step with their retries, `may_reissue` | `StepDelivery` |
| OSWorld env (`envs/osworld/main.py`) | container, step count | reset, step: actions, capture, evaluation | `StepDelivery` |
| exec-stdio (`sandbox/exec_stdio/`) | one pipe, request ids, current and retired processes | call, respawn, cancel, close; the server loop | `ExecStdio` |
| Port allocation (`utils/backend/ports.py`, `gym/container.py`) | a locked file, a cache per process | allocate, touch, release, prune; boot and teardown | `PortLeases` |
| Drift reaper (`remote/reconcile.py`, `recovery.py`, `reaper.py`) | quarantine; the snapshot of the cycle under way | reconcile, reap, recover | `DriftReaper` |
| Sandbox env (`sandbox/base.py`) | container name, exec session | boot, reset, step, close | partly, in `DriftReaper` |
| Rollout runs, training, datasets, agents, messages, scripts | | | not modelled, see section 8 |

How they interact:

- **Client to router to server** are HTTP calls. Any of them can fail before,
  while or after the other side acts. The client gives up a call after a
  deadline and may DELETE the instance while the server's handler still runs;
  it repeats a `/reset` whose answer was lost.
- **Router and server** share no state: the router believes what its polls
  and its forwarded calls tell it.
- **Handlers and reapers of one server** share `State`. Everything runs on
  one event loop, so they interleave at `await`s only, and no holder of
  `State.lock` awaits anything. What runs elsewhere is `gym.make`, blocking
  env code and the drift cycle (worker threads).
- **Server and containers** meet through docker: a reset boots a container
  under a fresh name on reserved ports, a close removes it, and the drift
  reaper compares the sessions' names with what docker lists.
- **Env and container** talk over HTTP (an RPC for each action) or over the
  pipe of one `docker exec` process.
- **Processes of one host**, and of containers that mount the repository, share
  the port file, under a file lock.

What is hard here: closes that race calls, resets and each other; resources
(slot, key, permit, port, container) taken one after another and returned on a
dozen paths; retries stacked on retries, three of them around calls that must
not be repeated; a reaper that acts on a picture minutes old; a router whose
map is rebuilt by guesswork; leases that run out under their owner; cancellation
of a coroutine whose thread, or whose process in a container, cannot be
cancelled; a file that processes in different namespaces share. `PROJECT.json` lists these hazards at their lines, with the
properties that cover each.

What correctness means, component by component:

- *Conflict gate*: two holders of one key are both readers.
- *Env server*: a slot, key or permit is returned exactly once on every path;
  a sweep does not close an env under a call; a key changes hands only with
  its backend restored; every instance that ends gives its keys back.
- *Admission*: the bound on boots holds, no slot is lost, callers are answered.
- *Fleet router*: calls go where the instance lives; a live instance is never
  declared gone; the load counter is exact; a healed server is used again.
- *Delivery of a step*: it is served once whoever retries, its actions run in
  order, the answer tells what ran, the agent keeps its env, calls return.
- *exec-stdio*: an op runs once, an answer belongs to its call, a close leaves
  no process behind, calls end.
- *Ports*: a port has one owner, whose entry stays in the file as long as it
  owns the port and no longer; where the code cannot keep that, the cases in
  which it fails are few and known.
- *Drift reaper*: it removes no container that a live session uses, makes no
  ghost of an outage, and in the end removes what nobody owns.

## 2. The modules

| Module | What it is |
|---|---|
| `ReadersWriter` | the abstract readers-writer lock over sets of keys |
| `ConflictKeyTable` | `conflict.py`, shown to implement `ReadersWriter` |
| `ConflictKeyTableProofs` | its invariant and the refinement, proved |
| `EnvServer` | one env server; extends `ConflictKeyTable`, whose operations are part of its actions |
| `MCEnvServer` | the instances and tenants TLC gives it |
| `EnvServerProofs` | its inductive invariant, what holds under every fault, and a second invariant on top for clients that do not abandon calls |
| `DockerSlots`, `DockerSlotsProofs` | the docker create semaphore, for threads and for coroutines |
| `FleetRouter`, `MCFleetRouter`, `FleetRouterProofs` | the router, and the world of servers around it |
| `AgentEpisode` | the abstract episode: steps one after the other, executed in order and told truly |
| `StepDelivery`, `StepDeliveryProofs` | one episode over client, router, server and container, shown to implement `AgentEpisode` |
| `SerialCalls` | the abstract session: calls that take turns, ops that run once |
| `ExecStdio`, `ExecStdioProofs` | the pipe session and the servers at its other end, shown to implement `SerialCalls` |
| `PortLeases`, `MCPortLeases`, `PortLeasesProofs` | ports, the file, the caches, docker |
| `DriftReaper`, `DriftReaperProofs` | the drift cycle, the sandbox envs and the docker host |

Operators named `Mut_...` are plausible bugs of the definition below them.
No specification uses one: `PROJECT.json` names, for each property of a
passing run, the one that violates it when it takes that definition's place.

**EnvServer.** An instance id stands for the create request that mints it, so
env_id, owner, session, keys and read/write mode are functions of the id.
`phase` follows an instance from its request (`new`) through `gym.make`
(`making`) and `state.envs` (`live`) to its pop (`gone`). `call[c]` is a
handler coroutine of `/reset` or `/step`; `closer[i][o]` is the
`_close_quietly` that `o` (a handler, DELETE, a bulk close or a reaper) spawned
for `i`, so that two closes of one instance are two coroutines, as in the code.
A step is what the loop runs between two awaits. `dirty` is not a variable of
the program: it records the keys whose backend an env has touched since the
last restore, and serves `CleanHandOver` only. The host sensors may refuse any
create, which is a create that does not happen.

`Faults` says what the surroundings may do: `abandon` (DELETE during a
call), `resend` (a second copy of a call), `queued` (a sweep while a reset
waits for its permit). With all of them the accounting properties hold; four
isolation properties need them absent, as section 6 explains.

**DockerSlots.** `user` is the context manager, `worker` the thread inside
`acquire()`, `task` the asyncio task that waits for the thread.
`CancelPoints` names the places where a cancellation may strike.

**FleetRouter.** `up` and `home` are the truth; `healthy`, `entry` and
`outstanding` are what the router thinks. Nodes are objects with a name: a
name that leaves the roster and joins again is a new object, as in
`poll_once`. `events` is chosen at the start from `Surroundings` and stays: it
enables crashes, router restarts, roster edits, dropped requests and bulk
closes. Properties that a restart or a lost request breaks by nature
are conditional on `events`, and say so.

**StepDelivery.** One agent, its reset and its steps. A request that reaches
the router gets a number, and each time the router forwards it a handler of
its own on the server: a handler runs on when the connection that brought its
call is cut, so several may be under way for one call. The env's `_step_count`
equals the agent's step number. A container goes by the handler that built it;
`cur` is the one the env acts on, `applied` what each has executed, and `redone`
records the steps whose batch a handler ran again. The reset of an env ends with
the env acting on the container it built. Abstracted: actions that need no
RPC, `terminated`, the connect retries inside one RPC (all of them are the
outcome "refused"). `AgentEpisode` knows neither requests nor handlers: it sees
the step under way and whether the agent waits, goes on or has given up
(`client`), what was executed (`applied`), told, and begun again (`redone`).

**ExecStdio.** A generation is one `docker exec` process with the server at
its other end. A request is written with its call's number; it is queued in
the pipe, taken by the server, replied to and read. When the host gives up a
pipe, the server runs on with what it had received: only `close()` kills, and
only what it knows by pid (`named`: the generations whose handshake was
answered). `spoilt` marks closes that overlapped a call, were cut short by
the caller's `wait_for`, or met a docker that does not kill. `start()` has
succeeded; `ok` and `error` answers are both "answered", exceptions and
cancellations both "failed"; a half-read frame is a line that is not the
call's. A call writes its op at once (`await`: it waits for the answer, under a
deadline) or finds the pipe full (`drain`: `await stdin.drain()`, under no deadline,
with the lock held), of its own request or of what a cancelled call left in it; the
server may take the request all the same, bit by bit. `Drained` ends that wait, and so does
`RoundtripFails` when the pipe breaks; `Blocked` says that neither need come, as the
server lives and has not read the request. `SerialCalls` knows calls and executions only: the session is mapped to
it by the call that holds the lock and, for each call, the number of its requests
that a server has begun.

**PortLeases.** A boot of a container goes `idle`, `held` (ports reserved),
`run` (`docker run` under way), `up`, `ending`, `removed`, `release`. `wall` and
`cache` abstract time stamps to within and past the grace: a lease may run out
whenever its owner has not touched it. `late` are ports of a `docker run`
that was given up and may yet bind; `stray` are ports of containers whose process died or
whose removal was swallowed.

`place` is chosen at the start from `Layouts` and stays: where each process runs. The
port file is shared by the host and by the containers that mount the repository
(`ports.py:88`), but these run without `--pid=host` and on the bridge network
(`train/slime/launch.sh`), so `_pid_alive` and `_is_port_free` tell a process the truth
about its own namespaces only. `Looks(P)` is the set of the answers P may get: the
truth about the processes of its place and, on the host, about docker's ports;
anything else is left open, since a foreign pid names nobody there or somebody else.

A process that dies does so between two updates of the file (`Crash`) or in the middle
of one (`Torn`): `_write_reservations` truncates the file before it writes, and
`_read_reservations` takes what is then left for a file without entries. A boot that
is `idle`, `held` or at `release` may be at such a write (`Writes`).

`lost` records the ports whose owners may have lost their entry, which happens in
three ways and, as the properties say, in no other: the lease was past the grace at a
prune by somebody who saw nothing bound to the port (`Overdue`), somebody pruned for whom
the owner, in another place, was not alive (`Foreign`), or the file was torn (`Torn`). A port
leaves `lost` when nobody owns it any more.

**DriftReaper.** One env_id with one container for each session. `ps` is what
docker lists and `older` which of two was created first (`docker ps` gives
the newest first, and the cap on removals depends on it; a candidate that
somebody else has removed meanwhile has no place in that order, and removing
it again changes nothing), `up` what runs. Every boot attempt mints the next number
as its name. Age is nondeterministic: a cycle may find any session past the
ghost guard and any container past the orphan guard, except that, unless the
event `slow` is enabled, a container created after the snapshot is still
younger than the guard (600 s) when the cycle gets to it. Cycles over several
env_ids run one after another under one snapshot, so `slow` is possible in
principle; with it, `SweepSparesOwned` fails.

## 3. Runs

All times are for two workers.

| Run | Instance | Checks |
|---|---|---|
| `server_orderly` | a writer of two keys and two readers, one of another tenant and env_id; no faults (53k states, 6 s) | `ImplementsReadersWriter`, `HeldThroughRestore`, `NoConflictingCalls`, `FailedRestoreKeepsKeys`, `CleanHandOver` |
| `server_faults` | a writer and a reader of one key, 2 handlers, `abandon` and `queued` (92k, 50 s) | `SlotsAccounted`, `InFlightCountsCalls`, `PermitsAccounted`, `LiveInstancesIsolated`, `SweepsSpareBusy`, `KeysComeBack`, `QueuedResetRuns` |
| `docker_slots` | 2 threads and 2 coroutines for one slot; cancellation everywhere but inside `acquire()` (8.5k) | `NoSlotLost`, `PendingHonest`, `CallersAnswered` |
| `fleet` | one instance, two servers, two racing calls and a bulk close; either router restarts and roster edits, or crashes and dropped requests (1.0M, 2.5 min) | `EntriesPointHome`, `OutstandingCountsEntries`, `DeletedStayUnmapped`, `LiveStaysRouted`, `NoFalseGone`, `ServersComeBack` |
| `delivery` | a reset and up to two steps of two actions; two attempts at each hop, three requests (332k, 55 s) | `StepsServedOnce`, `AppliedInOrder`, `AnswersTellWhatRan`, `EpisodeKeepsItsEnv`, `ImplementsEpisode`, `CallsReturn` |
| `exec` | two calls, three generations (819k, 1.7 min) | `OncePerCall`, `AnsweredIsDone`, `ClosedLeavesNothing`, `ImplementsSerialCalls`, `CallsEnd` |
| `ports` | two ports, three boots in two processes, both on the host or one in a container (1.7M with symmetry, 2 min) | `PortsExclusive`, `LeaseKept`, `NoPortLeaks` |
| `drift` | 1 session, 3 container names, one restart, one container docker never removes (158k, 2 min) | `NamesAreFree`, `GhostsHadVanished`, `SweepSparesOwned`, `OrphansGo`, `GhostsGo` |
| `abandoned_reset` | a writer and a reader, `abandon` | violates `HeldThroughRestore` |
| `docker_cancelled_acquire` | `docker_slots`, cancelled inside `acquire()` | violates `NoSlotLost` |
| `delivery_capture` | as `delivery` | violates `AppliedOnce` |
| `drift_stale_ghost` | 1 session, 1 container | violates `PoppedGhostsAreGone` |

What the passing runs show, in a line each: shared backends are handed over
clean and never shared with a writer; the server's counters survive
every race of closes and resets; the docker bound holds through timeouts and
cancellations; the router's map and counter stay true; however the hops of a
call fail, an agent's step is not served twice; an op over the pipe is not
executed twice and its answer is not mixed up; no port is given to two
boots, but in the three cases of `lost`; the reaper spares what is in use and removes the rest.

**Why the bounds are enough.** The properties of the env server relate at
most two instances, two handlers and one key (the table: two keys); one reset
permit with two handlers makes the semaphore block, and `Attempts = 2` gives a
reset one backoff. In the router, the map and its counter are disturbed by
pairs of handlers on one instance; two servers give the cascade a next node
and the recovery a wrong one to pick. In the delivery chain two attempts at
each hop are one retry at each, alone and combined, and two actions are the
fewest with one executed and one not; three requests allow two sends of the
reset and a step, or a reset and two steps. The exec session needs two calls
(one to leave something in the pipe, one to find it) and three generations
(a respawn that fails and one after it). Two ports for three boots make
boots wait for what others hold; two boots share a process. With one process on the
host and one in a container each prunes what the other owns; two containers differ from
that in nothing but that both see less. The reaper needs
two names, so that a session can change its container during a cycle, and a
third behind a stuck one. Where a property is proved (section 5) the theorem
lifts it to every size.

Bounds of the models that the code does not have: `MaxBoots` and `MaxRestarts`
(DriftReaper), `NodeObj` (FleetRouter), `MaxReq` (StepDelivery; it stands for
the client's deadline, after which it sends no more), `MaxCalls` and `MaxGens`
(ExecStdio), and the finite sets of instances, handlers and boots. The server
with all three faults at once takes TLC too long for a regular run; `resend`
is covered by the theorems of `EnvServerProofs`, which hold for every `Faults`, and in
`StepDelivery`, where resends have a cause.

The type invariants are proved rather than run.

`CHECK_DEADLOCK FALSE` is set where every instance id, boot, process, call or
episode is used up in the end. The router and the reaper never stop.

## 4. Fairness

- *EnvServer*: `env.reset` and `env.step` return or raise, as the server puts both
  under a timeout. `gym.make`, `env.close` and the restore are assumed to: the server
  gives them no deadline, though the closes of the repository's envs bound their docker
  calls (a close that hangs is among the hazards, `server.py:1516`). So their steps
  are weakly fair, the closes of one instance together. `EnterReset` is strongly fair, as `asyncio.Semaphore` wakes
  waiters in FIFO order. No client is obliged to call and no sweep to come.
- *DockerSlots*: threads run, `acquire()` has a timeout, a boot ends.
- *FleetRouter*: the poller logs exceptions and goes on, and probes every server in
  the roster; nothing else is fair.
- *StepDelivery*: the client's own steps, its timeouts among them. No hop is
  obliged to answer: `CallsReturn` follows from the bounds on the client's loops.
- *ExecStdio*: the steps of the call under the lock while it is not `Blocked`. Waiting
  for an answer has a deadline, and so has the end of the old host client; a spawn is of
  a process on the host; and `drain()`, which has none, returns or raises once the server
  has read the request or the pipe is broken. No server is obliged to read or to
  answer: `CallsEnd` says that every call ends unless one is `Blocked` for ever.
- *DriftReaper*: the dispatcher logs exceptions and goes on, and its docker
  calls have timeouts (weak fairness of the cycle's steps). Docker answers,
  and removes a container that is not stuck, if asked again and again (strong
  fairness of the probe, the scan with every age guard passed, and the
  removal): each of these may fail any number of times, but not for ever. A
  vanished session is among the ones reported again and again, since those
  ahead of it under the cap are popped.

`PortLeases` states no liveness: nothing obliges a boot to end.

## 5. What is proved

Each theorem holds for every value of the constants that its module's
assumptions allow. No safety theorem assumes a property of the system; the four
liveness theorems assume one, that the fair actions can run when they should
(below).

| Module | Theorem | States |
|---|---|---|
| `ConflictKeyTableProofs` | `TableIsolates` | `ReadersWriterExclusion`, and that the two maps agree (`TableMatchesHolders`) |
| | `TableImplementsReadersWriter` | the refinement of `ReadersWriter` |
| `EnvServerProofs` | `ServerTypeOK` | the type invariant |
| | `ServerImplementsReadersWriter` | `ImplementsReadersWriter`, by way of `ServerDrivesTable` |
| | `AdmissionIsExact` | `SlotsAccounted` and `NeverOverAdmitted` |
| | `CallsAreCounted`, `PermitsAreExact` | `InFlightCountsCalls`, `PermitsAccounted` |
| | `LiveIsolation` | `LiveInstancesIsolated` |
| | `SweepsAreSafe` | `SweepsSpareBusy` |
| | `KeysAreNotLeaked` | `NoKeyLeaks`: a gone instance has its keys back, its restore has failed, or a close of it is under way |
| | `AllKeysComeBack` | `KeysComeBack`, if `[]ClosesCanRun` |
| | `RestoresHoldKeys` | `HeldThroughRestore`, if `Faults = {}` |
| | `FailedRestoresKeepKeys` | `FailedRestoreKeepsKeys`, if `Faults = {}` |
| | `CallsNeverConflict` | `NoConflictingCalls`, if `Faults = {}` |
| | `HandOversAreClean` | `CleanHandOver`, if `Faults = {}` |
| `DockerSlotsProofs` | `DockerTypeOK`, `BootsAreBounded`, `PendingIsHonest` | the type invariant, `BootsBounded`, `PendingHonest` |
| | `SlotsAreNotLost` | `NoSlotLost`, if nothing is cancelled inside `acquire()` |
| | `CallersAreAnswered` | `CallersAnswered`, if `[]GuardsSuffice` |
| `FleetRouterProofs` | `FleetTypeOK`, `OutstandingIsExact`, `EntriesAreRight` | the type invariant, `OutstandingCountsEntries`, `EntriesPointHome` |
| | `RoutesAreKept`, `GoneIsTrue` | `LiveStaysRouted`, `NoFalseGone` |
| | `DeletedIsUnmapped` | `DeletedStayUnmapped` |
| | `AllServersComeBack` | `ServersComeBack`, if `[]PollsCanRun` |
| `StepDeliveryProofs` | `DeliveryTypeOK`, `StepsAreServedOnce` | the type invariant, `StepsServedOnce` |
| | `EnvIsKept`, `ActionsAppliedInOrder` | `EpisodeKeepsItsEnv`, `AppliedInOrder` |
| | `AnswersAreTrue` | `AnswersTellWhatRan` |
| | `EpisodeKeepsPromise` | `ImplementsEpisode`, the refinement of `AgentEpisode` |
| `ExecStdioProofs` | `ExecTypeOK`, `OpsRunOnce` | the type invariant, `OncePerCall` |
| | `AnswersAreFinal`, `CloseIsThorough` | `AnsweredIsDone`, `ClosedLeavesNothing` |
| | `SessionKeepsPromise` | `ImplementsSerialCalls`, the refinement of `SerialCalls` |
| | `EveryCallEnds` | `CallsEnd` (whose condition is that no call is `Blocked` for ever), if `[]CanStep` |
| `DriftReaperProofs` | `ReaperTypeOK`, `BootsHaveFreeNames` | the type invariant, `NamesAreFree` |
| | `GhostsHadNoContainer` | `GhostsHadVanished` |
| | `SweepsSpareTheLiving` | `SweepSparesOwned`, if `"slow" \notin Events` |
| `PortLeasesProofs` | `PortTypeOK`, `PortsAreExclusive` | the type invariant, `PortsExclusive` |
| | `LeasesAreKept`, `PortsDoNotLeak` | `LeaseKept`, `NoPortLeaks` |

The assumptions are the named ones of the modules: `NoInstAssumption`,
`RequestAssumption`, `LimitAssumption` (finite sets of instances and handlers),
`OriginAssumption`, `SlotAssumption`, `FleetAssumption`, `DeliveryAssumption`,
`ExecAssumption`, `LeaseAssumption`, `ReaperAssumption`. None of the properties is inductive alone; the
arguments, and what each inductive invariant adds:

- *Conflict table.* Given that the two maps agree, the key-by-key check of
  `try_acquire` is the pairwise compatibility test.
- *EnvServer, any fault* (`IInv`). That a pop releases one slot needs the
  instance to be admitted when it is popped, hence `phase`; that `ResetFails`
  may pop at most once needs that a handler works on an instance that is live
  or gone (`CallsOnRegistered`); isolation follows from the table's exclusion
  once every admitted instance holds its keys (`KeysHeld`), and to keep that,
  a close must not release the keys of an instance that is still admitted:
  closes exist only after the pop (`CloseAfterPop`). For each counter one
  lemma says what any step does to the set it counts, and a second draws the
  arithmetic.
- *EnvServer without faults* (`IInv /\ Orderly`). An instance has one call
  (`OneCall`), which keeps it live (`CallsOnLive`), so it is popped once and
  closed by one coroutine (`OneClose`); until that coroutine releases them, the
  keys are still its own (`ClosesHold`, `FailedHolds`), so every key whose
  backend is dirty is held by the writer that made it so (`DirtyHeld`), and
  the table admits nobody beside a writer.
- *DockerSlots.* The free slots and the slots taken by a thread, whoever waits
  for them, add up (`SlotsConserved`); every boot under way has such a slot
  (`Lockstep`), which gives the bound; that every such slot is under a boot or
  on its way needs that no thread works for a cancelled task (`NoOrphan`),
  which is what the assumption buys.
- *FleetRouter.* The counter follows each put and pop of an entry. Instances
  live only where their create was answered and are never built again
  (`LivesWhereBuilt`), so whatever node a call found (`CallsPointHome`) is the right one
  or the instance is gone (`GoneForGood`). While the router stays, an instance is
  looked for by fan-out only once it is gone (`StaysRouted`), since only a node
  that is down, and has thus lost its instances, makes the router drop an entry.
  Where nothing fails, an entry of a deleted instance belongs to a call that
  has yet to learn of it (`NothingLeftOver`).
- *StepDelivery.* A step leaves the client at most once past each hop, because
  a hop that may have delivered it never sends it again: `SInv` ties the client's
  state to the last request, each request to its last send, and each send to its
  handler, so that two handlers of one step are one. While a step runs, no reset does
  (unless a reset was sent twice), so the container stays. For the order,
  `OInv` says that what a container has executed belongs to steps the agent has
  begun, and that the handler at work is ahead of all of it. `WInv` follows an answer
  from the container to the agent: what is told was in the answer, what was in the
  answer a handler that is over had counted, what a handler counts its container has
  executed, and no later step touches the actions of an earlier one. The refinement
  needs no more than that: a handler at work is of the step under way, whose agent
  is not ready for the next, it is ahead of all that was executed, and the answer that
  the client reads is a true one.
- *ExecStdio.* `Tries` and `Underway` bound how often a call's op has been written by
  where the call is: never before it begins, once while its pipe is respawned
  for a second try, and a second time only if it only reads. `Tracked` says that
  until an undisturbed close every identified process that runs is current, retired or on the
  list to kill. In the refinement an op runs when a server begins with its request;
  `Tries` bounds how often that may be, and tells that a call whose request is still in
  some pipe has begun and, unless it only reads, was not answered.
- *PortLeases.* The three properties need each other. A new owner meets another only
  through an entry the prune did not keep. By `LeaseKept` that entry names the other
  owner, who is alive: the prune sees so if they share a place, and marks the port as
  `lost` if not (`PruneSpares`). A release pops only entries of its own, because by
  `PortsExclusive` no other entry in force is among them. A torn file marks whatever is owned.
- *DriftReaper.* `Names` keeps names apart: whatever has one got it from the
  counter, and a boot attempt's is on no list, which is what lets a sweep's
  list grow stale without harm. `Knows` says what the cycle's data still mean
  when they are used: a live session's container that was up at the snapshot
  is the one the snapshot names (`StillNamed`), what the snapshot names and
  still runs was found in use (`InUseKnown`), and no candidate is in use or
  younger than the cycle (`TodoSpares`, the one place where the age guard
  counts). A sweep that removed a live session's container would contradict
  the three together.

**Liveness.** The provers reason about `[]`, `~>` and fairness once the steps are
given, but `ENABLED` is opaque to them, and weak fairness says nothing of an action
that may not be enabled. So each of the four liveness theorems has a hypothesis that
is a state predicate: when a guard of the model asks for a fair action, that action
is `ENABLED`. TLC can evaluate these predicates, and confirms each as an invariant
of the run of its component (the module of proofs, the run's constants and `INVARIANT
CanStep`, `GuardsSuffice`, `ClosesCanRun` or `PollsCanRun`). All but one follow from
the guards at sight. `PollsCanRun` has a half that is about the bound `NodeObj`: a
server that joins the roster needs a `Node` object, and the code never runs out of them.

What is left, and proved, is the argument. A call of the session goes through at
most eight stages, and each of its steps takes it to a later one (`CallAdvances`); a wait
for room that can end does not lose that again (`StaysFree`), so a call that is not
blocked for ever does take its step. A
docker caller goes from its thread's start over the answer of `acquire()` and the task
to its resumption. A server that stays up and in the roster file gets a node from the
poller, which then probes it until it is healthy. An instance that is gone
has its close (`NoKeyLeaks`); no close under way is begun anew, since a handler that
spawned one has left that instance (`OwnClose`); and no step of a close takes the
instance further from having its keys back (`CloseSteps`).

Model-checked only: `QueuedResetRuns`, `CallsReturn`, `OrphansGo` and `GhostsGo`.
Each of them rests on something that decreases, the attempts a reset, a
client or a hop has left or the candidates of a cycle, so a proof needs induction over a
temporal formula, which the library's induction theorems cannot be given here.

## 6. Disagreements between code and documents

The first four are violation runs and listed as findings.

1. **Two closes of one instance** (`abandoned_reset`). A reset that fails
   after a DELETE popped its instance spawns a second `_close_quietly`
   (`server.py:2223`). It may read the hold before the first close releases it
   and restore the backend after, when the key belongs to somebody else. The
   docstring says the key stays held through the restore (`server.py:1290`).
2. **A slot lost to cancellation** (`docker_cancelled_acquire`). Cancelling the
   coroutine in `await acquire_task` cancels that task as well, so the
   done-callback that should return a late slot sees a cancelled task and
   does nothing (`admission.py:593`, against `:575`).
3. **Actions executed twice** (`delivery_capture`). A connection refused to the
   RPC for a screenshot or the reward, after actions of the batch ran, reaches
   the step handler as an error that "proves nothing executed"
   (`rpc.py:99`), and the whole batch is run again (`osworld/main.py:362`, `502`,
   `525`, `530`; `server.py:2271`).
4. **A ghost that is alive** (`drift_stale_ghost`). The pop of a ghost checks
   that no call is in flight, not that the session's container is still the
   one the report is about, and still down (`server.py:1414`).

Conditions the passing properties carry, because without them TLC finds a
counterexample:

5. **Two resets at once.** A `/reset` whose answer was cut off is sent again
   while the first may still run; `client.py:773` says a second reset would "at
   worst cost time", but the two tear down each other's container.
   `EpisodeKeepsItsEnv` excludes episodes whose reset was sent twice.
6. **A reset outlives its instance in the queue.** A reset that waits for its
   jitter or its permit does not count as in flight. A sweep closes the
   instance and releases its keys; the reset then runs beside the next holder
   (`server.py:2141`). With `Faults = {"queued"}`, `NoConflictingCalls` fails.
7. **A process nobody names.** A respawned exec-stdio server whose ping is not
   answered in time stays the current process, with no recorded pid; later calls
   go to it, and the close does not kill it (`session.py:84` says the reap covers
   every generation). `ClosedLeavesNothing` speaks of identified generations.
8. **Another's port entry.** A teardown removes its container, which unbinds
   the port, before it pops the port's entry, and pops it whoever owns it
   (`container.py:127`). If the lease has run out in between and another process
   has taken the port, the new owner's entry goes. The port properties except it, as `Overdue`.
9. **InstanceGone after a router restart.** Nodes are unhealthy until their
   first probe, so a call that comes before it finds nobody to ask
   (`fleet.py:364`). `NoFalseGone` and `LiveStaysRouted` are stated for a router that stays.
10. **A slow cycle.** With `slow`, a container younger than the snapshot passes
    the orphan age guard, and `SweepSparesOwned` fails.

11. **A call without a deadline.** The docstring of `call` says "Serialized +
    timeout-bounded" (`client.py:273`), but `_roundtrip` waits in `await
    self._proc.stdin.drain()` (`client.py:316`) before its deadline begins. A large
    request to a server that is at an earlier op, or stopped, holds the lock for as long as the
    server likes. Without the condition of `CallsEnd` TLC finds the call that never ends.
12. **A torn port file.** `_write_reservations` is to "write the reservation file
    atomically" (`ports.py:162`) and calls `write_text`, which truncates first. A process
    killed in between leaves a file that reads as empty, and ports in their grace
    are given out again. Without `Torn` in `lost`, `LeaseKept` and `PortsExclusive` fail.
13. **A prune from elsewhere.** "Any process pruning sees the freshly-allocated entry as
    recent and keeps it" (`ports.py:179`); but `_pid_alive` is asked first
    (`ports.py:188`), and in another container it does not know the pid, although the file is
    shared so that containers do not "collide at host-level docker port bind"
    (`ports.py:88`). Without `Foreign` in `lost`, both properties fail.

Items 5 to 13 are shown by dropping the condition named, in the run of the module.

Weaker observations, recorded as hazards: a create answered after its node left
the roster leaves an entry no purge will see; a create whose answer is lost is
repeated on the next node and leaves an instance nobody knows of; the cap on
removals is applied before the quarantine, so that as many refused containers
as the cap starve the orphans behind them (set `MaxOrphans = 1` in
`Drift.cfg`); a reaper waits for the closes of its own sweep.

## 7. How the parts were chosen

The order was: conflict table, env server and docker slots; router and drift
reaper; the delivery chain; exec-stdio; port leases; then the proofs, from the
counters outward to the properties that need an invariant over several parts.
Related questions share a run, as their state spaces are the same: the conflict
table is checked inside `server_orderly`, where the server drives it. What is
left that would be worth stating: the pipe of `agent_shell.py`, which shares
the spawn and reap core of `ExecStdio`; and the env server and the drift
reaper in one model, which now meet in the sweep step of one and the session
stages of the other.

## 8. Not modelled, and why

Most of the repository's lines are generators of tasks and their perturbations
(`gym/envs/lite/*/src/gen`), judges and verifiers of task outcomes
(`gym/envs/scalecua`), and adapters, prompts and dataset conversions.
They compute one output from one input, in one process, with no state that
outlives the call: there is nothing to interleave, and what they compute is a matter of
wording, file formats and GUI details that a model would have to copy to say
anything about. The models cover the part of the code that keeps shared state.

- Read-only endpoints, metrics, authentication, schema and frame encoding:
  no state the properties see.
- Server shutdown: closes everything and exits; what it leaves behind is
  what `ServerRestarts` starts from.
- Host sensors and the derivation of limits: a sensor is a refusal that may
  come at any time; the limits are constants.
- Singleton services and `shutdown_all`: one `docker rm` at boot or exit.
- Catalog and task caches of the router: an env_id every node serves.
- Create and close of the client: one request each, whose loss `FleetRouter` covers.
- Env families other than OSWorld: adapters between the same calls and a
  benchmark. `RemoteRPC` of the android envs is the same retry rule with one retry.
- The ops of the exec-stdio server and the provisioner: I/O inside a container.
- Reuse of pids, two destroys of one container at once, and a write of the port file
  that fails without a kill (a full disk), whose effect on the other processes is that of `Torn`.
- Rollout runs (`infer/rollout.py`): one process writes a run directory that a
  later process reads; its retries go through the modelled client.
- The training segmenter (`train/rollout/core`): a pure cut of token lists.
- Registry, factory, services, wrappers: construction, no state across calls.
- Agents, messages, dataset conversion, export: batch text processing.
- Trainer hooks and losses: numeric code.
