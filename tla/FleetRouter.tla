---------------------------- MODULE FleetRouter ----------------------------
(***************************************************************************)
(* lite/gym/remote/fleet.py: one endpoint in front of several env servers. *)
(* The router keeps a roster of nodes, a sticky map from instance ids to   *)
(* nodes, and what it believes of each node's health; the truth (which     *)
(* servers are up, which instances live where) is elsewhere and moves on.  *)
(*                                                                         *)
(* The router is one event loop: a step is the code between two awaits of  *)
(* a handler or of the poller.  No holder of FleetState.lock awaits.       *)
(* The roster maps a name to a Node object, and a name that leaves and     *)
(* joins again gets a new object, so objects and servers are kept apart.   *)
(* Creates ask for one env_id, which every node serves.                    *)
(***************************************************************************)
EXTENDS Naturals, Sequences, FiniteSets

CONSTANTS
  Inst,      \* the ids the nodes mint
  Server,    \* the env servers
  NodeObj,   \* the Node objects one router process may allocate (a bound)
  NameOf,    \* NodeObj -> Server
  Rank,      \* Server -> Nat, the order of the node names
  Call,      \* handlers of /instances/{id}...
  None,
  Surroundings  \* sets of what may happen around a router, see AllEvents

(***************************************************************************)
(* crash:   an env server dies with its instances, and comes back.         *)
(* restart: the router process dies and comes back empty.                  *)
(* roster:  the operator edits the nodes file.                             *)
(* drop:    a request forwarded to a node that is up fails, before or      *)
(*          after the node has served it; a probe of it goes through.      *)
(* bulk:    a client bulk-closes its instances (DELETE /instances).        *)
(***************************************************************************)
AllEvents == {"crash", "restart", "roster", "drop", "bulk"}

ASSUME FleetAssumption ==
  /\ IsFiniteSet(Inst) /\ IsFiniteSet(NodeObj) /\ None \notin NodeObj \cup Server
  /\ NameOf \in [NodeObj -> Server] /\ Rank \in [Server -> Nat]
  /\ Surroundings \subseteq SUBSET AllEvents

VARIABLES
  events,       \* what may happen around this router, the same all along
  up,           \* the servers that answer
  home,         \* home[i]: the server where instance i lives, or None
  file,         \* the nodes file
  nodes,        \* FleetState.nodes, as a set of Node objects
  spent,        \* the Node objects allocated so far
  healthy,      \* the Node objects with healthy = True
  cooling,      \* the Node objects whose cooldown_until is ahead
  outstanding,  \* Node.outstanding
  entry,        \* FleetState.instance_map
  create,       \* the create request that ends up with instance i
  known,        \* the instances whose 201 went to the client
  call,         \* the handlers of instance-scoped calls
  bulk,         \* the handler of one bulk close
  deleted       \* the known instances whose DELETE, by id or bulk, was answered

worldVars  == <<events, up, home>>
rosterVars == <<file, nodes, spent, healthy, cooling>>
mapVars    == <<outstanding, entry>>
handlerVars == <<create, known, call, bulk, deleted>>
vars == <<worldVars, rosterVars, mapVars, handlerVars>>

IdleCall == [pc |-> "idle", inst |-> None, kind |-> "touch", node |-> None,
             left |-> {}, hit |-> None]
IdleBulk == [pc |-> "idle", left |-> {}, closed |-> {}]

Init ==
  /\ events \in Surroundings
  /\ up = Server /\ home = [i \in Inst |-> None]
  /\ file = Server /\ nodes = {} /\ spent = {} /\ healthy = {} /\ cooling = {}
  /\ outstanding = [o \in NodeObj |-> 0] /\ entry = [i \in Inst |-> None]
  /\ create = [i \in Inst |-> [pc |-> "new", cand |-> <<>>]]
  /\ known = {} /\ call = [c \in Call |-> IdleCall] /\ bulk = IdleBulk
  /\ deleted = {}

-----------------------------------------------------------------------------
(* Around the router *)

\* A server dies with its instances.
ServerDown(s) ==
  /\ "crash" \in events /\ s \in up
  /\ up' = up \ {s}
  /\ home' = [i \in Inst |-> IF home[i] = s THEN None ELSE home[i]]
  /\ UNCHANGED <<events, rosterVars, mapVars, handlerVars>>

ServerUp(s) ==
  /\ s \notin up
  /\ up' = up \cup {s}
  /\ UNCHANGED <<events, home, rosterVars, mapVars, handlerVars>>

\* The node ends an instance by itself (idle TTL, drift, a failed reset).
NodeReaps(i) ==
  /\ home[i] # None
  /\ home' = [home EXCEPT ![i] = None]
  /\ UNCHANGED <<events, up, rosterVars, mapVars, handlerVars>>

OperatorEdits(f) ==
  /\ "roster" \in events /\ f # file
  /\ file' = f
  /\ UNCHANGED <<worldVars, nodes, spent, healthy, cooling, mapVars, handlerVars>>

\* A new router process knows no node and no instance; its callers' requests
\* died with the old one.
RouterRestarts ==
  /\ "restart" \in events
  /\ nodes' = {} /\ spent' = {} /\ healthy' = {} /\ cooling' = {}
  /\ outstanding' = [o \in NodeObj |-> 0] /\ entry' = [i \in Inst |-> None]
  /\ create' = [i \in Inst |-> IF create[i].pc \in {"trying", "made"}
                               THEN [pc |-> "lost", cand |-> <<>>] ELSE create[i]]
  /\ call' = [c \in Call |-> IdleCall] /\ bulk' = IdleBulk
  /\ UNCHANGED <<worldVars, file, known, deleted>>

\* A probe of node o, or a request forwarded to it, fails in transport.
Unreached(o) == NameOf[o] \notin up
Dropped(o)   == Unreached(o) \/ "drop" \in events

-----------------------------------------------------------------------------
(* The sticky map, under FleetState.lock *)

MapPut(i, o) ==
  IF entry[i] # None THEN UNCHANGED mapVars
  ELSE /\ entry' = [entry EXCEPT ![i] = o]
       /\ outstanding' = [outstanding EXCEPT ![o] = @ + 1]

\* Pop every id of S.
MapPop(S) ==
  /\ entry' = [i \in Inst |-> IF i \in S THEN None ELSE entry[i]]
  /\ outstanding' = [o \in NodeObj |->
       outstanding[o] - Cardinality({i \in S : entry[i] = o})]

-----------------------------------------------------------------------------
(* The poller *)

Names(S) == {NameOf[o] : o \in S}

\* The roster half of poll_once: allocate the nodes that joined, drop those
\* that left and purge their entries.
PollRoster(joined) ==
  LET staying == {o \in nodes : NameOf[o] \in file} IN
  /\ Names(nodes) # file
  /\ joined \cap spent = {}
  /\ Names(joined) = file \ Names(nodes) /\ Cardinality(joined) = Cardinality(Names(joined))
  /\ nodes' = staying \cup joined
  /\ spent' = spent \cup joined
  /\ MapPop({i \in Inst : entry[i] \in nodes \ staying})
  /\ UNCHANGED <<worldVars, file, healthy, cooling, handlerVars>>

\* A plausible bug: only the nodes thought healthy are probed.
Mut_ProbeHealthyOnly(o) ==
  /\ o \in nodes /\ o \in healthy
  /\ healthy' = IF NameOf[o] \in up THEN healthy ELSE healthy \ {o}
  /\ UNCHANGED <<worldVars, file, nodes, spent, cooling, mapVars, handlerVars>>

\* The probe half, one node at a time.
PollProbe(o) ==
  /\ o \in nodes
  /\ \/ NameOf[o] \in up /\ healthy' = healthy \cup {o}
     \/ Unreached(o) /\ healthy' = healthy \ {o}
  /\ UNCHANGED <<worldVars, file, nodes, spent, cooling, mapVars, handlerVars>>

CooldownEnds(o) ==
  /\ o \in cooling
  /\ cooling' = cooling \ {o}
  /\ UNCHANGED <<worldVars, file, nodes, spent, healthy, mapVars, handlerVars>>

-----------------------------------------------------------------------------
(* POST /instances *)

\* Candidates in the order they are tried: least outstanding, then by name.
Before(o, q) ==
  \/ outstanding[o] < outstanding[q]
  \/ outstanding[o] = outstanding[q] /\ Rank[NameOf[o]] < Rank[NameOf[q]]

InOrder(q) == \A j, k \in DOMAIN q : j < k => Before(q[j], q[k])

\* The candidates are chosen once; the handler then tries them one by one.
StartCreate(i) ==
  LET candidates == (nodes \cap healthy) \ cooling IN
  /\ create[i].pc = "new"
  /\ candidates # {}
  /\ \E q \in [1..Cardinality(candidates) -> candidates] :
       InOrder(q) /\ create' = [create EXCEPT ![i] = [pc |-> "trying", cand |-> q]]
  /\ UNCHANGED <<worldVars, rosterVars, mapVars, known, call, bulk, deleted>>

Trying(i, o) == create[i].pc = "trying" /\ create[i].cand # <<>> /\ o = Head(create[i].cand)

\* The node builds the instance; its 201 is under way.
NodeCreates(i, o) ==
  /\ Trying(i, o) /\ NameOf[o] \in up
  /\ home' = [home EXCEPT ![i] = NameOf[o]]
  /\ create' = [create EXCEPT ![i].pc = "made"]
  /\ UNCHANGED <<events, up, rosterVars, mapVars, known, call, bulk, deleted>>

\* The node has no room (503): cool it down and cascade.
NodeFull(i, o) ==
  /\ Trying(i, o) /\ NameOf[o] \in up
  /\ cooling' = cooling \cup {o}
  /\ create' = [create EXCEPT ![i].cand = Tail(@)]
  /\ UNCHANGED <<worldVars, file, nodes, spent, healthy, mapVars, known, call, bulk,
                 deleted>>

\* The node is not reached: mark it and cascade.  (If it was reached after all,
\* the instance it made has an id that nobody ever learns.)
NodeUnreached(i, o) ==
  /\ Trying(i, o) /\ Dropped(o)
  /\ healthy' = healthy \ {o}
  /\ create' = [create EXCEPT ![i].cand = Tail(@)]
  /\ UNCHANGED <<worldVars, file, nodes, spent, cooling, mapVars, known, call, bulk,
                 deleted>>

\* Every candidate refused, or one refused for good (any other status).
CreateRefused(i) ==
  /\ create[i].pc = "trying"
  /\ create' = [create EXCEPT ![i] = [pc |-> "lost", cand |-> <<>>]]
  /\ UNCHANGED <<worldVars, rosterVars, mapVars, known, call, bulk, deleted>>

\* The 201 arrives: map the instance to the node that was tried, whether or
\* not that node is still in the roster, and pass the answer on.
CreateAnswered(i) ==
  /\ create[i].pc = "made"
  /\ MapPut(i, Head(create[i].cand))
  /\ known' = known \cup {i}
  /\ create' = [create EXCEPT ![i] = [pc |-> "done", cand |-> <<>>]]
  /\ UNCHANGED <<worldVars, rosterVars, call, bulk, deleted>>

-----------------------------------------------------------------------------
(* _sticky_forward: GET, /reset and /step ("touch"), and DELETE ("delete") *)

Arrive(c, i, kind) ==
  /\ call[c].pc \in {"idle", "gone"} /\ i \in known
  /\ call' = [call EXCEPT ![c] =
       IF entry[i] # None
       THEN [IdleCall EXCEPT !.pc = "send", !.inst = i, !.kind = kind, !.node = entry[i]]
       ELSE [IdleCall EXCEPT !.pc = "recover", !.inst = i, !.kind = kind,
                             !.left = nodes \cap healthy]]
  /\ UNCHANGED <<worldVars, rosterVars, mapVars, create, known, bulk, deleted>>

\* recover_instance asks every node it thought healthy, all at once.
ProbeOne(c, o) ==
  LET i == call[c].inst IN
  /\ call[c].pc = "recover" /\ o \in call[c].left
  /\ \/ /\ NameOf[o] \in up
        /\ call' = [call EXCEPT ![c].left = @ \ {o},
                                ![c].hit = IF home[i] = NameOf[o] THEN o ELSE @]
     \/ Unreached(o) /\ call' = [call EXCEPT ![c].left = @ \ {o}]
  /\ UNCHANGED <<worldVars, rosterVars, mapVars, create, known, bulk, deleted>>

\* A plausible bug: the answers are matched with the wrong nodes.
Mut_RecoverAny(c) ==
  /\ call[c].pc = "recover" /\ call[c].left = {} /\ call[c].hit # None
  /\ \E o \in nodes : /\ MapPut(call[c].inst, o)
                      /\ call' = [call EXCEPT ![c].pc = "send", ![c].node = o]
  /\ UNCHANGED <<worldVars, rosterVars, create, known, bulk, deleted>>

RecoverHit(c) ==
  /\ call[c].pc = "recover" /\ call[c].left = {} /\ call[c].hit # None
  /\ MapPut(call[c].inst, call[c].hit)
  /\ call' = [call EXCEPT ![c].pc = "send", ![c].node = call[c].hit]
  /\ UNCHANGED <<worldVars, rosterVars, create, known, bulk, deleted>>

\* No node knows the id: InstanceGone.
RecoverMiss(c) ==
  /\ call[c].pc = "recover" /\ call[c].left = {} /\ call[c].hit = None
  /\ call' = [call EXCEPT ![c].pc = "gone"]
  /\ UNCHANGED <<worldVars, rosterVars, mapVars, create, known, bulk, deleted>>

\* The node serves the call: 404 if it does not have the instance.
Serve(c) ==
  LET i == call[c].inst
      here == home[i] = NameOf[call[c].node]
  IN
  /\ call[c].pc = "send" /\ NameOf[call[c].node] \in up
  /\ call' = [call EXCEPT ![c].pc = IF here THEN "ok" ELSE "missing"]
  /\ home' = IF here /\ call[c].kind = "delete" THEN [home EXCEPT ![i] = None] ELSE home
  /\ UNCHANGED <<events, up, rosterVars, mapVars, create, known, bulk, deleted>>

\* The forward fails, both tries or without leave to try again; or its answer
\* is lost.
ForwardFails(c) ==
  /\ call[c].pc \in {"send", "ok", "missing"} /\ Dropped(call[c].node)
  /\ call' = [call EXCEPT ![c].pc = "probe"]
  /\ UNCHANGED <<worldVars, rosterVars, mapVars, create, known, bulk, deleted>>

\* A plausible bug: a 404 from the node leaves the entry in the map.
Mut_RelayKeeps404(c) ==
  LET over == call[c].kind = "delete" /\ call[c].pc = "ok" IN
  /\ call[c].pc \in {"ok", "missing"}
  /\ IF over THEN MapPop({call[c].inst}) ELSE UNCHANGED mapVars
  /\ deleted' = IF over THEN deleted \cup {call[c].inst} ELSE deleted
  /\ call' = [call EXCEPT ![c] = IdleCall]
  /\ UNCHANGED <<worldVars, rosterVars, create, known, bulk>>

\* A plausible bug: the count goes down although somebody else popped the entry.
Mut_RelayAlwaysCounts(c) ==
  LET over == call[c].kind = "delete" /\ call[c].pc = "ok"
      i == call[c].inst
  IN
  /\ call[c].pc \in {"ok", "missing"}
  /\ IF over \/ call[c].pc = "missing"
     THEN /\ entry' = [entry EXCEPT ![i] = None]
          /\ outstanding' = [outstanding EXCEPT ![call[c].node] = @ - 1]
     ELSE UNCHANGED mapVars
  /\ deleted' = IF over THEN deleted \cup {i} ELSE deleted
  /\ call' = [call EXCEPT ![c] = IdleCall]
  /\ UNCHANGED <<worldVars, rosterVars, create, known, bulk>>

\* The answer is relayed.  A DELETE that went well and any 404 drop the entry.
Relay(c) ==
  LET over == call[c].kind = "delete" /\ call[c].pc = "ok" IN
  /\ call[c].pc \in {"ok", "missing"}
  /\ IF over \/ call[c].pc = "missing" THEN MapPop({call[c].inst}) ELSE UNCHANGED mapVars
  /\ deleted' = IF over THEN deleted \cup {call[c].inst} ELSE deleted
  /\ call' = [call EXCEPT ![c] = IdleCall]
  /\ UNCHANGED <<worldVars, rosterVars, create, known, bulk>>

\* A plausible bug: a failed forward gives the instance up at once.
Mut_NoLivenessProbe(c) ==
  /\ call[c].pc = "probe" /\ NameOf[call[c].node] \in up
  /\ MapPop({call[c].inst})
  /\ call' = [call EXCEPT ![c].pc = "gone"]
  /\ UNCHANGED <<worldVars, rosterVars, create, known, bulk, deleted>>

\* probe_alive answers: a 502, and the instance stays mapped.
NodeAlive(c) ==
  /\ call[c].pc = "probe" /\ NameOf[call[c].node] \in up
  /\ call' = [call EXCEPT ![c] = IdleCall]
  /\ UNCHANGED <<worldVars, rosterVars, mapVars, create, known, bulk, deleted>>

\* probe_alive fails as well: the instance is presumed lost.
PresumedLost(c) ==
  /\ call[c].pc = "probe" /\ Unreached(call[c].node)
  /\ healthy' = healthy \ {call[c].node}
  /\ MapPop({call[c].inst})
  /\ call' = [call EXCEPT ![c].pc = "gone"]
  /\ UNCHANGED <<worldVars, file, nodes, spent, cooling, create, known, bulk, deleted>>

-----------------------------------------------------------------------------
(* DELETE /instances *)

StartBulk ==
  /\ "bulk" \in events /\ bulk.pc = "idle"
  /\ bulk' = [pc |-> "sent", left |-> nodes \cap healthy, closed |-> {}]
  /\ UNCHANGED <<worldVars, rosterVars, mapVars, create, known, call, deleted>>

\* A node closes the caller's instances and reports their ids.
NodeCloses(o) ==
  LET here == {i \in Inst : home[i] = NameOf[o]} IN
  /\ bulk.pc = "sent" /\ o \in bulk.left /\ NameOf[o] \in up
  /\ home' = [i \in Inst |-> IF i \in here THEN None ELSE home[i]]
  /\ bulk' = [bulk EXCEPT !.left = @ \ {o}, !.closed = @ \cup here]
  /\ UNCHANGED <<events, up, rosterVars, mapVars, create, known, call, deleted>>

BulkUnreached(o) ==
  /\ bulk.pc = "sent" /\ o \in bulk.left /\ Dropped(o)
  /\ healthy' = healthy \ {o}
  /\ bulk' = [bulk EXCEPT !.left = @ \ {o}]
  /\ UNCHANGED <<worldVars, file, nodes, spent, cooling, mapVars, create, known, call,
                 deleted>>

\* The merged answer: purge what was closed.
BulkAnswered ==
  /\ bulk.pc = "sent" /\ bulk.left = {}
  /\ MapPop(bulk.closed)
  /\ deleted' = deleted \cup (bulk.closed \cap known)
  /\ bulk' = IdleBulk
  /\ UNCHANGED <<worldVars, rosterVars, create, known, call>>

-----------------------------------------------------------------------------
Next ==
  \/ \E s \in Server : ServerDown(s) \/ ServerUp(s)
  \/ \E i \in Inst : NodeReaps(i)
  \/ \E f \in SUBSET Server : OperatorEdits(f)
  \/ RouterRestarts
  \/ \E joined \in SUBSET NodeObj : PollRoster(joined)
  \/ \E o \in NodeObj : PollProbe(o) \/ CooldownEnds(o)
  \/ \E i \in Inst : StartCreate(i) \/ CreateRefused(i) \/ CreateAnswered(i)
  \/ \E i \in Inst, o \in NodeObj : NodeCreates(i, o) \/ NodeFull(i, o) \/ NodeUnreached(i, o)
  \/ \E c \in Call, i \in Inst, kind \in {"touch", "delete"} : Arrive(c, i, kind)
  \/ \E c \in Call, o \in NodeObj : ProbeOne(c, o)
  \/ \E c \in Call : \/ RecoverHit(c) \/ RecoverMiss(c) \/ Serve(c) \/ ForwardFails(c)
                     \/ Relay(c) \/ NodeAlive(c) \/ PresumedLost(c)
  \/ StartBulk \/ BulkAnswered
  \/ \E o \in NodeObj : NodeCloses(o) \/ BulkUnreached(o)

Spec == Init /\ [][Next]_vars

\* The poller never stops (an exception is logged and the next tick comes), and
\* a tick probes every node: a server in the roster is probed again and again.
FairRoster   == WF_vars(\E joined \in SUBSET NodeObj : PollRoster(joined))
FairProbe(s) == WF_vars(\E o \in NodeObj : NameOf[o] = s /\ PollProbe(o))
Fairness     == FairRoster /\ \A s \in Server : FairProbe(s)

FairSpec == Spec /\ Fairness

-----------------------------------------------------------------------------
\* The type invariant.
TypeOK ==
  /\ events \in Surroundings
  /\ up \subseteq Server /\ home \in [Inst -> Server \cup {None}]
  /\ file \subseteq Server /\ nodes \subseteq spent /\ spent \subseteq NodeObj
  /\ healthy \subseteq NodeObj /\ cooling \subseteq NodeObj
  /\ outstanding \in [NodeObj -> Nat] /\ entry \in [Inst -> NodeObj \cup {None}]
  /\ create \in [Inst -> [pc : {"new", "trying", "made", "done", "lost"},
                          cand : Seq(NodeObj)]]
  /\ known \subseteq Inst /\ deleted \subseteq Inst
  /\ call \in [Call -> [pc : {"idle", "recover", "send", "ok", "missing", "probe", "gone"},
                        inst : Inst \cup {None}, kind : {"touch", "delete"},
                        node : NodeObj \cup {None}, left : SUBSET NodeObj,
                        hit : NodeObj \cup {None}]]
  /\ bulk \in [pc : {"idle", "sent"}, left : SUBSET NodeObj, closed : SUBSET Inst]

Busy(i) == \E c \in Call : call[c].inst = i /\ call[c].pc \notin {"idle", "gone"}

\* "Keeps outstanding == number of map entries pointing at the node", through
\* puts and pops by racing handlers, roster changes and restarts.
OutstandingCountsEntries ==
  \A o \in NodeObj : outstanding[o] = Cardinality({i \in Inst : entry[i] = o})

\* The sticky map never sends a call for a live instance to another server
\* than the one it lives on.
EntriesPointHome ==
  \A i \in Inst : entry[i] # None /\ home[i] # None => NameOf[entry[i]] = home[i]

\* While router and roster stay, a live instance the client was told of stays
\* routed, whatever its servers and its requests go through.
RouterStays == events \cap {"restart", "roster"} = {}
LiveStaysRouted ==
  RouterStays => \A i \in known : home[i] # None => entry[i] # None

\* InstanceGone, on which the client throws its episode away, is said only of
\* instances that are gone, while router and roster stay.
NoFalseGone ==
  [][RouterStays => \A c \in Call : call[c].pc # "gone" /\ call'[c].pc = "gone"
                       => home[call[c].inst] = None]_vars

\* Once the calls on a deleted instance are over, it has no entry left to skew
\* the least-outstanding routing.  (A call that failed on the way leaves one.)
DeletedStayUnmapped ==
  events \cap {"crash", "drop"} = {} => \A i \in deleted : ~Busy(i) => entry[i] = None

\* A server that stays up is used again, whatever the router once thought of it.
InUse(s) == \E o \in nodes \cap healthy : NameOf[o] = s
ComesBack(s) == <>[](s \in up /\ s \in file) => []<>InUse(s)
ServersComeBack == RouterStays => \A s \in Server : ComesBack(s)
=============================================================================
