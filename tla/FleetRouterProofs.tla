------------------------ MODULE FleetRouterProofs ------------------------
(***************************************************************************)
(* The fleet router, for every number of instances, servers and calls.     *)
(***************************************************************************)
EXTENDS FleetRouter, FiniteSetTheorems, SequenceTheorems, TLAPS

USE FleetAssumption

Pcs     == {"idle", "recover", "send", "ok", "missing", "probe", "gone"}
Calls   == [pc : Pcs, inst : Inst \cup {None}, kind : {"touch", "delete"},
            node : NodeObj \cup {None}, left : SUBSET NodeObj, hit : NodeObj \cup {None}]
Creates == [pc : {"new", "trying", "made", "done", "lost"}, cand : Seq(NodeObj)]
Bulks   == [pc : {"idle", "sent"}, left : SUBSET NodeObj, closed : SUBSET Inst]

\* A call that has arrived is about an instance, and one that is forwarded or
\* was has a node.  A create that was answered knows which node did.
Forwarded == {"send", "ok", "missing", "probe"}
CallsPlaced ==
  /\ \A c \in Call : call[c].pc # "idle" => call[c].inst \in Inst
  /\ \A c \in Call : call[c].pc \in Forwarded => call[c].node \in NodeObj
  /\ \A i \in Inst : create[i].pc = "made" => create[i].cand # <<>>

CreatesTyped ==
  /\ create \in [Inst -> Creates]
  /\ \A i \in Inst : create[i].pc = "made" => create[i].cand # <<>>
CallsTyped ==
  /\ call \in [Call -> Calls]
  /\ \A c \in Call : call[c].pc # "idle" => call[c].inst \in Inst
  /\ \A c \in Call : call[c].pc \in Forwarded => call[c].node \in NodeObj

TInv == TypeOK /\ OutstandingCountsEntries /\ CallsPlaced

LEMMA TypedParts == TInv => CreatesTyped /\ CallsTyped
BY DEF TInv, TypeOK, CallsPlaced, CreatesTyped, CallsTyped, Creates, Calls, Pcs

\* One create or one call changes.
LEMMA CreateChanges ==
  ASSUME CreatesTyped, NEW i \in Inst, NEW r \in Creates, r.pc = "made" => r.cand # <<>>,
         create' = [create EXCEPT ![i] = r]
  PROVE  CreatesTyped'
BY DEF CreatesTyped

LEMMA CallChanges ==
  ASSUME CallsTyped, NEW c \in Call, NEW r \in Calls,
         r.pc # "idle" => r.inst \in Inst, r.pc \in Forwarded => r.node \in NodeObj,
         call' = [call EXCEPT ![c] = r]
  PROVE  CallsTyped'
BY DEF CallsTyped

-----------------------------------------------------------------------------
(* The sticky map *)

LEMMA PutCounts ==
  ASSUME TypeOK, OutstandingCountsEntries, NEW i \in Inst, NEW o \in NodeObj, MapPut(i, o)
  PROVE  /\ outstanding' \in [NodeObj -> Nat] /\ entry' \in [Inst -> NodeObj \cup {None}]
         /\ OutstandingCountsEntries'
         /\ entry'[i] # None /\ (entry[i] # None => entry'[i] = entry[i])
         /\ entry[i] = None => entry'[i] = o
         /\ \A j \in Inst \ {i} : entry'[j] = entry[j]
<1> USE DEF TypeOK
<1>1. CASE entry[i] # None
  BY <1>1 DEF MapPut, mapVars, OutstandingCountsEntries
<1>2. CASE entry[i] = None
  <2> USE <1>2 DEF MapPut
  <2>1. /\ entry' = [entry EXCEPT ![i] = o]
        /\ outstanding' = [outstanding EXCEPT ![o] = @ + 1]
    OBVIOUS
  <2>2. ASSUME NEW p \in NodeObj
        PROVE  outstanding'[p] = Cardinality({j \in Inst : entry'[j] = p})
    <3> DEFINE before == {j \in Inst : entry[j] = p}
               after  == {j \in Inst : entry'[j] = p}
    <3>1. IsFiniteSet(before) /\ outstanding[p] = Cardinality(before)
      BY FS_Subset DEF OutstandingCountsEntries
    <3>2. CASE p = o
      <4>1. after = before \cup {i} /\ i \notin before
        BY <2>1, <3>2
      <4>2. Cardinality(before \cup {i}) = Cardinality(before) + 1
        BY <3>1, <4>1, FS_AddElement
      <4> HIDE DEF before, after
      <4>3. Cardinality(after) = outstanding[p] + 1
        BY <3>1, <4>1, <4>2
      <4>4. outstanding'[p] = outstanding[p] + 1
        BY <2>1, <3>2
      <4>5. QED
        BY <4>3, <4>4 DEF after
    <3>3. CASE p # o
      <4>1. after = before
        BY <2>1, <3>3
      <4> HIDE DEF before, after
      <4>2. outstanding'[p] = outstanding[p]
        BY <2>1, <3>3
      <4>3. QED
        BY <3>1, <4>1, <4>2 DEF after
    <3>4. QED
      BY <3>2, <3>3
  <2>6. OutstandingCountsEntries'
    BY <2>2 DEF OutstandingCountsEntries
  <2>7. QED
    BY <2>1, <2>6
<1>3. QED
  BY <1>1, <1>2

LEMMA PopCounts ==
  ASSUME TypeOK, OutstandingCountsEntries, NEW S \in SUBSET Inst, MapPop(S)
  PROVE  /\ outstanding' \in [NodeObj -> Nat] /\ entry' \in [Inst -> NodeObj \cup {None}]
         /\ OutstandingCountsEntries'
         /\ \A i \in S : entry'[i] = None
         /\ \A i \in Inst \ S : entry'[i] = entry[i]
<1> USE DEF TypeOK, MapPop
<1>1. ASSUME NEW o \in NodeObj
      PROVE  /\ outstanding'[o] = Cardinality({i \in Inst : entry'[i] = o})
             /\ outstanding'[o] \in Nat
  <2> DEFINE all  == {i \in Inst : entry[i] = o}
             gone == {i \in S : entry[i] = o}
  <2>1. IsFiniteSet(all)
    BY FS_Subset
  <2>2. all \cap gone = gone /\ {i \in Inst : entry'[i] = o} = all \ gone
    OBVIOUS
  <2>3. Cardinality(all \ gone) = Cardinality(all) - Cardinality(gone)
    BY <2>1, <2>2, FS_Difference
  <2>4. Cardinality(all \ gone) \in Nat
    BY <2>1, FS_Difference, FS_CardinalityType
  <2>5. QED
    BY ZenonT(60), <2>2, <2>3, <2>4 DEF OutstandingCountsEntries
<1>2. QED
  BY <1>1 DEF OutstandingCountsEntries

-----------------------------------------------------------------------------
(* Types and counts *)

LEMMA InitTInv == Init => TInv
<1> SUFFICES ASSUME Init PROVE TInv
  OBVIOUS
<1> USE DEF Init
<1>1. IdleCall \in Calls /\ IdleBulk \in Bulks /\ IdleCall.pc = "idle"
  BY DEF IdleCall, IdleBulk, Calls, Bulks, Pcs
<1>2. create \in [Inst -> Creates]
  BY DEF Creates
<1>3. TypeOK
  BY <1>1, <1>2 DEF TypeOK, Calls, Bulks, Creates, Pcs
<1>4. OutstandingCountsEntries
  <2>1. ASSUME NEW o \in NodeObj PROVE Cardinality({i \in Inst : entry[i] = o}) = 0
    <3>1. {i \in Inst : entry[i] = o} = {}
      OBVIOUS
    <3>2. QED
      BY <3>1, FS_EmptySet
  <2>2. QED
    BY <2>1 DEF OutstandingCountsEntries
<1>5. CallsPlaced
  BY <1>1 DEF CallsPlaced, Forwarded
<1>6. QED
  BY <1>3, <1>4, <1>5 DEF TInv

\* What any step does to the map: nothing, one put, or a pop of some instances.
PutStep(i, o) == MapPut(i, o) /\ i \in Inst /\ o \in NodeObj
PopStep(S)    == MapPop(S) /\ S \in SUBSET Inst
MapMoves ==
  \/ UNCHANGED mapVars
  \/ \E i \in Inst, o \in NodeObj : PutStep(i, o)
  \/ \E S \in SUBSET Inst : PopStep(S)

LEMMA MapStep ==
  ASSUME TypeOK, OutstandingCountsEntries, MapMoves
  PROVE  /\ outstanding' \in [NodeObj -> Nat] /\ entry' \in [Inst -> NodeObj \cup {None}]
         /\ OutstandingCountsEntries'
<1>1. CASE UNCHANGED mapVars
  BY <1>1 DEF mapVars, TypeOK, OutstandingCountsEntries
<1>2. ASSUME NEW i \in Inst, NEW o \in NodeObj, PutStep(i, o)
      PROVE  /\ outstanding' \in [NodeObj -> Nat] /\ entry' \in [Inst -> NodeObj \cup {None}]
             /\ OutstandingCountsEntries'
  BY <1>2, PutCounts DEF PutStep
<1>3. ASSUME NEW S \in SUBSET Inst, PopStep(S)
      PROVE  /\ outstanding' \in [NodeObj -> Nat] /\ entry' \in [Inst -> NodeObj \cup {None}]
             /\ OutstandingCountsEntries'
  BY <1>3, PopCounts DEF PopStep
<1>4. QED
  BY <1>1, <1>2, <1>3 DEF MapMoves

\* The router's handlers, by what they may change.
WorldStep ==
  \/ \E s \in Server : ServerDown(s) \/ ServerUp(s)
  \/ \E i \in Inst : NodeReaps(i)
  \/ \E f \in SUBSET Server : OperatorEdits(f)
PollStep ==
  \/ \E joined \in SUBSET NodeObj : PollRoster(joined)
  \/ \E o \in NodeObj : PollProbe(o) \/ CooldownEnds(o)
CreateStep ==
  \/ \E i \in Inst : StartCreate(i) \/ CreateRefused(i) \/ CreateAnswered(i)
  \/ \E i \in Inst, o \in NodeObj : NodeCreates(i, o) \/ NodeFull(i, o) \/ NodeUnreached(i, o)
CallStep ==
  \/ \E c \in Call, i \in Inst, kind \in {"touch", "delete"} : Arrive(c, i, kind)
  \/ \E c \in Call, o \in NodeObj : ProbeOne(c, o)
  \/ \E c \in Call : \/ RecoverHit(c) \/ RecoverMiss(c) \/ Serve(c) \/ ForwardFails(c)
                     \/ Relay(c) \/ NodeAlive(c) \/ PresumedLost(c)
BulkStep ==
  \/ StartBulk \/ BulkAnswered
  \/ \E o \in NodeObj : NodeCloses(o) \/ BulkUnreached(o)

LEMMA NextSplit ==
  Next <=> WorldStep \/ RouterRestarts \/ PollStep \/ CreateStep \/ CallStep \/ BulkStep
BY DEF Next, WorldStep, PollStep, CreateStep, CallStep, BulkStep

USE DEF worldVars, rosterVars, handlerVars

LEMMA WorldTInv == TInv /\ WorldStep => TInv'
<1> SUFFICES ASSUME TInv, WorldStep PROVE TInv'
  OBVIOUS
<1>1. UNCHANGED <<events, nodes, spent, healthy, cooling, mapVars, handlerVars>>
  BY DEF WorldStep, ServerDown, ServerUp, NodeReaps, OperatorEdits
<1>2. up' \subseteq Server /\ home' \in [Inst -> Server \cup {None}] /\ file' \subseteq Server
  BY ZenonT(60) DEF TInv, TypeOK, WorldStep, ServerDown, ServerUp, NodeReaps, OperatorEdits
<1>3. TypeOK'
  BY <1>1, <1>2 DEF TInv, TypeOK, mapVars
<1>4. QED
  BY <1>1, <1>3 DEF TInv, mapVars, OutstandingCountsEntries, CallsPlaced

LEMMA RestartTInv == TInv /\ RouterRestarts => TInv'
<1> SUFFICES ASSUME TInv, RouterRestarts PROVE TInv'
  OBVIOUS
<1> USE DEF RouterRestarts
<1>1. IdleCall \in Calls /\ IdleBulk \in Bulks /\ IdleCall.pc = "idle"
  BY DEF IdleCall, IdleBulk, Calls, Bulks, Pcs
<1>2. create' \in [Inst -> Creates]
  BY DEF TInv, TypeOK, Creates
<1>3. TypeOK'
  BY <1>1, <1>2 DEF TInv, TypeOK, Calls, Bulks, Creates, Pcs
<1>4. OutstandingCountsEntries'
  <2>1. ASSUME NEW o \in NodeObj PROVE Cardinality({i \in Inst : entry'[i] = o}) = 0
    <3>1. {i \in Inst : entry'[i] = o} = {}
      OBVIOUS
    <3>2. QED
      BY <3>1, FS_EmptySet
  <2>2. QED
    BY <2>1 DEF OutstandingCountsEntries
<1>5. CallsPlaced'
  BY <1>1 DEF TInv, CallsPlaced, Forwarded
<1>6. QED
  BY <1>3, <1>4, <1>5 DEF TInv

LEMMA PollTInv == TInv /\ PollStep => TInv'
<1> SUFFICES ASSUME TInv, PollStep PROVE TInv'
  OBVIOUS
<1>1. UNCHANGED <<worldVars, file, handlerVars>>
  BY DEF PollStep, PollRoster, PollProbe, CooldownEnds
<1>2. nodes' \subseteq spent' /\ spent' \subseteq NodeObj /\ healthy' \subseteq NodeObj
      /\ cooling' \subseteq NodeObj
  BY DEF TInv, TypeOK, PollStep, PollRoster, PollProbe, CooldownEnds
<1>3. MapMoves
  <2>1. ASSUME NEW joined \in SUBSET NodeObj, PollRoster(joined) PROVE MapMoves
    BY <2>1 DEF PollRoster, MapMoves, PopStep
  <2>2. QED
    BY <2>1 DEF PollStep, PollProbe, CooldownEnds, MapMoves
<1>4. TypeOK' /\ OutstandingCountsEntries'
  BY <1>1, <1>2, <1>3, MapStep DEF TInv, TypeOK
<1>5. QED
  BY <1>1, <1>4 DEF TInv, CallsPlaced

LEMMA CreateTInv == TInv /\ CreateStep => TInv'
<1> SUFFICES ASSUME TInv, CreateStep PROVE TInv'
  OBVIOUS
<1> USE DEF TInv
<1>1. UNCHANGED <<events, up, file, nodes, spent, call, bulk, deleted>>
  BY DEF CreateStep, StartCreate, CreateRefused, CreateAnswered, NodeCreates, NodeFull, NodeUnreached
<1>2. home' \in [Inst -> Server \cup {None}] /\ healthy' \subseteq NodeObj /\ cooling' \subseteq NodeObj
      /\ known' \subseteq Inst
  BY ZenonT(60) DEF CreateStep, StartCreate, CreateRefused, CreateAnswered, NodeCreates, NodeFull, NodeUnreached,
         TypeOK
<1>3. CreatesTyped'
  <2>0. CreatesTyped
    BY TypedParts
  <2>1. ASSUME NEW i \in Inst, StartCreate(i) PROVE CreatesTyped'
    <3> DEFINE candidates == (nodes \cap healthy) \ cooling
    <3>1. Cardinality(candidates) \in Nat
      BY FS_Subset, FS_CardinalityType DEF TypeOK
    <3>2. PICK q \in [1..Cardinality(candidates) -> candidates] :
            create' = [create EXCEPT ![i] = [pc |-> "trying", cand |-> q]]
      BY <2>1 DEF StartCreate
    <3>3. q \in [1..Cardinality(candidates) -> NodeObj]
      BY <3>2 DEF TypeOK
    <3>4. q \in Seq(NodeObj)
      <4> HIDE DEF candidates
      <4> DEFINE n == Cardinality(candidates)
      <4>1. n \in Nat /\ q \in [1..n -> NodeObj]
        BY <3>1, <3>3
      <4> HIDE DEF n
      <4>2. QED
        BY <4>1
    <3>5. [pc |-> "trying", cand |-> q] \in Creates
      BY <3>4 DEF Creates
    <3>6. QED
      BY <2>0, <3>2, <3>5, CreateChanges
  <2>2. ASSUME NEW i \in Inst, NEW p \in {"lost", "done"},
               create' = [create EXCEPT ![i] = [pc |-> p, cand |-> <<>>]]
        PROVE  CreatesTyped'
    <3>1. [pc |-> p, cand |-> <<>>] \in Creates
      BY DEF Creates
    <3>2. QED
      BY <2>0, <2>2, <3>1, CreateChanges
  <2>3. ASSUME NEW i \in Inst, NEW o \in NodeObj, NodeCreates(i, o) PROVE CreatesTyped'
    <3>1. create[i] \in Creates /\ create[i].cand # <<>>
      BY <2>0, <2>3 DEF CreatesTyped, NodeCreates, Trying
    <3>2. [create[i] EXCEPT !.pc = "made"] \in Creates
      BY <3>1 DEF Creates
    <3>3. [create[i] EXCEPT !.pc = "made"].cand # <<>>
      BY <3>1 DEF Creates
    <3>4. create' = [create EXCEPT ![i] = [create[i] EXCEPT !.pc = "made"]]
      BY <2>0, <2>3 DEF NodeCreates, CreatesTyped
    <3>5. QED
      BY <2>0, <3>2, <3>3, <3>4, CreateChanges
  <2>4. ASSUME NEW i \in Inst, NEW o \in NodeObj, NodeFull(i, o) \/ NodeUnreached(i, o)
        PROVE  CreatesTyped'
    <3>1. create[i] \in Creates /\ create[i].cand # <<>> /\ create[i].pc = "trying"
      BY <2>0, <2>4 DEF CreatesTyped, NodeFull, NodeUnreached, Trying
    <3>2. Tail(create[i].cand) \in Seq(NodeObj)
      BY <3>1 DEF Creates
    <3>3. [create[i] EXCEPT !.cand = Tail(create[i].cand)] \in Creates
      BY <3>1, <3>2 DEF Creates
    <3>4. [create[i] EXCEPT !.cand = Tail(create[i].cand)].pc = "trying"
      BY <3>1 DEF Creates
    <3>5. create' = [create EXCEPT ![i] = [create[i] EXCEPT !.cand = Tail(create[i].cand)]]
      BY <2>0, <2>4 DEF NodeFull, NodeUnreached, CreatesTyped
    <3>6. QED
      BY <2>0, <3>3, <3>4, <3>5, CreateChanges
  <2>5. QED
    BY <2>1, <2>2, <2>3, <2>4 DEF CreateStep, CreateRefused, CreateAnswered
<1>4. MapMoves
  <2>1. ASSUME NEW i \in Inst, CreateAnswered(i) PROVE MapMoves
    <3>1. Head(create[i].cand) \in NodeObj
      BY <2>1 DEF CreateAnswered, CallsPlaced, TypeOK
    <3>2. QED
      BY <2>1, <3>1 DEF CreateAnswered, MapMoves, PutStep
  <2>2. QED
    BY <2>1 DEF CreateStep, StartCreate, CreateRefused, NodeCreates, NodeFull, NodeUnreached, MapMoves
<1>5. OutstandingCountsEntries' /\ outstanding' \in [NodeObj -> Nat]
      /\ entry' \in [Inst -> NodeObj \cup {None}]
  BY <1>4, MapStep
<1>6. TypeOK'
  BY <1>1, <1>2, <1>3, <1>5 DEF TypeOK, Creates, CreatesTyped
<1>7. CallsPlaced'
  BY <1>1, <1>3 DEF CallsPlaced, CreatesTyped
<1>8. QED
  BY <1>5, <1>6, <1>7

LEMMA CallTInv == TInv /\ CallStep => TInv'
<1> SUFFICES ASSUME TInv, CallStep PROVE TInv'
  OBVIOUS
<1> USE DEF TInv
<1>1. UNCHANGED <<events, up, file, nodes, spent, cooling, create, known, bulk>>
  BY DEF CallStep, Arrive, ProbeOne, RecoverHit, RecoverMiss, Serve, ForwardFails, Relay, NodeAlive,
         PresumedLost
<1>2. home' \in [Inst -> Server \cup {None}] /\ healthy' \subseteq NodeObj /\ deleted' \subseteq Inst
  BY ZenonT(60) DEF CallStep, Arrive, ProbeOne, RecoverHit, RecoverMiss, Serve, ForwardFails, Relay, NodeAlive,
         PresumedLost, TypeOK, CallsPlaced
<1>3. CallsTyped'
  <2>0. CallsTyped
    BY TypedParts
  <2>i. IdleCall \in Calls /\ IdleCall.pc = "idle"
    BY DEF IdleCall, Calls, Pcs
  <2>1. ASSUME NEW c \in Call, NEW i \in Inst, NEW kind \in {"touch", "delete"}, Arrive(c, i, kind)
        PROVE  CallsTyped'
    <3>1. CASE entry[i] # None
      <4> DEFINE r == [IdleCall EXCEPT !.pc = "send", !.inst = i, !.kind = kind, !.node = entry[i]]
      <4>1. call' = [call EXCEPT ![c] = r]
        BY <2>1, <3>1 DEF Arrive
      <4>2. r \in Calls /\ r.inst \in Inst /\ r.node \in NodeObj
        BY <3>1 DEF IdleCall, Calls, Pcs, TypeOK
      <4>3. QED
        BY <2>0, <4>1, <4>2, CallChanges
    <3>2. CASE entry[i] = None
      <4> DEFINE r == [IdleCall EXCEPT !.pc = "recover", !.inst = i, !.kind = kind,
                                       !.left = nodes \cap healthy]
      <4>1. call' = [call EXCEPT ![c] = r]
        BY <2>1, <3>2 DEF Arrive
      <4>2. r \in Calls /\ r.inst \in Inst /\ r.pc \notin Forwarded
        BY DEF IdleCall, Calls, Pcs, TypeOK, Forwarded
      <4>3. QED
        BY <2>0, <4>1, <4>2, CallChanges
    <3>3. QED
      BY <3>1, <3>2
  <2>2. ASSUME NEW c \in Call, NEW o \in NodeObj, ProbeOne(c, o) PROVE CallsTyped'
    <3>1. call[c] \in Calls /\ call[c].pc = "recover"
      BY <2>0, <2>2 DEF CallsTyped, ProbeOne
    <3>2. PICK h \in {call[c].hit, o} :
            call' = [call EXCEPT ![c] = [call[c] EXCEPT !.left = call[c].left \ {o}, !.hit = h]]
      BY <2>0, <2>2, <3>1 DEF ProbeOne, CallsTyped, Calls
    <3>3. QED
      <4> DEFINE r == [call[c] EXCEPT !.left = call[c].left \ {o}, !.hit = h]
      <4>1. r \in Calls /\ r.inst \in Inst /\ r.pc \notin Forwarded
        BY <2>0, <3>1, <3>2 DEF CallsTyped, Calls, Pcs, Forwarded
      <4>2. QED
        BY <2>0, <3>2, <4>1, CallChanges
  <2>3. ASSUME NEW c \in Call, RecoverHit(c) PROVE CallsTyped'
    <3>1. call[c] \in Calls /\ call[c].pc = "recover" /\ call[c].hit \in NodeObj
      BY <2>0, <2>3 DEF CallsTyped, RecoverHit, Calls
    <3> DEFINE r == [call[c] EXCEPT !.pc = "send", !.node = call[c].hit]
    <3>2. call' = [call EXCEPT ![c] = r]
      BY <2>0, <2>3 DEF RecoverHit, CallsTyped
    <3>3. r \in Calls /\ r.inst \in Inst /\ r.node \in NodeObj
      BY <2>0, <3>1 DEF CallsTyped, Calls, Pcs
    <3>4. QED
      BY <2>0, <3>2, <3>3, CallChanges
  <2>4. ASSUME NEW c \in Call, NEW p \in Pcs, call[c].pc # "idle",
               p \in Forwarded => call[c].pc \in Forwarded,
               call' = [call EXCEPT ![c].pc = p]
        PROVE  CallsTyped'
    <3> DEFINE r == [call[c] EXCEPT !.pc = p]
    <3>1. call' = [call EXCEPT ![c] = r]
      BY <2>0, <2>4 DEF CallsTyped
    <3>2. r \in Calls /\ r.inst \in Inst /\ (p \in Forwarded => r.node \in NodeObj) /\ r.pc = p
      BY <2>0, <2>4 DEF CallsTyped, Calls
    <3>3. QED
      BY <2>0, <3>1, <3>2, CallChanges
  <2>5. ASSUME NEW c \in Call, RecoverMiss(c) \/ Serve(c) \/ ForwardFails(c) \/ PresumedLost(c)
        PROVE  CallsTyped'
    <3>1. PICK p \in Pcs : /\ call' = [call EXCEPT ![c].pc = p]
                           /\ p \in Forwarded => call[c].pc \in Forwarded
      BY <2>5 DEF RecoverMiss, Serve, ForwardFails, PresumedLost, Pcs, Forwarded
    <3>2. call[c].pc # "idle"
      BY <2>5 DEF RecoverMiss, Serve, ForwardFails, PresumedLost
    <3>3. QED
      BY <2>4, <3>1, <3>2
  <2>6. ASSUME NEW c \in Call, Relay(c) \/ NodeAlive(c) PROVE CallsTyped'
    <3>1. call' = [call EXCEPT ![c] = IdleCall]
      BY <2>6 DEF Relay, NodeAlive
    <3>2. QED
      BY <2>0, <2>i, <3>1, CallChanges DEF Forwarded
  <2>7. QED
    BY <2>1, <2>2, <2>3, <2>5, <2>6 DEF CallStep
<1>4. MapMoves
  <2> USE DEF TypeOK, CallsPlaced, MapMoves, PutStep, PopStep
  <2>1. ASSUME NEW c \in Call, RecoverHit(c) PROVE MapMoves
    BY <2>1 DEF RecoverHit
  <2>2. ASSUME NEW c \in Call, Relay(c) \/ PresumedLost(c) PROVE MapMoves
    <3>1. {call[c].inst} \in SUBSET Inst
      BY <2>2 DEF Relay, PresumedLost
    <3>2. QED
      BY <2>2, <3>1 DEF Relay, PresumedLost
  <2>3. QED
    BY <2>1, <2>2 DEF CallStep, Arrive, ProbeOne, RecoverMiss, Serve, ForwardFails, NodeAlive
<1>5. OutstandingCountsEntries' /\ outstanding' \in [NodeObj -> Nat]
      /\ entry' \in [Inst -> NodeObj \cup {None}]
  BY <1>4, MapStep
<1>6. TypeOK'
  BY <1>1, <1>2, <1>3, <1>5 DEF TypeOK, Calls, Pcs, CallsTyped
<1>7. CallsPlaced'
  BY <1>1, <1>3 DEF CallsPlaced, CallsTyped
<1>8. QED
  BY <1>5, <1>6, <1>7

LEMMA BulkTInv == TInv /\ BulkStep => TInv'
<1> SUFFICES ASSUME TInv, BulkStep PROVE TInv'
  OBVIOUS
<1> USE DEF TInv
<1>1. UNCHANGED <<events, up, file, nodes, spent, cooling, create, known, call>>
  BY DEF BulkStep, StartBulk, BulkAnswered, NodeCloses, BulkUnreached
<1>2. home' \in [Inst -> Server \cup {None}] /\ healthy' \subseteq NodeObj /\ deleted' \subseteq Inst
  <2>1. ASSUME NEW o \in NodeObj, NodeCloses(o)
        PROVE  home' \in [Inst -> Server \cup {None}] /\ UNCHANGED <<healthy, deleted>>
    BY <2>1 DEF NodeCloses, TypeOK
  <2>2. QED
    BY <2>1 DEF BulkStep, StartBulk, BulkAnswered, BulkUnreached, TypeOK
<1>3. bulk' \in Bulks
  <2> USE DEF TypeOK, Bulks
  <2>1. ASSUME NEW o \in NodeObj, NEW S \in SUBSET Inst,
               bulk' = [bulk EXCEPT !.left = @ \ {o}, !.closed = @ \cup S]
        PROVE  bulk' \in Bulks
    BY <2>1
  <2>2. ASSUME NEW o \in NodeObj, NodeCloses(o) PROVE bulk' \in Bulks
    <3>1. {i \in Inst : home[i] = NameOf[o]} \in SUBSET Inst
      OBVIOUS
    <3>2. QED
      BY <2>1, <2>2, <3>1 DEF NodeCloses
  <2>3. ASSUME NEW o \in NodeObj, BulkUnreached(o) PROVE bulk' \in Bulks
    <3>1. bulk' = [bulk EXCEPT !.left = bulk.left \ {o}]
      BY <2>3 DEF BulkUnreached
    <3>2. bulk \in Bulks /\ bulk.left \ {o} \in SUBSET NodeObj
      OBVIOUS
    <3>3. QED
      BY <3>1, <3>2
  <2>4. ASSUME StartBulk \/ BulkAnswered PROVE bulk' \in Bulks
    BY <2>4 DEF StartBulk, BulkAnswered, IdleBulk
  <2>5. QED
    BY <2>2, <2>3, <2>4 DEF BulkStep
<1>4. MapMoves
  BY DEF BulkStep, StartBulk, BulkAnswered, NodeCloses, BulkUnreached, TypeOK, MapMoves, PopStep
<1>5. OutstandingCountsEntries' /\ outstanding' \in [NodeObj -> Nat]
      /\ entry' \in [Inst -> NodeObj \cup {None}]
  BY <1>4, MapStep
<1>6. TypeOK'
  BY <1>1, <1>2, <1>3, <1>5 DEF TypeOK, Bulks
<1>7. CallsPlaced'
  BY <1>1 DEF CallsPlaced
<1>8. QED
  BY <1>5, <1>6, <1>7

LEMMA NextTInv == TInv /\ [Next]_vars => TInv'
<1>1. ASSUME TInv, UNCHANGED vars PROVE TInv'
  BY <1>1 DEF vars, mapVars, TInv, TypeOK, OutstandingCountsEntries, CallsPlaced
<1>2. QED
  BY <1>1, NextSplit, WorldTInv, RestartTInv, PollTInv, CreateTInv, CallTInv, BulkTInv

\* The type invariant of the router and the world around it.
THEOREM FleetTypeOK == Spec => []TypeOK
<1>1. Spec => []TInv
  BY InitTInv, NextTInv, PTL DEF Spec
<1>2. TInv => TypeOK
  BY DEF TInv
<1>3. QED
  BY <1>1, <1>2, PTL

\* Node.outstanding is the number of entries pointing at the node, through puts
\* and pops by any number of racing handlers, roster changes and restarts.
THEOREM OutstandingIsExact == Spec => []OutstandingCountsEntries
<1>1. Spec => []TInv
  BY InitTInv, NextTInv, PTL DEF Spec
<1>2. TInv => OutstandingCountsEntries
  BY DEF TInv
<1>3. QED
  BY <1>1, <1>2, PTL

-----------------------------------------------------------------------------
(* Homes *)

\* An instance is known to the client after it was built; calls and entries are
\* about known instances.
KnownFirst ==
  /\ \A i \in known : create[i].pc = "done"
  /\ \A i \in Inst : entry[i] # None => i \in known
  /\ \A c \in Call : call[c].pc # "idle" => call[c].inst \in known

\* It lives where its create was answered, on a server that is up, and is never
\* built again.
LivesWhereBuilt ==
  /\ \A i \in Inst : create[i].pc \in {"new", "trying"} => home[i] = None
  /\ \A i \in Inst : create[i].pc = "made" /\ home[i] # None
                       => home[i] = NameOf[Head(create[i].cand)]
  /\ \A i \in Inst : home[i] # None => home[i] \in up

\* A call is sent, or about to be sent, to where its instance lives.
CallsPointHome ==
  \A c \in Call : call[c].pc # "idle" /\ home[call[c].inst] # None =>
    /\ call[c].hit # None => NameOf[call[c].hit] = home[call[c].inst]
    /\ call[c].pc \in Forwarded => NameOf[call[c].node] = home[call[c].inst]

Homes == KnownFirst /\ LivesWhereBuilt /\ CallsPointHome /\ EntriesPointHome

\* What a node reported missing, closed or deleted is gone for good.
GoneForGood ==
  /\ \A c \in Call : \/ call[c].pc = "missing"
                     \/ call[c].pc = "ok" /\ call[c].kind = "delete"
                     => home[call[c].inst] = None
  /\ \A i \in bulk.closed : home[i] = None /\ create[i].pc \notin {"new", "trying"}
  /\ deleted \subseteq known /\ \A i \in deleted : home[i] = None

\* While router and roster stay, an instance is looked for only once it is gone.
StaysRouted ==
  RouterStays => /\ file = Server
                 /\ LiveStaysRouted
                 /\ \A c \in Call : call[c].pc = "recover" => home[call[c].inst] = None

\* Where no server and no request fails, an entry of a deleted instance belongs
\* to a call that has yet to learn of the deletion.
Quiet == events \cap {"crash", "drop"} = {}
LearnsOf(c, i) == call[c].inst = i /\ call[c].pc \in {"send", "missing"}
NothingLeftOver ==
  Quiet => /\ up = Server
           /\ \A i \in deleted : entry[i] # None => \E c \in Call : LearnsOf(c, i)

IInv == TInv /\ Homes /\ GoneForGood /\ StaysRouted /\ NothingLeftOver

-----------------------------------------------------------------------------
(* Every step keeps them *)

LEMMA InitIInv == Init => IInv
<1> SUFFICES ASSUME Init PROVE IInv
  OBVIOUS
<1>1. TInv
  BY InitTInv
<1>2. Homes /\ GoneForGood /\ StaysRouted /\ NothingLeftOver
  BY DEF Init, Homes, KnownFirst, LivesWhereBuilt, CallsPointHome, EntriesPointHome, GoneForGood,
         StaysRouted, LiveStaysRouted, NothingLeftOver, IdleCall, IdleBulk
<1>3. QED
  BY <1>1, <1>2 DEF IInv

LEMMA WorldIInv == IInv /\ WorldStep => IInv'
<1> SUFFICES ASSUME IInv, WorldStep PROVE IInv'
  OBVIOUS
<1> USE DEF IInv, Homes
<1>1. UNCHANGED <<events, nodes, mapVars, handlerVars>>
  BY DEF WorldStep, ServerDown, ServerUp, NodeReaps, OperatorEdits
<1>2. \A i \in Inst : /\ home'[i] \in {home[i], None}
                      /\ home'[i] # None => home'[i] \in up'
  BY DEF WorldStep, ServerDown, ServerUp, NodeReaps, OperatorEdits, LivesWhereBuilt, TInv, TypeOK
<1>3. /\ RouterStays => file' = file
      /\ Quiet => up' = Server
  BY DEF WorldStep, ServerDown, ServerUp, NodeReaps, OperatorEdits, RouterStays, Quiet,
         NothingLeftOver
<1>4. TInv'
  BY WorldTInv
<1> USE DEF mapVars
<1>5. KnownFirst' /\ LivesWhereBuilt'
  BY <1>1, <1>2 DEF KnownFirst, LivesWhereBuilt
<1>6. \A c \in Call : call[c].pc # "idle" => call[c].inst \in Inst
  BY DEF TInv, CallsPlaced
<1>7. CallsPointHome' /\ EntriesPointHome'
  BY <1>1, <1>2, <1>6 DEF CallsPointHome, EntriesPointHome
<1>8. GoneForGood'
  BY <1>1, <1>2, <1>6 DEF GoneForGood, TInv, TypeOK
<1>9. StaysRouted'
  BY <1>1, <1>2, <1>3, <1>6 DEF StaysRouted, RouterStays, LiveStaysRouted, TInv, TypeOK
<1>10. NothingLeftOver'
  BY <1>1, <1>3 DEF NothingLeftOver, Quiet, LearnsOf
<1>11. QED
  BY <1>4, <1>5, <1>7, <1>8, <1>9, <1>10

LEMMA RestartIInv == IInv /\ RouterRestarts => IInv'
<1> SUFFICES ASSUME IInv, RouterRestarts PROVE IInv'
  OBVIOUS
<1> USE DEF IInv, Homes, RouterRestarts
<1>1. TInv'
  BY RestartTInv
<1>2. /\ UNCHANGED <<events, up, home, known, deleted, file>>
      /\ \A i \in Inst : entry'[i] = None
      /\ \A c \in Call : call'[c].pc = "idle"
      /\ bulk'.closed = {}
      /\ ~RouterStays
  BY DEF IdleCall, IdleBulk, RouterStays
<1>3. \A i \in Inst : \/ create'[i] = create[i] /\ create[i].pc \notin {"trying", "made"}
                      \/ create'[i].pc = "lost" /\ create[i].pc \in {"trying", "made"}
  OBVIOUS
<1>4. KnownFirst' /\ LivesWhereBuilt'
  BY <1>2, <1>3 DEF KnownFirst, LivesWhereBuilt, TInv, TypeOK
<1>5. CallsPointHome' /\ EntriesPointHome'
  BY <1>2 DEF CallsPointHome, EntriesPointHome
<1>6. GoneForGood'
  BY <1>2 DEF GoneForGood
<1>7. StaysRouted' /\ NothingLeftOver'
  BY <1>2 DEF StaysRouted, RouterStays, NothingLeftOver, Quiet, GoneForGood, KnownFirst, TInv, TypeOK
<1>8. QED
  BY <1>1, <1>4, <1>5, <1>6, <1>7

LEMMA PollIInv == IInv /\ PollStep => IInv'
<1> SUFFICES ASSUME IInv, PollStep PROVE IInv'
  OBVIOUS
<1> USE DEF IInv, Homes
<1>1. TInv'
  BY PollTInv
<1>2. UNCHANGED <<worldVars, file, handlerVars>>
  BY DEF PollStep, PollRoster, PollProbe, CooldownEnds
<1>3. \A i \in Inst : entry'[i] \in {entry[i], None}
  BY DEF PollStep, PollRoster, PollProbe, CooldownEnds, MapPop, mapVars
<1>4. file = Server => \A i \in Inst : entry'[i] = entry[i]
  <2>1. ASSUME file = Server, NEW joined \in SUBSET NodeObj, PollRoster(joined)
        PROVE  \A i \in Inst : entry'[i] = entry[i]
    <3>1. {o \in nodes : NameOf[o] \in file} = nodes
      BY <2>1 DEF TInv, TypeOK
    <3>2. MapPop({})
      BY <2>1, <3>1 DEF PollRoster
    <3>3. QED
      BY <3>2 DEF MapPop
  <2>2. QED
    BY <2>1 DEF PollStep, PollProbe, CooldownEnds, mapVars
<1>5. KnownFirst' /\ LivesWhereBuilt' /\ CallsPointHome' /\ EntriesPointHome' /\ GoneForGood'
  BY <1>2, <1>3 DEF KnownFirst, LivesWhereBuilt, CallsPointHome, EntriesPointHome, GoneForGood
<1>6. StaysRouted'
  BY <1>2, <1>4 DEF StaysRouted, RouterStays, LiveStaysRouted, TInv, TypeOK
<1>7. NothingLeftOver'
  BY <1>2, <1>3 DEF NothingLeftOver, Quiet, LearnsOf, GoneForGood, KnownFirst, TInv, TypeOK
<1>8. QED
  BY <1>1, <1>5, <1>6, <1>7

LEMMA CreateIInv == IInv /\ CreateStep => IInv'
<1> SUFFICES ASSUME IInv, CreateStep PROVE IInv'
  OBVIOUS
<1> USE DEF IInv, Homes
<1>1. TInv'
  BY CreateTInv
<1>2. known \subseteq Inst /\ deleted \subseteq known /\ bulk.closed \subseteq Inst
      /\ \A c \in Call : call[c].pc # "idle" => call[c].inst \in Inst
  BY DEF TInv, TypeOK, GoneForGood, CallsPlaced
\* The handler gets on, or gives up.
<1>3. ASSUME NEW i \in Inst, NEW p \in {"trying", "lost"},
             create[i].pc \in {"new", "trying"}, create'[i].pc = p,
             \A j \in Inst \ {i} : create'[j] = create[j],
             UNCHANGED <<worldVars, file, mapVars, known, call, bulk, deleted>>
      PROVE  IInv'
  <2> USE <1>3 DEF mapVars
  <2>1. i \notin known /\ i \notin bulk.closed
    BY DEF KnownFirst, GoneForGood
  <2>2. KnownFirst' /\ LivesWhereBuilt'
    BY <1>2, <2>1 DEF KnownFirst, LivesWhereBuilt
  <2>3. CallsPointHome' /\ EntriesPointHome' /\ StaysRouted' /\ NothingLeftOver'
    BY DEF CallsPointHome, EntriesPointHome, StaysRouted, RouterStays, LiveStaysRouted,
           NothingLeftOver, Quiet, LearnsOf
  <2>4. GoneForGood'
    BY <1>2, <2>1 DEF GoneForGood
  <2>5. QED
    BY <1>1, <2>2, <2>3, <2>4
<1>4. ASSUME NEW i \in Inst, StartCreate(i) \/ CreateRefused(i) PROVE IInv'
  <2>1. PICK p \in {"trying", "lost"} : create'[i].pc = p
    BY <1>4 DEF StartCreate, CreateRefused, TInv, TypeOK
  <2>2. QED
    BY <1>3, <1>4, <2>1 DEF StartCreate, CreateRefused, TInv, TypeOK
<1>5. ASSUME NEW i \in Inst, NEW o \in NodeObj, NodeFull(i, o) \/ NodeUnreached(i, o) PROVE IInv'
  <2>1. create'[i].pc = "trying" /\ create[i].pc = "trying"
    BY <1>5 DEF NodeFull, NodeUnreached, Trying, TInv, TypeOK
  <2>2. QED
    BY <1>3, <1>5, <2>1 DEF NodeFull, NodeUnreached, TInv, TypeOK
<1>6. ASSUME NEW i \in Inst, NEW o \in NodeObj, NodeCreates(i, o) PROVE IInv'
  <2>1. /\ UNCHANGED <<events, up, file, mapVars, known, call, bulk, deleted>>
        /\ home'[i] = NameOf[o] /\ \A j \in Inst \ {i} : home'[j] = home[j]
        /\ create'[i].pc = "made" /\ create'[i].cand = create[i].cand /\ o = Head(create[i].cand)
        /\ \A j \in Inst \ {i} : create'[j] = create[j]
        /\ NameOf[o] \in up /\ create[i].pc = "trying"
    BY <1>6 DEF NodeCreates, Trying, TInv, TypeOK
  <2>2. i \notin known /\ i \notin bulk.closed
    BY <2>1 DEF KnownFirst, GoneForGood
  <2> USE DEF mapVars
  <2>3. KnownFirst' /\ LivesWhereBuilt'
    BY <1>2, <2>1, <2>2 DEF KnownFirst, LivesWhereBuilt
  <2>4. \A c \in Call : call[c].pc # "idle" => home'[call[c].inst] = home[call[c].inst]
    BY <1>2, <2>1, <2>2 DEF KnownFirst
  <2>5. CallsPointHome'
    BY <2>1, <2>4 DEF CallsPointHome
  <2>6. EntriesPointHome'
    BY <2>1, <2>2 DEF EntriesPointHome, KnownFirst
  <2>7. GoneForGood'
    BY <1>2, <2>1, <2>2, <2>4 DEF GoneForGood
  <2>8. StaysRouted'
    BY <1>2, <2>1, <2>2, <2>4 DEF StaysRouted, RouterStays, LiveStaysRouted
  <2>9. NothingLeftOver'
    BY <2>1 DEF NothingLeftOver, Quiet, LearnsOf
  <2>10. QED
    BY <1>1, <2>3, <2>5, <2>6, <2>7, <2>8, <2>9
<1>7. ASSUME NEW i \in Inst, CreateAnswered(i) PROVE IInv'
  <2> DEFINE o == Head(create[i].cand)
  <2>1. o \in NodeObj
    BY <1>7 DEF CreateAnswered, TInv, CallsPlaced, TypeOK
  <2>2. i \notin known /\ i \notin deleted /\ entry[i] = None /\ create[i].pc = "made"
    BY <1>2, <1>7 DEF CreateAnswered, KnownFirst
  <2>3. entry'[i] = o /\ \A j \in Inst \ {i} : entry'[j] = entry[j]
    BY <1>7, <2>1, <2>2 DEF CreateAnswered, MapPut, TInv, TypeOK
  <2>4. /\ UNCHANGED <<worldVars, file, call, bulk, deleted>> /\ known' = known \cup {i}
        /\ create'[i].pc = "done" /\ \A j \in Inst \ {i} : create'[j] = create[j]
    BY <1>7 DEF CreateAnswered, TInv, TypeOK
  <2>5. home[i] # None => home[i] = NameOf[o]
    BY <2>2 DEF LivesWhereBuilt
  <2> HIDE DEF o
  <2>6. KnownFirst' /\ LivesWhereBuilt'
    BY <1>2, <2>2, <2>3, <2>4 DEF KnownFirst, LivesWhereBuilt
  <2>7. CallsPointHome' /\ EntriesPointHome'
    BY <2>3, <2>4, <2>5 DEF CallsPointHome, EntriesPointHome
  <2>8. GoneForGood'
    BY <1>2, <2>4 DEF GoneForGood
  <2>9. StaysRouted'
    BY <1>2, <2>1, <2>3, <2>4 DEF StaysRouted, RouterStays, LiveStaysRouted
  <2>10. NothingLeftOver'
    BY <1>2, <2>2, <2>3, <2>4 DEF NothingLeftOver, Quiet, LearnsOf
  <2>11. QED
    BY <1>1, <2>6, <2>7, <2>8, <2>9, <2>10
<1>8. QED
  BY <1>4, <1>5, <1>6, <1>7 DEF CreateStep
\* One call moves on; what it does to homes and entries it does to its instance.
LEMMA CallIInv == IInv /\ CallStep => IInv'
<1> SUFFICES ASSUME IInv, CallStep PROVE IInv'
  OBVIOUS
<1> USE DEF IInv, Homes
<1>1. TInv'
  BY CallTInv
<1>2. known \subseteq Inst /\ deleted \subseteq known /\ bulk.closed \subseteq Inst
      /\ \A c \in Call : call[c].pc # "idle" => call[c].inst \in known /\ call[c].inst \in Inst
  BY DEF TInv, TypeOK, GoneForGood, CallsPlaced, KnownFirst
<1>3. call \in [Call -> Calls] /\ home \in [Inst -> Server \cup {None}]
      /\ entry \in [Inst -> NodeObj \cup {None}]
  BY DEF TInv, TypeOK, Calls, Pcs
<1>4. ASSUME NEW c \in Call, NEW i \in Inst, NEW kind \in {"touch", "delete"}, Arrive(c, i, kind)
      PROVE  IInv'
  <2>1. /\ UNCHANGED <<worldVars, file, mapVars, create, known, bulk, deleted>> /\ i \in known
        /\ \A d \in Call \ {c} : call'[d] = call[d]
        /\ call'[c].inst = i /\ call'[c].hit = None
        /\ \/ entry[i] # None /\ call'[c].pc = "send" /\ call'[c].node = entry[i]
           \/ entry[i] = None /\ call'[c].pc = "recover"
        /\ call[c].pc \in {"idle", "gone"}
    BY <1>3, <1>4 DEF Arrive, IdleCall
  <2> USE DEF mapVars
  <2>2. KnownFirst' /\ LivesWhereBuilt' /\ EntriesPointHome'
    BY <2>1 DEF KnownFirst, LivesWhereBuilt, EntriesPointHome
  <2>3. CallsPointHome'
    BY <2>1 DEF CallsPointHome, EntriesPointHome, Forwarded
  <2>4. GoneForGood'
    BY <2>1 DEF GoneForGood
  <2>5. StaysRouted'
    BY <2>1 DEF StaysRouted, RouterStays, LiveStaysRouted
  <2>6. NothingLeftOver'
    <3> SUFFICES ASSUME Quiet', NEW j \in deleted, entry[j] # None
                 PROVE  \E d \in Call : LearnsOf(d, j)'
      BY <2>1 DEF NothingLeftOver, Quiet
    <3>1. PICK d \in Call : LearnsOf(d, j)
      BY <2>1 DEF NothingLeftOver, Quiet
    <3>2. d # c
      BY <2>1, <3>1 DEF LearnsOf
    <3>3. QED
      BY <2>1, <3>1, <3>2 DEF LearnsOf
  <2>7. QED
    BY <1>1, <2>2, <2>3, <2>4, <2>5, <2>6
\* A call moves on and nothing else does.
<1>5. ASSUME NEW c \in Call, NEW p \in Pcs \ {"idle"},
             call[c].pc # "idle", call'[c].pc = p,
             call'[c].inst = call[c].inst, call'[c].kind = call[c].kind,
             UNCHANGED <<worldVars, file, mapVars, create, known, bulk, deleted>>,
             \A d \in Call \ {c} : call'[d] = call[d],
             p = "recover" => call[c].pc = "recover",
             p \in Forwarded => call[c].pc \in Forwarded /\ call'[c].node = call[c].node,
             call'[c].hit = call[c].hit \/
               (call'[c].hit # None /\ NameOf[call'[c].hit] = home[call[c].inst]),
             p = "missing" => home[call[c].inst] = None,
             p = "ok" => call[c].pc = "ok" \/ (home[call[c].inst] # None /\ call[c].kind # "delete"),
             call[c].pc \in {"send", "missing"} /\ Quiet /\ call[c].inst \in deleted
               => p \in {"send", "missing"}
      PROVE  IInv'
  <2> USE <1>5 DEF mapVars
  <2>1. KnownFirst' /\ LivesWhereBuilt' /\ EntriesPointHome'
    BY DEF KnownFirst, LivesWhereBuilt, EntriesPointHome
  <2>2. CallsPointHome'
    BY DEF CallsPointHome
  <2>3. GoneForGood'
    BY DEF GoneForGood
  <2>4. StaysRouted'
    BY DEF StaysRouted, RouterStays, LiveStaysRouted
  <2>5. NothingLeftOver'
    <3> SUFFICES ASSUME Quiet', NEW j \in deleted, entry[j] # None
                 PROVE  \E d \in Call : LearnsOf(d, j)'
      BY DEF NothingLeftOver, Quiet
    <3>1. Quiet
      BY DEF Quiet
    <3>2. PICK d \in Call : LearnsOf(d, j)
      BY <3>1 DEF NothingLeftOver
    <3>3. QED
      BY <3>1, <3>2 DEF LearnsOf
  <2>6. QED
    BY <1>1, <2>1, <2>2, <2>3, <2>4, <2>5
<1>6. ASSUME NEW c \in Call, NEW o \in NodeObj, ProbeOne(c, o) PROVE IInv'
  <2>1. /\ UNCHANGED <<worldVars, file, mapVars, create, known, bulk, deleted>>
        /\ call[c].pc = "recover" /\ call'[c].pc = "recover"
        /\ call'[c].inst = call[c].inst /\ call'[c].kind = call[c].kind
        /\ call'[c].hit = call[c].hit \/ (call'[c].hit = o /\ NameOf[o] = home[call[c].inst])
        /\ \A d \in Call \ {c} : call'[d] = call[d]
    BY <1>3, <1>6 DEF ProbeOne, Calls
  <2>2. "recover" \in Pcs \ {"idle"} /\ "recover" \notin Forwarded /\ o # None
    BY DEF Pcs, Forwarded
  <2>3. QED
    BY <1>5, <2>1, <2>2
<1>7. ASSUME NEW c \in Call, RecoverMiss(c) PROVE IInv'
  <2>1. /\ UNCHANGED <<worldVars, file, mapVars, create, known, bulk, deleted>>
        /\ call[c].pc = "recover" /\ call'[c].pc = "gone"
        /\ call'[c].inst = call[c].inst /\ call'[c].kind = call[c].kind
        /\ call'[c].hit = call[c].hit
        /\ \A d \in Call \ {c} : call'[d] = call[d]
    BY <1>3, <1>7 DEF RecoverMiss, Calls
  <2>2. "gone" \in Pcs \ {"idle"} /\ "gone" \notin Forwarded
    BY DEF Pcs, Forwarded
  <2>3. QED
    BY <1>5, <2>1, <2>2
<1>8. ASSUME NEW c \in Call, ForwardFails(c) PROVE IInv'
  <2>1. /\ UNCHANGED <<worldVars, file, mapVars, create, known, bulk, deleted>>
        /\ call[c].pc \in Forwarded \ {"idle"} /\ call'[c].pc = "probe"
        /\ call'[c].inst = call[c].inst /\ call'[c].kind = call[c].kind
        /\ call'[c].hit = call[c].hit /\ call'[c].node = call[c].node
        /\ \A d \in Call \ {c} : call'[d] = call[d]
    BY <1>3, <1>8 DEF ForwardFails, Calls, Forwarded
  <2>2. "probe" \in Pcs \ {"idle"} /\ "probe" \in Forwarded
    BY DEF Pcs, Forwarded
  <2>3. ~Quiet
    <3>1. call[c].node \in NodeObj
      BY <2>1 DEF TInv, CallsPlaced
    <3>2. QED
      BY <1>8, <3>1 DEF ForwardFails, Dropped, Unreached, Quiet, NothingLeftOver
  <2>4. QED
    BY <1>5, <2>1, <2>2, <2>3
<1>9. ASSUME NEW c \in Call, Serve(c) PROVE IInv'
  <2> DEFINE i == call[c].inst
             here == home[i] = NameOf[call[c].node]
             p == IF here THEN "ok" ELSE "missing"
  <2>1. /\ UNCHANGED <<events, up, file, mapVars, create, known, bulk, deleted>>
        /\ call[c].pc = "send" /\ call'[c].pc = p
        /\ call'[c].inst = i /\ call'[c].kind = call[c].kind
        /\ call'[c].hit = call[c].hit /\ call'[c].node = call[c].node
        /\ \A d \in Call \ {c} : call'[d] = call[d]
    BY <1>3, <1>9 DEF Serve, Calls
  <2>2. i \in known /\ i \in Inst /\ call[c].node \in NodeObj
    BY <1>2, <2>1 DEF TInv, CallsPlaced, Forwarded
  <2>3. NameOf[call[c].node] # None
    BY <2>2
  <2>4. ~here => home[i] = None
    BY <2>1 DEF CallsPointHome, Forwarded
  <2>5. CASE ~(here /\ call[c].kind = "delete")
    <3>1. home' = home
      BY <1>9, <2>5 DEF Serve
    <3>2. p \in Pcs \ {"idle"} /\ p \in Forwarded
      BY DEF Pcs, Forwarded
    <3>3. i \in deleted => ~here
      BY <2>3 DEF GoneForGood
    <3>4. call[c].pc \in Forwarded /\ p # "recover"
      BY <2>1 DEF Forwarded
    <3>5. here => home[i] # None /\ call[c].kind # "delete"
      BY <2>3, <2>5
    <3>6. QED
      BY <1>5, <2>1, <2>4, <3>1, <3>2, <3>3, <3>4, <3>5
  <2>6. CASE here /\ call[c].kind = "delete"
    <3>1. home' = [home EXCEPT ![i] = None]
      BY <1>9, <2>6 DEF Serve
    <3>2. \A j \in Inst : home'[j] = IF j = i THEN None ELSE home[j]
      BY <1>3, <3>1
    <3>3. p = "ok"
      BY <2>6
    <3> HIDE DEF here, p
    <3> USE DEF mapVars
    <3>4. KnownFirst' /\ LivesWhereBuilt' /\ EntriesPointHome'
      BY <1>2, <2>1, <3>2, <3>3 DEF KnownFirst, LivesWhereBuilt, EntriesPointHome
    <3>5. CallsPointHome'
      BY <1>2, <2>1, <3>2, <3>3 DEF CallsPointHome, Forwarded
    <3>6. GoneForGood'
      BY <1>2, <2>1, <2>2, <3>2, <3>3 DEF GoneForGood
    <3>7. StaysRouted'
      BY <1>2, <2>1, <3>2, <3>3 DEF StaysRouted, RouterStays, LiveStaysRouted
    <3>8. i \notin deleted
      BY <2>3, <2>6 DEF GoneForGood, here
    <3>9. NothingLeftOver'
      BY <2>1, <3>8 DEF NothingLeftOver, Quiet, LearnsOf
    <3>10. QED
      BY <1>1, <3>4, <3>5, <3>6, <3>7, <3>9
  <2>7. QED
    BY <2>5, <2>6
<1>10. ASSUME NEW c \in Call, RecoverHit(c) PROVE IInv'
  <2> DEFINE i == call[c].inst
  <2>1. /\ UNCHANGED <<worldVars, file, create, known, bulk, deleted>>
        /\ call[c].pc = "recover" /\ call[c].hit # None /\ call'[c].pc = "send"
        /\ call'[c].inst = i /\ call'[c].kind = call[c].kind
        /\ call'[c].hit = call[c].hit /\ call'[c].node = call[c].hit
        /\ \A d \in Call \ {c} : call'[d] = call[d]
    BY <1>3, <1>10 DEF RecoverHit, Calls
  <2>2. i \in known /\ i \in Inst /\ call[c].hit \in NodeObj
    BY <1>2, <1>3, <2>1 DEF Calls
  <2>3. /\ entry'[i] = IF entry[i] # None THEN entry[i] ELSE call[c].hit
        /\ \A j \in Inst \ {i} : entry'[j] = entry[j]
    BY <1>3, <1>10, <2>2 DEF RecoverHit, MapPut, mapVars
  <2>4. home[i] # None => NameOf[call[c].hit] = home[i]
    BY <2>1 DEF CallsPointHome
  <2>5. KnownFirst' /\ LivesWhereBuilt' /\ EntriesPointHome'
    BY <2>1, <2>2, <2>3, <2>4 DEF KnownFirst, LivesWhereBuilt, EntriesPointHome
  <2>6. CallsPointHome'
    BY <2>1, <2>2, <2>4 DEF CallsPointHome, Forwarded
  <2>7. GoneForGood'
    BY <2>1 DEF GoneForGood
  <2>8. StaysRouted'
    BY <1>2, <2>1, <2>2, <2>3 DEF StaysRouted, RouterStays, LiveStaysRouted
  <2>9. NothingLeftOver'
    <3> SUFFICES ASSUME Quiet', NEW j \in deleted, entry'[j] # None
                 PROVE  \E d \in Call : LearnsOf(d, j)'
      BY <2>1 DEF NothingLeftOver, Quiet
    <3>1. CASE j = i
      BY <2>1, <3>1 DEF LearnsOf
    <3>2. CASE j # i
      <4>1. PICK d \in Call : LearnsOf(d, j)
        BY <1>2, <2>1, <2>3, <3>2 DEF NothingLeftOver, Quiet
      <4>2. d # c
        BY <3>2, <4>1 DEF LearnsOf
      <4>3. QED
        BY <2>1, <4>1, <4>2 DEF LearnsOf
    <3>3. QED
      BY <3>1, <3>2
  <2>10. QED
    BY <1>1, <2>5, <2>6, <2>7, <2>8, <2>9
\* The call is over, and may take its instance out of the map.
<1>11. ASSUME NEW c \in Call, NEW S \in SUBSET {call[c].inst}, NEW p \in {"idle", "gone"},
              call[c].pc # "idle", call'[c].pc = p, p = "gone" => call'[c].inst = call[c].inst,
              p = "gone" => call'[c].hit = call[c].hit,
              \A d \in Call \ {c} : call'[d] = call[d],
              UNCHANGED <<worldVars, file, create, known, bulk>>,
              \A i \in Inst : entry'[i] = IF i \in S THEN None ELSE entry[i],
              \A i \in S : home[i] = None,
              deleted' \in {deleted, deleted \cup S},
              call[c].pc \in {"send", "missing"} /\ Quiet => call[c].inst \in S
       PROVE  IInv'
  <2> USE <1>11
  <2>1. S \subseteq Inst /\ call[c].inst \in known
    BY <1>2
  <2>2. KnownFirst' /\ LivesWhereBuilt' /\ EntriesPointHome'
    BY <1>2 DEF KnownFirst, LivesWhereBuilt, EntriesPointHome
  <2>3. CallsPointHome'
    BY DEF CallsPointHome, Forwarded
  <2>4. GoneForGood'
    BY <2>1 DEF GoneForGood
  <2>5. StaysRouted'
    BY <1>2 DEF StaysRouted, RouterStays, LiveStaysRouted
  <2>6. NothingLeftOver'
    <3> SUFFICES ASSUME Quiet', NEW j \in deleted', entry'[j] # None
                 PROVE  \E d \in Call : LearnsOf(d, j)'
      BY DEF NothingLeftOver, Quiet
    <3>1. Quiet
      BY DEF Quiet
    <3>2. j \in deleted /\ j \notin S /\ entry[j] # None
      BY <1>2, <2>1
    <3>3. PICK d \in Call : LearnsOf(d, j)
      BY <3>1, <3>2 DEF NothingLeftOver
    <3>4. d # c
      BY <3>1, <3>2, <3>3 DEF LearnsOf
    <3>5. QED
      BY <3>3, <3>4 DEF LearnsOf
  <2>7. QED
    BY <1>1, <2>2, <2>3, <2>4, <2>5, <2>6
<1>12. ASSUME NEW c \in Call, Relay(c) PROVE IInv'
  <2> DEFINE over == call[c].kind = "delete" /\ call[c].pc = "ok"
             S == IF over \/ call[c].pc = "missing" THEN {call[c].inst} ELSE {}
  <2>1. /\ UNCHANGED <<worldVars, file, create, known, bulk>>
        /\ call[c].pc \in {"ok", "missing"} /\ call'[c].pc = "idle"
        /\ \A d \in Call \ {c} : call'[d] = call[d]
        /\ deleted' \in {deleted, deleted \cup S}
    BY <1>3, <1>12 DEF Relay, IdleCall
  <2>2. \A i \in Inst : entry'[i] = IF i \in S THEN None ELSE entry[i]
    BY <1>12 DEF Relay, MapPop, mapVars
  <2>3. \A i \in S : home[i] = None
    BY DEF GoneForGood
  <2>4. call[c].pc \in {"send", "missing"} => call[c].inst \in S
    BY <2>1
  <2> HIDE DEF S
  <2>5. S \in SUBSET {call[c].inst}
    BY DEF S
  <2>6. QED
    BY <1>11, <2>1, <2>2, <2>3, <2>4, <2>5
<1>13. ASSUME NEW c \in Call, NodeAlive(c) PROVE IInv'
  <2>1. /\ UNCHANGED <<worldVars, file, mapVars, create, known, bulk, deleted>>
        /\ call[c].pc = "probe" /\ call'[c].pc = "idle"
        /\ \A d \in Call \ {c} : call'[d] = call[d]
    BY <1>3, <1>13 DEF NodeAlive, IdleCall
  <2>2. {} \in SUBSET {call[c].inst} /\ \A i \in Inst : entry'[i] = IF i \in {} THEN None ELSE entry[i]
    BY <2>1 DEF mapVars
  <2>3. QED
    BY <1>11, <2>1, <2>2
<1>14. ASSUME NEW c \in Call, PresumedLost(c) PROVE IInv'
  <2>1. /\ UNCHANGED <<worldVars, file, create, known, bulk, deleted>>
        /\ call[c].pc = "probe" /\ call'[c].pc = "gone" /\ call'[c].inst = call[c].inst
        /\ call'[c].hit = call[c].hit
        /\ \A d \in Call \ {c} : call'[d] = call[d]
        /\ \A i \in Inst : entry'[i] = IF i \in {call[c].inst} THEN None ELSE entry[i]
    BY <1>3, <1>14 DEF PresumedLost, MapPop, Calls
  <2>2. home[call[c].inst] = None
    BY <1>2, <1>14, <2>1 DEF PresumedLost, Unreached, CallsPointHome, LivesWhereBuilt, Forwarded
  <2>3. {call[c].inst} \in SUBSET {call[c].inst}
    OBVIOUS
  <2>4. QED
    BY <1>11, <2>1, <2>2, <2>3
<1>15. QED
  BY <1>4, <1>6, <1>7, <1>8, <1>9, <1>10, <1>12, <1>13, <1>14 DEF CallStep

LEMMA BulkIInv == IInv /\ BulkStep => IInv'
<1> SUFFICES ASSUME IInv, BulkStep PROVE IInv'
  OBVIOUS
<1> USE DEF IInv, Homes
<1>1. TInv'
  BY BulkTInv
<1>2. known \subseteq Inst /\ deleted \subseteq known /\ bulk.closed \subseteq Inst
      /\ \A c \in Call : call[c].pc # "idle" => call[c].inst \in Inst
  BY DEF TInv, TypeOK, GoneForGood, CallsPlaced
<1>3. UNCHANGED <<events, up, file, create, known, call>>
  BY DEF BulkStep, StartBulk, BulkAnswered, NodeCloses, BulkUnreached
<1>4. ASSUME bulk'.closed \subseteq bulk.closed, UNCHANGED <<home, mapVars, deleted>> PROVE IInv'
  <2> USE <1>3, <1>4 DEF mapVars
  <2>1. KnownFirst' /\ LivesWhereBuilt' /\ CallsPointHome' /\ EntriesPointHome' /\ GoneForGood'
    BY DEF KnownFirst, LivesWhereBuilt, CallsPointHome, EntriesPointHome, GoneForGood
  <2>2. StaysRouted' /\ NothingLeftOver'
    BY DEF StaysRouted, RouterStays, LiveStaysRouted, NothingLeftOver, Quiet, LearnsOf
  <2>3. QED
    BY <1>1, <2>1, <2>2
<1>5. ASSUME StartBulk PROVE IInv'
  BY <1>4, <1>5 DEF StartBulk
<1>6. ASSUME NEW o \in NodeObj, BulkUnreached(o) PROVE IInv'
  <2>1. bulk'.closed = bulk.closed
    BY <1>6 DEF BulkUnreached, TInv, TypeOK
  <2>2. QED
    BY <1>4, <1>6, <2>1 DEF BulkUnreached
<1>7. ASSUME NEW o \in NodeObj, NodeCloses(o) PROVE IInv'
  <2> DEFINE here == {i \in Inst : home[i] = NameOf[o]}
  <2>1. /\ \A i \in Inst : home'[i] = IF i \in here THEN None ELSE home[i]
        /\ bulk'.closed = bulk.closed \cup here
        /\ UNCHANGED <<mapVars, deleted>>
    BY <1>7 DEF NodeCloses, TInv, TypeOK
  <2>2. \A i \in here : home[i] # None
    OBVIOUS
  <2>3. here \subseteq Inst
    OBVIOUS
  <2> HIDE DEF here
  <2> USE <1>3, <2>1 DEF mapVars
  <2>4. KnownFirst' /\ LivesWhereBuilt' /\ EntriesPointHome'
    BY <1>2, <2>2 DEF KnownFirst, LivesWhereBuilt, EntriesPointHome
  <2>5. CallsPointHome'
    BY <1>2 DEF CallsPointHome
  <2>6. GoneForGood'
    BY <1>2, <2>2, <2>3 DEF GoneForGood, LivesWhereBuilt
  <2>7. StaysRouted'
    BY <1>2 DEF StaysRouted, RouterStays, LiveStaysRouted
  <2>8. NothingLeftOver'
    BY DEF NothingLeftOver, Quiet, LearnsOf
  <2>9. QED
    BY <1>1, <2>4, <2>5, <2>6, <2>7, <2>8
<1>8. ASSUME BulkAnswered PROVE IInv'
  <2>1. /\ \A i \in Inst : entry'[i] = IF i \in bulk.closed THEN None ELSE entry[i]
        /\ bulk'.closed = {} /\ deleted' = deleted \cup (bulk.closed \cap known)
        /\ UNCHANGED home
    BY <1>8 DEF BulkAnswered, MapPop, IdleBulk
  <2> USE <1>3, <2>1
  <2>2. KnownFirst' /\ LivesWhereBuilt' /\ CallsPointHome' /\ EntriesPointHome'
    BY DEF KnownFirst, LivesWhereBuilt, CallsPointHome, EntriesPointHome
  <2>3. GoneForGood'
    BY <1>2 DEF GoneForGood
  <2>4. StaysRouted'
    BY <1>2 DEF StaysRouted, RouterStays, LiveStaysRouted, GoneForGood
  <2>5. NothingLeftOver'
    BY <1>2 DEF NothingLeftOver, Quiet, LearnsOf
  <2>6. QED
    BY <1>1, <2>2, <2>3, <2>4, <2>5
<1>9. QED
  BY <1>5, <1>6, <1>7, <1>8 DEF BulkStep

LEMMA NextIInv == IInv /\ [Next]_vars => IInv'
<1>1. ASSUME IInv, UNCHANGED vars PROVE IInv'
  <2>1. TInv'
    BY <1>1, NextTInv DEF IInv
  <2>2. QED
    BY <1>1, <2>1 DEF vars, mapVars, IInv, Homes, KnownFirst, LivesWhereBuilt, CallsPointHome,
       EntriesPointHome, GoneForGood, StaysRouted, RouterStays, LiveStaysRouted, NothingLeftOver,
       Quiet, LearnsOf
<1>2. QED
  BY <1>1, NextSplit, WorldIInv, RestartIInv, PollIInv, CreateIInv, CallIInv, BulkIInv

LEMMA Reachable == Spec => []IInv
BY InitIInv, NextIInv, PTL DEF Spec

\* For any number of servers, instances and calls, the sticky map never sends a
\* call for a live instance to another server than the one it lives on.
THEOREM EntriesAreRight == Spec => []EntriesPointHome
<1>1. IInv => EntriesPointHome
  BY DEF IInv, Homes
<1>2. QED
  BY <1>1, Reachable, PTL

\* A live instance the client was told of stays routed while router and roster
\* stay, whatever happens to servers and requests.
THEOREM RoutesAreKept == Spec => []LiveStaysRouted
<1>1. IInv => LiveStaysRouted
  BY DEF IInv, StaysRouted, LiveStaysRouted
<1>2. QED
  BY <1>1, Reachable, PTL

\* InstanceGone is said only of instances that are gone: a call finds that out
\* from every node at once, or from its own node being down.
THEOREM GoneIsTrue == Spec => NoFalseGone
<1>1. ASSUME IInv, [Next]_vars, RouterStays, NEW c \in Call,
             call[c].pc # "gone", call'[c].pc = "gone"
      PROVE  home[call[c].inst] = None
  <2>1. call \in [Call -> Calls]
    BY <1>1 DEF IInv, TInv, TypeOK, Calls, Pcs
  <2>2. CallStep
    BY <1>1, NextSplit DEF vars, WorldStep, ServerDown, ServerUp, NodeReaps, OperatorEdits,
       RouterRestarts, RouterStays, PollStep, PollRoster, PollProbe, CooldownEnds, CreateStep,
       StartCreate, CreateRefused, CreateAnswered, NodeCreates, NodeFull, NodeUnreached,
       BulkStep, StartBulk, BulkAnswered, NodeCloses, BulkUnreached
  <2>3. RecoverMiss(c) \/ PresumedLost(c)
    <3>1. ASSUME NEW d \in Call, NEW o \in NodeObj, ProbeOne(d, o) PROVE FALSE
      BY <1>1, <2>1, <3>1 DEF ProbeOne, Calls
    <3>2. ASSUME NEW d \in Call, RecoverHit(d) \/ Serve(d) \/ ForwardFails(d) PROVE FALSE
      BY <1>1, <2>1, <3>2 DEF RecoverHit, Serve, ForwardFails, Calls
    <3>3. ASSUME NEW d \in Call, RecoverMiss(d) \/ PresumedLost(d) PROVE d = c
      BY <1>1, <2>1, <3>3 DEF RecoverMiss, PresumedLost
    <3>4. ASSUME NEW d \in Call, NEW i \in Inst, NEW kind \in {"touch", "delete"},
                 Arrive(d, i, kind)
          PROVE  FALSE
      BY <1>1, <2>1, <3>4 DEF Arrive, IdleCall
    <3>5. ASSUME NEW d \in Call, Relay(d) \/ NodeAlive(d) PROVE FALSE
      BY <1>1, <2>1, <3>5 DEF Relay, NodeAlive, IdleCall
    <3>6. QED
      BY <2>2, <3>1, <3>2, <3>3, <3>4, <3>5 DEF CallStep
  <2>4. CASE RecoverMiss(c)
    BY <1>1, <2>4 DEF RecoverMiss, IInv, StaysRouted
  <2>5. CASE PresumedLost(c)
    <3>1. call[c].inst \in Inst
      BY <1>1, <2>5 DEF PresumedLost, IInv, TInv, CallsPlaced
    <3>2. QED
      BY <1>1, <2>5, <3>1 DEF PresumedLost, Unreached, IInv, Homes, CallsPointHome,
         LivesWhereBuilt, Forwarded
  <2>6. QED
    BY <2>3, <2>4, <2>5
<1>2. IInv /\ [Next]_vars =>
        [RouterStays => \A c \in Call : call[c].pc # "gone" /\ call'[c].pc = "gone"
                           => home[call[c].inst] = None]_vars
  BY <1>1
<1>3. QED
  BY <1>2, Reachable, PTL DEF Spec, NoFalseGone

\* Where no server and no request fails, a deleted instance has no entry left
\* once the calls on it are over.
THEOREM DeletedIsUnmapped == Spec => []DeletedStayUnmapped
<1>1. IInv => DeletedStayUnmapped
  BY DEF IInv, NothingLeftOver, Quiet, LearnsOf, DeletedStayUnmapped, Busy
<1>2. QED
  BY <1>1, Reachable, PTL

-----------------------------------------------------------------------------
(* Liveness of the poller.  ENABLED is opaque to the provers: that a poll    *)
(* can do what there is to do is a hypothesis.  Its first half holds while   *)
(* Node objects are left to allocate (NodeObj is a bound of the model).      *)

HasNode(s) == \E o \in nodes : NameOf[o] = s

CanPoll(s) ==
  /\ Names(nodes) # file => ENABLED <<\E joined \in SUBSET NodeObj : PollRoster(joined)>>_vars
  /\ HasNode(s) /\ ~InUse(s) /\ s \in up =>
       ENABLED <<\E o \in NodeObj : NameOf[o] = s /\ PollProbe(o)>>_vars

PollsCanRun == \A s \in Server : RouterStays => CanPoll(s)

\* While router and roster stay, only the poller changes the roster.
LEMMA RosterSteps ==
  ASSUME RouterStays, [Next]_vars
  PROVE  /\ RouterStays' /\ file' = file
         /\ nodes' = nodes \/ \E joined \in SUBSET NodeObj : PollRoster(joined)
<1>1. CASE WorldStep
  BY <1>1 DEF WorldStep, ServerDown, ServerUp, NodeReaps, OperatorEdits, RouterStays, rosterVars
<1>2. CASE PollStep
  BY <1>2 DEF PollStep, PollRoster, PollProbe, CooldownEnds, RouterStays, worldVars
<1>3. CASE CreateStep
  BY <1>3 DEF CreateStep, StartCreate, CreateRefused, CreateAnswered, NodeCreates, NodeFull,
     NodeUnreached, RouterStays, worldVars, rosterVars
<1>4. CASE CallStep
  BY <1>4 DEF CallStep, Arrive, ProbeOne, RecoverHit, RecoverMiss, Serve, ForwardFails, Relay,
     NodeAlive, PresumedLost, RouterStays, worldVars, rosterVars
<1>5. CASE BulkStep
  BY <1>5 DEF BulkStep, StartBulk, BulkAnswered, NodeCloses, BulkUnreached, RouterStays,
     worldVars, rosterVars
<1>6. CASE UNCHANGED vars
  BY <1>6 DEF vars, worldVars, rosterVars, RouterStays
<1>7. CASE RouterRestarts
  BY <1>7 DEF RouterRestarts, RouterStays
<1>8. QED
  BY <1>1, <1>2, <1>3, <1>4, <1>5, <1>6, <1>7, NextSplit

\* A roster poll leaves exactly the nodes of the file in the roster.
LEMMA RosterPolled ==
  ASSUME NEW joined \in SUBSET NodeObj, PollRoster(joined), NEW s \in file
  PROVE  HasNode(s)'
<1>1. CASE s \in Names(nodes)
  BY <1>1 DEF PollRoster, Names, HasNode
<1>2. CASE s \notin Names(nodes)
  BY <1>2 DEF PollRoster, Names, HasNode
<1>3. QED
  BY <1>1, <1>2

\* A server of the file gets a node, keeps it, and by a probe is in use.
LEMMA ServerComesBack ==
  ASSUME NEW s \in Server
  PROVE  Spec /\ RouterStays /\ FairRoster /\ FairProbe(s) /\ [](RouterStays => CanPoll(s)) => ComesBack(s)
<1> DEFINE Wanted == s \in up /\ s \in file
           Polled == \E joined \in SUBSET NodeObj : PollRoster(joined)
           Probed == \E o \in NodeObj : NameOf[o] = s /\ PollProbe(o)
           Missing == Names(nodes) # file
           Idle_s == HasNode(s) /\ ~InUse(s) /\ s \in up
<1>1. RouterStays /\ [Next]_vars => RouterStays'
  BY RosterSteps
<1>2. RouterStays /\ Wanted /\ HasNode(s) /\ [Next]_vars => HasNode(s)'
  BY RosterSteps, RosterPolled DEF HasNode
<1>3. Wanted /\ <<Polled>>_vars => HasNode(s)'
  BY RosterPolled
<1>4. Wanted /\ ~HasNode(s) => Missing
  BY DEF Names, HasNode
<1>5. Wanted /\ <<Probed>>_vars => InUse(s)'
  BY DEF PollProbe, Unreached, InUse
<1>6. Wanted /\ HasNode(s) /\ ~InUse(s) => Idle_s
  OBVIOUS
<1>7. CanPoll(s) => /\ Missing => ENABLED <<Polled>>_vars
                    /\ Idle_s => ENABLED <<Probed>>_vars
  BY Zenon DEF CanPoll
<1>8. /\ FairRoster => WF_vars(Polled)
      /\ FairProbe(s) => WF_vars(Probed)
  BY PTL DEF FairRoster, FairProbe
<1>9. ComesBack(s) <=> (<>[]Wanted => []<>InUse(s))
  BY PTL DEF ComesBack
<1> HIDE DEF Wanted, Polled, Probed, Missing, Idle_s
<1>10. QED
  BY <1>1, <1>2, <1>3, <1>4, <1>5, <1>6, <1>7, <1>8, <1>9, PTL DEF Spec

\* While router and roster stay, a server that stays up and in the file is used
\* again and again, whatever the router once thought of it.
THEOREM AllServersComeBack == FairSpec /\ []PollsCanRun => ServersComeBack
<1>1. ASSUME NEW s \in Server
      PROVE  FairSpec /\ []PollsCanRun /\ RouterStays => ComesBack(s)
  <2>1. Spec /\ RouterStays /\ FairRoster /\ FairProbe(s) /\ [](RouterStays => CanPoll(s)) => ComesBack(s)
    BY ServerComesBack, Zenon
  <2>2. Fairness => FairRoster /\ FairProbe(s)
    BY Zenon DEF Fairness
  <2>3. PollsCanRun => (RouterStays => CanPoll(s))
    BY Zenon DEF PollsCanRun
  <2>4. QED
    BY <2>1, <2>2, <2>3, PTL DEF FairSpec
<1>2. (\A s \in Server : FairSpec /\ []PollsCanRun /\ RouterStays => ComesBack(s))
         => (FairSpec /\ []PollsCanRun /\ RouterStays => \A s \in Server : ComesBack(s))
  BY Zenon
<1>3. QED
  BY <1>1, <1>2, Zenon DEF ServersComeBack
=============================================================================
