-------------------------- MODULE ExecStdioProofs --------------------------
(***************************************************************************)
(* The exec-stdio session, for every number of calls and generations.      *)
(***************************************************************************)
EXTENDS ExecStdio, FiniteSetTheorems, SequenceTheorems, TLAPS

USE ExecAssumption DEF Call, Gen, LockFree, Waits

\* An op is sent at most once, or twice if it only reads, and a call that has
\* not begun has sent nothing.
Tries ==
  \A n \in Call :
    /\ ended[n] = "none" /\ (call.pc = "idle" \/ call.n # n) => Of(n) = {}
    /\ \E a, b \in Nat : Of(n) \subseteq {a, b} /\ (~retry[n] => a = b)

\* How often the op of the call under way has been sent: while its pipe is being
\* respawned, once if this is for its second try; and then this time.
Respawning == call.pc = "spawn" \/ (call.pc = "await" /\ call.ping)
Underway ==
  /\ call.pc # "idle" => call.n \in Call /\ ended[call.n] = "none"
  /\ Respawning => \E a \in Nat : Of(call.n) \subseteq IF call.again THEN {a} ELSE {}
  /\ call.pc \in Waits(FALSE) /\ ~call.ping =>
       /\ call.id \in Of(call.n)
       /\ IF call.again THEN retry[call.n] ELSE Of(call.n) = {call.id}

CallInv == Tries /\ Underway /\ AnsweredIsDone

\* While the close is undisturbed, no call is under way once it has begun, and
\* every identified process that runs is somewhere on its list.
Tracked ==
  /\ call.pc \in Waits(FALSE) => call.gen \in 1..gens /\ (call.ping => ident = 0)
  /\ call.pc = "drain" => ~call.ping
  /\ close # "kill" => victims = {}
  /\ close = "open" => ~spoilt
  /\ ~spoilt =>
       /\ close # "open" => call.pc = "idle"
       /\ close \in {"kill", "closed"} => retired = {} /\ ident = 0
       /\ named \cap up \subseteq retired \cup {ident} \cup victims

IInv == TypeOK /\ CallInv /\ Tracked

Calls == [pc : {"idle", "spawn", "drain", "await"}, n : 0..MaxCalls, again : BOOLEAN,
          ping : BOOLEAN, gen : 0..MaxGens, id : Nat]

LEMMA IdleTyped == Idle \in Calls /\ Idle.pc = "idle"
BY DEF Idle, Calls

LEMMA RespawnTyped ==
  ASSUME NEW n \in Call, NEW again \in BOOLEAN, Respawn(n, again)
  PROVE  call' \in Calls /\ call'.pc = "spawn" /\ proc' = 0 /\ UNCHANGED reqs
<1>1. call' = [pc |-> "spawn", n |-> n, again |-> again, ping |-> FALSE, gen |-> 0, id |-> 0]
  BY DEF Respawn, Idle
<1>2. n \in 0..MaxCalls /\ 0 \in 0..MaxGens
  OBVIOUS
<1> HIDE DEF Call, Gen
<1>3. call' \in Calls /\ call'.pc = "spawn"
  BY <1>1, <1>2 DEF Calls
<1>4. QED
  BY <1>3 DEF Respawn

-----------------------------------------------------------------------------
(* Requests *)

LEMMA ReqsTyped ==
  ASSUME TypeOK
  PROVE  /\ reqs \in Seq(Requests) /\ Len(reqs) \in Nat /\ DOMAIN reqs = 1..Len(reqs)
         /\ \A i \in DOMAIN reqs : reqs[i] \in Requests
BY LenProperties, ElementOfSeq DEF TypeOK

\* Marking request i leaves the requests what they are.
LEMMA Marked ==
  ASSUME TypeOK, NEW i \in DOMAIN reqs, NEW s \in {"running", "replied", "read"}
  PROVE  LET q == [reqs EXCEPT ![i].st = s] IN
         /\ q \in Seq(Requests) /\ Len(q) = Len(reqs) /\ DOMAIN q = DOMAIN reqs
         /\ \A j \in DOMAIN reqs : q[j].call = reqs[j].call /\ q[j].gen = reqs[j].gen
         /\ q[i].st = s /\ \A j \in DOMAIN reqs \ {i} : q[j] = reqs[j]
<1> DEFINE r == [reqs[i] EXCEPT !.st = s]
           q == [reqs EXCEPT ![i] = r]
<1>1. r \in Requests /\ r.call = reqs[i].call /\ r.gen = reqs[i].gen /\ r.st = s
  BY ReqsTyped DEF Requests
<1>2. [reqs EXCEPT ![i].st = s] = q
  OBVIOUS
<1> HIDE DEF r
<1>3. q \in Seq(Requests) /\ Len(q) = Len(reqs)
      /\ \A j \in 1..Len(reqs) : q[j] = IF j = i THEN r ELSE reqs[j]
  BY <1>1, ReqsTyped, ExceptSeq
<1>4. DOMAIN q = DOMAIN reqs
  OBVIOUS
<1> HIDE DEF q
<1>5. QED
  BY <1>1, <1>2, <1>3, <1>4, ReqsTyped

\* A request is added to requests q that are for the same calls.
LEMMA Asked ==
  ASSUME TypeOK, NEW q \in Seq(Requests), Len(q) = Len(reqs),
         \A j \in DOMAIN reqs : q[j].call = reqs[j].call,
         NEW g \in Gen, NEW n \in 0..MaxCalls, reqs' = Append(q, Request(g, n))
  PROVE  /\ reqs' \in Seq(Requests) /\ Len(reqs)' = Len(reqs) + 1
         /\ DOMAIN reqs' = DOMAIN reqs \cup {Len(reqs) + 1}
         /\ \A j \in DOMAIN reqs : reqs'[j] = q[j]
         /\ \A m : Of(m)' = IF m = n THEN Of(m) \cup {Len(reqs) + 1} ELSE Of(m)
<1>1. Request(g, n) \in Requests /\ Request(g, n).call = n
  BY DEF Request, Requests
<1>2. /\ reqs' \in Seq(Requests) /\ Len(reqs)' = Len(reqs) + 1
      /\ \A j \in 1..Len(reqs) : reqs'[j] = q[j]
      /\ reqs'[Len(reqs) + 1] = Request(g, n)
  BY <1>1, AppendProperties
<1>3. DOMAIN reqs = 1..Len(reqs) /\ Len(reqs) \in Nat /\ DOMAIN reqs' = 1..(Len(reqs) + 1)
  BY <1>2, ReqsTyped, LenProperties
<1>4. DOMAIN reqs' = DOMAIN reqs \cup {Len(reqs) + 1}
  BY <1>3
<1>5. \A j \in DOMAIN reqs : reqs'[j].call = reqs[j].call
  BY <1>2, <1>3
<1>6. ASSUME NEW m PROVE Of(m)' = IF m = n THEN Of(m) \cup {Len(reqs) + 1} ELSE Of(m)
  BY <1>1, <1>2, <1>4, <1>5 DEF Of
<1>7. QED
  BY <1>2, <1>3, <1>4, <1>6

-----------------------------------------------------------------------------
(* Steps that leave the call under way alone, and the end of a call *)

\* The requests stay for the same calls, and what was read stays read.
SameReqs ==
  /\ DOMAIN reqs' = DOMAIN reqs
  /\ \A j \in DOMAIN reqs : /\ reqs'[j].call = reqs[j].call
                            /\ reqs[j].st = "read" => reqs'[j].st = "read"

LEMMA SameOf == SameReqs => \A n : Of(n)' = Of(n)
BY DEF SameReqs, Of

LEMMA Aside ==
  ASSUME TypeOK, CallInv, SameReqs, UNCHANGED <<call, retry, ended>>
  PROVE  CallInv'
<1>1. Tries' /\ Underway'
  BY SameOf DEF CallInv, Tries, Underway, Respawning
<1>2. AnsweredIsDone'
  BY SameOf DEF CallInv, AnsweredIsDone, SameReqs, Of
<1>3. QED
  BY <1>1, <1>2 DEF CallInv

LEMMA Fails ==
  ASSUME TypeOK, CallInv, call.pc # "idle", Ends("failed"), UNCHANGED retry, SameReqs
  PROVE  CallInv'
<1>1. /\ call'.pc = "idle"
      /\ \A n \in Call : ended'[n] = IF n = call.n THEN "failed" ELSE ended[n]
  BY DEF Ends, Idle, TypeOK
<1>2. Tries'
  BY <1>1, SameOf DEF CallInv, Tries
<1>3. Underway'
  BY <1>1 DEF Underway, Respawning
<1>4. AnsweredIsDone'
  BY <1>1, SameOf DEF CallInv, AnsweredIsDone, SameReqs, Of
<1>5. QED
  BY <1>2, <1>3, <1>4 DEF CallInv
-----------------------------------------------------------------------------
(* The call under way *)

\* What a call may do to the record of itself.
Sent(n, g, again, ping, id) ==
  \E pc \in Waits(ping) :
    call' = [pc |-> pc, n |-> n, again |-> again, ping |-> ping, gen |-> g, id |-> id]

\* Its op has been sent, for the first time or, if it only reads, for the second.
LEMMA OpSent ==
  ASSUME TypeOK, CallInv, NEW n \in Call, NEW g \in Gen, NEW again \in BOOLEAN,
         NEW q \in Seq(Requests), Len(q) = Len(reqs),
         \A j \in DOMAIN reqs : /\ q[j].call = reqs[j].call
                                /\ reqs[j].st = "read" => q[j].st = "read",
         reqs' = Append(q, Request(g, n)), Sent(n, g, again, FALSE, Len(reqs) + 1),
         ended[n] = "none", \A m \in Call \ {n} : retry'[m] = retry[m], retry'[n] \in BOOLEAN,
         again => retry'[n], IF again THEN \E a \in Nat : Of(n) \subseteq {a} ELSE Of(n) = {},
         UNCHANGED ended, call.pc = "idle" \/ call.n = n
  PROVE  CallInv'
<1> DEFINE new == Len(reqs) + 1
<1>1. n \in 0..MaxCalls /\ new \in Nat
  BY ReqsTyped
<1>2. /\ \A m : Of(m)' = IF m = n THEN Of(m) \cup {new} ELSE Of(m)
      /\ \A j \in DOMAIN reqs : reqs'[j] = q[j]
  BY <1>1, Asked
<1>3. /\ call'.pc \in Waits(FALSE) /\ call'.n = n /\ ~call'.ping
      /\ call'.again = again /\ call'.id = new
  BY DEF Sent
<1> HIDE DEF new
<1>4. PICK a \in Nat : Of(n) \subseteq IF again THEN {a} ELSE {}
  BY <1>1
<1>5. Tries'
  <2>1. ASSUME NEW m \in Call, m # n
        PROVE  /\ ended'[m] = "none" => Of(m)' = {}
               /\ \E x, y \in Nat : Of(m)' \subseteq {x, y} /\ (~retry'[m] => x = y)
    BY <1>2, <2>1 DEF CallInv, Tries
  <2>2. \E x, y \in Nat : Of(n)' \subseteq {x, y} /\ (~retry'[n] => x = y)
    <3>1. CASE again
      <4>1. Of(n)' \subseteq {a, new}
        BY <1>2, <1>4, <3>1
      <4>2. retry'[n]
        BY <3>1
      <4>3. QED
        BY <1>1, <4>1, <4>2
    <3>2. CASE ~again
      BY <1>1, <1>2, <1>4, <3>2
    <3>3. QED
      BY <3>1, <3>2
  <2>3. QED
    BY <1>3, <2>1, <2>2 DEF Tries
<1>6. Underway'
  BY <1>2, <1>3 DEF Underway, Respawning
<1>7. AnsweredIsDone'
  <2>1. ASSUME NEW m \in Call, ended'[m] = "answered"
        PROVE  /\ Of(m)' = Of(m) /\ retry'[m] = retry[m] /\ ended[m] = "answered"
               /\ \A i \in Of(m) : reqs[i].st = "read" => reqs'[i].st = "read"
    BY ZenonT(60), <1>2, <2>1 DEF Of
  <2>2. ASSUME NEW m \in Call, ended'[m] = "answered"
        PROVE  /\ \E i \in Of(m)' : reqs'[i].st = "read"
               /\ ~retry'[m] => \A i \in Of(m)' : reqs'[i].st = "read"
    <3>1. /\ \E i \in Of(m) : reqs[i].st = "read"
          /\ ~retry[m] => \A i \in Of(m) : reqs[i].st = "read"
      BY <2>1, <2>2 DEF CallInv, AnsweredIsDone
    <3>2. QED
      BY ZenonT(60), <2>1, <2>2, <3>1
  <2>3. QED
    BY <2>2 DEF AnsweredIsDone
<1>8. QED
  BY <1>5, <1>6, <1>7 DEF CallInv

\* Its pipe is being respawned.
LEMMA Respawned ==
  ASSUME TypeOK, CallInv, NEW n \in Call, NEW again \in BOOLEAN, Respawn(n, again),
         ended[n] = "none", \A m \in Call \ {n} : retry'[m] = retry[m], retry'[n] \in BOOLEAN,
         call.pc = "idle" \/ (call.n = n /\ UNCHANGED retry),
         IF again THEN \E a \in Nat : Of(n) \subseteq {a} ELSE Of(n) = {},
         UNCHANGED ended
  PROVE  CallInv'
<1>1. call'.pc = "spawn" /\ call'.n = n /\ call'.again = again /\ ~call'.ping
  BY DEF Respawn, Idle
<1>2. \A m : Of(m)' = Of(m)
  BY DEF Respawn, Of
<1>3. Tries'
  <2>1. ASSUME NEW m \in Call, m # n
        PROVE  /\ ended'[m] = "none" => Of(m)' = {}
               /\ \E x, y \in Nat : Of(m)' \subseteq {x, y} /\ (~retry'[m] => x = y)
    BY <1>2, <2>1 DEF CallInv, Tries
  <2>2. \E x, y \in Nat : Of(n)' \subseteq {x, y} /\ (~retry'[n] => x = y)
    BY <1>2 DEF CallInv, Tries
  <2>3. QED
    BY <1>1, <2>1, <2>2 DEF Tries
<1>4. Underway'
  BY <1>1, <1>2 DEF Underway, Respawning
<1>5. AnsweredIsDone'
  BY <1>2 DEF CallInv, AnsweredIsDone, Respawn
<1>6. QED
  BY <1>3, <1>4, <1>5 DEF CallInv

\* A new generation is asked who it is.
LEMMA Pinged ==
  ASSUME TypeOK, CallInv, call.pc = "spawn", NEW g \in Gen,
         Ask(call.n, g, call.again, TRUE), UNCHANGED <<retry, ended>>
  PROVE  CallInv'
<1> DEFINE new == Len(reqs) + 1
<1>1. reqs' = Append(reqs, Request(g, 0)) /\ 0 \in 0..MaxCalls
  BY DEF Ask
<1>2. /\ \A m : Of(m)' = IF m = 0 THEN Of(m) \cup {new} ELSE Of(m)
      /\ \A j \in DOMAIN reqs : reqs'[j] = reqs[j]
  BY <1>1, Asked, ReqsTyped
<1>3. \A m \in Call : Of(m)' = Of(m)
  BY <1>2
<1>4. /\ call'.pc = "await" /\ call'.n = call.n /\ call'.ping /\ call'.again = call.again
      /\ call.n \in Call
  BY DEF Ask, CallInv, Underway
<1>5. Tries' /\ Underway'
  BY <1>3, <1>4 DEF CallInv, Tries, Underway, Respawning
<1>6. AnsweredIsDone'
  <2>1. ASSUME NEW m \in Call, NEW i \in Of(m) PROVE reqs'[i] = reqs[i]
    BY <1>2 DEF Of
  <2>2. QED
    BY <1>3, <2>1 DEF CallInv, AnsweredIsDone
<1>7. QED
  BY <1>5, <1>6 DEF CallInv

\* Its op is answered.
LEMMA Answered ==
  ASSUME TypeOK, CallInv, OpAnswered
  PROVE  CallInv'
<1>1. PICK i \in DOMAIN reqs : /\ ReadsOwn(i) /\ ~call.ping
                              /\ reqs' = [reqs EXCEPT ![i].st = "read"]
                              /\ Ends("answered") /\ UNCHANGED retry
  BY DEF OpAnswered
<1>2. /\ call.pc = "await" /\ i = call.id /\ call.n \in Call
      /\ i \in Of(call.n) /\ (~retry[call.n] => Of(call.n) = {i})
  BY <1>1 DEF ReadsOwn, CallInv, Underway, TypeOK
<1>3. SameReqs /\ reqs'[i].st = "read"
  BY <1>1, Marked DEF SameReqs
<1>4. /\ call'.pc = "idle"
      /\ \A n \in Call : ended'[n] = IF n = call.n THEN "answered" ELSE ended[n]
  BY <1>1 DEF Ends, Idle, TypeOK
<1>5. Tries' /\ Underway'
  BY <1>1, <1>3, <1>4, SameOf DEF CallInv, Tries, Underway, Respawning
<1>6. AnsweredIsDone'
  <2>1. ASSUME NEW n \in Call, ended'[n] = "answered"
        PROVE  /\ \E j \in Of(n)' : reqs'[j].st = "read"
               /\ ~retry'[n] => \A j \in Of(n)' : reqs'[j].st = "read"
    <3>1. CASE n = call.n
      BY <1>1, <1>2, <1>3, <3>1, SameOf
    <3>2. CASE n # call.n
      <4>1. ended[n] = "answered" /\ Of(n)' = Of(n) /\ UNCHANGED retry
        BY <1>1, <1>3, <1>4, <2>1, <3>2, SameOf
      <4>2. \A j \in Of(n) : reqs[j].st = "read" => reqs'[j].st = "read"
        BY <1>3 DEF SameReqs, Of
      <4>3. QED
        BY <4>1, <4>2 DEF CallInv, AnsweredIsDone
    <3>3. QED
      BY <3>1, <3>2
  <2>2. QED
    BY <2>1 DEF AnsweredIsDone
<1>7. QED
  BY <1>5, <1>6 DEF CallInv
-----------------------------------------------------------------------------
(* Every step keeps the invariant *)

LEMMA InitIInv == Init => IInv
<1> SUFFICES ASSUME Init PROVE IInv
  OBVIOUS
<1> USE DEF Init
<1>1. TypeOK
  <2>1. reqs \in Seq(Requests) /\ 1 \in Gen /\ {1} \subseteq 1..1
    BY EmptySeq
  <2>2. /\ gens \in Gen /\ proc \in 0..gens /\ ident \in 0..gens /\ retired \subseteq 1..gens
        /\ up \subseteq 1..gens /\ victims \subseteq 1..gens /\ named \subseteq 1..gens
    BY <2>1
  <2>3. retry \in [Call -> BOOLEAN] /\ ended \in [Call -> {"none", "answered", "failed"}]
    OBVIOUS
  <2>4. call \in Calls /\ call.pc = "idle"
    BY IdleTyped
  <2>5. close \in {"open", "drop", "kill", "closed"} /\ spoilt \in BOOLEAN
    OBVIOUS
  <2>6. QED
    BY <2>1, <2>2, <2>3, <2>4, <2>5 DEF TypeOK, Calls
<1>2. DOMAIN reqs = {} /\ \A n : Of(n) = {}
  BY EmptySeq DEF Of
<1>3. CallInv
  <2>1. \E a, b \in Nat : {} \subseteq {a, b} /\ a = b
    <3>1. 0 \in Nat
      OBVIOUS
    <3>2. QED
      BY <3>1
  <2>2. Tries
    BY <1>2, <2>1 DEF Tries
  <2>3. QED
    BY <1>2, <2>2 DEF CallInv, Underway, Respawning, AnsweredIsDone, Idle
<1>4. Tracked
  BY DEF Tracked, Idle
<1>5. QED
  BY <1>1, <1>3, <1>4 DEF IInv

LEMMA BeginIInv ==
  ASSUME IInv, NEW n \in Call, NEW again \in BOOLEAN, Begin(n, again)
  PROVE  IInv'
<1> USE DEF IInv
<1>1. /\ call.pc = "idle" /\ ended[n] = "none" /\ spoilt' = (spoilt \/ close # "open")
      /\ UNCHANGED <<ended, gens, ident, retired, up, close, victims, named>>
      /\ retry' = [retry EXCEPT ![n] = again]
  BY DEF Begin
<1>2. /\ retry' \in [Call -> BOOLEAN] /\ \A m \in Call \ {n} : retry'[m] = retry[m]
      /\ Of(n) = {} /\ n \in 0..MaxCalls
  BY <1>1 DEF TypeOK, CallInv, Tries
<1>3. CASE proc # 0 /\ Ask(n, proc, FALSE, FALSE) /\ UNCHANGED proc
  <2>1. proc \in Gen /\ proc \in 1..gens
    BY <1>3 DEF TypeOK
  <2>2. reqs' = Append(reqs, Request(proc, n)) /\ Sent(n, proc, FALSE, FALSE, Len(reqs) + 1)
    BY <1>3 DEF Ask, Sent
  <2>3. CallInv'
    BY <1>1, <1>2, <2>1, <2>2, OpSent, ReqsTyped
  <2>4. reqs' \in Seq(Requests) /\ Len(reqs) + 1 \in DOMAIN reqs' /\ Len(reqs) + 1 \in Nat
    BY <1>2, <2>1, <2>2, Asked, ReqsTyped
  <2>5. TypeOK'
    <3>1. call' \in Calls /\ call'.id = Len(reqs) + 1
      BY <1>2, <2>1, <2>2, <2>4 DEF Sent, Calls
    <3>2. QED
      BY <1>1, <1>2, <1>3, <2>4, <3>1 DEF TypeOK, Calls
  <2>6. Tracked'
    <3>1. call'.pc \in Waits(FALSE) /\ call'.gen = proc /\ ~call'.ping
      BY <2>2 DEF Sent
    <3>2. QED
      BY <1>1, <2>1, <3>1 DEF Tracked
  <2>7. QED
    BY <2>3, <2>5, <2>6
<1>4. CASE Respawn(n, FALSE)
  <2>1. CallInv'
    BY <1>1, <1>2, <1>4, Respawned
  <2>0. call' \in Calls /\ call'.pc = "spawn" /\ proc' = 0 /\ UNCHANGED reqs
    BY <1>4, RespawnTyped
  <2>2. TypeOK'
    BY <1>1, <1>2, <2>0 DEF TypeOK, Calls
  <2>3. Tracked'
    BY <1>1, <1>4 DEF Tracked, Respawn, Idle
  <2>4. QED
    BY <2>1, <2>2, <2>3
<1>5. QED
  BY <1>3, <1>4 DEF Begin

LEMMA SpawnIInv == IInv /\ Spawn => IInv'
<1> SUFFICES ASSUME IInv, Spawn PROVE IInv'
  OBVIOUS
<1> USE DEF IInv
<1>1. /\ call.pc = "spawn" /\ gens + 1 \in Gen /\ gens' = gens + 1 /\ proc' = gens + 1
      /\ up' = up \cup {gens + 1} /\ retired' = retired \cup ({ident} \ {0}) /\ ident' = 0
      /\ Ask(call.n, gens + 1, call.again, TRUE)
      /\ UNCHANGED <<retry, ended, close, victims, spoilt, named>>
  <2>1. gens + 1 \in Gen
    BY DEF Spawn, TypeOK
  <2>2. QED
    BY <2>1 DEF Spawn, Retire, closeVars
<1>2. CallInv'
  BY <1>1, Pinged
<1>3. reqs' \in Seq(Requests) /\ Len(reqs) + 1 \in DOMAIN reqs' /\ Len(reqs) + 1 \in Nat
  <2>1. reqs' = Append(reqs, Request(gens + 1, 0)) /\ 0 \in 0..MaxCalls
    BY <1>1 DEF Ask
  <2>2. QED
    BY <1>1, <2>1, Asked, ReqsTyped
<1>4. call' = [pc |-> "await", n |-> call.n, again |-> call.again, ping |-> TRUE,
               gen |-> gens + 1, id |-> Len(reqs) + 1]
  BY <1>1 DEF Ask
<1>5. gens \in Nat /\ 1..gens \subseteq 1..(gens + 1) /\ 0..gens \subseteq 0..(gens + 1)
      /\ call.n \in 0..MaxCalls /\ call.again \in BOOLEAN
  BY DEF TypeOK
<1>6. TypeOK'
  <2>1. call' \in [pc : {"idle", "spawn", "drain", "await"}, n : 0..MaxCalls, again : BOOLEAN,
                   ping : BOOLEAN, gen : 0..MaxGens, id : Nat]
    BY <1>1, <1>3, <1>4, <1>5
  <2>2. /\ gens' \in Gen /\ proc' \in 0..gens' /\ ident' \in 0..gens' /\ retired' \subseteq 1..gens'
        /\ up' \subseteq 1..gens' /\ victims' \subseteq 1..gens' /\ named' \subseteq 1..gens'
    BY <1>1, <1>5 DEF TypeOK
  <2>3. QED
    BY <1>1, <1>3, <1>4, <2>1, <2>2 DEF TypeOK
<1>7. Tracked'
  <2>1. gens + 1 \notin named
    BY <1>5 DEF TypeOK
  <2>2. call'.pc = "await" /\ call'.gen = gens'
    BY <1>1, <1>4
  <2>3. gens' \in 1..gens'
    BY <1>1, <1>5
  <2>4. QED
    BY <1>1, <2>1, <2>2, <2>3 DEF Tracked
<1>8. QED
  BY <1>2, <1>6, <1>7

\* A call that fails leaves the session to the next.
LEMMA FailsIInv ==
  ASSUME IInv, call.pc # "idle", Ends("failed"), SameReqs, reqs' \in Seq(Requests),
         UNCHANGED <<retry, gens, proc, up, close, victims, spoilt>>,
         \/ Retire /\ UNCHANGED named
         \/ UNCHANGED <<ident, retired, named>>
         \/ /\ ident = 0 /\ ident' \in 1..gens /\ named' = named \cup {ident'}
            /\ UNCHANGED retired
  PROVE  IInv'
<1> USE DEF IInv
<1>1. CallInv'
  BY Fails
<1>2. call' = Idle /\ ended' \in [Call -> {"none", "answered", "failed"}]
  BY DEF Ends, TypeOK
<1>3. TypeOK'
  <2>1. ident' \in 0..gens /\ retired' \subseteq 1..gens /\ named' \subseteq 1..gens
    <3>1. 0 \in 0..gens /\ 1..gens \subseteq 0..gens /\ {ident} \ {0} \subseteq 1..gens
      BY DEF TypeOK
    <3>2. CASE Retire /\ UNCHANGED named
      BY <3>1, <3>2 DEF TypeOK, Retire
    <3>3. CASE UNCHANGED <<ident, retired, named>>
      BY <3>3 DEF TypeOK
    <3>4. CASE ident = 0 /\ ident' \in 1..gens /\ named' = named \cup {ident'} /\ UNCHANGED retired
      BY <3>1, <3>4 DEF TypeOK
    <3>5. QED
      BY <3>2, <3>3, <3>4
  <2>2. QED
    BY <1>2, <2>1, IdleTyped DEF TypeOK, Calls
<1>4. Tracked'
  <2>1. call'.pc = "idle" /\ (~spoilt => close = "open")
    BY <1>2, IdleTyped DEF Tracked
  <2>2. ~spoilt => named' \cap up \subseteq retired' \cup {ident'} \cup victims
    <3>1. CASE Retire /\ UNCHANGED named
      <4>1. 0 \notin named
        BY DEF TypeOK
      <4>2. QED
        BY <3>1, <4>1 DEF Tracked, Retire
    <3>2. CASE UNCHANGED <<ident, retired, named>>
      BY <3>2 DEF Tracked
    <3>3. CASE ident = 0 /\ named' = named \cup {ident'} /\ UNCHANGED retired
      <4>1. 0 \notin named
        BY DEF TypeOK
      <4>2. QED
        BY <3>3, <4>1 DEF Tracked
    <3>4. QED
      BY <3>1, <3>2, <3>3
  <2>3. QED
    BY <2>1, <2>2 DEF Tracked
<1>5. QED
  BY <1>1, <1>3, <1>4

LEMMA HandshakeIInv == IInv /\ HandshakeOk => IInv'
<1> SUFFICES ASSUME IInv, HandshakeOk PROVE IInv'
  OBVIOUS
<1> USE DEF IInv
<1> DEFINE read(i) == [reqs EXCEPT ![i].st = "read"]
<1>1. PICK i \in DOMAIN reqs :
        /\ ReadsOwn(i) /\ call.ping
        /\ ident' = call.gen /\ named' = named \cup {call.gen}
        /\ IF call.again /\ ~retry[call.n]
           THEN Ends("failed") /\ reqs' = read(i)
           ELSE /\ reqs' = Append(read(i), Request(call.gen, call.n))
                /\ \E pc \in Waits(FALSE) :
                     call' = [call EXCEPT !.pc = pc, !.ping = FALSE, !.id = Len(reqs) + 1]
                /\ UNCHANGED ended
        /\ UNCHANGED <<retry, gens, proc, retired, up, close, victims, spoilt>>
  BY DEF HandshakeOk, closeVars
<1>2. call.pc = "await" /\ ident = 0 /\ call.gen \in 1..gens /\ call.gen \in Gen
      /\ 1..gens \subseteq Gen
  BY <1>1 DEF ReadsOwn, Tracked, TypeOK
<1>3. /\ read(i) \in Seq(Requests) /\ Len(read(i)) = Len(reqs) /\ DOMAIN read(i) = DOMAIN reqs
      /\ \A j \in DOMAIN reqs : /\ read(i)[j].call = reqs[j].call
                                /\ reqs[j].st = "read" => read(i)[j].st = "read"
  BY Marked
<1>4. CASE call.again /\ ~retry[call.n]
  BY <1>1, <1>2, <1>3, <1>4, FailsIInv DEF SameReqs
<1>5. CASE ~(call.again /\ ~retry[call.n])
  <2>1. /\ reqs' = Append(read(i), Request(call.gen, call.n))
        /\ \E pc \in Waits(FALSE) :
             call' = [call EXCEPT !.pc = pc, !.ping = FALSE, !.id = Len(reqs) + 1]
        /\ UNCHANGED ended
    BY <1>1, <1>5
  <2>2. /\ call.n \in Call /\ call.n \in 0..MaxCalls /\ ended[call.n] = "none"
        /\ call.again \in BOOLEAN /\ (call.again => retry[call.n]) /\ retry[call.n] \in BOOLEAN
    BY <1>2, <1>5 DEF CallInv, Underway, TypeOK
  <2>3. Sent(call.n, call.gen, call.again, FALSE, Len(reqs) + 1)
    BY <1>2, <2>1 DEF Sent, TypeOK
  <2>4. IF call.again THEN \E a \in Nat : Of(call.n) \subseteq {a} ELSE Of(call.n) = {}
    <3>1. \E a \in Nat : Of(call.n) \subseteq IF call.again THEN {a} ELSE {}
      BY <1>1, <1>2 DEF CallInv, Underway, Respawning
    <3>2. QED
      BY <2>2, <3>1
  <2> HIDE DEF read
  <2>5. CallInv'
    <3> DEFINE q == read(i)
               n == call.n
               g == call.gen
               again == call.again
    <3>1. /\ q \in Seq(Requests) /\ Len(q) = Len(reqs)
          /\ \A j \in DOMAIN reqs : /\ q[j].call = reqs[j].call
                                    /\ reqs[j].st = "read" => q[j].st = "read"
          /\ reqs' = Append(q, Request(g, n))
      BY <1>3, <2>1
    <3>2. /\ n \in Call /\ g \in Gen /\ again \in BOOLEAN /\ ended[n] = "none"
          /\ (again => retry[n]) /\ retry[n] \in BOOLEAN /\ call.n = n
          /\ Sent(n, g, again, FALSE, Len(reqs) + 1) /\ UNCHANGED <<retry, ended>>
          /\ IF again THEN \E a \in Nat : Of(n) \subseteq {a} ELSE Of(n) = {}
      BY <1>1, <1>2, <2>1, <2>2, <2>3, <2>4
    <3> HIDE DEF q, n, g, again
    <3>3. QED
      BY <3>1, <3>2, OpSent
  <2>6. reqs' \in Seq(Requests) /\ Len(reqs) + 1 \in DOMAIN reqs' /\ Len(reqs) + 1 \in Nat
    <3> DEFINE q == read(i)
    <3>1. /\ q \in Seq(Requests) /\ Len(q) = Len(reqs)
          /\ \A j \in DOMAIN reqs : q[j].call = reqs[j].call
          /\ reqs' = Append(q, Request(call.gen, call.n))
      BY <1>3, <2>1
    <3> HIDE DEF q
    <3>2. QED
      BY <1>2, <2>2, <3>1, Asked, ReqsTyped
  <2>7. TypeOK'
    <3>1. call' \in Calls /\ call'.id = Len(reqs) + 1
      BY <1>2, <2>2, <2>3, <2>6 DEF Sent, Calls
    <3>2. ident' \in 0..gens /\ named' \subseteq 1..gens
      BY <1>1, <1>2 DEF TypeOK
    <3>3. QED
      BY <1>1, <2>1, <2>6, <3>1, <3>2 DEF TypeOK, Calls
  <2>8. Tracked'
    <3>1. call'.pc \in Waits(FALSE) /\ call'.gen = call.gen /\ ~call'.ping
      BY <2>3 DEF Sent
    <3>2. 0 \notin named
      BY DEF TypeOK
    <3>3. QED
      BY <1>1, <1>2, <3>1, <3>2 DEF Tracked
  <2>9. QED
    BY <2>5, <2>7, <2>8
<1>6. QED
  BY <1>4, <1>5

\* There is room for the op, and only the wait is another.
LEMMA DrainedIInv == IInv /\ Drained => IInv'
<1> SUFFICES ASSUME IInv, Drained PROVE IInv'
  OBVIOUS
<1> USE DEF IInv
<1>1. /\ call.pc = "drain" /\ call' = [call EXCEPT !.pc = "await"] /\ ~call.ping
      /\ UNCHANGED <<retry, ended, reqs, gens, proc, ident, retired, up, close, victims, spoilt, named>>
  BY DEF Drained, Tracked, closeVars
<1>2. /\ call' \in Calls /\ call'.pc = "await" /\ call'.n = call.n /\ call'.again = call.again
      /\ ~call'.ping /\ call'.gen = call.gen /\ call'.id = call.id
  BY <1>1 DEF TypeOK, Calls
<1>3. \A n : Of(n)' = Of(n)
  BY <1>1 DEF Of
<1>4. Tries' /\ Underway' /\ AnsweredIsDone'
  BY <1>1, <1>2, <1>3 DEF CallInv, Tries, Underway, Respawning, AnsweredIsDone
<1>5. TypeOK'
  BY <1>1, <1>2 DEF TypeOK, Calls
<1>6. Tracked'
  BY <1>1, <1>2 DEF Tracked
<1>7. QED
  BY <1>4, <1>5, <1>6 DEF CallInv

LEMMA AnsweredIInv == IInv /\ OpAnswered => IInv'
<1> SUFFICES ASSUME IInv, OpAnswered PROVE IInv'
  OBVIOUS
<1> USE DEF IInv
<1>1. CallInv'
  BY Answered
<1>2. PICK i \in DOMAIN reqs :
        /\ reqs' = [reqs EXCEPT ![i].st = "read"] /\ call.pc = "await"
        /\ call' = Idle /\ ended' = [ended EXCEPT ![call.n] = "answered"]
        /\ UNCHANGED <<retry, gens, proc, ident, retired, up, close, victims, spoilt, named>>
  BY DEF OpAnswered, Ends, closeVars, ReadsOwn
<1>3. reqs' \in Seq(Requests)
  BY <1>2, Marked
<1>4. TypeOK'
  <2>1. ended' \in [Call -> {"none", "answered", "failed"}]
    BY <1>2 DEF TypeOK
  <2>2. QED
    BY <1>2, <1>3, <2>1, IdleTyped DEF TypeOK, Calls
<1>5. Tracked'
  BY <1>2, IdleTyped DEF Tracked
<1>6. QED
  BY <1>1, <1>4, <1>5

LEMMA RoundtripIInv == IInv /\ RoundtripFails => IInv'
<1> SUFFICES ASSUME IInv, RoundtripFails PROVE IInv'
  OBVIOUS
<1> USE DEF IInv
<1>1. /\ call.pc \in Waits(FALSE)
      /\ UNCHANGED <<retry, gens, ident, retired, up, close, victims, spoilt, named>>
  BY DEF RoundtripFails, closeVars
<1>2. CASE call.ping \/ call.again
  <2>1. SameReqs /\ reqs' \in Seq(Requests) /\ Ends("failed") /\ UNCHANGED proc
    BY <1>2, ReqsTyped DEF RoundtripFails, SameReqs
  <2>2. QED
    BY <1>1, <2>1, FailsIInv
<1>3. CASE ~(call.ping \/ call.again)
  <2>1. Respawn(call.n, TRUE) /\ UNCHANGED <<ended, reqs>>
    BY <1>3 DEF RoundtripFails, Respawn
  <2>2. call.n \in Call /\ ended[call.n] = "none" /\ Of(call.n) = {call.id} /\ call.id \in Nat
        /\ retry[call.n] \in BOOLEAN
    BY <1>1, <1>3 DEF CallInv, Underway, TypeOK
  <2>3. \E a \in Nat : Of(call.n) \subseteq {a}
    BY <2>2
  <2>4. CallInv'
    BY <1>1, <2>1, <2>2, <2>3, Respawned
  <2>0. call' \in Calls /\ call'.pc = "spawn" /\ proc' = 0 /\ UNCHANGED reqs
    BY <2>1, <2>2, RespawnTyped
  <2>5. TypeOK'
    BY <1>1, <2>0, <2>1 DEF TypeOK, Calls
  <2>6. Tracked'
    BY <1>1, <2>1 DEF Tracked, Respawn, Idle
  <2>7. QED
    BY <2>4, <2>5, <2>6
<1>4. QED
  BY <1>2, <1>3

LEMMA CloseIInv == IInv /\ CloseStep => IInv'
<1> SUFFICES ASSUME IInv, CloseStep PROVE IInv'
  OBVIOUS
<1> USE DEF IInv
<1> USE DEF CloseStep, CloseBegins, Reap, Kill, CloseEnds, CloseCut, hostVars
<1>1. UNCHANGED <<call, retry, ended, reqs, gens, named>>
  OBVIOUS
<1>2. CallInv'
  BY <1>1, Aside DEF SameReqs
<1>3. TypeOK'
  <2>1. /\ close' \in {"open", "drop", "kill", "closed"} /\ spoilt' \in BOOLEAN
        /\ proc' \in 0..gens /\ ident' \in 0..gens /\ retired' \subseteq 1..gens
        /\ up' \subseteq 1..gens /\ victims' \subseteq 1..gens
    <3> USE DEF TypeOK
    <3>1. CASE CloseBegins
      BY <3>1
    <3>2. CASE Reap
      BY <3>2
    <3>3. ASSUME NEW g \in victims, Kill(g)
          PROVE  /\ up' \subseteq 1..gens /\ victims' \subseteq 1..gens
                 /\ UNCHANGED <<close, spoilt, proc, ident, retired>>
      BY <3>3, <1>1
    <3>4. CASE CloseEnds \/ CloseCut
      BY <3>4
    <3>5. QED
      BY <3>1, <3>2, <3>3, <3>4
  <2>2. QED
    BY <1>1, <2>1 DEF TypeOK
<1>4. Tracked'
  <2>0. 0 \notin named /\ ident \in 0..gens
    BY DEF TypeOK
  <2>1. CASE CloseBegins
    <3>1. /\ close = "open" /\ close' = "drop" /\ spoilt' = (call.pc # "idle")
          /\ UNCHANGED <<ident, retired, up, victims>>
      BY <2>1
    <3>2. (close = "open" /\ ~spoilt) => named \cap up \subseteq retired \cup {ident} \cup victims
      BY DEF Tracked
    <3>3. QED
      BY <1>1, <3>1, <3>2 DEF Tracked
  <2>2. CASE Reap
    BY <2>0, <2>2 DEF Tracked
  <2>3. ASSUME NEW g \in victims, Kill(g) PROVE Tracked'
    BY <2>3 DEF Tracked
  <2>4. CASE CloseEnds \/ CloseCut
    BY <2>4 DEF Tracked
  <2>5. QED
    BY <2>1, <2>2, <2>3, <2>4
<1>5. QED
  BY <1>2, <1>3, <1>4

LEMMA ServerIInv == IInv /\ ServerStep => IInv'
<1> SUFFICES ASSUME IInv, ServerStep PROVE IInv'
  OBVIOUS
<1> USE DEF IInv
<1>1. UNCHANGED <<hostVars, closeVars>> /\ up' \subseteq up
  BY DEF ServerStep, Takes, Replies, Dies
<1>2. SameReqs /\ reqs' \in Seq(Requests) /\ Len(reqs)' = Len(reqs)
  <2>1. ASSUME NEW i \in DOMAIN reqs, Takes(i)
        PROVE  SameReqs /\ reqs' \in Seq(Requests) /\ Len(reqs)' = Len(reqs)
    <3>1. reqs' = [reqs EXCEPT ![i].st = "running"] /\ reqs[i].st # "read"
      BY <2>1 DEF Takes
    <3>2. QED
      BY <3>1, Marked DEF SameReqs
  <2>2. ASSUME NEW i \in DOMAIN reqs, Replies(i)
        PROVE  SameReqs /\ reqs' \in Seq(Requests) /\ Len(reqs)' = Len(reqs)
    <3>1. reqs' = [reqs EXCEPT ![i].st = "replied"] /\ reqs[i].st # "read"
      BY <2>2 DEF Replies
    <3>2. QED
      BY <3>1, Marked DEF SameReqs
  <2>3. ASSUME NEW g \in Gen, Dies(g)
        PROVE  SameReqs /\ reqs' \in Seq(Requests) /\ Len(reqs)' = Len(reqs)
    BY <2>3, ReqsTyped DEF Dies, SameReqs
  <2>4. QED
    BY <2>1, <2>2, <2>3 DEF ServerStep
<1>3. CallInv'
  BY <1>1, <1>2, Aside DEF hostVars
<1>4. TypeOK'
  BY <1>1, <1>2 DEF TypeOK, SameReqs, hostVars, closeVars
<1>5. Tracked'
  BY <1>1 DEF Tracked, hostVars, closeVars
<1>6. QED
  BY <1>3, <1>4, <1>5

LEMMA NextIInv == IInv /\ [Next]_vars => IInv'
<1>1. ASSUME IInv, UNCHANGED vars PROVE IInv'
  <2>1. TypeOK' /\ Tracked'
    BY <1>1 DEF vars, IInv, TypeOK, Tracked
  <2>2. SameReqs
    BY <1>1 DEF vars, SameReqs
  <2>3. CallInv'
    BY <1>1, <2>2, Aside DEF vars, IInv
  <2>4. QED
    BY <2>1, <2>3 DEF IInv
<1>2. ASSUME IInv, SpawnFails \/ Cancelled PROVE IInv'
  <2>1. call.pc # "idle" /\ Ends("failed") /\ SameReqs /\ reqs' \in Seq(Requests)
    BY <1>2, ReqsTyped DEF IInv, SpawnFails, Cancelled, SameReqs
  <2>2. QED
    BY <1>2, <2>1, FailsIInv DEF SpawnFails, Cancelled, closeVars
<1>3. QED
  BY <1>1, <1>2, BeginIInv, SpawnIInv, DrainedIInv, HandshakeIInv, AnsweredIInv,
     RoundtripIInv, CloseIInv, ServerIInv DEF Next, CallStep

LEMMA Reachable == Spec => []IInv
BY InitIInv, NextIInv, PTL DEF Spec

-----------------------------------------------------------------------------
(* What it gives *)

\* The types of the session and of the servers it has spawned.
THEOREM ExecTypeOK == Spec => []TypeOK
<1>1. IInv => TypeOK
  BY DEF IInv
<1>2. QED
  BY <1>1, Reachable, PTL

\* The requests of a call are one, or two if it only reads.
LEMMA FewRequests ==
  ASSUME IInv, NEW n \in Call, NEW S \in SUBSET Of(n)
  PROVE  /\ IsFiniteSet(S) /\ Cardinality(S) \in Nat
         /\ Cardinality(S) <= IF retry[n] THEN 2 ELSE 1
<1>1. PICK a \in Nat, b \in Nat : Of(n) \subseteq {a, b} /\ (~retry[n] => a = b)
  BY DEF IInv, CallInv, Tries
<1>2. S \subseteq {a, b}
  BY <1>1
<1>3. /\ IsFiniteSet({a}) /\ Cardinality({a}) = 1
      /\ IsFiniteSet({a} \cup {b}) /\ Cardinality({a} \cup {b}) = IF b = a THEN 1 ELSE 2
  <2>1. IsFiniteSet({a}) /\ Cardinality({a}) = 1
    BY FS_Singleton
  <2>2. QED
    BY <2>1, FS_AddElement
<1>4. {a, b} = {a} \cup {b}
  OBVIOUS
<1>5. /\ IsFiniteSet(S) /\ Cardinality(S) \in Nat
      /\ Cardinality(S) <= Cardinality({a} \cup {b})
  BY <1>2, <1>3, <1>4, FS_Subset, FS_CardinalityType
<1>6. QED
  BY <1>1, <1>3, <1>5

\* However its pipes fail, the op of a call is sent, and so executed, at most
\* once, in whatever generation, and at most twice if it only reads.
THEOREM OpsRunOnce == Spec => []OncePerCall
<1>1. \A n : Begun(n) \in SUBSET Of(n)
  BY DEF Begun
<1>2. IInv => OncePerCall
  BY <1>1, FewRequests DEF OncePerCall
<1>3. QED
  BY <1>2, Reachable, PTL

\* An answered call got the answer to its own op, and unless it only reads
\* nothing of it is left to be executed.
THEOREM AnswersAreFinal == Spec => []AnsweredIsDone
<1>1. IInv => AnsweredIsDone
  BY DEF IInv, CallInv
<1>2. QED
  BY <1>1, Reachable, PTL

\* An undisturbed close leaves no identified process behind: until the close,
\* every one of them is the current or a retired identity.
THEOREM CloseIsThorough == Spec => []ClosedLeavesNothing
<1>1. IInv => ClosedLeavesNothing
  BY DEF IInv, TypeOK, Tracked, ClosedLeavesNothing
<1>2. QED
  BY <1>1, Reachable, PTL

-----------------------------------------------------------------------------
(* The session implements SerialCalls.                                       *)

Turn == IF call.pc = "idle" THEN 0 ELSE call.n
Runs == [n \in Call |-> Cardinality(Begun(n))]

\* The abstract session sees a request when a server begins with it.
SameRuns == \A n \in Call : Begun(n)' = Begun(n)

\* Marking one that was begun goes unseen,
LEMMA UnseenMark ==
  ASSUME TypeOK, NEW i \in DOMAIN reqs, reqs[i].st # "queued",
         NEW s \in {"replied", "read"}, reqs' = [reqs EXCEPT ![i].st = s]
  PROVE  SameRuns
BY Marked DEF SameRuns, Begun, Of

\* and so does sending one.
LEMMA UnseenAsk ==
  ASSUME TypeOK, NEW q \in Seq(Requests), Len(q) = Len(reqs),
         \A j \in DOMAIN reqs : q[j].call = reqs[j].call,
         \A j \in DOMAIN reqs : q[j].st = "queued" <=> reqs[j].st = "queued",
         NEW g \in Gen, NEW m \in 0..MaxCalls, reqs' = Append(q, Request(g, m))
  PROVE  SameRuns
<1>1. /\ DOMAIN reqs' = DOMAIN reqs \cup {Len(reqs) + 1}
      /\ \A j \in DOMAIN reqs : reqs'[j] = q[j]
  BY Asked
<1>2. reqs'[Len(reqs) + 1].st = "queued"
  BY ReqsTyped, AppendProperties DEF Request, Requests
<1>3. QED
  BY <1>1, <1>2 DEF SameRuns, Begun, Of

\* A step that nobody outside can tell from none.
LEMMA Unseen ==
  ASSUME SameRuns, Turn' = Turn, UNCHANGED <<retry, ended>>
  PROVE  UNCHANGED <<Turn, retry, ended, Runs>>
BY DEF SameRuns, Runs

\* The end of a call; only an op that was executed is answered.
LEMMA EndSeen ==
  ASSUME IInv, SameRuns, call.pc # "idle", NEW how \in {"answered", "failed"}, Ends(how),
         how = "answered" => Begun(call.n) # {}, UNCHANGED retry
  PROVE  Promise!End(how)
<1>1. call.n \in Call /\ Turn = call.n /\ Turn' = 0 /\ Turn # 0
  BY DEF IInv, CallInv, Underway, Ends, Idle, Turn
<1>2. how = "answered" => Runs[call.n] > 0
  <2>1. /\ IsFiniteSet(Begun(call.n)) /\ Cardinality(Begun(call.n)) \in Nat
        /\ Cardinality(Begun(call.n)) = 0 <=> Begun(call.n) = {}
    BY <1>1, FewRequests, FS_EmptySet DEF Begun
  <2>2. QED
    BY <1>1, <2>1 DEF Runs
<1>3. Runs' = Runs
  BY DEF SameRuns, Runs
<1>4. QED
  BY <1>1, <1>2, <1>3 DEF Promise!End, Ends, Turn, Runs

\* A call is given its turn.
LEMMA BeginSeen ==
  ASSUME IInv, NEW n \in Call, NEW again \in BOOLEAN, Begin(n, again)
  PROVE  Promise!Begin(n, again)
<1>1. Turn' = n /\ SameRuns
  <2>1. CASE proc # 0 /\ Ask(n, proc, FALSE, FALSE)
    <3>1. call'.pc \in Waits(FALSE) /\ call'.n = n /\ proc \in Gen /\ n \in 0..MaxCalls
      BY <2>1 DEF Ask, IInv, TypeOK
    <3>2. SameRuns
      BY <2>1, <3>1, UnseenAsk, ReqsTyped DEF Ask, IInv
    <3>3. QED
      BY <3>1, <3>2 DEF Turn
  <2>2. CASE Respawn(n, FALSE)
    BY <2>2, RespawnTyped DEF Respawn, Idle, Turn, SameRuns, Begun, Of
  <2>3. QED
    BY <2>1, <2>2 DEF Begin
<1>2. Turn = 0 /\ Runs' = Runs
  BY <1>1 DEF Begin, Turn, SameRuns, Runs
<1>3. QED
  BY <1>1, <1>2 DEF Begin, Promise!Begin, Turn, Runs

\* A server begins with an op, the ping of a handshake apart.
LEMMA TakeSeen ==
  ASSUME IInv, NEW i \in DOMAIN reqs, Takes(i)
  PROVE  (\E n \in Call : Promise!Execute(n)) \/ UNCHANGED <<Turn, retry, ended, Runs>>
<1> PICK n \in 0..MaxCalls : n = reqs[i].call
  BY ReqsTyped DEF IInv, Requests
<1>1. /\ i \notin Begun(n) /\ i \in Of(n)
      /\ Begun(n)' = Begun(n) \cup {i} /\ \A m \in Call \ {n} : Begun(m)' = Begun(m)
  BY Marked, ReqsTyped DEF IInv, Takes, Begun, Of, Requests
<1>2. Turn' = Turn /\ UNCHANGED <<retry, ended>>
  BY DEF Takes, hostVars, Turn
<1>3. CASE n = 0
  BY <1>1, <1>2, <1>3 DEF Runs
<1>4. CASE n \in Call
  <2> DEFINE S == Begun(n) \cup {i}
  <2>1. Begun(n) \in SUBSET Of(n) /\ S \in SUBSET Of(n)
    BY <1>1 DEF Begun
  <2>2. /\ Cardinality(Begun(n)) \in Nat /\ Cardinality(S) = Cardinality(Begun(n)) + 1
        /\ Cardinality(S) <= IF retry[n] THEN 2 ELSE 1
    BY <1>1, <1>4, <2>1, FewRequests, FS_AddElement
  <2>3. Runs' = [Runs EXCEPT ![n] = @ + 1] /\ Runs[n] < IF retry[n] THEN 2 ELSE 1
    <3>1. Runs[n] = Cardinality(Begun(n)) /\ Runs[n] + 1 <= IF retry[n] THEN 2 ELSE 1
      BY <1>4, <2>2 DEF Runs
    <3>2. \A m \in Call : Runs'[m] = IF m = n THEN Runs[n] + 1 ELSE Runs[m]
      BY <1>1, <1>4, <2>2, <3>1 DEF Runs
    <3>3. Runs[n] \in Nat
      BY <2>2, <3>1
    <3>4. Runs' = [Runs EXCEPT ![n] = @ + 1]
      BY <3>2 DEF Runs
    <3>5. QED
      BY <3>1, <3>3, <3>4
  <2>4. /\ Turn = n \/ ended[n] # "none"
        /\ ended[n] = "answered" => retry[n]
    <3>1. reqs[i].st = "queued"
      BY DEF Takes
    <3>2. ended[n] = "answered" => retry[n]
      BY <1>1, <1>4, <3>1 DEF IInv, CallInv, AnsweredIsDone
    <3>3. ended[n] = "none" => call.pc # "idle" /\ call.n = n
      BY <1>1, <1>4 DEF IInv, CallInv, Tries
    <3>4. QED
      BY <3>2, <3>3 DEF Turn
  <2>5. Promise!Execute(n)
    BY <1>2, <2>3, <2>4 DEF Promise!Execute, Turn, Runs
  <2>6. QED
    BY <1>4, <2>5
<1>5. QED
  BY <1>1, <1>3, <1>4

\* The steps of the session.
LEMMA NextSeen ==
  ASSUME IInv, [Next]_vars
  PROVE  Promise!Next \/ UNCHANGED <<Turn, retry, ended, Runs>>
<1>1. CASE UNCHANGED vars
  BY <1>1 DEF vars, Turn, Runs, Begun, Of
<1>2. ASSUME UNCHANGED <<call, retry, ended, reqs>>
      PROVE  UNCHANGED <<Turn, retry, ended, Runs>>
  BY <1>2 DEF Turn, Runs, Begun, Of
<1>3. ASSUME SpawnFails \/ Cancelled PROVE Promise!End("failed")
  <2>1. SameRuns
    BY <1>3 DEF SpawnFails, Cancelled, SameRuns, Begun, Of
  <2>2. QED
    BY <1>3, <2>1, EndSeen DEF SpawnFails, Cancelled
<1>4. CASE Spawn
  <2>1. call.n \in 0..MaxCalls /\ gens + 1 \in Gen /\ call'.n = call.n /\ call'.pc = "await"
    BY <1>4 DEF Spawn, Ask, IInv, TypeOK
  <2>2. SameRuns
    BY <1>4, <2>1, UnseenAsk, ReqsTyped DEF Spawn, Ask, IInv
  <2>3. QED
    BY <1>4, <2>1, <2>2, Unseen DEF Spawn, Turn
<1>5. CASE HandshakeOk
  <2> PICK i \in DOMAIN reqs :
        /\ ReadsOwn(i)
        /\ LET read == [reqs EXCEPT ![i].st = "read"] IN
           IF call.again /\ ~retry[call.n]
           THEN Ends("failed") /\ reqs' = read
           ELSE /\ reqs' = Append(read, Request(call.gen, call.n))
                /\ \E pc \in Waits(FALSE) :
                     call' = [call EXCEPT !.pc = pc, !.ping = FALSE, !.id = Len(reqs) + 1]
                /\ UNCHANGED ended
        /\ UNCHANGED retry
    BY <1>5 DEF HandshakeOk
  <2> DEFINE read == [reqs EXCEPT ![i].st = "read"]
  <2>1. call.pc = "await" /\ reqs[i].st = "replied"
    BY DEF ReadsOwn, NextLine
  <2>2. CASE Ends("failed") /\ reqs' = read
    <3>1. SameRuns
      BY <2>1, <2>2, UnseenMark DEF IInv
    <3>2. Promise!End("failed")
      BY <2>1, <2>2, <3>1, EndSeen
    <3>3. QED
      BY <3>2 DEF Promise!Next
  <2>3. CASE /\ reqs' = Append(read, Request(call.gen, call.n))
             /\ \E pc \in Waits(FALSE) :
                  call' = [call EXCEPT !.pc = pc, !.ping = FALSE, !.id = Len(reqs) + 1]
             /\ UNCHANGED ended
    <3>1. /\ read \in Seq(Requests) /\ Len(read) = Len(reqs)
          /\ \A j \in DOMAIN reqs : read[j].call = reqs[j].call
          /\ \A j \in DOMAIN reqs : read[j].st = "queued" <=> reqs[j].st = "queued"
      BY <2>1, Marked DEF IInv
    <3>2. call.gen \in Gen /\ call.n \in 0..MaxCalls
      BY <2>1 DEF IInv, TypeOK, Tracked
    <3> HIDE DEF read
    <3>3. SameRuns
      BY <2>3, <3>1, <3>2, UnseenAsk DEF IInv
    <3>4. Turn' = Turn
      <4>1. call \in Calls
        BY DEF IInv, TypeOK, Calls
      <4>2. call'.pc \in Waits(FALSE) /\ call'.n = call.n
        BY <2>3, <4>1 DEF Calls
      <4>3. QED
        BY <2>1, <4>2 DEF Turn
    <3>5. QED
      BY <2>3, <3>3, <3>4, Unseen
  <2>4. QED
    BY <2>2, <2>3
<1>6. CASE OpAnswered
  <2>1. PICK i \in DOMAIN reqs :
          /\ ReadsOwn(i) /\ ~call.ping /\ reqs' = [reqs EXCEPT ![i].st = "read"]
          /\ Ends("answered") /\ UNCHANGED retry
    BY <1>6 DEF OpAnswered
  <2>2. call.pc = "await" /\ i = call.id /\ reqs[i].st = "replied"
    BY <2>1 DEF ReadsOwn, NextLine
  <2>3. SameRuns
    BY <2>1, <2>2, UnseenMark DEF IInv
  <2>4. i \in Begun(call.n)
    BY <2>1, <2>2 DEF IInv, CallInv, Underway, Begun
  <2>5. Promise!End("answered")
    BY <2>1, <2>2, <2>3, <2>4, EndSeen
  <2>6. QED
    BY <2>5 DEF Promise!Next
<1>7. CASE RoundtripFails
  <2>1. call.pc # "idle" /\ UNCHANGED retry
    BY <1>7 DEF RoundtripFails
  <2>2. CASE Ends("failed") /\ UNCHANGED reqs
    <3>1. Promise!End("failed")
      BY <2>1, <2>2, EndSeen DEF SameRuns, Begun, Of
    <3>2. QED
      BY <3>1 DEF Promise!Next
  <2>3. CASE Respawn(call.n, TRUE) /\ UNCHANGED ended
    BY <2>1, <2>3 DEF Respawn, Idle, Turn, Runs, Begun, Of
  <2>4. QED
    BY <1>7, <2>2, <2>3 DEF RoundtripFails
<1>8. CASE CloseStep
  BY <1>2, <1>8 DEF CloseStep, CloseBegins, Reap, Kill, CloseEnds, CloseCut, hostVars
<1>9. CASE ServerStep
  <2>1. ASSUME NEW i \in DOMAIN reqs, Replies(i)
        PROVE  UNCHANGED <<Turn, retry, ended, Runs>>
    <3>1. SameRuns
      BY <2>1, UnseenMark DEF Replies, IInv
    <3>2. QED
      BY <2>1, <3>1, Unseen DEF Replies, hostVars, Turn
  <2>2. ASSUME NEW g \in Gen, Dies(g)
        PROVE  UNCHANGED <<Turn, retry, ended, Runs>>
    BY <1>2, <2>2 DEF Dies, hostVars
  <2>3. QED
    BY <1>9, <2>1, <2>2, TakeSeen DEF ServerStep, Promise!Next
<1>10. CASE Drained
  BY <1>10 DEF Drained, IInv, TypeOK, Turn, Runs, Begun, Of
<1>11. QED
  BY <1>1, <1>2, <1>3, <1>4, <1>5, <1>6, <1>7, <1>8, <1>9, <1>10, BeginSeen
  DEF Next, CallStep, HandshakeOk, Promise!Next

\* The session implements the abstract one: whatever happens to its pipes, those
\* who call it see calls that take turns, ops that run as often as they may and
\* answers of ops that have run.
THEOREM SessionKeepsPromise == Spec => ImplementsSerialCalls
<1>1. Init => Promise!Init
  BY FS_EmptySet DEF Init, Promise!Init, Idle, Begun, Of
<1>2. QED
  BY <1>1, NextSeen, Reachable, PTL
  DEF Spec, ImplementsSerialCalls, Promise!Spec, Promise!promiseVars, Turn, Runs

-----------------------------------------------------------------------------
(* Liveness.  ENABLED is opaque to the provers: that a call that is not over *)
(* can always take a step is a hypothesis.                                   *)

CanStep == call.pc # "idle" /\ ~Blocked => ENABLED <<~Blocked /\ CallStep>>_vars

\* The stages of a call, on its first try and again.
Spawning(again) == call.pc = "spawn" /\ call.again = again
Shaking(again)  == call.pc = "await" /\ call.ping /\ call.again = again
Draining(again) == call.pc = "drain" /\ call.again = again
Asking(again)   == call.pc = "await" /\ ~call.ping /\ call.again = again
Over            == call.pc = "idle"

\* Each step of a call takes it to a later stage.
LEMMA CallAdvances ==
  ASSUME IInv, CallStep
  PROVE  /\ \A again \in BOOLEAN : Spawning(again) => Shaking(again)' \/ Over'
         /\ \A again \in BOOLEAN : Shaking(again) => Draining(again)' \/ Asking(again)' \/ Over'
         /\ Draining(FALSE) => Asking(FALSE)' \/ Spawning(TRUE)' \/ Over'
         /\ Draining(TRUE) => Asking(TRUE)' \/ Over'
         /\ Asking(FALSE) => Spawning(TRUE)' \/ Over'
         /\ Asking(TRUE) => Over'
<1> USE DEF Spawning, Shaking, Draining, Asking, Over, Ends, Idle
<1>0. call \in Calls /\ (call.pc = "drain" => ~call.ping)
  BY DEF IInv, TypeOK, Calls, Tracked
<1> USE <1>0 DEF Calls
<1>1. CASE Spawn
  BY <1>1 DEF Spawn, Ask
<1>2. CASE SpawnFails
  BY <1>2 DEF SpawnFails
<1>3. CASE HandshakeOk
  <2>1. call.pc = "await" /\ call.ping
    BY <1>3 DEF HandshakeOk, ReadsOwn
  <2>2. CASE call' = Idle
    BY <2>1, <2>2
  <2>3. ASSUME NEW pc \in Waits(FALSE),
               call' = [call EXCEPT !.pc = pc, !.ping = FALSE, !.id = Len(reqs) + 1]
        PROVE  Draining(call.again)' \/ Asking(call.again)'
    <3>1. call'.pc = pc /\ call'.ping = FALSE /\ call'.again = call.again
      BY <2>3
    <3>2. QED
      BY <3>1
  <2>4. QED
    BY <1>3, <2>1, <2>2, <2>3 DEF HandshakeOk
<1>4. CASE OpAnswered
  BY <1>4 DEF OpAnswered, ReadsOwn
<1>5. CASE RoundtripFails
  <2>1. call.pc \in Waits(FALSE)
    BY <1>5 DEF RoundtripFails
  <2>2. CASE call.ping \/ call.again
    <3>1. call' = Idle
      BY <1>5, <2>2, Zenon DEF RoundtripFails, Ends
    <3>2. QED
      BY <2>1, <3>1
  <2>3. CASE ~(call.ping \/ call.again)
    <3>1. call' = [Idle EXCEPT !.pc = "spawn", !.n = call.n, !.again = TRUE]
      BY <1>5, <2>3 DEF RoundtripFails, Respawn
    <3>2. call'.pc = "spawn" /\ call'.again = TRUE
      BY <3>1
    <3>3. QED
      BY <2>1, <2>3, <3>2
  <2>4. QED
    BY <2>2, <2>3
<1>6. CASE Drained
  <2>1. call.pc = "drain" /\ call'.pc = "await" /\ call'.ping = call.ping /\ call'.again = call.again
    BY <1>6 DEF Drained
  <2>2. QED
    BY <2>1
<1>7. QED
  BY <1>1, <1>2, <1>3, <1>4, <1>5, <1>6 DEF CallStep

\* The other steps leave a call where it is, or end it.
LEMMA CallStays ==
  ASSUME IInv, [Next]_vars, call.pc # "idle"
  PROVE  CallStep \/ call' = call \/ Over'
<1>1. CASE Cancelled
  BY <1>1 DEF Cancelled, Ends, Idle, Over
<1>2. CASE CloseStep
  BY <1>2 DEF CloseStep, CloseBegins, Reap, Kill, CloseEnds, CloseCut, hostVars
<1>3. CASE ServerStep
  BY <1>3 DEF ServerStep, Takes, Replies, Dies, hostVars
<1>4. CASE UNCHANGED vars
  BY <1>4 DEF vars
<1>5. QED
  BY <1>1, <1>2, <1>3, <1>4 DEF Next, Begin

\* A wait for room that can end, since the server has read or the pipe is
\* broken, does not lose that again.
LEMMA StaysFree ==
  ASSUME IInv, [Next]_vars, call.pc = "drain", ~Blocked, call'.pc = "drain"
  PROVE  ~Blocked'
<1>1. call \in Calls /\ call.id \in DOMAIN reqs
  BY DEF IInv, TypeOK, Calls
<1>2. call' = call
  <2>1. CASE CallStep
    <3>1. Asking(TRUE)' \/ Asking(FALSE)' \/ Spawning(TRUE)' \/ Over'
      BY <1>1, <2>1, CallAdvances DEF Draining, Calls
    <3>2. QED
      BY <3>1 DEF Asking, Spawning, Over
  <2>2. QED
    BY <2>1, CallStays DEF Over
<1>3. CASE UNCHANGED <<proc, reqs>> /\ up' \subseteq up
  BY <1>2, <1>3 DEF Blocked
<1>4. CASE ServerStep
  <2>1. UNCHANGED proc /\ up' \subseteq up
    BY <1>4 DEF ServerStep, Takes, Replies, Dies, hostVars
  <2>2. reqs'[call.id].st = "queued" => reqs[call.id].st = "queued"
    <3>1. ASSUME NEW i \in DOMAIN reqs, Takes(i) \/ Replies(i)
          PROVE  reqs'[call.id].st = "queued" => reqs[call.id].st = "queued"
      <4>1. PICK s \in {"running", "replied"} : reqs' = [reqs EXCEPT ![i].st = s]
        BY <3>1 DEF Takes, Replies
      <4>2. QED
        BY <1>1, <4>1, Marked DEF IInv
    <3>2. QED
      BY <1>4, <3>1 DEF ServerStep, Dies
  <2>3. QED
    BY <1>2, <2>1, <2>2 DEF Blocked
<1>5. CASE CloseStep
  <2>1. UNCHANGED reqs /\ up' \subseteq up /\ (proc' = proc \/ proc' = 0)
    BY <1>5 DEF CloseStep, CloseBegins, Reap, Kill, CloseEnds, CloseCut, hostVars
  <2>2. 0 \notin up
    BY DEF IInv, TypeOK
  <2>3. QED
    BY <1>2, <2>1, <2>2 DEF Blocked
<1>6. CASE UNCHANGED vars
  BY <1>3, <1>6 DEF vars
<1>7. ~Cancelled /\ ~CallStep
  <2>1. ~Cancelled
    BY DEF Cancelled, Ends, Idle
  <2>2. ~CallStep
    <3>1. SUFFICES ASSUME CallStep PROVE FALSE
      OBVIOUS
    <3>2. Asking(TRUE)' \/ Asking(FALSE)' \/ Spawning(TRUE)' \/ Over'
      BY <1>1, <3>1, CallAdvances DEF Draining, Calls
    <3>3. QED
      BY <3>2 DEF Asking, Spawning, Over
  <2>3. QED
    BY <2>1, <2>2
<1>8. QED
  BY <1>4, <1>5, <1>6, <1>7 DEF Next, Begin

\* Every call comes to an end: it respawns at most once, and every wait of it has
\* a deadline but the one for room in the pipe.  If none of these lasts for ever
\* before a server that lives, every call ends, whatever the servers, the pipes
\* and a close do.
THEOREM EveryCallEnds == FairSpec /\ []CanStep => CallsEnd
<1>1. ASSUME IInv, [Next]_vars
      PROVE  /\ Spawning(FALSE) => (Spawning(FALSE) \/ Shaking(FALSE) \/ Over)'
             /\ Shaking(FALSE) => (Shaking(FALSE) \/ Draining(FALSE) \/ Asking(FALSE) \/ Over)'
             /\ Draining(FALSE) => (Draining(FALSE) \/ Asking(FALSE) \/ Spawning(TRUE) \/ Over)'
             /\ Asking(FALSE) => (Asking(FALSE) \/ Spawning(TRUE) \/ Over)'
             /\ Spawning(TRUE) => (Spawning(TRUE) \/ Shaking(TRUE) \/ Over)'
             /\ Shaking(TRUE) => (Shaking(TRUE) \/ Draining(TRUE) \/ Asking(TRUE) \/ Over)'
             /\ Draining(TRUE) => (Draining(TRUE) \/ Asking(TRUE) \/ Over)'
             /\ Asking(TRUE) => (Asking(TRUE) \/ Over)'
  <2>1. CASE CallStep
    BY <1>1, <2>1, CallAdvances
  <2>2. CASE call' = call \/ Over'
    BY <2>2 DEF Spawning, Shaking, Draining, Asking, Over
  <2>3. QED
    BY <1>1, <2>1, <2>2, CallStays DEF Spawning, Shaking, Draining, Asking
<1>2. ASSUME IInv, <<~Blocked /\ CallStep>>_vars
      PROVE  /\ Spawning(FALSE) => (Shaking(FALSE) \/ Over)'
             /\ Shaking(FALSE) => (Draining(FALSE) \/ Asking(FALSE) \/ Over)'
             /\ Draining(FALSE) => (Asking(FALSE) \/ Spawning(TRUE) \/ Over)'
             /\ Asking(FALSE) => (Spawning(TRUE) \/ Over)'
             /\ Spawning(TRUE) => (Shaking(TRUE) \/ Over)'
             /\ Shaking(TRUE) => (Draining(TRUE) \/ Asking(TRUE) \/ Over)'
             /\ Draining(TRUE) => (Asking(TRUE) \/ Over)'
             /\ Asking(TRUE) => Over'
  BY <1>2, CallAdvances
<1>3. /\ Spawning(FALSE) \/ Shaking(FALSE) \/ Asking(FALSE) => call.pc # "idle" /\ ~Blocked
      /\ Spawning(TRUE) \/ Shaking(TRUE) \/ Asking(TRUE) => call.pc # "idle" /\ ~Blocked
      /\ Draining(FALSE) \/ Draining(TRUE) => call.pc # "idle"
  BY DEF Spawning, Shaking, Draining, Asking, Blocked
<1>4. IInv /\ call.pc # "idle" =>
        \/ Spawning(FALSE) \/ Shaking(FALSE) \/ Draining(FALSE) \/ Asking(FALSE)
        \/ Spawning(TRUE) \/ Shaking(TRUE) \/ Draining(TRUE) \/ Asking(TRUE)
  BY DEF IInv, TypeOK, Spawning, Shaking, Draining, Asking
<1>5. ASSUME IInv, [Next]_vars
      PROVE  /\ Draining(FALSE) /\ ~Blocked => (Draining(FALSE) => ~Blocked)'
             /\ Draining(TRUE) /\ ~Blocked => (Draining(TRUE) => ~Blocked)'
  BY <1>5, StaysFree DEF Draining
<1>6. Over <=> call.pc = "idle"
  BY DEF Over
<1>7. QED
  BY <1>1, <1>2, <1>3, <1>4, <1>5, <1>6, Reachable, PTL DEF FairSpec, Spec, CanStep, CallsEnd
=============================================================================
