----------------------------- MODULE ExecStdio -----------------------------
(***************************************************************************)
(* The exec-stdio channel of sandbox/exec_stdio: calls of the host to a    *)
(* server in the container, one at a time over the pipe of one `docker     *)
(* exec' process.  Every process the session spawns is a generation; the   *)
(* request i is the one written with id i, and reqs[i].call is the call it *)
(* is for, 0 for the ping of a respawn's handshake.                        *)
(*                                                                         *)
(* When the host gives a pipe up, the server at its other end runs on: it  *)
(* finishes the op it is at and may go on with the lines it had received.  *)
(* Only close() kills, and only the generations whose pid it was told.     *)
(*                                                                         *)
(* start() has spawned and identified generation 1.                        *)
(***************************************************************************)
EXTENDS Naturals, Sequences, FiniteSets

CONSTANTS
  MaxCalls,  \* calls made on the session (a bound)
  MaxGens    \* generations spawned (a bound)

ASSUME ExecAssumption == MaxCalls \in Nat \ {0} /\ MaxGens \in Nat \ {0}

VARIABLES
  call,     \* the call that holds the lock
  retry,    \* retry[n]: the op of call n is one of _RETRYABLE_OPS
  ended,    \* call n has been answered, or has raised
  reqs,     \* every request, in the order of its id
  gens,     \* generations spawned so far
  proc,     \* _proc: the current generation, 0 for None
  ident,    \* _pid: the generation it names, 0 for None
  retired,  \* _retired
  up,       \* generations whose processes run in the container
  close,    \* how far close() is
  victims,  \* what its _reap has still to kill
  spoilt,   \* close() overlapped a call, was cancelled or failed to kill
  named     \* the generations whose handshake was answered

vars == <<call, retry, ended, reqs, gens, proc, ident, retired, up, close, victims, spoilt, named>>
hostVars  == <<call, retry, ended, gens, proc, ident, retired, named>>
closeVars == <<close, victims, spoilt>>

Call == 1..MaxCalls
Gen  == 1..MaxGens

Idle == [pc |-> "idle", n |-> 0, again |-> FALSE, ping |-> FALSE, gen |-> 0, id |-> 0]

Request(g, n) == [gen |-> g, call |-> n, st |-> "queued"]

Init ==
  /\ call = Idle /\ reqs = <<>>
  /\ retry = [n \in Call |-> FALSE] /\ ended = [n \in Call |-> "none"]
  /\ gens = 1 /\ proc = 1 /\ ident = 1 /\ retired = {} /\ named = {1}
  /\ up = {1}
  /\ close = "open" /\ victims = {} /\ spoilt = FALSE

-----------------------------------------------------------------------------
(* call(), under the lock *)

\* An op may find the pipe full, of itself or of what was sent before it, and
\* drain() waits for room; the ping is short and the first line of its pipe.
Waits(ping) == IF ping THEN {"await"} ELSE {"drain", "await"}

\* _roundtrip writes its request.  A server that is gone never takes it.
Ask(n, g, again, ping) ==
  /\ reqs' = Append(reqs, Request(g, IF ping THEN 0 ELSE n))
  /\ \E pc \in Waits(ping) :
       call' = [pc |-> pc, n |-> n, again |-> again, ping |-> ping, gen |-> g,
                id |-> Len(reqs) + 1]

\* There is room, and the wait for the answer begins, and its deadline.
Drained ==
  /\ call.pc = "drain" /\ call' = [call EXCEPT !.pc = "await"]
  /\ UNCHANGED <<retry, ended, reqs, gens, proc, ident, retired, up, closeVars, named>>

\* _respawn drops the host client and waits for it to end.
Respawn(n, again) ==
  /\ proc' = 0
  /\ call' = [Idle EXCEPT !.pc = "spawn", !.n = n, !.again = again]
  /\ UNCHANGED reqs

\* The call returns what it was answered or raises, and the lock is free.
Ends(how) == call' = Idle /\ ended' = [ended EXCEPT ![call.n] = how]

\* A plausible bug: the session lock is not taken.
Mut_NoLock == TRUE

\* The session lock is free.
LockFree == call.pc = "idle"

\* The host client may have ended by itself, noticed or not.
Begin(n, again) ==
  /\ LockFree
  /\ ended[n] = "none" /\ \A m \in 1..(n - 1) : ended[m] # "none"
  /\ retry' = [retry EXCEPT ![n] = again]
  /\ \/ proc # 0 /\ Ask(n, proc, FALSE, FALSE) /\ UNCHANGED proc
     \/ Respawn(n, FALSE)
  /\ spoilt' = (spoilt \/ close # "open")
  /\ UNCHANGED <<ended, gens, ident, retired, up, close, victims, named>>

\* A plausible bug: a generation that is given up is forgotten.
Mut_RetireForgets == retired' = retired /\ ident' = 0

\* The end of _retire.
Retire == retired' = retired \cup ({ident} \ {0}) /\ ident' = 0

\* The rest of _respawn: a new generation, and a ping to learn who it is.
Spawn ==
  /\ call.pc = "spawn" /\ gens < MaxGens
  /\ Retire
  /\ gens' = gens + 1 /\ proc' = gens + 1
  /\ up' = up \cup {gens + 1}
  /\ Ask(call.n, gens + 1, call.again, TRUE)
  /\ UNCHANGED <<retry, ended, closeVars, named>>

\* The process cannot be created.
SpawnFails ==
  /\ call.pc = "spawn"
  /\ Retire /\ Ends("failed")
  /\ UNCHANGED <<retry, reqs, gens, proc, up, closeVars, named>>

\* Request i is the oldest whose answer in its generation has not been read.
NextLine(i) ==
  /\ reqs[i].st = "replied"
  /\ \A j \in 1..(i - 1) : reqs[j].gen = reqs[i].gen => reqs[j].st # "replied"

\* A plausible bug: the id of the answer is not compared.
Mut_AnyAnswer(i) ==
  call.pc = "await" /\ i \in DOMAIN reqs /\ reqs[i].gen = call.gen /\ NextLine(i)

\* The next line of the pipe is the answer to the request.
ReadsOwn(i) == call.pc = "await" /\ i = call.id /\ NextLine(i)

\* The handshake is answered, and the op is sent, or the first failure raised.
HandshakeOk ==
  \E i \in DOMAIN reqs :
    /\ ReadsOwn(i) /\ call.ping
    /\ ident' = call.gen /\ named' = named \cup {call.gen}
    /\ LET read == [reqs EXCEPT ![i].st = "read"] IN
       IF call.again /\ ~retry[call.n]
       THEN Ends("failed") /\ reqs' = read
       ELSE /\ reqs' = Append(read, Request(call.gen, call.n))
            /\ \E pc \in Waits(FALSE) :
                 call' = [call EXCEPT !.pc = pc, !.ping = FALSE, !.id = Len(reqs) + 1]
            /\ UNCHANGED ended
    /\ UNCHANGED <<retry, gens, proc, retired, up, closeVars>>

\* The op is answered: with its result, or with {"ok": false}.
OpAnswered ==
  \E i \in DOMAIN reqs :
    /\ ReadsOwn(i) /\ ~call.ping
    /\ reqs' = [reqs EXCEPT ![i].st = "read"]
    /\ Ends("answered")
    /\ UNCHANGED <<retry, gens, proc, ident, retired, up, closeVars, named>>

\* A plausible bug: an op that failed is sent again, whatever it is and does.
Mut_AlwaysAgain ==
  /\ call.pc \in Waits(FALSE)
  /\ IF call.ping THEN Ends("failed") /\ UNCHANGED <<reqs, proc>>
     ELSE Respawn(call.n, FALSE) /\ UNCHANGED ended
  /\ UNCHANGED <<retry, gens, ident, retired, up, closeVars, named>>

\* A plausible bug: the ping of the handshake has no deadline.
Mut_HandshakeUnbounded ==
  /\ call.pc \in Waits(FALSE) /\ ~call.ping
  /\ IF call.again
     THEN Ends("failed") /\ UNCHANGED <<reqs, proc>>
     ELSE Respawn(call.n, TRUE) /\ UNCHANGED ended
  /\ UNCHANGED <<retry, gens, ident, retired, up, closeVars, named>>

\* A timeout, the end of the pipe (while it drains, too), a foreign or a garbled
\* line.  The first of an op respawns; a handshake's, or that of the op's second
\* try, is raised.
RoundtripFails ==
  /\ call.pc \in Waits(FALSE)
  /\ IF call.ping \/ call.again
     THEN Ends("failed") /\ UNCHANGED <<reqs, proc>>
     ELSE Respawn(call.n, TRUE) /\ UNCHANGED ended
  /\ UNCHANGED <<retry, gens, ident, retired, up, closeVars, named>>

\* The caller is cancelled wherever it waits; the pipe is left as it is.
Cancelled ==
  /\ call.pc # "idle" /\ Ends("failed")
  /\ UNCHANGED <<retry, reqs, gens, proc, ident, retired, up, closeVars, named>>

-----------------------------------------------------------------------------
(* close(), which does not take the lock *)

CloseBegins ==
  /\ close = "open" /\ close' = "drop"
  /\ spoilt' = (call.pc # "idle")
  /\ proc' = 0
  /\ UNCHANGED <<call, retry, ended, reqs, gens, ident, retired, up, victims, named>>

\* _reap takes over every identity there is, before it begins to kill.
Reap ==
  /\ close = "drop" /\ close' = "kill"
  /\ victims' = retired \cup ({ident} \ {0}) /\ retired' = {} /\ ident' = 0
  /\ UNCHANGED <<call, retry, ended, reqs, gens, proc, up, spoilt, named>>

Kill(g) ==
  /\ close = "kill" /\ g \in victims
  /\ victims' = victims \ {g}
  /\ up' = up \ {g}
  /\ UNCHANGED <<call, retry, ended, reqs, gens, proc, ident, retired, close, spoilt, named>>

CloseEnds ==
  /\ close = "kill" /\ victims = {} /\ close' = "closed"
  /\ UNCHANGED <<hostVars, reqs, up, victims, spoilt>>

\* close() is cancelled by its own deadline, or docker fails it.
CloseCut ==
  /\ close \in {"drop", "kill"} /\ close' = "closed"
  /\ victims' = {} /\ spoilt' = TRUE
  /\ UNCHANGED <<hostVars, reqs, up>>

-----------------------------------------------------------------------------
(* main() of the in-container server of generation g *)

Running(g) == \E i \in DOMAIN reqs : reqs[i].gen = g /\ reqs[i].st = "running"

\* The op of the oldest line begins.
Takes(i) ==
  LET g == reqs[i].gen IN
  /\ reqs[i].st = "queued" /\ g \in up /\ ~Running(g)
  /\ \A j \in 1..(i - 1) : reqs[j].gen = g => reqs[j].st # "queued"
  /\ reqs' = [reqs EXCEPT ![i].st = "running"]
  /\ UNCHANGED <<hostVars, up, closeVars>>

Replies(i) ==
  /\ reqs[i].st = "running" /\ reqs[i].gen \in up
  /\ reqs' = [reqs EXCEPT ![i].st = "replied"]
  /\ UNCHANGED <<hostVars, up, closeVars>>

\* It ends: on end of file or a broken pipe, or killed from outside.
Dies(g) ==
  /\ g \in up
  /\ up' = up \ {g}
  /\ UNCHANGED <<hostVars, reqs, closeVars>>

-----------------------------------------------------------------------------
CallStep ==
  \/ Spawn \/ SpawnFails \/ Drained \/ HandshakeOk \/ OpAnswered \/ RoundtripFails

CloseStep == CloseBegins \/ Reap \/ CloseEnds \/ CloseCut \/ \E g \in victims : Kill(g)

ServerStep ==
  \/ \E i \in DOMAIN reqs : Takes(i) \/ Replies(i)
  \/ \E g \in Gen : Dies(g)

Next ==
  \/ \E n \in Call, again \in BOOLEAN : Begin(n, again)
  \/ CallStep \/ Cancelled \/ CloseStep \/ ServerStep

Spec == Init /\ [][Next]_vars

\* The call waits for a server that lives to read, under no deadline: the server
\* may be at an earlier op, or be stopped, for as long as it likes.
Blocked ==
  call.pc = "drain" /\ proc = call.gen /\ call.gen \in up /\ reqs[call.id].st = "queued"

\* Every other wait of a call has a deadline, or is the spawn of a process on
\* the host; and a drain ends when the server has read or its pipe breaks.
FairSpec == Spec /\ WF_vars(~Blocked /\ CallStep)

-----------------------------------------------------------------------------
Requests == [gen : Gen, call : 0..MaxCalls, st : {"queued", "running", "replied", "read"}]

\* The type invariant.
TypeOK ==
  /\ call \in [pc : {"idle", "spawn", "drain", "await"}, n : 0..MaxCalls, again : BOOLEAN,
               ping : BOOLEAN, gen : 0..MaxGens, id : Nat]
  /\ call.pc \in Waits(FALSE) => call.id \in DOMAIN reqs
  /\ retry \in [Call -> BOOLEAN]
  /\ ended \in [Call -> {"none", "answered", "failed"}]
  /\ reqs \in Seq(Requests) /\ gens \in Gen /\ proc \in 0..gens /\ ident \in 0..gens
  /\ retired \subseteq 1..gens /\ up \subseteq 1..gens
  /\ close \in {"open", "drop", "kill", "closed"} /\ victims \subseteq 1..gens
  /\ spoilt \in BOOLEAN /\ named \subseteq 1..gens

Of(n)    == {i \in DOMAIN reqs : reqs[i].call = n}
Begun(n) == {i \in Of(n) : reqs[i].st # "queued"}

\* However its pipes fail, the op of a call is executed at most once, in whatever
\* generation, and at most twice if it only reads.
OncePerCall ==
  \A n \in Call : Cardinality(Begun(n)) <= IF retry[n] THEN 2 ELSE 1

\* A call that is answered got the answer to its own op; and unless it only
\* reads, nothing of it is left to be executed when the next call begins.
AnsweredIsDone ==
  \A n \in Call : ended[n] = "answered" =>
    /\ \E i \in Of(n) : reqs[i].st = "read"
    /\ ~retry[n] => \A i \in Of(n) : reqs[i].st = "read"

\* A close that ran undisturbed leaves no process of the session behind in the
\* container, but of generations that never said who they are.
ClosedLeavesNothing ==
  close = "closed" /\ ~spoilt => named \cap up = {}

\* The session keeps its promise to its callers: no two calls overlap, and what
\* the pipes do to a call is seen as an op executed no more often than it may be,
\* during the call or after it failed, never after it was answered.
Promise == INSTANCE SerialCalls
  WITH turn <- IF call.pc = "idle" THEN 0 ELSE call.n, reads <- retry, outcome <- ended,
       runs <- [n \in Call |-> Cardinality(Begun(n))]
ImplementsSerialCalls == Promise!Spec

\* Every call comes to an end, through respawns, timeouts and broken pipes, unless
\* one waits for ever in drain() for a server that lives and does not read.
CallsEnd == []<>~Blocked => (call.pc # "idle" ~> call.pc = "idle")
=============================================================================
