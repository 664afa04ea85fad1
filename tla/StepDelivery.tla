---------------------------- MODULE StepDelivery ----------------------------
(***************************************************************************)
(* One episode of one agent against one remote instance, over the three    *)
(* hops a call travels, each with a retry rule of its own:                 *)
(*                                                                         *)
(*   agent's LiteEnvClient   remote/client.py   Client...                  *)
(*     | HTTP                                   LineCut, ReadTimeout       *)
(*   fleet router            remote/fleet.py    Forward.., Hop.., Relay    *)
(*     | HTTP                                                              *)
(*   env server's handler    remote/server.py   Reset.., Step.., Retry..   *)
(*     | RPC per action                                                    *)
(*   container               envs/osworld       Act.., Capture.., Eval..   *)
(*                                                                         *)
(* Every hop asks may_reissue (utils/backend/rpc.py): a call whose connect *)
(* phase failed may be sent again, a call that was delivered only if it is *)
(* replay-safe: a /reset is, a /step is not.  A handler runs on when the   *)
(* connection that brought its call is cut.                                *)
(*                                                                         *)
(* A batch has BatchLen GUI actions; action k of step n is <<n, k>>.  The  *)
(* env is abstracted to the container it acts on: a reset tears down what  *)
(* is there and, when it returns, the env acts on what it has built.       *)
(***************************************************************************)
EXTENDS Naturals, Sequences

CONSTANTS
  MaxSteps,        \* max_steps of the env: the episode is truncated there
  BatchLen,        \* actions in a batch
  ClientAttempts,  \* _CLIENT_RETRY_ATTEMPTS
  RouterTries,     \* sends of _sticky_forward
  ServerAttempts,  \* _OUTER_RETRY_ATTEMPTS
  MaxReq           \* requests that reach the router (a bound)

ASSUME DeliveryAssumption ==
  /\ MaxSteps \in Nat /\ BatchLen \in Nat /\ MaxReq \in Nat
  /\ ClientAttempts \in Nat \ {0} /\ RouterTries \in Nat \ {0}
  /\ ServerAttempts \in Nat \ {0}

VARIABLES
  client,   \* the one call the agent has under way
  sent,     \* requests that have reached the router
  req,      \* what became of each
  handler,  \* handler[q][f]: the env server's handler of the f-th send of q
  live,     \* the instance is in state.envs
  cur,      \* the container the env acts on
  applied,  \* applied[c]: the actions container c has executed, in order
  told,     \* told[n]: the actions step n was said to have executed, once answered
  redone    \* the steps whose batch a handler has run more than once

vars == <<client, sent, req, handler, live, cur, applied, told, redone>>
envVars == <<live, cur, applied, redone>>

Req   == 1..MaxReq
Send  == 1..RouterTries
\* A container goes by the handler that built it: one is all a handler builds.
Nowhere == <<0, 0>>
Box     == (Req \X Send) \cup {Nowhere}

Untold == BatchLen + 1

NoCall  == [pc |-> "none", op |-> "reset", n |-> 0, tries |-> 0, frames |-> 0]
NoReq   == [op |-> "reset", n |-> 0, stage |-> "none", fwds |-> 0, ans |-> "none", k |-> 0]
NoRun   == [pc |-> "none", att |-> 0, base |-> Nowhere, k |-> 0, stop |-> FALSE, ans |-> "none"]

Init ==
  /\ client = [NoCall EXCEPT !.pc = "send"]   \* the agent's reset()
  /\ sent = 0 /\ req = [q \in Req |-> NoReq]
  /\ handler = [q \in Req |-> [f \in Send |-> NoRun]]
  /\ live = TRUE /\ cur = Nowhere /\ applied = [c \in Box |-> <<>>]
  /\ told = [n \in 1..MaxSteps |-> Untold] /\ redone = {}

\* may_reissue of a transport failure.
MayReissue(replaySafe, reached) == replaySafe \/ ~reached
ReplaySafe(op) == op = "reset"

-----------------------------------------------------------------------------
(* LiteEnvClient *)

\* The next step() of an agent whose last call went well.
AgentSteps ==
  /\ client.pc = "ready" /\ client.n < MaxSteps
  /\ client' = [NoCall EXCEPT !.pc = "send", !.op = "step", !.n = client.n + 1]
  /\ UNCHANGED <<sent, req, handler, told, envVars>>

\* A plausible bug: the agent takes the failure for an answer and goes on.
Mut_GoesOn == client' = [client EXCEPT !.pc = "ready"]

\* The call raises; the agent ends its episode with whatever was raised.
Raises == client' = [client EXCEPT !.pc = "over"]

\* A plausible bug: the attempts are not counted.
Mut_TriesNotCounted(reached) ==
  IF MayReissue(ReplaySafe(client.op), reached)
  THEN client' = [client EXCEPT !.pc = "send"]
  ELSE Raises

\* A transport failure: send again if that is allowed and attempts are left.
TransportFails(reached) ==
  IF /\ MayReissue(ReplaySafe(client.op), reached)
     /\ client.tries + 1 < ClientAttempts
  THEN client' = [client EXCEPT !.pc = "send", !.tries = @ + 1]
  ELSE Raises

ClientUnreached ==
  /\ client.pc = "send"
  /\ TransportFails(FALSE)
  /\ UNCHANGED <<sent, req, handler, told, envVars>>

ClientSends ==
  /\ client.pc = "send" /\ sent < MaxReq
  /\ sent' = sent + 1
  /\ req' = [req EXCEPT ![sent + 1] =
       [NoReq EXCEPT !.op = client.op, !.n = client.n, !.stage = "arrived"]]
  /\ client' = [client EXCEPT !.pc = "wait"]
  /\ UNCHANGED <<handler, told, envVars>>

\* The client reads the answer of its request, the last one sent.
Reads(ans) == client.pc = "wait" /\ req[sent].stage = "answered" /\ req[sent].ans = ans
\* From then on nobody listens; the router and the handler are not told.
HangUp == req' = [req EXCEPT ![sent].ans = "none", ![sent].k = 0]

AnswerOk ==
  /\ Reads("ok")
  /\ client' = [client EXCEPT !.pc = "ready"]
  /\ told' = IF client.op = "step" THEN [told EXCEPT ![client.n] = req[sent].k] ELSE told
  /\ HangUp
  /\ UNCHANGED <<sent, handler, envVars>>

\* A 200 whose frame is cut short: the call did execute.
AnswerTruncated ==
  /\ Reads("ok")
  /\ IF ReplaySafe(client.op) /\ client.frames + 1 < ClientAttempts
     THEN client' = [client EXCEPT !.pc = "send", !.tries = 0, !.frames = @ + 1]
     ELSE Raises
  /\ HangUp
  /\ UNCHANGED <<sent, handler, told, envVars>>

\* 503: a replay-safe call waits as told, until the deadline is too near.
AnswerBusy ==
  /\ Reads("busy")
  /\ \/ ReplaySafe(client.op) /\ client' = [client EXCEPT !.pc = "send"]
     \/ Raises
  /\ HangUp
  /\ UNCHANGED <<sent, handler, told, envVars>>

AnswerError ==
  /\ Reads("error") /\ Raises /\ HangUp
  /\ UNCHANGED <<sent, handler, told, envVars>>

\* The connection breaks under the call, or the answer is cut on the wire.
LineCut ==
  /\ client.pc = "wait"
  /\ TransportFails(TRUE)
  /\ HangUp
  /\ UNCHANGED <<sent, handler, told, envVars>>

\* httpx.ReadTimeout: RemoteCallTimeout, whatever the call.
ReadTimeout ==
  /\ client.pc = "wait" /\ Raises /\ HangUp
  /\ UNCHANGED <<sent, handler, told, envVars>>

-----------------------------------------------------------------------------
(* _sticky_forward: no path is replay-safe for the router. *)

\* An answer nobody waits for any more is dropped.
Answer(q, ans, k) ==
  LET heard == client.pc = "wait" /\ q = sent IN
  req' = [req EXCEPT ![q].stage = "answered", ![q].ans = IF heard THEN ans ELSE "none",
                     ![q].k = IF heard THEN k ELSE 0]

\* The send reaches the env server, whose handler starts.
Forward(q) ==
  LET f == req[q].fwds + 1 IN
  /\ req[q].stage = "arrived"
  /\ req' = [req EXCEPT ![q].stage = "sent", ![q].fwds = f]
  /\ handler' = [handler EXCEPT ![q][f] = [NoRun EXCEPT !.pc = "enter"]]
  /\ UNCHANGED <<client, sent, told, envVars>>

\* A plausible bug: the router, too, takes a call for replay-safe.
Mut_RouterReplays(q, fwds, reached) ==
  IF fwds < RouterTries
  THEN req' = [req EXCEPT ![q].stage = "arrived", ![q].fwds = fwds]
  ELSE Answer(q, "error", 0)

\* What the router does with a transport failure: one more send, or a 502 (404
\* if the node fails its probe as well).
HopFails(q, fwds, reached) ==
  IF MayReissue(FALSE, reached) /\ fwds < RouterTries
  THEN req' = [req EXCEPT ![q].stage = "arrived", ![q].fwds = fwds]
  ELSE Answer(q, "error", 0)

ForwardUnreached(q) ==
  /\ req[q].stage = "arrived"
  /\ HopFails(q, req[q].fwds + 1, FALSE)
  /\ UNCHANGED <<client, sent, handler, told, envVars>>

\* The hop breaks, or its read times out, after the send was delivered.
HopCut(q) ==
  /\ req[q].stage = "sent"
  /\ HopFails(q, req[q].fwds, TRUE)
  /\ UNCHANGED <<client, sent, handler, told, envVars>>

Relay(q) ==
  LET h == handler[q][req[q].fwds] IN
  /\ req[q].stage = "sent" /\ h.pc = "done"
  /\ Answer(q, h.ans, h.k)
  /\ UNCHANGED <<client, sent, handler, told, envVars>>

-----------------------------------------------------------------------------
(* The env server's handlers *)

At(q, f, op, pc) == handler[q][f].pc = pc /\ req[q].op = op
Put(q, f, h)     == handler' = [handler EXCEPT ![q][f] = h]
Ends(q, f, ans)  ==
  Put(q, f, [NoRun EXCEPT !.pc = "done", !.ans = ans,
                          !.k = IF ans = "ok" THEN handler[q][f].k ELSE 0])

\* The handler looks the instance up: 404 if it is gone.
NotFound(q, f) ==
  /\ handler[q][f].pc = "enter" /\ ~live
  /\ Ends(q, f, "error")
  /\ UNCHANGED <<client, sent, req, told, envVars>>

\* env.reset() begins: what the env acted on is torn down.
ResetBegins(q, f) ==
  /\ \/ At(q, f, "reset", "enter") /\ live
     \/ At(q, f, "reset", "sleep")
  /\ Put(q, f, [handler[q][f] EXCEPT !.pc = "reset"])
  /\ cur' = Nowhere
  /\ UNCHANGED <<client, sent, req, live, applied, told, redone>>

ResetOk(q, f) ==
  /\ At(q, f, "reset", "reset")
  /\ cur' = <<q, f>>
  /\ Ends(q, f, "ok")
  /\ UNCHANGED <<client, sent, req, live, applied, told, redone>>

\* CapacityExhausted: 503, and the instance stays.
ResetBusy(q, f) ==
  /\ At(q, f, "reset", "reset")
  /\ Ends(q, f, "busy")
  /\ UNCHANGED <<client, sent, req, told, envVars>>

\* Any transport failure licenses another env.reset().
ResetRetries(q, f) ==
  /\ At(q, f, "reset", "reset") /\ handler[q][f].att + 1 < ServerAttempts
  /\ Put(q, f, [handler[q][f] EXCEPT !.pc = "sleep", !.att = @ + 1])
  /\ UNCHANGED <<client, sent, req, told, envVars>>

\* Any other failure, or the last attempt: the instance is reclaimed.
ResetFails(q, f) ==
  /\ At(q, f, "reset", "reset")
  /\ live' = FALSE
  /\ Ends(q, f, "error")
  /\ UNCHANGED <<client, sent, req, cur, applied, told, redone>>

\* env.step() begins, from the first action of the batch.
StepBegins(q, f) ==
  LET again == At(q, f, "step", "sleep") IN
  /\ again \/ (At(q, f, "step", "enter") /\ live)
  /\ Put(q, f, [handler[q][f] EXCEPT !.pc = "act", !.base = cur, !.k = 0, !.stop = FALSE])
  /\ redone' = IF again THEN redone \cup {req[q].n} ELSE redone
  /\ UNCHANGED <<client, sent, req, live, cur, applied, told>>

\* env.step() raises: run it again if the raiser says that nothing ran.
StepRaises(q, f, reached) ==
  IF MayReissue(FALSE, reached) /\ handler[q][f].att + 1 < ServerAttempts
  THEN Put(q, f, [handler[q][f] EXCEPT !.pc = "sleep", !.att = @ + 1])
  ELSE Ends(q, f, "error")

-----------------------------------------------------------------------------
(* OSWorldEnv.step, one RPC after the other *)

Running(q, f) == handler[q][f].pc = "act" /\ handler[q][f].base # Nowhere
\* The next action of the batch is executed in the container, if it is there.
Lands(q, f) ==
  LET h == handler[q][f] IN
  /\ h.base = cur
  /\ applied' = [applied EXCEPT ![cur] = Append(@, <<req[q].n, h.k + 1>>)]
\* What a failed RPC leaves behind: it may have been executed.
MayLand(q, f) == Lands(q, f) \/ UNCHANGED applied

\* StepTimeoutWrapper: EnvTimeoutError, which no transport error is.  The RPC
\* that was under way may still be executed.
StepTimeout(q, f) ==
  /\ handler[q][f].pc \in {"act", "capture", "evaluate"}
  /\ (Running(q, f) /\ handler[q][f].k < BatchLen /\ Lands(q, f)) \/ UNCHANGED applied
  /\ Ends(q, f, "error")
  /\ UNCHANGED <<client, sent, req, live, cur, told, redone>>

\* No container: nothing is sent, and the step answers all the same.
ActNowhere(q, f) ==
  /\ handler[q][f].pc = "act" /\ handler[q][f].base = Nowhere
  /\ Ends(q, f, "ok")
  /\ UNCHANGED <<client, sent, req, told, envVars>>

ActOk(q, f) ==
  /\ Running(q, f) /\ handler[q][f].k < BatchLen
  /\ Lands(q, f)
  /\ Put(q, f, [handler[q][f] EXCEPT !.pc = "capture", !.k = @ + 1,
                                     !.stop = handler[q][f].k + 1 = BatchLen])
  /\ UNCHANGED <<client, sent, req, live, cur, told, redone>>

\* A plausible bug: the action is logged as executed all the same.
Mut_RefusedCountsAsRun(q, f) ==
  /\ Running(q, f) /\ handler[q][f].k < BatchLen
  /\ Put(q, f, [handler[q][f] EXCEPT !.pc = "capture", !.k = @ + 1,
                                     !.stop = handler[q][f].k + 1 = BatchLen])
  /\ UNCHANGED <<client, sent, req, told, envVars>>

\* Refused: TrueInfraFailure, which is no transport error to the handler.
ActRefused(q, f) ==
  /\ Running(q, f) /\ handler[q][f].k < BatchLen
  /\ StepRaises(q, f, TRUE)
  /\ UNCHANGED <<client, sent, req, told, envVars>>

\* Cut after it was sent: TrueInfraFailure as well.
ActCut(q, f) ==
  /\ Running(q, f) /\ handler[q][f].k < BatchLen
  /\ MayLand(q, f)
  /\ StepRaises(q, f, TRUE)
  /\ UNCHANGED <<client, sent, req, live, cur, told, redone>>

\* A plausible bug: the action that failed is tried once more.
Mut_ErrorTriedAgain(q, f) ==
  LET h == handler[q][f] IN
  /\ Running(q, f) /\ h.k < BatchLen
  /\ MayLand(q, f)
  /\ Put(q, f, [h EXCEPT !.pc = "act"])
  /\ UNCHANGED <<client, sent, req, live, cur, told, redone>>

\* A timeout or a non-200: a tool error for the model, and the rest of the
\* batch is dropped.  A step without a frame so far still takes one.
ActError(q, f) ==
  LET h == handler[q][f] IN
  /\ Running(q, f) /\ h.k < BatchLen
  /\ MayLand(q, f)
  /\ Put(q, f, [h EXCEPT !.pc = IF h.k = 0 THEN "capture" ELSE "evaluate", !.stop = TRUE])
  /\ UNCHANGED <<client, sent, req, live, cur, told, redone>>

CaptureOk(q, f) ==
  LET h == handler[q][f] IN
  /\ h.pc = "capture"
  /\ Put(q, f, [h EXCEPT !.pc = IF h.stop THEN "evaluate" ELSE "act"])
  /\ UNCHANGED <<client, sent, req, told, envVars>>

\* The RPC for a frame, or the one for the reward, fails.  Nobody catches it.
ReadFails(q, f, reached) ==
  /\ \/ handler[q][f].pc = "capture"
     \/ handler[q][f].pc = "evaluate" /\ req[q].n = MaxSteps
  /\ StepRaises(q, f, reached)
  /\ UNCHANGED <<client, sent, req, told, envVars>>

\* The step is over; the last one of an episode has asked for its reward.
StepOk(q, f) ==
  /\ handler[q][f].pc = "evaluate"
  /\ Ends(q, f, "ok")
  /\ UNCHANGED <<client, sent, req, told, envVars>>

-----------------------------------------------------------------------------
ClientStep ==
  \/ ClientUnreached \/ ClientSends \/ AnswerOk \/ AnswerTruncated
  \/ AnswerBusy \/ AnswerError \/ LineCut \/ ReadTimeout

RouterStep(q) == Forward(q) \/ ForwardUnreached(q) \/ HopCut(q) \/ Relay(q)

HandlerStep(q, f) ==
  \/ NotFound(q, f) \/ ResetBegins(q, f) \/ ResetOk(q, f) \/ ResetBusy(q, f)
  \/ ResetRetries(q, f) \/ ResetFails(q, f) \/ StepBegins(q, f) \/ StepTimeout(q, f)
  \/ ActNowhere(q, f) \/ ActOk(q, f) \/ ActRefused(q, f) \/ ActCut(q, f) \/ ActError(q, f)
  \/ CaptureOk(q, f) \/ StepOk(q, f)
  \/ \E reached \in BOOLEAN : ReadFails(q, f, reached)

Next ==
  \/ AgentSteps \/ ClientStep
  \/ \E q \in Req : RouterStep(q) \/ \E f \in Send : HandlerStep(q, f)

Spec == Init /\ [][Next]_vars

\* The loops of the client run on; so do its deadlines.
FairSpec == Spec /\ WF_vars(ClientStep)

-----------------------------------------------------------------------------
Action == (1..MaxSteps) \X (1..BatchLen)

Answers == {"none", "ok", "busy", "error"}
Calls   == [pc : {"send", "wait", "ready", "over"}, op : {"reset", "step"}, n : 0..MaxSteps,
            tries : 0..(ClientAttempts - 1), frames : 0..(ClientAttempts - 1)]
Requests == [op : {"reset", "step"}, n : 0..MaxSteps,
             stage : {"none", "arrived", "sent", "answered"}, fwds : 0..RouterTries,
             ans : Answers, k : 0..BatchLen]
Runs    == [pc : {"none", "enter", "reset", "sleep", "act", "capture", "evaluate", "done"},
            att : 0..(ServerAttempts - 1), base : Box, k : 0..BatchLen, stop : BOOLEAN,
            ans : Answers]

\* The type invariant.
TypeOK ==
  /\ client \in Calls /\ sent \in 0..MaxReq
  /\ req \in [Req -> Requests] /\ handler \in [Req -> [Send -> Runs]]
  /\ live \in BOOLEAN /\ cur \in Box
  /\ applied \in [Box -> Seq(Action)]
  /\ told \in [1..MaxSteps -> 0..Untold] /\ redone \subseteq 1..MaxSteps

\* However the hops fail and retry, at most one handler of the env server ever
\* runs a given step of the agent.
StepsServedOnce ==
  \A p, q \in Req, f, g \in Send :
    /\ req[p].op = "step" /\ req[q].op = "step" /\ req[p].n = req[q].n
    /\ handler[p][f].pc # "none" /\ handler[q][g].pc # "none"
    => p = q /\ f = g

Earlier(a, b) == a[1] < b[1] \/ (a[1] = b[1] /\ a[2] < b[2])

\* A container executes the agent's actions in the agent's order and none of
\* them twice, except those of a step whose batch the handler has run again.
AppliedInOrder ==
  \A c \in Box : \A i, j \in DOMAIN applied[c] :
    i < j => Earlier(applied[c][i], applied[c][j]) \/ applied[c][j][1] \in redone

\* No action is executed twice: what re-issuing a step on a refused connection
\* rests on.
AppliedOnce ==
  \A c \in Box : \A i, j \in DOMAIN applied[c] :
    applied[c][i] = applied[c][j] => i = j

Executed(c) == {applied[c][i] : i \in DOMAIN applied[c]}

\* What the answer to a step says was executed was, all of it in one container,
\* and no more than the one action whose RPC failed besides.
AnswersTellWhatRan ==
  \A n \in 1..MaxSteps : told[n] # Untold =>
    /\ \E c \in Box : \A k \in 1..told[n] : <<n, k>> \in Executed(c)
    /\ n \notin redone => \A c \in Box, k \in 1..BatchLen :
                            <<n, k>> \in Executed(c) => k <= told[n] + 1

\* Request 1 is the agent's reset; any other reset is one the client sent again.
ResetResent == \E q \in 2..sent : req[q].op = "reset"

\* Once its reset is answered the agent keeps the env that reset built, unless
\* the client had sent that reset more than once.
EpisodeKeepsItsEnv ==
  [][/\ client.op = "step" \/ client.pc = "ready"
     /\ client.pc # "over"
     /\ ~ResetResent
     => cur' = cur]_vars

\* The agent sees an episode whose steps are executed one after the other, whatever
\* the three hops do to its calls; what they may do beyond that, they do to the
\* last step of an episode that is given up.
Promise == INSTANCE AgentEpisode
  WITH step <- client.n, at <- IF client.pc \in {"send", "wait"} THEN "calling" ELSE client.pc,
       did <- applied, again <- redone
ImplementsEpisode == Promise!Spec

\* Every call of the agent comes to an end.
CallsReturn == client.pc \in {"send", "wait"} ~> client.pc \in {"ready", "over"}
=============================================================================
