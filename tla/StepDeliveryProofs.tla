------------------------ MODULE StepDeliveryProofs ------------------------
(***************************************************************************)
(* One episode over the hops, for every number of steps, actions, requests *)
(* and attempts at each hop.                                               *)
(***************************************************************************)
EXTENDS StepDelivery, TLAPS

Started(q, f) == handler[q][f].pc # "none"
Working == {"act", "capture", "evaluate"}

\* What the type of a request has to do with the client's and its handlers'.
StepsNumbered ==
  /\ client.op = "step" => client.n >= 1
  /\ \A q \in Req : req[q].op = "step" => req[q].n >= 1

StagesCounted ==
  /\ client.pc = "wait" => sent >= 1
  /\ \A q \in Req :
       /\ req[q].stage # "none" => q <= sent
       /\ req[q].stage = "arrived" => req[q].fwds < RouterTries
       /\ req[q].stage = "sent" => req[q].fwds >= 1

HandlersPlaced ==
  \A q \in Req, f \in Send :
    /\ Started(q, f) => q <= sent
    /\ handler[q][f].pc \in Working => req[q].op = "step"

Shape == StepsNumbered /\ StagesCounted /\ HandlersPlaced

TInv == TypeOK /\ Shape

USE DeliveryAssumption DEF Req, Send

LEMMA InitTInv == Init => TInv
<1> SUFFICES ASSUME Init PROVE TInv
  OBVIOUS
<1> USE DEF Init
<1>1. client \in Calls
  BY DEF NoCall, Calls
<1>2. NoReq \in Requests /\ NoRun \in Runs
  BY DEF NoReq, NoRun, Requests, Runs, Answers, Box
<1>3. applied \in [Box -> Seq(Action)]
  OBVIOUS
<1>4. TypeOK
  BY <1>1, <1>2, <1>3 DEF TypeOK, Untold, Box
<1>5. client.pc = "send" /\ client.op = "reset"
  BY DEF NoCall
<1>6. Shape
  BY <1>5 DEF Shape, StepsNumbered, StagesCounted, HandlersPlaced, Started, Working, NoReq, NoRun
<1>7. QED
  BY <1>4, <1>6 DEF TInv

-----------------------------------------------------------------------------
\* A record that is changed in some fields stays what it was in the others.
SameReq(r, s) == r.op = s.op /\ r.n = s.n /\ r.stage = s.stage /\ r.fwds = s.fwds

\* The edits of a call that its client makes.
SameCall(d, c) == d \in Calls /\ d.op = c.op /\ d.n = c.n

LEMMA PcEdit ==
  ASSUME NEW c \in Calls, NEW d, NEW pc \in {"send", "wait", "ready", "over"},
         d = [c EXCEPT !.pc = pc]
  PROVE  SameCall(d, c) /\ d.pc = pc
BY DEF Calls, SameCall

LEMMA TriesEdit ==
  ASSUME NEW c \in Calls, NEW d, NEW tries \in 0..(ClientAttempts - 1),
         d = [c EXCEPT !.pc = "send", !.tries = tries]
  PROVE  SameCall(d, c) /\ d.pc = "send"
BY DEF Calls, SameCall

LEMMA FramesEdit ==
  ASSUME NEW c \in Calls, NEW d, NEW tries \in 0..(ClientAttempts - 1),
         NEW frames \in 0..(ClientAttempts - 1),
         d = [c EXCEPT !.pc = "send", !.tries = tries, !.frames = frames]
  PROVE  SameCall(d, c) /\ d.pc = "send"
BY DEF Calls, SameCall

\* What the client's steps leave of its call and of the requests.
CallKept == SameCall(client', client)
ReqKept  ==
  /\ req' \in [Req -> Requests]
  /\ \A q \in Req : SameReq(req'[q], req[q]) /\ (req'[q] = req[q] \/ req'[q].ans = "none")

LEMMA HangUpKeeps ==
  ASSUME TInv, HangUp
  PROVE  ReqKept
<1>1. /\ req \in [Req -> Requests] /\ "none" \in Answers /\ 0 \in 0..BatchLen
      /\ req' = [req EXCEPT ![sent].ans = "none", ![sent].k = 0]
  BY DEF TInv, TypeOK, Answers, HangUp
<1>2. req' \in [Req -> Requests]
  BY ZenonT(60), <1>1 DEF Requests
<1>3. ASSUME NEW q \in Req
      PROVE  SameReq(req'[q], req[q]) /\ (req'[q] = req[q] \/ req'[q].ans = "none")
  <2>1. CASE q # sent
    BY <1>1, <2>1 DEF SameReq
  <2>2. CASE q = sent
    <3>1. PICK r \in Requests : r = req[q]
      BY <1>1
    <3>2. req'[q] = [r EXCEPT !.ans = "none", !.k = 0]
      BY <1>1, <2>2, <3>1
    <3>3. QED
      BY <3>1, <3>2 DEF Requests, SameReq
  <2>3. QED
    BY <2>1, <2>2
<1>4. QED
  BY <1>2, <1>3 DEF ReqKept

LEMMA TransportFailsKeeps ==
  ASSUME TInv, NEW reached \in BOOLEAN, TransportFails(reached)
  PROVE  /\ CallKept /\ client'.pc \in {"send", "over"}
         /\ client.op = "step" /\ reached => client'.pc = "over"
<1>1. client \in Calls /\ client.tries \in Nat
  BY DEF TInv, TypeOK, Calls
<1>2. CASE MayReissue(ReplaySafe(client.op), reached) /\ client.tries + 1 < ClientAttempts
  <2>1. client.tries + 1 \in 0..(ClientAttempts - 1)
    BY <1>1, <1>2
  <2>2. client' = [client EXCEPT !.pc = "send", !.tries = client.tries + 1]
    BY <1>2 DEF TransportFails
  <2>3. CallKept /\ client'.pc = "send"
    BY <1>1, <2>1, <2>2, TriesEdit DEF CallKept
  <2>4. QED
    BY <1>2, <2>3 DEF MayReissue, ReplaySafe
<1>3. CASE ~(MayReissue(ReplaySafe(client.op), reached) /\ client.tries + 1 < ClientAttempts)
  <2>1. client' = [client EXCEPT !.pc = "over"]
    BY <1>3 DEF TransportFails, Raises
  <2>2. QED
    BY <1>1, <2>1, PcEdit DEF CallKept
<1>4. QED
  BY <1>2, <1>3

LEMMA RaisesKeeps ==
  ASSUME TInv, Raises
  PROVE  CallKept /\ client'.pc = "over"
BY PcEdit DEF TInv, TypeOK, Raises, CallKept

\* The client takes the answer to its step.
Tell ==
  /\ client.op = "step" /\ client'.pc = "ready"
  /\ told' = [told EXCEPT ![client.n] = req[sent].k]

\* A step's call is never sent again once it was delivered.
LEMMA ClientKeeps ==
  ASSUME TInv, ClientStep, ~ClientSends
  PROVE  /\ CallKept /\ ReqKept
         /\ UNCHANGED <<sent, handler, live, cur, applied, redone>>
         /\ told' \in [1..MaxSteps -> 0..Untold]
         /\ told' = told \/ Tell
         /\ client.op = "step" /\ client'.pc = "send" => client.pc = "send"
         /\ client'.pc = "ready" => client.pc = "wait" /\ req[sent].ans = "ok"
                                  /\ req[sent].stage = "answered"
<1>0. /\ client \in Calls /\ req \in [Req -> Requests] /\ sent \in 0..MaxReq
      /\ told \in [1..MaxSteps -> 0..Untold]
  BY DEF TInv, TypeOK
<1> USE DEF envVars
<1>1. CASE ClientUnreached
  <2>1. CallKept /\ client'.pc \in {"send", "over"} /\ client.pc = "send"
    BY <1>1, TransportFailsKeeps DEF ClientUnreached
  <2>2. QED
    BY <1>0, <1>1, <2>1 DEF ClientUnreached, ReqKept, SameReq
<1>2. CASE AnswerOk
  <2>1. client' = [client EXCEPT !.pc = "ready"] /\ Reads("ok") /\ HangUp
    BY <1>2 DEF AnswerOk
  <2>2. CallKept /\ client'.pc = "ready"
    BY <1>0, <2>1, PcEdit DEF CallKept
  <2>3. told' \in [1..MaxSteps -> 0..Untold]
    <3>1. sent \in Req
      BY <1>0, <2>1 DEF Reads, TInv, Shape, StagesCounted
    <3>2. req[sent].k \in 0..Untold
      BY <1>0, <3>1 DEF Requests, Untold
    <3>3. QED
      BY <1>0, <1>2, <3>2 DEF AnswerOk
  <2>4. QED
    BY <1>2, <2>1, <2>2, <2>3, HangUpKeeps DEF AnswerOk, Reads, Tell
<1>3. CASE AnswerTruncated
  <2>1. CallKept /\ client'.pc \in {"send", "over"} /\ (client.op = "step" => client'.pc = "over")
    <3>1. CASE ReplaySafe(client.op) /\ client.frames + 1 < ClientAttempts
      <4>1. client.frames + 1 \in 0..(ClientAttempts - 1) /\ 0 \in 0..(ClientAttempts - 1)
        BY <1>0, <3>1 DEF Calls
      <4>2. client' = [client EXCEPT !.pc = "send", !.tries = 0, !.frames = client.frames + 1]
        BY <1>3, <3>1 DEF AnswerTruncated
      <4>3. CallKept /\ client'.pc = "send"
        BY <1>0, <4>1, <4>2, FramesEdit DEF CallKept
      <4>4. QED
        BY <3>1, <4>3 DEF ReplaySafe
    <3>2. CASE ~(ReplaySafe(client.op) /\ client.frames + 1 < ClientAttempts)
      BY <1>3, <3>2, RaisesKeeps DEF AnswerTruncated
    <3>3. QED
      BY <3>1, <3>2
  <2>2. QED
    BY <1>0, <1>3, <2>1, HangUpKeeps DEF AnswerTruncated
<1>4. CASE AnswerBusy
  <2>1. CallKept /\ client'.pc \in {"send", "over"} /\ (client.op = "step" => client'.pc = "over")
    <3>1. CASE ReplaySafe(client.op) /\ client' = [client EXCEPT !.pc = "send"]
      BY <1>0, <3>1, PcEdit DEF CallKept, ReplaySafe
    <3>2. CASE Raises
      BY <3>2, RaisesKeeps
    <3>3. QED
      BY <1>4, <3>1, <3>2 DEF AnswerBusy
  <2>2. QED
    BY <1>0, <1>4, <2>1, HangUpKeeps DEF AnswerBusy
<1>5. CASE AnswerError
  BY <1>0, <1>5, RaisesKeeps, HangUpKeeps DEF AnswerError
<1>6. CASE LineCut
  <2>1. CallKept /\ client'.pc \in {"send", "over"} /\ (client.op = "step" => client'.pc = "over")
    BY <1>6, TransportFailsKeeps DEF LineCut
  <2>2. QED
    BY <1>0, <1>6, <2>1, HangUpKeeps DEF LineCut
<1>7. CASE ReadTimeout
  BY <1>0, <1>7, RaisesKeeps, HangUpKeeps DEF ReadTimeout
<1>8. QED
  BY <1>1, <1>2, <1>3, <1>4, <1>5, <1>6, <1>7 DEF ClientStep

LEMMA ClientTypes ==
  ASSUME TInv, AgentSteps \/ ClientStep
  PROVE  TInv'
<1>0. /\ client \in Calls /\ req \in [Req -> Requests] /\ sent \in 0..MaxReq
  BY DEF TInv, TypeOK
<1>1. CASE AgentSteps
  <2>1. client.n + 1 \in 0..MaxSteps /\ 0 \in 0..(ClientAttempts - 1)
    BY <1>0, <1>1 DEF AgentSteps, Calls
  <2>2. client' = [NoCall EXCEPT !.pc = "send", !.op = "step", !.n = client.n + 1]
    BY <1>1 DEF AgentSteps
  <2>3. client' \in Calls
    BY Zenon, <2>1, <2>2 DEF NoCall, Calls
  <2>4. client'.n = client.n + 1 /\ client'.pc = "send"
    BY <2>2 DEF NoCall
  <2>5. UNCHANGED <<sent, req, handler, told, live, cur, applied, redone>>
    BY <1>1 DEF AgentSteps, envVars
  <2>6. TypeOK'
    BY <2>3, <2>5 DEF TInv, TypeOK
  <2>7. Shape'
    BY <1>0, <2>4, <2>5 DEF TInv, Shape, StepsNumbered, StagesCounted, HandlersPlaced, Started, Calls
  <2>8. QED
    BY <2>6, <2>7 DEF TInv
<1>2. CASE ClientSends
  <2>1. client' = [client EXCEPT !.pc = "wait"] /\ sent' = sent + 1 /\ sent' \in 0..MaxReq
    BY <1>0, <1>2 DEF ClientSends
  <2>2. CallKept
    BY <1>0, <2>1, PcEdit DEF CallKept
  <2>3. /\ req' \in [Req -> Requests]
        /\ \A q \in Req \ {sent + 1} : req'[q] = req[q]
        /\ req'[sent + 1].op = client.op /\ req'[sent + 1].n = client.n
        /\ req'[sent + 1].stage = "arrived" /\ req'[sent + 1].fwds = 0
    <3>1. /\ client.op \in {"reset", "step"} /\ client.n \in 0..MaxSteps /\ sent + 1 \in Req
          /\ "none" \in Answers /\ 0 \in 0..BatchLen /\ 0 \in 0..RouterTries
      BY <1>0, <2>1 DEF Calls, Answers
    <3>2. PICK s : s = [NoReq EXCEPT !.op = client.op, !.n = client.n, !.stage = "arrived"]
      OBVIOUS
    <3>3. s.op = client.op /\ s.n = client.n /\ s.stage = "arrived" /\ s.fwds = 0
      BY <3>2 DEF NoReq
    <3>4. s \in Requests
      BY Zenon, <3>1, <3>2 DEF NoReq, Requests
    <3>5. req' = [req EXCEPT ![sent + 1] = s]
      BY <1>2, <3>2 DEF ClientSends
    <3>6. QED
      BY <1>0, <3>1, <3>3, <3>4, <3>5
  <2>4. UNCHANGED <<handler, told, live, cur, applied, redone>>
    BY <1>2 DEF ClientSends, envVars
  <2>5. TypeOK'
    BY <2>1, <2>2, <2>3, <2>4 DEF TInv, TypeOK, CallKept, SameCall
  <2>6. Shape'
    <3>1. client'.op = client.op /\ client'.n = client.n /\ sent + 1 \in Req
      BY <1>0, <2>1, <2>2 DEF CallKept, SameCall
    <3>2. StepsNumbered'
      BY <1>0, <2>3, <3>1 DEF TInv, Shape, StepsNumbered
    <3>3. StagesCounted'
      BY <1>0, <2>1, <2>3, <3>1 DEF TInv, Shape, StagesCounted
    <3>4. HandlersPlaced'
      <4>1. \A q \in Req, f \in Send : Started(q, f) => q <= sent /\ q <= sent'
        BY <1>0, <2>1 DEF TInv, Shape, HandlersPlaced
      <4>2. \A q \in Req, f \in Send : Started(q, f) => req'[q].op = req[q].op
        BY <1>0, <2>3, <4>1
      <4>3. \A q \in Req, f \in Send : handler[q][f].pc \in Working => Started(q, f)
        BY DEF Started, Working
      <4>4. QED
        BY <2>4, <4>1, <4>2, <4>3 DEF TInv, Shape, HandlersPlaced, Started
    <3>5. QED
      BY <3>2, <3>3, <3>4 DEF Shape
  <2>7. QED
    BY <2>5, <2>6 DEF TInv
<1>3. CASE ClientStep /\ ~ClientSends
  <2>1. TypeOK'
    BY <1>3, ClientKeeps DEF TInv, TypeOK, CallKept, SameCall, ReqKept
  <2>2. client'.pc # "wait" \/ client'.pc = client.pc
    BY <1>0, <1>3 DEF ClientStep, ClientUnreached, AnswerOk, AnswerTruncated, AnswerBusy, AnswerError,
       LineCut, ReadTimeout, TransportFails, Raises, Calls
  <2>3. Shape'
    <3>1. CallKept /\ ReqKept /\ UNCHANGED <<sent, handler>>
      BY <1>3, ClientKeeps
    <3>2. QED
      BY <2>2, <3>1 DEF TInv, Shape, StepsNumbered, StagesCounted, HandlersPlaced, Started,
         CallKept, SameCall, ReqKept, SameReq
  <2>4. QED
    BY <2>1, <2>3 DEF TInv
<1>4. QED
  BY <1>1, <1>2, <1>3

-----------------------------------------------------------------------------
\* The router changes the stage of one request and starts its handlers.
AnsweredNow(q) ==
  /\ req' \in [Req -> Requests]
  /\ \A p \in Req : req'[p].op = req[p].op /\ req'[p].n = req[p].n
  /\ \A p \in Req \ {q} : req'[p] = req[p]
  /\ req'[q].stage = "answered"

LEMMA AnswerTypes ==
  ASSUME TInv, NEW q \in Req, NEW ans \in Answers, NEW k \in 0..BatchLen, Answer(q, ans, k)
  PROVE  /\ AnsweredNow(q) /\ req'[q].ans \in {"none", ans}
         /\ req'[q].ans # "none" => req'[q].k = k
<1>1. req \in [Req -> Requests] /\ "none" \in Answers /\ 0 \in 0..BatchLen
  BY DEF TInv, TypeOK, Answers
<1>2. PICK a \in {"none", ans}, b \in 0..BatchLen :
        /\ req' = [req EXCEPT ![q].stage = "answered", ![q].ans = a, ![q].k = b]
        /\ a # "none" => b = k
  BY <1>1 DEF Answer
<1>3. PICK r \in Requests : r = req[q]
  BY <1>1
<1>4. PICK s : s = [r EXCEPT !.stage = "answered", !.ans = a, !.k = b]
  OBVIOUS
<1>5. a \in Answers /\ "answered" \in {"none", "arrived", "sent", "answered"}
  BY <1>1
<1>6. s \in Requests
  BY ZenonT(60), <1>4, <1>5 DEF Requests
<1>7. s.op = r.op /\ s.n = r.n /\ s.stage = "answered" /\ s.ans = a /\ s.k = b
  BY <1>4 DEF Requests
<1>8. req'[q] = s /\ \A p \in Req \ {q} : req'[p] = req[p]
  BY Zenon, <1>1, <1>2, <1>3, <1>4
<1>9. req' \in [Req -> Requests]
  <2>1. req' = [p \in Req |-> req'[p]]
    BY Zenon, <1>1, <1>2
  <2>2. \A p \in Req : req'[p] \in Requests
    BY <1>1, <1>6, <1>8
  <2>3. QED
    BY Zenon, <2>1, <2>2
<1>10. QED
  BY <1>2, <1>3, <1>7, <1>8, <1>9 DEF AnsweredNow

\* The request goes on to another stage.
StageNow(q, stage, fwds) ==
  /\ req' \in [Req -> Requests]
  /\ \A p \in Req : req'[p].op = req[p].op /\ req'[p].n = req[p].n
  /\ \A p \in Req \ {q} : req'[p] = req[p]
  /\ req'[q].stage = stage /\ req'[q].fwds = fwds

LEMMA StageTypes ==
  ASSUME TInv, NEW q \in Req, NEW stage \in {"arrived", "sent"}, NEW fwds \in 0..RouterTries,
         req' = [req EXCEPT ![q].stage = stage, ![q].fwds = fwds]
  PROVE  StageNow(q, stage, fwds)
<1>1. req \in [Req -> Requests]
  BY DEF TInv, TypeOK
<1>2. PICK r \in Requests : r = req[q]
  BY <1>1
<1>3. PICK s : s = [r EXCEPT !.stage = stage, !.fwds = fwds]
  OBVIOUS
<1>4. stage \in {"none", "arrived", "sent", "answered"}
  OBVIOUS
<1>5. s \in Requests
  BY ZenonT(60), <1>3, <1>4 DEF Requests
<1>6. s.op = r.op /\ s.n = r.n /\ s.stage = stage /\ s.fwds = fwds
  BY <1>3 DEF Requests
<1>7. req'[q] = s /\ \A p \in Req \ {q} : req'[p] = req[p]
  BY Zenon, <1>1, <1>2, <1>3
<1>8. req' \in [Req -> Requests]
  <2>1. req' = [p \in Req |-> req'[p]]
    BY Zenon, <1>1
  <2>2. \A p \in Req : req'[p] \in Requests
    BY <1>1, <1>5, <1>7
  <2>3. QED
    BY Zenon, <2>1, <2>2
<1>9. QED
  BY <1>2, <1>6, <1>7, <1>8 DEF StageNow

LEMMA HopFailsTypes ==
  ASSUME TInv, NEW q \in Req, NEW fwds \in 0..RouterTries, NEW reached \in BOOLEAN,
         HopFails(q, fwds, reached)
  PROVE  \/ AnsweredNow(q) /\ req'[q].ans \in {"none", "error"}
         \/ ~reached /\ fwds < RouterTries /\ StageNow(q, "arrived", fwds)
<1>1. CASE MayReissue(FALSE, reached) /\ fwds < RouterTries
  <2>1. req' = [req EXCEPT ![q].stage = "arrived", ![q].fwds = fwds] /\ ~reached
    BY <1>1 DEF HopFails, MayReissue
  <2>2. StageNow(q, "arrived", fwds)
    BY <2>1, StageTypes
  <2>3. QED
    BY <1>1, <2>1, <2>2
<1>2. CASE ~(MayReissue(FALSE, reached) /\ fwds < RouterTries)
  <2>1. Answer(q, "error", 0)
    BY <1>2 DEF HopFails
  <2>2. "error" \in Answers /\ 0 \in 0..BatchLen
    BY DEF Answers
  <2>3. QED
    BY Zenon, <2>1, <2>2, AnswerTypes
<1>3. QED
  BY <1>1, <1>2

\* One handler moves on.
MovesTo(q, f, h) ==
  /\ handler' \in [Req -> [Send -> Runs]]
  /\ handler'[q][f] = h
  /\ \A p \in Req, g \in Send : p # q \/ g # f => handler'[p][g] = handler[p][g]

LEMMA PutTypes ==
  ASSUME TInv, NEW q \in Req, NEW f \in Send, NEW h \in Runs, Put(q, f, h)
  PROVE  MovesTo(q, f, h)
BY DEF TInv, TypeOK, Put, MovesTo

\* The answer is what a handler that is over has left.
Relays(q, f) ==
  /\ handler[q][f].pc = "done" /\ req'[q].ans \in {"none", handler[q][f].ans}
  /\ req'[q].ans # "none" => req'[q].k = handler[q][f].k

\* What a step of the router does.
LEMMA RouterSteps ==
  ASSUME TInv, NEW q \in Req, RouterStep(q)
  PROVE  /\ UNCHANGED <<client, sent, told, live, cur, applied, redone>>
         /\ req[q].stage \in {"arrived", "sent"}
         /\ \/ /\ req[q].stage = "arrived"
               /\ \E f \in Send, h \in Runs : MovesTo(q, f, h) /\ h.pc = "enter" /\ StageNow(q, "sent", f)
            \/ /\ UNCHANGED handler /\ req[q].stage = "arrived"
               /\ \E f \in Send : f < RouterTries /\ StageNow(q, "arrived", f)
            \/ /\ UNCHANGED handler /\ AnsweredNow(q)
               /\ \/ req'[q].ans \in {"none", "error"}
                  \/ \E f \in Send : Relays(q, f)
<1>0. /\ req \in [Req -> Requests] /\ handler \in [Req -> [Send -> Runs]]
      /\ req[q].fwds \in 0..RouterTries
  BY DEF TInv, TypeOK, Requests
<1> USE DEF envVars
<1>1. CASE Forward(q)
  <2>1. req[q].stage = "arrived" /\ req[q].fwds + 1 \in Send
    BY <1>0, <1>1 DEF Forward, TInv, Shape, StagesCounted
  <2>2. PICK f \in Send : f = req[q].fwds + 1
    BY <2>1
  <2>3. req' = [req EXCEPT ![q].stage = "sent", ![q].fwds = f]
    BY <1>1, <2>2 DEF Forward
  <2>4. StageNow(q, "sent", f)
    <3>1. f \in 0..RouterTries
      BY <2>1
    <3>2. QED
      BY <2>3, <3>1, StageTypes
  <2>5. PICK h : h = [NoRun EXCEPT !.pc = "enter"]
    OBVIOUS
  <2>6. h \in Runs /\ h.pc = "enter"
    <3>1. /\ 0 \in 0..(ServerAttempts - 1) /\ Nowhere \in Box /\ 0 \in 0..BatchLen
          /\ "none" \in Answers
      BY DEF Answers, Box
    <3>2. QED
      BY Zenon, <2>5, <3>1 DEF NoRun, Runs
  <2>7. handler' = [handler EXCEPT ![q][f] = h]
    BY <1>1, <2>2, <2>5 DEF Forward
  <2>8. MovesTo(q, f, h)
    BY <2>6, <2>7, PutTypes DEF Put
  <2>9. QED
    BY <1>1, <2>1, <2>4, <2>6, <2>8 DEF Forward
<1>2. CASE ForwardUnreached(q)
  <2>1. req[q].stage = "arrived" /\ req[q].fwds + 1 \in 0..RouterTries
    BY <1>0, <1>2 DEF ForwardUnreached, TInv, Shape, StagesCounted
  <2>2. HopFails(q, req[q].fwds + 1, FALSE) /\ UNCHANGED <<client, sent, handler, told, envVars>>
    BY <1>2 DEF ForwardUnreached
  <2>3. \/ AnsweredNow(q) /\ req'[q].ans \in {"none", "error"}
        \/ req[q].fwds + 1 < RouterTries /\ StageNow(q, "arrived", req[q].fwds + 1)
    BY <2>1, <2>2, HopFailsTypes
  <2>4. QED
    BY <1>0, <2>1, <2>2, <2>3
<1>3. CASE HopCut(q)
  <2>1. /\ req[q].stage = "sent" /\ HopFails(q, req[q].fwds, TRUE)
        /\ UNCHANGED <<client, sent, handler, told, envVars>>
    BY <1>3 DEF HopCut
  <2>2. AnsweredNow(q) /\ req'[q].ans \in {"none", "error"}
    BY <1>0, <2>1, HopFailsTypes
  <2>3. QED
    BY <2>1, <2>2
<1>4. CASE Relay(q)
  <2>1. /\ req[q].stage = "sent" /\ handler[q][req[q].fwds].pc = "done"
        /\ UNCHANGED <<client, sent, handler, told, envVars>>
        /\ Answer(q, handler[q][req[q].fwds].ans, handler[q][req[q].fwds].k)
    BY <1>4 DEF Relay
  <2>2. req[q].fwds \in Send
    BY <1>0, <2>1 DEF TInv, Shape, StagesCounted
  <2>3. handler[q][req[q].fwds].ans \in Answers /\ handler[q][req[q].fwds].k \in 0..BatchLen
    <3>1. PICK h \in Runs : h = handler[q][req[q].fwds]
      BY <1>0, <2>2
    <3>2. h.ans \in Answers /\ h.k \in 0..BatchLen
      BY DEF Runs
    <3>3. QED
      BY <3>1, <3>2
  <2>4. AnsweredNow(q) /\ Relays(q, req[q].fwds)
    BY <2>1, <2>3, AnswerTypes DEF Relays
  <2>5. QED
    BY <2>1, <2>2, <2>4
<1>5. QED
  BY <1>1, <1>2, <1>3, <1>4 DEF RouterStep

LEMMA RouterTypes ==
  ASSUME TInv, NEW q \in Req, RouterStep(q)
  PROVE  TInv'
<1>0. /\ req \in [Req -> Requests] /\ handler \in [Req -> [Send -> Runs]]
  BY DEF TInv, TypeOK, Requests
<1>1. UNCHANGED <<client, sent, told, live, cur, applied, redone>>
  BY RouterSteps
<1>2. CASE /\ req[q].stage = "arrived"
           /\ \E f \in Send, h \in Runs : MovesTo(q, f, h) /\ h.pc = "enter" /\ StageNow(q, "sent", f)
  <2>1. PICK f \in Send, h \in Runs : MovesTo(q, f, h) /\ h.pc = "enter" /\ StageNow(q, "sent", f)
    BY <1>2
  <2>2. q <= sent
    BY <1>2 DEF TInv, Shape, StagesCounted
  <2>3. TypeOK'
    BY <1>1, <2>1 DEF TInv, TypeOK, MovesTo, StageNow
  <2>4. StepsNumbered' /\ StagesCounted'
    BY <1>1, <2>1, <2>2 DEF TInv, Shape, StepsNumbered, StagesCounted, StageNow
  <2>5. HandlersPlaced'
    <3>1. \A p \in Req, g \in Send :
            handler'[p][g] = handler[p][g] \/ (p = q /\ handler'[p][g].pc = "enter")
      BY <2>1 DEF MovesTo
    <3>2. \A p \in Req : req'[p].op = req[p].op
      BY <2>1 DEF StageNow
    <3>3. QED
      BY <1>1, <2>2, <3>1, <3>2 DEF TInv, Shape, HandlersPlaced, Started, Working
  <2>6. QED
    BY <2>3, <2>4, <2>5 DEF TInv, Shape
<1>3. CASE /\ UNCHANGED handler /\ req[q].stage = "arrived"
           /\ \E f \in Send : f < RouterTries /\ StageNow(q, "arrived", f)
  <2>1. PICK f \in Send : f < RouterTries /\ StageNow(q, "arrived", f)
    BY <1>3
  <2>2. TypeOK'
    BY <1>1, <1>3, <2>1 DEF TInv, TypeOK, StageNow
  <2>3. StepsNumbered' /\ StagesCounted'
    BY <1>1, <1>3, <2>1 DEF TInv, Shape, StepsNumbered, StagesCounted, StageNow
  <2>4. HandlersPlaced'
    BY <1>1, <1>3, <2>1 DEF TInv, Shape, HandlersPlaced, Started, StageNow
  <2>5. QED
    BY <2>2, <2>3, <2>4 DEF TInv, Shape
<1>4. CASE UNCHANGED handler /\ AnsweredNow(q)
  <2>1. TypeOK'
    BY <1>1, <1>4 DEF TInv, TypeOK, AnsweredNow
  <2>2. q <= sent
    BY RouterSteps DEF TInv, Shape, StagesCounted
  <2>3. StepsNumbered' /\ StagesCounted'
    BY <1>1, <1>4, <2>2 DEF TInv, Shape, StepsNumbered, StagesCounted, AnsweredNow
  <2>4. HandlersPlaced'
    BY <1>1, <1>4 DEF TInv, Shape, HandlersPlaced, Started, AnsweredNow
  <2>5. QED
    BY <2>1, <2>3, <2>4 DEF TInv, Shape
<1>5. QED
  BY <1>2, <1>3, <1>4, RouterSteps

-----------------------------------------------------------------------------
\* A handler does one thing at a time; only a reset's gives the env another
\* container, and only the action at hand can land.
LandsNow(q, f) ==
  /\ handler[q][f].pc = "act" /\ handler[q][f].base = cur
  /\ handler[q][f].k \in Nat /\ handler[q][f].k < BatchLen
  /\ applied' = [applied EXCEPT ![cur] = Append(@, <<req[q].n, handler[q][f].k + 1>>)]

\* How a run of the batch goes on: from its first action, with the action at hand
\* executed, to its end, or with the next action.
WorksOn(q, f, h) ==
  /\ req[q].op = "step"
  /\ \/ /\ h.pc = "act" /\ h.k = 0 /\ UNCHANGED applied
        /\ handler[q][f].pc = "enter" \/ req[q].n \in redone'
     \/ /\ h.base = handler[q][f].base
        /\ \/ LandsNow(q, f) /\ h.pc = "capture" /\ h.k = handler[q][f].k + 1
           \/ /\ handler[q][f].pc \in Working
              /\ h.pc # "act" /\ h.stop /\ h.k = handler[q][f].k
           \/ /\ handler[q][f].pc = "capture" /\ ~handler[q][f].stop
              /\ h.pc = "act" /\ h.k = handler[q][f].k /\ UNCHANGED applied

\* A step that went well ends with what its handler had executed.
EndsWell(q, f, h) ==
  h.pc = "done" /\ h.ans = "ok" /\ req[q].op = "step" =>
    handler[q][f].pc \in Working /\ h.k = handler[q][f].k /\ UNCHANGED applied

HandlerMoves(q, f) ==
  /\ UNCHANGED <<client, sent, req, told>>
  /\ handler[q][f].pc \notin {"none", "done"}
  /\ \E h \in Runs : /\ MovesTo(q, f, h) /\ h.pc \notin {"none", "enter"}
                     /\ h.pc \in Working => WorksOn(q, f, h)
                     /\ EndsWell(q, f, h)
  /\ live' \in BOOLEAN /\ cur' \in Box
  /\ cur' = cur \/ (req[q].op = "reset" /\ handler[q][f].pc \in {"enter", "reset", "sleep"})
  /\ redone \subseteq redone' /\ redone' \subseteq 1..MaxSteps
  /\ UNCHANGED applied \/ LandsNow(q, f)

LEMMA RunPc ==
  ASSUME NEW r \in Runs, NEW s, NEW pc \in {"reset", "sleep", "act", "capture", "evaluate"},
         s = [r EXCEPT !.pc = pc]
  PROVE  s \in Runs /\ s.pc = pc /\ s.k = r.k /\ s.stop = r.stop /\ s.base = r.base
<1>1. s \in Runs
  BY Zenon DEF Runs
<1>2. QED
  BY <1>1 DEF Runs

LEMMA RunAtt ==
  ASSUME NEW r \in Runs, NEW s, NEW pc \in {"reset", "sleep", "act", "capture", "evaluate"},
         NEW att \in 0..(ServerAttempts - 1),
         s = [r EXCEPT !.pc = pc, !.att = att]
  PROVE  s \in Runs /\ s.pc = pc
<1>1. s \in Runs
  BY Zenon DEF Runs
<1>2. QED
  BY <1>1 DEF Runs

LEMMA EndsTypes ==
  ASSUME TInv, NEW q \in Req, NEW f \in Send, NEW ans \in Answers, Ends(q, f, ans)
  PROVE  \E h \in Runs : /\ MovesTo(q, f, h) /\ h.pc = "done" /\ h.ans = ans
                         /\ ans = "ok" => h.k = handler[q][f].k
<1>0. handler[q][f].k \in 0..BatchLen
  BY DEF TInv, TypeOK, Runs
<1>1. 0 \in 0..BatchLen /\ 0 \in 0..(ServerAttempts - 1) /\ Nowhere \in Box
  BY DEF Box
<1>2. PICK k \in 0..BatchLen : k = IF ans = "ok" THEN handler[q][f].k ELSE 0
  BY <1>0, <1>1
<1>3. PICK h : h = [NoRun EXCEPT !.pc = "done", !.ans = ans, !.k = k]
  OBVIOUS
<1>4. h \in Runs
  BY Zenon, <1>1, <1>3 DEF NoRun, Runs
<1>5. h.pc = "done" /\ h.ans = ans /\ h.k = k
  BY <1>3 DEF NoRun
<1>6. Put(q, f, h)
  BY <1>2, <1>3 DEF Ends
<1>7. QED
  BY <1>2, <1>4, <1>5, <1>6, PutTypes

LEMMA StepRaisesTypes ==
  ASSUME TInv, NEW q \in Req, NEW f \in Send, NEW reached \in BOOLEAN, StepRaises(q, f, reached)
  PROVE  \E h \in Runs : /\ MovesTo(q, f, h) /\ h.pc \in {"sleep", "done"}
                         /\ h.pc = "done" => h.ans = "error"
<1>1. handler[q][f] \in Runs
  BY DEF TInv, TypeOK
<1>2. CASE MayReissue(FALSE, reached) /\ handler[q][f].att + 1 < ServerAttempts
  <2>1. PICK att : att = handler[q][f].att + 1
    OBVIOUS
  <2>2. att \in 0..(ServerAttempts - 1)
    BY <1>1, <1>2, <2>1 DEF Runs
  <2>3. PICK r \in Runs : r = handler[q][f]
    BY <1>1
  <2>4. PICK h : h = [r EXCEPT !.pc = "sleep", !.att = att]
    OBVIOUS
  <2>5. h \in Runs /\ h.pc = "sleep"
    BY <2>2, <2>4, RunAtt
  <2>6. Put(q, f, h)
    BY <1>2, <2>1, <2>3, <2>4 DEF StepRaises
  <2>7. QED
    BY <2>5, <2>6, PutTypes
<1>3. CASE ~(MayReissue(FALSE, reached) /\ handler[q][f].att + 1 < ServerAttempts)
  <2>1. Ends(q, f, "error") /\ "error" \in Answers
    BY <1>3 DEF StepRaises, Answers
  <2>2. QED
    BY <2>1, EndsTypes
<1>4. QED
  BY <1>2, <1>3

LEMMA ResetSteps ==
  ASSUME TInv, NEW q \in Req, NEW f \in Send,
         \/ ResetBegins(q, f) \/ ResetOk(q, f) \/ ResetBusy(q, f)
         \/ ResetRetries(q, f) \/ ResetFails(q, f) \/ NotFound(q, f)
  PROVE  HandlerMoves(q, f)
<1>1. /\ handler[q][f] \in Runs /\ live \in BOOLEAN /\ cur \in Box
      /\ redone \subseteq 1..MaxSteps
  BY DEF TInv, TypeOK
<1>2. {"ok", "busy", "error"} \subseteq Answers
  BY DEF Answers
<1>3. PICK r \in Runs : r = handler[q][f]
  BY <1>1
<1> USE DEF envVars, At
<1>4. CASE ResetBegins(q, f)
  <2>1. PICK h : h = [r EXCEPT !.pc = "reset"]
    OBVIOUS
  <2>2. h \in Runs /\ h.pc = "reset"
    BY <2>1, RunPc
  <2>3. MovesTo(q, f, h)
    BY <1>3, <1>4, <2>1, <2>2, PutTypes DEF ResetBegins
  <2>4. QED
    BY <1>1, <1>4, <2>2, <2>3 DEF ResetBegins, HandlerMoves, EndsWell, Box, Working
<1>5. CASE ResetRetries(q, f)
  <2>1. PICK att : att = r.att + 1
    OBVIOUS
  <2>2. att \in 0..(ServerAttempts - 1)
    BY <1>3, <1>5, <2>1 DEF ResetRetries, Runs
  <2>3. PICK h : h = [r EXCEPT !.pc = "sleep", !.att = att]
    OBVIOUS
  <2>4. h \in Runs /\ h.pc = "sleep"
    BY <2>2, <2>3, RunAtt
  <2>5. MovesTo(q, f, h)
    BY <1>3, <1>5, <2>1, <2>3, <2>4, PutTypes DEF ResetRetries
  <2>6. QED
    BY <1>1, <1>5, <2>4, <2>5 DEF ResetRetries, HandlerMoves, EndsWell, Working
<1>6. CASE ResetOk(q, f)
  <2>1. PICK h \in Runs : /\ MovesTo(q, f, h) /\ h.pc = "done"
                          /\ h.ans = "ok" => req[q].op = "reset"
    BY <1>2, <1>6, EndsTypes DEF ResetOk
  <2>2. EndsWell(q, f, h) /\ cur' \in Box
    BY <1>6, <2>1 DEF ResetOk, EndsWell, Box
  <2>3. QED
    BY <1>1, <1>6, <2>1, <2>2 DEF ResetOk, HandlerMoves, Working
<1>7. CASE ResetBusy(q, f)
  <2>1. PICK h \in Runs : /\ MovesTo(q, f, h) /\ h.pc = "done"
                          /\ h.ans # "ok"
    BY <1>2, <1>7, EndsTypes DEF ResetBusy
  <2>2. QED
    BY <1>1, <1>7, <2>1 DEF ResetBusy, HandlerMoves, EndsWell, Working
<1>8. CASE ResetFails(q, f)
  <2>1. PICK h \in Runs : /\ MovesTo(q, f, h) /\ h.pc = "done"
                          /\ h.ans # "ok"
    BY <1>2, <1>8, EndsTypes DEF ResetFails
  <2>2. QED
    BY <1>1, <1>8, <2>1 DEF ResetFails, HandlerMoves, EndsWell, Working
<1>9. CASE NotFound(q, f)
  <2>1. PICK h \in Runs : /\ MovesTo(q, f, h) /\ h.pc = "done"
                          /\ h.ans # "ok"
    BY <1>2, <1>9, EndsTypes DEF NotFound
  <2>2. QED
    BY <1>1, <1>9, <2>1 DEF NotFound, HandlerMoves, EndsWell, Working
<1>10. QED
  BY <1>4, <1>5, <1>6, <1>7, <1>8, <1>9

LEMMA StepSteps ==
  ASSUME TInv, NEW q \in Req, NEW f \in Send,
         \/ StepBegins(q, f) \/ StepTimeout(q, f) \/ ActNowhere(q, f) \/ StepOk(q, f)
         \/ ActOk(q, f) \/ ActRefused(q, f) \/ ActCut(q, f) \/ ActError(q, f)
         \/ CaptureOk(q, f) \/ \E reached \in BOOLEAN : ReadFails(q, f, reached)
  PROVE  HandlerMoves(q, f)
<1>1. /\ handler[q][f] \in Runs /\ live \in BOOLEAN /\ cur \in Box
      /\ redone \subseteq 1..MaxSteps
  BY DEF TInv, TypeOK
<1>2. {"ok", "busy", "error"} \subseteq Answers
  BY DEF Answers
<1>3. PICK r \in Runs : r = handler[q][f]
  BY <1>1
<1>4. /\ r.k \in 0..BatchLen /\ r.stop \in BOOLEAN /\ r.base \in Box
      /\ r.pc \in Working => req[q].op = "step"
      /\ 0 \in 0..BatchLen /\ FALSE \in BOOLEAN /\ TRUE \in BOOLEAN
  BY <1>1, <1>3 DEF Runs, TInv, Shape, HandlersPlaced
<1> USE DEF envVars, At
<1>5. CASE StepBegins(q, f)
  <2>1. PICK h : h = [r EXCEPT !.pc = "act", !.base = cur, !.k = 0, !.stop = FALSE]
    OBVIOUS
  <2>2. h \in Runs /\ h.pc = "act" /\ h.k = 0
    <3>1. h \in Runs
      BY Zenon, <1>1, <1>4, <2>1 DEF Runs
    <3>2. QED
      BY <2>1, <3>1 DEF Runs
  <2>3. MovesTo(q, f, h)
    BY <1>3, <1>5, <2>1, <2>2, PutTypes DEF StepBegins
  <2>4. redone \subseteq redone' /\ redone' \subseteq 1..MaxSteps
    <3>1. req[q].op = "step" => req[q].n \in 1..MaxSteps
      BY DEF TInv, TypeOK, Shape, StepsNumbered, Requests
    <3>2. QED
      BY <1>1, <1>5, <3>1 DEF StepBegins
  <2>5. WorksOn(q, f, h)
    BY <1>5, <2>2 DEF StepBegins, WorksOn
  <2>6. QED
    BY <1>1, <1>5, <2>2, <2>3, <2>4, <2>5 DEF StepBegins, HandlerMoves, EndsWell
<1>6. CASE StepTimeout(q, f)
  <2>1. PICK h \in Runs : /\ MovesTo(q, f, h) /\ h.pc = "done"
                          /\ h.ans # "ok"
    BY <1>2, <1>6, EndsTypes DEF StepTimeout
  <2>2. UNCHANGED applied \/ LandsNow(q, f)
    BY <1>3, <1>4, <1>6 DEF StepTimeout, Lands, Running, LandsNow
  <2>3. QED
    BY <1>1, <1>6, <2>1, <2>2 DEF StepTimeout, HandlerMoves, EndsWell, Working
<1>7. CASE ActNowhere(q, f)
  <2>1. PICK h \in Runs : /\ MovesTo(q, f, h) /\ h.pc = "done"
                          /\ h.ans = "ok" => h.k = handler[q][f].k
    BY <1>2, <1>7, EndsTypes DEF ActNowhere
  <2>2. EndsWell(q, f, h)
    BY <1>7, <2>1 DEF ActNowhere, EndsWell, Working
  <2>3. QED
    BY <1>1, <1>7, <2>1, <2>2 DEF ActNowhere, HandlerMoves, Working
<1>8. CASE StepOk(q, f)
  <2>1. PICK h \in Runs : /\ MovesTo(q, f, h) /\ h.pc = "done"
                          /\ h.ans = "ok" => h.k = handler[q][f].k
    BY <1>2, <1>8, EndsTypes DEF StepOk
  <2>2. EndsWell(q, f, h)
    BY <1>8, <2>1 DEF StepOk, EndsWell, Working
  <2>3. QED
    BY <1>1, <1>8, <2>1, <2>2 DEF StepOk, HandlerMoves, Working
<1>9. CASE ActOk(q, f)
  <2>1. PICK k, stop : k = r.k + 1 /\ stop = (r.k + 1 = BatchLen)
    OBVIOUS
  <2>2. k \in 0..BatchLen /\ stop \in BOOLEAN
    BY <1>3, <1>4, <1>9, <2>1 DEF ActOk
  <2>3. PICK h : h = [r EXCEPT !.pc = "capture", !.k = k, !.stop = stop]
    OBVIOUS
  <2>4. h \in Runs /\ h.pc = "capture" /\ h.k = k /\ h.base = r.base
    <3>1. h \in Runs
      BY Zenon, <2>2, <2>3 DEF Runs
    <3>2. QED
      BY <2>3, <3>1 DEF Runs
  <2>5. MovesTo(q, f, h)
    <3>1. Put(q, f, h)
      BY <1>3, <1>9, <2>1, <2>3 DEF ActOk
    <3>2. QED
      BY <2>4, <3>1, PutTypes
  <2>6. LandsNow(q, f) /\ WorksOn(q, f, h)
    BY <1>3, <1>4, <1>9, <2>1, <2>4 DEF ActOk, Lands, Running, LandsNow, WorksOn, Working
  <2>7. QED
    BY <1>1, <1>9, <2>4, <2>5, <2>6 DEF ActOk, Running, HandlerMoves, EndsWell
<1>10. CASE ActRefused(q, f)
  <2>1. PICK h \in Runs : /\ MovesTo(q, f, h) /\ h.pc \in {"sleep", "done"}
                          /\ h.pc = "done" => h.ans = "error"
    BY <1>10, StepRaisesTypes DEF ActRefused
  <2>2. EndsWell(q, f, h)
    BY <2>1 DEF EndsWell
  <2>3. QED
    BY <1>1, <1>10, <2>1, <2>2 DEF ActRefused, Running, HandlerMoves, Working
<1>11. CASE ActCut(q, f)
  <2>1. PICK h \in Runs : /\ MovesTo(q, f, h) /\ h.pc \in {"sleep", "done"}
                          /\ h.pc = "done" => h.ans = "error"
    BY <1>11, StepRaisesTypes DEF ActCut
  <2>2. UNCHANGED applied \/ LandsNow(q, f)
    BY <1>3, <1>4, <1>11 DEF ActCut, MayLand, Lands, Running, LandsNow
  <2>3. EndsWell(q, f, h)
    BY <2>1 DEF EndsWell
  <2>4. QED
    BY <1>1, <1>11, <2>1, <2>2, <2>3 DEF ActCut, Running, HandlerMoves, Working
<1>12. CASE ActError(q, f)
  <2>1. PICK pc \in {"capture", "evaluate"} : pc = IF r.k = 0 THEN "capture" ELSE "evaluate"
    OBVIOUS
  <2>2. PICK h : h = [r EXCEPT !.pc = pc, !.stop = TRUE]
    OBVIOUS
  <2>3. h \in Runs /\ h.pc = pc /\ h.stop = TRUE /\ h.k = r.k /\ h.base = r.base
    <3>1. h \in Runs
      BY Zenon, <1>4, <2>1, <2>2 DEF Runs
    <3>2. QED
      BY <2>1, <2>2, <3>1 DEF Runs
  <2>4. MovesTo(q, f, h)
    <3>1. Put(q, f, h)
      BY <1>3, <1>12, <2>1, <2>2 DEF ActError
    <3>2. QED
      BY <2>3, <3>1, PutTypes
  <2>5. UNCHANGED applied \/ LandsNow(q, f)
    BY <1>3, <1>4, <1>12 DEF ActError, MayLand, Lands, Running, LandsNow
  <2>6. WorksOn(q, f, h)
    BY <1>3, <1>4, <1>12, <2>1, <2>3 DEF ActError, Running, WorksOn, Working
  <2>7. QED
    BY <1>1, <1>12, <2>1, <2>3, <2>4, <2>5, <2>6 DEF ActError, Running, HandlerMoves, EndsWell
<1>13. CASE CaptureOk(q, f)
  <2>1. PICK pc \in {"act", "evaluate"} : pc = IF r.stop THEN "evaluate" ELSE "act"
    OBVIOUS
  <2>2. PICK h : h = [r EXCEPT !.pc = pc]
    OBVIOUS
  <2>3. h \in Runs /\ h.pc = pc /\ h.k = r.k /\ h.stop = r.stop /\ h.base = r.base
    BY <2>1, <2>2, RunPc
  <2>4. MovesTo(q, f, h)
    <3>1. Put(q, f, h)
      BY <1>3, <1>13, <2>1, <2>2 DEF CaptureOk
    <3>2. QED
      BY <2>3, <3>1, PutTypes
  <2>5. WorksOn(q, f, h)
    BY <1>3, <1>4, <1>13, <2>1, <2>3 DEF CaptureOk, WorksOn, Working
  <2>6. QED
    BY <1>1, <1>13, <2>1, <2>3, <2>4, <2>5 DEF CaptureOk, HandlerMoves, EndsWell
<1>14. CASE \E reached \in BOOLEAN : ReadFails(q, f, reached)
  <2>1. PICK reached \in BOOLEAN : ReadFails(q, f, reached)
    BY <1>14
  <2>2. PICK h \in Runs : /\ MovesTo(q, f, h) /\ h.pc \in {"sleep", "done"}
                          /\ h.pc = "done" => h.ans = "error"
    BY <2>1, StepRaisesTypes DEF ReadFails
  <2>3. EndsWell(q, f, h)
    BY <2>2 DEF EndsWell
  <2>4. QED
    BY <1>1, <2>1, <2>2, <2>3 DEF ReadFails, HandlerMoves, Working
<1>15. QED
  BY <1>5, <1>6, <1>7, <1>8, <1>9, <1>10, <1>11, <1>12, <1>13, <1>14

LEMMA HandlerSteps ==
  ASSUME TInv, NEW q \in Req, NEW f \in Send, HandlerStep(q, f)
  PROVE  HandlerMoves(q, f)
BY ResetSteps, StepSteps DEF HandlerStep

LEMMA HandlerTypes ==
  ASSUME TInv, NEW q \in Req, NEW f \in Send, HandlerMoves(q, f)
  PROVE  TInv'
<1>1. PICK h \in Runs : MovesTo(q, f, h) /\ (h.pc \in Working => req[q].op = "step")
  BY DEF HandlerMoves, WorksOn
<1>2. q <= sent
  BY DEF TInv, Shape, HandlersPlaced, Started, HandlerMoves
<1>3. applied' \in [Box -> Seq(Action)]
  <2>1. CASE UNCHANGED applied
    BY <2>1 DEF TInv, TypeOK
  <2>2. CASE LandsNow(q, f)
    <3>1. <<req[q].n, handler[q][f].k + 1>> \in Action
      <4>1. req[q].op = "step"
        BY <2>2 DEF LandsNow, TInv, Shape, HandlersPlaced, Working
      <4>2. req[q].n \in 1..MaxSteps
        BY <4>1 DEF TInv, TypeOK, Shape, StepsNumbered, Requests
      <4>3. handler[q][f].k + 1 \in 1..BatchLen
        BY <2>2 DEF LandsNow
      <4>4. QED
        BY <4>2, <4>3 DEF Action
    <3>2. PICK a \in Action : a = <<req[q].n, handler[q][f].k + 1>>
      BY <3>1
    <3>3. applied' = [applied EXCEPT ![cur] = Append(@, a)]
      BY <2>2, <3>2 DEF LandsNow
    <3>4. applied \in [Box -> Seq(Action)]
      BY DEF TInv, TypeOK
    <3>5. cur \in Box => Append(applied[cur], a) \in Seq(Action)
      BY <3>4
    <3>6. QED
      BY <3>3, <3>4, <3>5
  <2>3. QED
    BY <2>1, <2>2 DEF HandlerMoves
<1>4. TypeOK'
  BY <1>1, <1>3 DEF TInv, TypeOK, HandlerMoves, MovesTo
<1>5. StepsNumbered' /\ StagesCounted'
  BY DEF TInv, Shape, StepsNumbered, StagesCounted, HandlerMoves
<1>6. HandlersPlaced'
  <2>1. \A p \in Req, g \in Send : handler'[p][g] = handler[p][g] \/ (p = q /\ handler'[p][g] = h)
    BY <1>1 DEF MovesTo
  <2>2. QED
    BY <1>1, <1>2, <2>1 DEF TInv, Shape, HandlersPlaced, HandlerMoves, Started
<1>7. QED
  BY <1>4, <1>5, <1>6 DEF TInv, Shape

LEMMA StutterTypes == TInv /\ UNCHANGED vars => TInv'
BY DEF TInv, TypeOK, Shape, StepsNumbered, StagesCounted, HandlersPlaced, Started, vars

LEMMA NextTypes == TInv /\ [Next]_vars => TInv'
<1>1. CASE AgentSteps \/ ClientStep
  BY <1>1, ClientTypes
<1>2. ASSUME TInv, NEW q \in Req, RouterStep(q)
      PROVE  TInv'
  BY <1>2, RouterTypes
<1>3. ASSUME TInv, NEW q \in Req, NEW f \in Send, HandlerStep(q, f)
      PROVE  TInv'
  BY <1>3, HandlerSteps, HandlerTypes
<1>4. QED
  BY <1>1, <1>2, <1>3, StutterTypes DEF Next

\* The type invariant holds for every bound.
THEOREM DeliveryTypeOK == Spec => []TypeOK
<1>1. TInv => TypeOK
  BY DEF TInv
<1>2. QED
  BY InitTInv, NextTypes, <1>1, PTL DEF Spec

-----------------------------------------------------------------------------
\* A request has one handler, and none before it is forwarded.
OneHandler ==
  \A q \in Req :
    /\ req[q].stage = "arrived" => \A f \in Send : ~Started(q, f)
    /\ \A f, g \in Send : Started(q, f) /\ Started(q, g) => f = g

Settled(q) ==
  req[q].stage = "answered" /\ \A f \in Send : handler[q][f].pc \in {"none", "done"}

\* An answer that went well came from a handler that is over.
AnswersSettled == \A q \in Req : req[q].stage = "answered" /\ req[q].ans = "ok" => Settled(q)

SentSteps == {q \in Req : q <= sent /\ req[q].op = "step"}

\* The client sends each step once, in order, and goes on when it is over.
LastIsSent == client.pc = "wait" => req[sent].op = client.op /\ req[sent].n = client.n

StepsOnce ==
  /\ \A p, q \in SentSteps : req[p].n = req[q].n => p = q
  /\ \A q \in SentSteps :
       /\ client.op = "step" /\ req[q].n <= client.n
       /\ client.pc = "send" => req[q].n < client.n
       /\ req[q].n < client.n \/ client.pc = "ready" => Settled(q)

\* Nobody resets the env of an agent that is past its reset.
ResetsSettled ==
  (client.op = "step" \/ client.pc = "ready") /\ client.pc # "over" /\ ~ResetResent
    => \A q \in Req : q <= sent /\ req[q].op = "reset" => Settled(q)

SInv == TInv /\ OneHandler /\ AnswersSettled /\ LastIsSent /\ StepsOnce /\ ResetsSettled

LEMMA InitSInv == Init => SInv
<1>1. Init => TInv
  BY InitTInv
<1>2. Init => OneHandler /\ AnswersSettled /\ LastIsSent /\ StepsOnce /\ ResetsSettled
  BY DEF Init, OneHandler, AnswersSettled, LastIsSent, StepsOnce, ResetsSettled, Started, Settled,
     SentSteps, NoCall, NoReq, NoRun
<1>3. QED
  BY <1>1, <1>2 DEF SInv

LEMMA AgentServes ==
  ASSUME SInv, AgentSteps
  PROVE  SInv'
<1>1. TInv'
  BY ClientTypes DEF SInv
<1>2. /\ client.pc = "ready" /\ UNCHANGED <<sent, req, handler>>
      /\ client'.pc = "send" /\ client'.op = "step" /\ client'.n = client.n + 1
      /\ client.n \in Nat
  BY DEF AgentSteps, NoCall, SInv, TInv, TypeOK, Calls
<1>3. OneHandler' /\ AnswersSettled' /\ LastIsSent'
  BY <1>2 DEF SInv, OneHandler, AnswersSettled, LastIsSent, Started, Settled
<1>4. StepsOnce'
  <2>1. \A q \in Req : req[q].n \in Nat
    BY DEF SInv, TInv, TypeOK, Requests
  <2>2. QED
    BY <1>2, <2>1 DEF SInv, StepsOnce, SentSteps, Settled
<1>5. ResetsSettled'
  BY <1>2 DEF SInv, ResetsSettled, ResetResent, Settled
<1>6. QED
  BY <1>1, <1>3, <1>4, <1>5 DEF SInv

LEMMA SendServes ==
  ASSUME SInv, ClientSends
  PROVE  SInv'
<1>1. TInv'
  BY ClientTypes DEF SInv, ClientStep
<1>2. /\ client.pc = "send" /\ UNCHANGED handler
      /\ sent' = sent + 1 /\ sent \in Nat /\ sent + 1 \in Req
      /\ client' = [client EXCEPT !.pc = "wait"] /\ client \in Calls
      /\ req \in [Req -> Requests]
  BY DEF ClientSends, SInv, TInv, TypeOK
<1>3. client'.pc = "wait" /\ client'.op = client.op /\ client'.n = client.n
  BY <1>2, PcEdit DEF SameCall
<1>4. PICK s : s = [NoReq EXCEPT !.op = client.op, !.n = client.n, !.stage = "arrived"]
  OBVIOUS
<1>5. s.op = client.op /\ s.n = client.n /\ s.stage = "arrived"
  BY <1>4 DEF NoReq
<1>6. req' = [req EXCEPT ![sent + 1] = s]
  BY <1>4 DEF ClientSends
<1>7. /\ req'[sent + 1] = s
      /\ \A q \in Req : q # sent + 1 => req'[q] = req[q]
  BY <1>2, <1>6
<1>8. \A f \in Send : ~Started(sent + 1, f)
  BY <1>2 DEF SInv, TInv, Shape, HandlersPlaced
<1>9. OneHandler'
  BY <1>2, <1>5, <1>7, <1>8 DEF SInv, OneHandler, Started
<1>10. AnswersSettled' /\ LastIsSent'
  BY <1>2, <1>3, <1>5, <1>7 DEF SInv, AnswersSettled, LastIsSent, Settled
<1>11. StepsOnce'
  <2>1. \A q \in Req : req[q].n \in Nat
    BY DEF SInv, TInv, TypeOK, Requests
  <2>2. \A q \in SentSteps' : q = sent + 1 \/ (q \in SentSteps /\ q # sent + 1)
    BY <1>2, <1>7 DEF SentSteps
  <2>3. sent + 1 \in SentSteps' => client.op = "step"
    BY <1>5, <1>7 DEF SentSteps
  <2>4. \A q \in SentSteps : q # sent + 1 => (Settled(q) => Settled(q)')
    BY <1>2, <1>7 DEF Settled, SentSteps
  <2>5. client.n \in Nat
    BY <1>2 DEF Calls
  <2>6. \A q \in SentSteps : req[q].n < client.n /\ client.op = "step" /\ Settled(q)
    BY <1>2, <2>1, <2>5 DEF SInv, StepsOnce
  <2>7. \A q \in SentSteps : q # sent + 1 /\ req'[q].n = req[q].n
    BY <1>2, <1>7 DEF SentSteps
  <2>8. \A q \in SentSteps' : q = sent + 1 => req'[q].n = client.n
    BY <1>5, <1>7
  <2>9. \A p, q \in SentSteps' : req'[p].n = req'[q].n => p = q
    BY <2>1, <2>2, <2>5, <2>6, <2>7, <2>8 DEF SInv, StepsOnce
  <2>10. ASSUME NEW q \in SentSteps'
         PROVE  /\ client'.op = "step" /\ req'[q].n <= client'.n
                /\ client'.pc = "send" => req'[q].n < client'.n
                /\ req'[q].n < client'.n \/ client'.pc = "ready" => Settled(q)'
    <3>1. CASE q = sent + 1
      BY <1>3, <2>3, <2>5, <2>8, <3>1
    <3>2. CASE q \in SentSteps
      <4>1. q \in Req /\ q # sent + 1 /\ req'[q].n = req[q].n /\ req[q].n \in Nat
        BY <2>1, <2>7, <3>2 DEF SentSteps
      <4>2. req[q].n < client.n /\ client.op = "step" /\ Settled(q)'
        BY <2>4, <2>6, <3>2, <4>1
      <4>3. QED
        BY <1>3, <2>5, <4>1, <4>2
    <3>3. QED
      BY <2>2, <3>1, <3>2
  <2>11. QED
    BY <2>9, <2>10 DEF StepsOnce
<1>12. ResetsSettled'
  <2>1. ResetResent => ResetResent'
    <3>1. \A q \in 2..sent : q \in Req /\ q # sent + 1 /\ q \in 2..sent'
      BY <1>2
    <3>2. QED
      BY <1>7, <3>1 DEF ResetResent
  <2>2. \A q \in Req : q # sent + 1 => (Settled(q) => Settled(q)')
    BY <1>2, <1>7 DEF Settled
  <2>3. QED
    BY <1>2, <1>3, <1>5, <1>7, <2>1, <2>2 DEF SInv, ResetsSettled
<1>13. QED
  BY <1>1, <1>9, <1>10, <1>11, <1>12 DEF SInv

LEMMA ClientServes ==
  ASSUME SInv, ClientStep, ~ClientSends
  PROVE  SInv'
<1>1. TInv'
  BY ClientTypes DEF SInv
<1>2. /\ CallKept /\ ReqKept /\ UNCHANGED <<sent, handler>>
      /\ client.op = "step" /\ client'.pc = "send" => client.pc = "send"
      /\ client'.pc = "ready" => client.pc = "wait" /\ req[sent].ans = "ok"
                               /\ req[sent].stage = "answered"
  BY ClientKeeps DEF SInv
<1>3. /\ client'.op = client.op /\ client'.n = client.n /\ sent' = sent /\ handler' = handler
      /\ \A q \in Req : req'[q].op = req[q].op /\ req'[q].n = req[q].n
  BY <1>2 DEF CallKept, SameCall, ReqKept, SameReq
<1>4. /\ \A q \in Req : req'[q].stage = req[q].stage
      /\ \A q \in Req : req'[q].ans = "ok" => req[q].ans = "ok"
      /\ \A q \in Req : Settled(q)' <=> Settled(q)
  <2>1. \A q \in Req : req'[q].stage = req[q].stage
    BY <1>2 DEF ReqKept, SameReq
  <2>2. \A q \in Req : req'[q].ans = "ok" => req[q].ans = "ok"
    BY <1>2 DEF ReqKept
  <2>3. \A q \in Req : Settled(q)' <=> Settled(q)
    BY <1>3, <2>1 DEF Settled
  <2>4. QED
    BY <2>1, <2>2, <2>3
<1>5. OneHandler'
  BY <1>3, <1>4 DEF SInv, OneHandler, Started
<1>6. AnswersSettled'
  BY <1>4 DEF SInv, AnswersSettled
<1>7. client'.pc # "wait"
  BY DEF ClientStep, ClientUnreached, AnswerOk, AnswerTruncated, AnswerBusy, AnswerError,
     LineCut, ReadTimeout, TransportFails, Raises, SInv, TInv, TypeOK, Calls
<1>8. LastIsSent'
  BY <1>7 DEF LastIsSent
<1>9. client'.pc = "ready" => sent \in Req /\ Settled(sent)
                             /\ req[sent].op = client.op /\ req[sent].n = client.n
  <2>1. client'.pc = "ready" => sent \in Req
    BY <1>2 DEF SInv, TInv, TypeOK, Shape, StagesCounted
  <2>2. QED
    BY <1>2, <2>1 DEF SInv, AnswersSettled, LastIsSent
<1>10. SentSteps' = SentSteps
  BY <1>3 DEF SentSteps
<1>11. StepsOnce'
  <2>1. \A p, q \in SentSteps : req'[p].n = req'[q].n => p = q
    BY <1>3 DEF SInv, StepsOnce, SentSteps
  <2>2. ASSUME NEW q \in SentSteps
        PROVE  /\ client'.op = "step" /\ req'[q].n <= client'.n
               /\ client'.pc = "send" => req'[q].n < client'.n
               /\ req'[q].n < client'.n \/ client'.pc = "ready" => Settled(q)'
    <3>1. q \in Req /\ req'[q].n = req[q].n /\ req[q].n \in Nat /\ client.n \in Nat
      <4>1. q \in Req
        BY DEF SentSteps
      <4>2. req[q].n \in Nat /\ client.n \in Nat
        BY <4>1 DEF SInv, TInv, TypeOK, Requests, Calls
      <4>3. QED
        BY <1>3, <4>1, <4>2
    <3>2. /\ client.op = "step" /\ req[q].n <= client.n
          /\ client.pc = "send" => req[q].n < client.n
          /\ req[q].n < client.n => Settled(q)
      BY DEF SInv, StepsOnce
    <3>3. client'.pc = "ready" => Settled(q)
      <4>1. client'.pc = "ready" => sent \in SentSteps
        BY <1>9, <3>2, <3>1 DEF SentSteps
      <4>2. client'.pc = "ready" /\ req[q].n = client.n => q = sent
        BY <1>9, <4>1 DEF SInv, StepsOnce
      <4>3. QED
        BY <1>9, <3>1, <3>2, <4>2
    <3>4. QED
      BY <1>2, <1>3, <1>4, <3>1, <3>2, <3>3
  <2>3. QED
    BY <1>10, <2>1, <2>2 DEF StepsOnce
<1>12. ResetsSettled'
  <2>1. ResetResent <=> ResetResent'
    <3>1. \A q \in 2..sent : q \in Req
      BY DEF SInv, TInv, TypeOK
    <3>2. QED
      BY <1>3, <3>1 DEF ResetResent
  <2>2. CASE client.op = "step"
    <3>1. client.pc # "over"
      BY DEF ClientStep, ClientUnreached, AnswerOk, AnswerTruncated, AnswerBusy, AnswerError,
         LineCut, ReadTimeout, ClientSends, Reads
    <3>2. QED
      BY <1>2, <1>3, <1>4, <2>1, <2>2, <3>1 DEF SInv, ResetsSettled
  <2>3. CASE client.op # "step" /\ client'.pc = "ready"
    <3>1. client.op = "reset" /\ sent \in Req
      BY <1>9, <2>3 DEF SInv, TInv, TypeOK, Calls
    <3>2. ~ResetResent => sent = 1
      BY <1>9, <2>3, <3>1 DEF ResetResent
    <3>3. QED
      BY <1>2, <1>4, <1>9, <2>1, <2>3, <3>2 DEF ResetsSettled
  <2>4. QED
    BY <1>3, <2>2, <2>3 DEF ResetsSettled
<1>13. QED
  BY <1>1, <1>5, <1>6, <1>8, <1>11, <1>12 DEF SInv

LEMMA RouterServes ==
  ASSUME SInv, NEW q \in Req, RouterStep(q)
  PROVE  SInv'
<1>1. TInv'
  BY RouterTypes DEF SInv
<1>2. /\ UNCHANGED <<client, sent>> /\ req[q].stage \in {"arrived", "sent"}
      /\ \A p \in Req : req'[p].op = req[p].op /\ req'[p].n = req[p].n
      /\ \A p \in Req \ {q} : req'[p] = req[p]
      /\ \A p \in Req \ {q}, f \in Send : handler'[p][f] = handler[p][f]
  BY RouterSteps DEF SInv, StageNow, AnsweredNow, MovesTo
<1>3. \A p \in Req : Settled(p) => Settled(p)'
  BY <1>2 DEF Settled
<1>4. OneHandler' /\ AnswersSettled'
  <2>1. CASE /\ req[q].stage = "arrived"
             /\ \E f \in Send, h \in Runs : MovesTo(q, f, h) /\ h.pc = "enter" /\ StageNow(q, "sent", f)
    <3>1. PICK f \in Send, h \in Runs : MovesTo(q, f, h) /\ StageNow(q, "sent", f)
      BY <2>1
    <3>2. \A g \in Send : Started(q, g)' => g = f
      <4>1. \A g \in Send : ~Started(q, g)
        BY <2>1 DEF SInv, OneHandler
      <4>2. \A g \in Send : g # f => handler'[q][g] = handler[q][g]
        BY <3>1 DEF MovesTo
      <4>3. QED
        BY <4>1, <4>2 DEF Started
    <3>3. req'[q].stage = "sent"
      BY <3>1 DEF StageNow
    <3>4. QED
      BY <1>2, <1>3, <3>2, <3>3 DEF SInv, OneHandler, AnswersSettled, Started
  <2>2. CASE /\ UNCHANGED handler /\ req[q].stage = "arrived"
             /\ \E f \in Send : f < RouterTries /\ StageNow(q, "arrived", f)
    <3>1. req'[q].stage = "arrived"
      BY <2>2 DEF StageNow
    <3>2. QED
      BY <1>2, <1>3, <2>2, <3>1 DEF SInv, OneHandler, AnswersSettled, Started
  <2>3. CASE /\ UNCHANGED handler /\ AnsweredNow(q)
             /\ \/ req'[q].ans \in {"none", "error"}
                \/ \E f \in Send : Relays(q, f)
    <3>1. req'[q].stage = "answered"
      BY <2>3 DEF AnsweredNow
    <3>2. req'[q].ans = "ok" => Settled(q)'
      BY <2>3, <3>1 DEF Settled, SInv, OneHandler, Started, Relays
    <3>3. QED
      BY <1>2, <1>3, <2>3, <3>1, <3>2 DEF SInv, OneHandler, AnswersSettled, Started
  <2>4. QED
    BY <2>1, <2>2, <2>3, RouterSteps DEF SInv
<1>5. LastIsSent'
  <2>1. client.pc = "wait" => sent \in Req
    BY DEF SInv, TInv, TypeOK, Shape, StagesCounted
  <2>2. QED
    BY <1>2, <2>1 DEF SInv, LastIsSent
<1>6. StepsOnce'
  <2>1. SentSteps' = SentSteps
    BY <1>2 DEF SentSteps
  <2>2. QED
    BY <1>2, <1>3, <2>1 DEF SInv, StepsOnce, SentSteps
<1>7. ResetsSettled'
  <2>1. ResetResent <=> ResetResent'
    <3>1. \A p \in 2..sent : p \in Req
      BY DEF SInv, TInv, TypeOK
    <3>2. QED
      BY <1>2, <3>1 DEF ResetResent
  <2>2. QED
    BY <1>2, <1>3, <2>1 DEF SInv, ResetsSettled
<1>8. QED
  BY <1>1, <1>4, <1>5, <1>6, <1>7 DEF SInv

LEMMA HandlerServes ==
  ASSUME SInv, NEW q \in Req, NEW f \in Send, HandlerMoves(q, f)
  PROVE  SInv'
<1>1. TInv'
  BY HandlerTypes DEF SInv
<1>2. UNCHANGED <<client, sent, req>> /\ handler[q][f].pc \notin {"none", "done"}
  BY DEF HandlerMoves
<1>3. \A p \in Req, g \in Send : p # q \/ g # f => handler'[p][g] = handler[p][g]
  BY DEF HandlerMoves, MovesTo
<1>4. \A p \in Req : Settled(p) => Settled(p)'
  BY <1>2, <1>3 DEF Settled
<1>5. \A p \in Req, g \in Send : Started(p, g)' => Started(p, g)
  BY <1>2, <1>3 DEF Started
<1>6. OneHandler' /\ AnswersSettled' /\ LastIsSent'
  BY <1>2, <1>4, <1>5 DEF SInv, OneHandler, AnswersSettled, LastIsSent
<1>7. StepsOnce' /\ ResetsSettled'
  BY <1>2, <1>4 DEF SInv, StepsOnce, SentSteps, ResetsSettled, ResetResent
<1>8. QED
  BY <1>1, <1>6, <1>7 DEF SInv

LEMMA NextSInv == SInv /\ [Next]_vars => SInv'
<1>1. SInv /\ (AgentSteps \/ ClientStep) => SInv'
  BY AgentServes, SendServes, ClientServes
<1>2. ASSUME SInv, NEW q \in Req, RouterStep(q)
      PROVE  SInv'
  BY <1>2, RouterServes
<1>3. ASSUME SInv, NEW q \in Req, NEW f \in Send, HandlerStep(q, f)
      PROVE  SInv'
  BY <1>3, HandlerSteps, HandlerServes DEF SInv
<1>4. SInv /\ UNCHANGED vars => SInv'
  BY StutterTypes DEF SInv, OneHandler, AnswersSettled, LastIsSent, StepsOnce, SentSteps, ResetsSettled,
     ResetResent, Settled, Started, vars
<1>5. QED
  BY <1>1, <1>2, <1>3, <1>4 DEF Next

LEMMA ServedOnce == SInv => StepsServedOnce
<1>1. SUFFICES ASSUME SInv, NEW p \in Req, NEW q \in Req, NEW f \in Send, NEW g \in Send,
                      req[p].op = "step", req[q].op = "step", req[p].n = req[q].n,
                      Started(p, f), Started(q, g)
               PROVE  p = q /\ f = g
  BY DEF StepsServedOnce, Started
<1>2. p \in SentSteps /\ q \in SentSteps
  BY <1>1 DEF SentSteps, SInv, TInv, Shape, HandlersPlaced
<1>3. p = q
  BY <1>1, <1>2 DEF SInv, StepsOnce
<1>4. QED
  BY <1>1, <1>3 DEF SInv, OneHandler

\* At most one handler of the env server ever runs a given step of the agent.
THEOREM StepsAreServedOnce == Spec => []StepsServedOnce
BY InitSInv, NextSInv, ServedOnce, PTL DEF Spec

\* No step takes the env of an agent that has begun its steps, unless the
\* client had sent the reset twice.
THEOREM EnvIsKept == Spec => EpisodeKeepsItsEnv
<1>1. ASSUME SInv, [Next]_vars, client.op = "step" \/ client.pc = "ready",
             client.pc # "over", ~ResetResent
      PROVE  cur' = cur
  <2>1. CASE AgentSteps \/ ClientStep
    BY <1>1, <2>1, ClientKeeps DEF SInv, AgentSteps, ClientSends, envVars
  <2>2. CASE \E q \in Req : RouterStep(q)
    BY <1>1, <2>2, RouterSteps DEF SInv
  <2>3. ASSUME NEW q \in Req, NEW f \in Send, HandlerStep(q, f)
        PROVE  cur' = cur
    <3>1. HandlerMoves(q, f)
      BY <1>1, <2>3, HandlerSteps DEF SInv
    <3>2. q <= sent
      BY <1>1, <3>1 DEF SInv, TInv, Shape, HandlersPlaced, Started, HandlerMoves
    <3>3. ~Settled(q)
      BY <3>1 DEF Settled, HandlerMoves
    <3>4. req[q].op # "reset"
      BY <1>1, <3>2, <3>3 DEF SInv, ResetsSettled
    <3>5. QED
      BY <3>1, <3>4 DEF HandlerMoves
  <2>4. CASE UNCHANGED vars
    BY <2>4 DEF vars
  <2>5. QED
    BY <1>1, <2>1, <2>2, <2>3, <2>4 DEF Next
<1>2. SInv /\ [Next]_vars =>
        [/\ client.op = "step" \/ client.pc = "ready"
         /\ client.pc # "over"
         /\ ~ResetResent
         => cur' = cur]_vars
  BY <1>1
<1>3. QED
  BY InitSInv, NextSInv, <1>2, PTL DEF Spec, EpisodeKeepsItsEnv

-----------------------------------------------------------------------------
\* The actions executed so far, in whatever container.
Done == UNION {Executed(c) : c \in Box}

\* The batch of a handler can still be executed further.
Ahead(q, f) ==
  handler[q][f].pc = "act" \/ (handler[q][f].pc = "capture" /\ ~handler[q][f].stop)

Untouched(q) == \A f \in Send : handler[q][f].pc \in {"none", "enter"}

\* What has been executed is of steps the client has sent ...
DonePast ==
  \A a \in Done : a[1] <= client.n /\ (client.pc = "send" /\ client.op = "step" => a[1] < client.n)
\* ... and nothing of the step whose handler has not begun, ...
UntouchedPast ==
  \A q \in SentSteps : req[q].n = client.n /\ Untouched(q) => \A a \in Done : a[1] < client.n
\* ... nor of the actions that a batch run only once has still to do.
AheadPast ==
  \A q \in Req, f \in Send : Ahead(q, f) /\ req[q].n \notin redone =>
    \A a \in Done : Earlier(a, <<req[q].n, handler[q][f].k + 1>>)

OInv == SInv /\ DonePast /\ UntouchedPast /\ AheadPast /\ AppliedInOrder

LEMMA InitOInv == Init => OInv
<1>1. ASSUME Init PROVE Done = {} /\ \A q \in Req, f \in Send : ~Ahead(q, f)
  <2>1. \A c \in Box : Executed(c) = {}
    BY <1>1 DEF Init, Executed
  <2>2. Done = {}
    BY <2>1 DEF Done
  <2>3. \A q \in Req, f \in Send : ~Ahead(q, f)
    BY <1>1 DEF Init, NoRun, Ahead
  <2>4. QED
    BY <2>2, <2>3
<1>2. Init => AppliedInOrder
  BY DEF Init, AppliedInOrder
<1>3. QED
  BY <1>1, <1>2, InitSInv DEF OInv, DonePast, UntouchedPast, AheadPast

\* Steps of the client and of the router execute nothing.
LEMMA QuietOrder ==
  ASSUME OInv, UNCHANGED applied
  PROVE  Done' = Done
BY DEF Done, Executed

LEMMA ClientOrder ==
  ASSUME OInv, AgentSteps \/ ClientStep
  PROVE  OInv'
<1>1. SInv'
  BY AgentServes, SendServes, ClientServes DEF OInv
<1>2. UNCHANGED <<handler, applied, redone>>
  BY ClientKeeps DEF AgentSteps, ClientSends, envVars, OInv, SInv
<1>3. Done' = Done
  BY <1>2, QuietOrder
<1>4. \A a \in Done : a[1] \in Nat
  <2>1. \A c \in Box : Executed(c) \subseteq Action
    BY DEF Executed, OInv, SInv, TInv, TypeOK
  <2>2. QED
    BY <2>1 DEF Done, Action
<1>5. client.n \in Nat
  BY DEF OInv, SInv, TInv, TypeOK, Calls
<1>6. \A q \in SentSteps : req[q].n \in Nat /\ req[q].n <= client.n
  BY DEF OInv, SInv, TInv, TypeOK, Requests, SentSteps, StepsOnce
<1>7. CASE AgentSteps
  <2>1. /\ UNCHANGED <<sent, req>> /\ client'.n = client.n + 1
    BY <1>7 DEF AgentSteps, NoCall
  <2>2. DonePast'
    BY <1>3, <1>4, <1>5, <2>1 DEF OInv, DonePast
  <2>3. UntouchedPast'
    BY <1>3, <1>5, <1>6, <2>1 DEF UntouchedPast, SentSteps
  <2>4. AheadPast' /\ AppliedInOrder'
    BY <1>2, <1>3, <2>1 DEF OInv, AheadPast, AppliedInOrder, Ahead
  <2>5. QED
    BY <1>1, <2>2, <2>3, <2>4 DEF OInv
<1>8. CASE ClientSends
  <2>1. /\ client.pc = "send" /\ sent' = sent + 1 /\ sent \in Nat
        /\ client' = [client EXCEPT !.pc = "wait"] /\ client \in Calls
        /\ \A q \in Req : q # sent + 1 => req'[q] = req[q]
    BY <1>8 DEF ClientSends, OInv, SInv, TInv, TypeOK
  <2>2. client'.pc = "wait" /\ client'.op = client.op /\ client'.n = client.n
    BY <2>1, PcEdit DEF SameCall
  <2>3. DonePast'
    BY <1>3, <2>2 DEF OInv, DonePast
  <2>4. UntouchedPast'
    <3>1. ASSUME NEW q \in SentSteps', req'[q].n = client.n
          PROVE  q = sent + 1
      <4>1. CASE q # sent + 1
        <5>1. q \in SentSteps /\ req'[q].n = req[q].n
          BY <2>1, <4>1 DEF SentSteps
        <5>2. req[q].n < client.n
          BY <2>1, <5>1 DEF OInv, SInv, StepsOnce
        <5>3. QED
          BY <1>5, <3>1, <5>1, <5>2
      <4>2. QED
        BY <4>1
    <3>2. sent + 1 \in SentSteps' => client.op = "step"
      BY <1>1, <2>2 DEF SInv, StepsOnce
    <3>3. client.op = "step" => \A a \in Done : a[1] < client.n
      BY <2>1 DEF OInv, DonePast
    <3>4. QED
      BY <1>3, <2>2, <3>1, <3>2, <3>3 DEF UntouchedPast
  <2>5. AheadPast' /\ AppliedInOrder'
    <3>1. \A q \in Req, f \in Send : Ahead(q, f) => q # sent + 1
      BY <2>1 DEF OInv, SInv, TInv, Shape, HandlersPlaced, Started, Ahead
    <3>2. QED
      BY <1>2, <1>3, <2>1, <3>1 DEF OInv, AheadPast, AppliedInOrder, Ahead
  <2>6. QED
    BY <1>1, <2>3, <2>4, <2>5 DEF OInv
<1>9. CASE ClientStep /\ ~ClientSends
  <2>1. /\ CallKept /\ ReqKept /\ sent' = sent
        /\ client.op = "step" /\ client'.pc = "send" => client.pc = "send"
    BY <1>9, ClientKeeps DEF OInv, SInv
  <2>2. /\ client'.op = client.op /\ client'.n = client.n
        /\ \A q \in Req : req'[q].op = req[q].op /\ req'[q].n = req[q].n
    BY <2>1 DEF CallKept, SameCall, ReqKept, SameReq
  <2>3. DonePast'
    BY <1>3, <2>1, <2>2 DEF OInv, DonePast
  <2>4. UntouchedPast'
    BY <1>2, <1>3, <2>1, <2>2 DEF OInv, UntouchedPast, SentSteps, Untouched
  <2>5. AheadPast' /\ AppliedInOrder'
    BY <1>2, <1>3, <2>2 DEF OInv, AheadPast, AppliedInOrder, Ahead
  <2>6. QED
    BY <1>1, <2>3, <2>4, <2>5 DEF OInv
<1>10. QED
  BY <1>7, <1>8, <1>9

LEMMA RouterOrder ==
  ASSUME OInv, NEW q \in Req, RouterStep(q)
  PROVE  OInv'
<1>1. SInv'
  BY RouterServes DEF OInv
<1>2. /\ UNCHANGED <<client, sent, applied, redone>>
      /\ \A p \in Req : req'[p].op = req[p].op /\ req'[p].n = req[p].n
      /\ \A p \in Req, f \in Send : handler'[p][f] = handler[p][f] \/
           (handler'[p][f].pc = "enter" /\ p = q /\ req[q].stage = "arrived")
  <2>1. TInv
    BY DEF OInv, SInv
  <2>2. \/ /\ req[q].stage = "arrived"
           /\ \E f \in Send, h \in Runs : MovesTo(q, f, h) /\ h.pc = "enter" /\ StageNow(q, "sent", f)
        \/ UNCHANGED handler /\ \E f \in Send : StageNow(q, "arrived", f)
        \/ UNCHANGED handler /\ AnsweredNow(q)
    BY <2>1, RouterSteps
  <2>3. \A p \in Req : req'[p].op = req[p].op /\ req'[p].n = req[p].n
    BY <2>2 DEF StageNow, AnsweredNow
  <2>4. \A p \in Req, f \in Send : handler'[p][f] = handler[p][f] \/
           (handler'[p][f].pc = "enter" /\ p = q /\ req[q].stage = "arrived")
    BY <2>2 DEF MovesTo
  <2>5. QED
    BY <2>1, <2>3, <2>4, RouterSteps
<1>3. Done' = Done
  BY <1>2, QuietOrder
<1>4. UntouchedPast'
  <2>1. SentSteps' = SentSteps
    BY <1>2 DEF SentSteps
  <2>2. \A p \in Req : Untouched(p)' => Untouched(p)
    <3>1. req[q].stage = "arrived" => Untouched(q)
      BY DEF OInv, SInv, OneHandler, Started, Untouched
    <3>2. QED
      BY <1>2, <3>1 DEF Untouched
  <2>3. QED
    BY <1>2, <1>3, <2>1, <2>2 DEF OInv, UntouchedPast, SentSteps
<1>5. AheadPast'
  <2>1. \A p \in Req, f \in Send : Ahead(p, f)' => Ahead(p, f) /\ handler'[p][f] = handler[p][f]
    BY <1>2 DEF Ahead
  <2>2. QED
    BY <1>2, <1>3, <2>1 DEF OInv, AheadPast
<1>6. QED
  BY <1>1, <1>2, <1>3, <1>4, <1>5 DEF OInv, DonePast, AppliedInOrder

\* A handler that works on a step works on the step the client has under way.
LEMMA WorkIsOfTheStep ==
  ASSUME SInv, NEW q \in Req, NEW f \in Send, req[q].op = "step",
         handler[q][f].pc \notin {"none", "done"}
  PROVE  q \in SentSteps /\ req[q].n = client.n /\ client.pc # "send" /\ client.n \in Nat
<1>1. q \in SentSteps
  BY DEF SInv, TInv, Shape, HandlersPlaced, Started, SentSteps
<1>2. ~Settled(q)
  BY DEF Settled
<1>3. req[q].n <= client.n /\ ~(req[q].n < client.n)
  BY <1>1, <1>2 DEF SInv, StepsOnce
<1>4. req[q].n \in Nat /\ client.n \in Nat
  BY DEF SInv, TInv, TypeOK, Requests, Calls
<1>5. client.pc # "send"
  BY <1>1, <1>3 DEF SInv, StepsOnce
<1>6. QED
  BY <1>1, <1>3, <1>4, <1>5

\* No two handlers have actions ahead of them.
LEMMA OneAhead ==
  ASSUME SInv, NEW q \in Req, NEW f \in Send, req[q].op = "step",
         handler[q][f].pc \notin {"none", "done"},
         NEW p \in Req, NEW g \in Send, Ahead(p, g)
  PROVE  p = q /\ g = f
<1>1. handler[p][g].pc \in Working /\ Started(p, g) /\ Started(q, f)
  BY DEF Ahead, Working, Started
<1>2. req[p].op = "step" /\ handler[p][g].pc \notin {"none", "done"}
  BY <1>1 DEF SInv, TInv, Shape, HandlersPlaced, Ahead
<1>3. p = q
  BY <1>2, WorkIsOfTheStep DEF SInv, StepsOnce
<1>4. QED
  BY <1>1, <1>3 DEF SInv, OneHandler

LEMMA ActionPairs == OInv => Done \subseteq Action
<1>1. OInv => \A c \in Box : Executed(c) \subseteq Action
  BY DEF Executed, OInv, SInv, TInv, TypeOK
<1>2. QED
  BY <1>1 DEF Done

\* A step of a handler in which no action lands.
LEMMA RestOrder ==
  ASSUME OInv, NEW q \in Req, NEW f \in Send, HandlerMoves(q, f), UNCHANGED applied
  PROVE  OInv'
<1>1. SInv' /\ Done' = Done /\ SInv
  BY HandlerServes, QuietOrder DEF OInv
<1>2. /\ UNCHANGED <<client, sent, req>> /\ redone \subseteq redone'
      /\ handler[q][f].pc \notin {"none", "done"}
  BY DEF HandlerMoves
<1>3. PICK h \in Runs : /\ MovesTo(q, f, h) /\ h.pc \notin {"none", "enter"}
                        /\ h.pc \in Working => WorksOn(q, f, h)
  BY DEF HandlerMoves
<1>4. \A p \in Req, g \in Send : handler'[p][g] = handler[p][g] \/ (p = q /\ g = f)
  BY <1>3 DEF MovesTo
<1>5. handler'[q][f] = h
  BY <1>1, <1>3 DEF MovesTo, SInv, TInv, TypeOK
<1>6. DonePast' /\ AppliedInOrder'
  BY <1>1, <1>2 DEF OInv, DonePast, AppliedInOrder
<1>7. UntouchedPast'
  <2>1. SentSteps' = SentSteps
    BY <1>2 DEF SentSteps
  <2>2. \A p \in Req : Untouched(p)' => Untouched(p)
    BY <1>3, <1>4, <1>5 DEF Untouched
  <2>3. QED
    BY <1>1, <1>2, <2>1, <2>2 DEF OInv, UntouchedPast, SentSteps
<1>8. ASSUME Ahead(q, f)', req[q].n \notin redone'
      PROVE  \A a \in Done : Earlier(a, <<req[q].n, h.k + 1>>)
  <2>1. WorksOn(q, f, h)
    BY <1>3, <1>5, <1>8 DEF Ahead, Working
  <2>2. q \in SentSteps /\ req[q].n = client.n /\ client.n \in Nat
    BY <1>1, <1>2, <2>1, WorkIsOfTheStep DEF WorksOn
  <2>3. CASE h.k = 0 /\ handler[q][f].pc = "enter"
    <3>1. Untouched(q)
      BY <1>1, <2>3 DEF SInv, OneHandler, Started, Untouched
    <3>2. QED
      BY <2>2, <3>1 DEF OInv, UntouchedPast, Earlier
  <2>4. CASE Ahead(q, f) /\ (h.k = handler[q][f].k + 1 \/ h.k = handler[q][f].k)
    <3>1. \A a \in Done : Earlier(a, <<req[q].n, handler[q][f].k + 1>>)
      BY <1>2, <1>8, <2>4 DEF OInv, AheadPast
    <3>2. handler[q][f].k \in Nat
      <4>1. handler[q][f] \in Runs
        BY <1>1 DEF SInv, TInv, TypeOK
      <4>2. QED
        BY <4>1 DEF Runs
    <3>3. \A a \in Done : a[1] \in Nat /\ a[2] \in Nat
      BY ActionPairs DEF Action
    <3>4. QED
      BY <2>2, <2>4, <3>1, <3>2, <3>3 DEF Earlier
  <2>5. QED
    BY <1>5, <1>8, <2>1, <2>3, <2>4 DEF WorksOn, LandsNow, Ahead
<1>9. AheadPast'
  <2>1. ASSUME NEW p \in Req, NEW g \in Send, Ahead(p, g)', req[p].n \notin redone'
        PROVE  \A a \in Done : Earlier(a, <<req[p].n, handler'[p][g].k + 1>>)
    <3>1. CASE p = q /\ g = f
      BY <1>5, <1>8, <2>1, <3>1
    <3>2. CASE ~(p = q /\ g = f)
      <4>1. handler'[p][g] = handler[p][g]
        BY <1>4, <3>2
      <4>2. Ahead(p, g) /\ req[p].n \notin redone
        BY <1>2, <2>1, <4>1 DEF Ahead
      <4>3. QED
        BY <4>1, <4>2 DEF OInv, AheadPast
    <3>3. QED
      BY <3>1, <3>2
  <2>2. QED
    BY <1>1, <1>2, <2>1 DEF AheadPast
<1>10. QED
  BY <1>1, <1>6, <1>7, <1>9 DEF OInv

\* A step of a handler in which its action lands.
LEMMA LandOrder ==
  ASSUME OInv, NEW q \in Req, NEW f \in Send, HandlerMoves(q, f), LandsNow(q, f)
  PROVE  OInv'
<1>1. SInv' /\ SInv
  BY HandlerServes DEF OInv
<1>2. /\ UNCHANGED <<client, sent, req>> /\ redone \subseteq redone'
      /\ handler[q][f].pc \notin {"none", "done"}
  BY DEF HandlerMoves
<1>3. PICK h \in Runs : /\ MovesTo(q, f, h) /\ h.pc \notin {"none", "enter"}
                        /\ h.pc \in Working => WorksOn(q, f, h)
  BY DEF HandlerMoves
<1>4. \A p \in Req, g \in Send : handler'[p][g] = handler[p][g] \/ (p = q /\ g = f)
  BY <1>3 DEF MovesTo
<1>5. handler'[q][f] = h
  BY <1>1, <1>3 DEF MovesTo, SInv, TInv, TypeOK
<1>6. req[q].op = "step" /\ Ahead(q, f)
  BY <1>1 DEF LandsNow, SInv, TInv, Shape, HandlersPlaced, Working, Ahead
<1>7. q \in SentSteps /\ req[q].n = client.n /\ client.pc # "send" /\ client.n \in Nat
  BY <1>1, <1>2, <1>6, WorkIsOfTheStep
<1>8. PICK n, k : n = req[q].n /\ k = handler[q][f].k + 1
  OBVIOUS
<1>9. n \in Nat /\ k \in Nat /\ <<n, k>> \in Action
  <2>1. req[q].n \in 1..MaxSteps
    BY <1>6 DEF OInv, SInv, TInv, TypeOK, Shape, StepsNumbered, Requests
  <2>2. handler[q][f].k + 1 \in 1..BatchLen
    BY DEF LandsNow
  <2>3. QED
    BY <1>8, <2>1, <2>2 DEF Action
<1>10. PICK b \in Action : b = <<n, k>>
  BY <1>9
<1>11. /\ applied' = [applied EXCEPT ![cur] = Append(@, b)]
       /\ applied \in [Box -> Seq(Action)] /\ cur \in Box
  BY <1>1, <1>8, <1>10 DEF LandsNow, SInv, TInv, TypeOK
<1>12. \A c \in Box : c # cur => applied'[c] = applied[c]
  BY <1>11
<1>13. PICK s \in Seq(Action) : s = applied[cur]
  BY <1>11
<1>14. applied'[cur] = Append(s, b)
  BY <1>11, <1>13
<1>15. /\ Len(applied'[cur]) = Len(s) + 1 /\ applied'[cur][Len(s) + 1] = b
       /\ \A i \in 1..Len(s) : applied'[cur][i] = s[i]
       /\ DOMAIN applied'[cur] = 1..(Len(s) + 1) /\ DOMAIN s = 1..Len(s) /\ Len(s) \in Nat
  BY <1>14
<1>16. n \notin redone => \A a \in Done : Earlier(a, b)
  BY <1>6, <1>8, <1>10 DEF OInv, AheadPast
<1>17. \A a \in Done' : a \in Done \/ a = b
  <2>1. ASSUME NEW c \in Box, NEW a \in Executed(c)'
        PROVE  a \in Executed(c) \/ a = b
    <3>1. PICK i \in DOMAIN applied'[c] : a = applied'[c][i]
      BY DEF Executed
    <3>2. CASE c # cur
      BY <1>12, <3>1, <3>2 DEF Executed
    <3>3. CASE c = cur
      <4>1. i \in 1..Len(s) \/ i = Len(s) + 1
        BY <1>15, <3>1, <3>3
      <4>2. CASE i \in 1..Len(s)
        BY <1>13, <1>15, <3>1, <3>3, <4>2 DEF Executed
      <4>3. QED
        BY <1>15, <3>1, <3>3, <4>1, <4>2
    <3>4. QED
      BY <3>2, <3>3
  <2>2. QED
    BY <2>1 DEF Done
<1>18. DonePast'
  BY <1>2, <1>7, <1>8, <1>10, <1>17 DEF OInv, DonePast
<1>19. UntouchedPast'
  <2>1. \A p \in SentSteps' : req'[p].n = client'.n => p = q
    BY <1>1, <1>2, <1>7 DEF SInv, StepsOnce, SentSteps
  <2>2. ~Untouched(q)'
    BY <1>3, <1>5 DEF Untouched
  <2>3. QED
    BY <2>1, <2>2 DEF UntouchedPast
<1>20. AheadPast'
  <2>1. ASSUME NEW p \in Req, NEW g \in Send, Ahead(p, g)', req[p].n \notin redone'
        PROVE  \A a \in Done' : Earlier(a, <<req[p].n, handler'[p][g].k + 1>>)
    <3>1. p = q /\ g = f
      <4>1. CASE handler'[p][g] = handler[p][g]
        <5>1. Ahead(p, g)
          BY <2>1, <4>1 DEF Ahead
        <5>2. QED
          BY <1>1, <1>2, <1>6, <5>1, OneAhead
      <4>2. QED
        BY <1>4, <4>1
    <3>2. h.pc \in Working /\ (h.pc = "act" \/ ~h.stop)
      BY <1>5, <2>1, <3>1 DEF Ahead, Working
    <3>3. applied' # applied
      BY <1>13, <1>15
    <3>4. h.k = k
      BY <1>3, <1>8, <3>2, <3>3 DEF WorksOn
    <3>5. \A a \in Done : Earlier(a, b) /\ a[1] \in Nat /\ a[2] \in Nat
      BY <1>2, <1>8, <1>16, <2>1, <3>1, ActionPairs DEF Action
    <3>6. \A a \in Done' : Earlier(a, <<n, k + 1>>)
      BY <1>9, <1>10, <1>17, <3>5 DEF Earlier
    <3>7. QED
      BY <1>5, <1>8, <3>1, <3>4, <3>6
  <2>2. QED
    BY <1>2, <2>1 DEF AheadPast
<1>21. AppliedInOrder'
  <2>1. SUFFICES ASSUME NEW c \in Box, NEW i \in DOMAIN applied'[c], NEW j \in DOMAIN applied'[c],
                        i < j
                 PROVE  Earlier(applied'[c][i], applied'[c][j]) \/ applied'[c][j][1] \in redone'
    BY DEF AppliedInOrder
  <2>2. CASE c # cur
    BY <1>2, <1>12, <2>1, <2>2 DEF OInv, AppliedInOrder
  <2>3. CASE c = cur
    <3>1. i \in 1..Len(s) /\ (j \in 1..Len(s) \/ j = Len(s) + 1)
      BY <1>15, <2>1, <2>3
    <3>2. CASE j \in 1..Len(s)
      BY <1>2, <1>13, <1>15, <2>1, <2>3, <3>1, <3>2 DEF OInv, AppliedInOrder
    <3>3. CASE j = Len(s) + 1
      <4>1. applied'[c][j] = b /\ b[1] = n
        BY <1>10, <1>15, <2>3, <3>3
      <4>2. applied'[c][i] \in Done
        BY <1>13, <1>15, <2>3, <3>1 DEF Done, Executed
      <4>3. QED
        BY <1>2, <1>16, <4>1, <4>2
    <3>4. QED
      BY <3>1, <3>2, <3>3
  <2>4. QED
    BY <2>2, <2>3
<1>22. QED
  BY <1>1, <1>18, <1>19, <1>20, <1>21 DEF OInv

LEMMA NextOInv == OInv /\ [Next]_vars => OInv'
<1>1. OInv /\ (AgentSteps \/ ClientStep) => OInv'
  BY ClientOrder
<1>2. ASSUME OInv, NEW q \in Req, RouterStep(q)
      PROVE  OInv'
  BY <1>2, RouterOrder
<1>3. ASSUME OInv, NEW q \in Req, NEW f \in Send, HandlerStep(q, f)
      PROVE  OInv'
  <2>1. HandlerMoves(q, f)
    BY <1>3, HandlerSteps DEF OInv, SInv
  <2>2. CASE UNCHANGED applied
    BY <1>3, <2>1, <2>2, RestOrder
  <2>3. CASE LandsNow(q, f)
    BY <1>3, <2>1, <2>3, LandOrder
  <2>4. QED
    BY <2>1, <2>2, <2>3 DEF HandlerMoves
<1>4. OInv /\ UNCHANGED vars => OInv'
  <2>1. OInv /\ UNCHANGED vars => SInv'
    BY NextSInv DEF OInv
  <2>2. QED
    BY <2>1 DEF OInv, DonePast, UntouchedPast, AheadPast, AppliedInOrder, Done, Executed, SentSteps,
       Untouched, Ahead, vars
<1>5. QED
  BY <1>1, <1>2, <1>3, <1>4 DEF Next

\* A container executes the agent's actions in order and once, but for the steps
\* that a handler has run again.
THEOREM ActionsAppliedInOrder == Spec => []AppliedInOrder
<1>1. OInv => AppliedInOrder
  BY DEF OInv
<1>2. QED
  BY InitOInv, NextOInv, <1>1, PTL DEF Spec

-----------------------------------------------------------------------------
\* One container has executed the first k actions of step n, and, unless a
\* handler has run its batch again, nothing but one more of them was executed.
InOne(n, k)  == \E c \in Box : \A j \in 1..k : <<n, j>> \in Executed(c)
Within(n, k) == n \notin redone => \A a \in Done : a[1] = n => a[2] <= k + 1
Tells(n, k)  == InOne(n, k) /\ Within(n, k)

\* It holds of what a handler counts in the container it works on, ...
HandlerTold(q, f) ==
  /\ handler[q][f].pc \in Working =>
       /\ \A j \in 1..handler[q][f].k : <<req[q].n, j>> \in Executed(handler[q][f].base)
       /\ Within(req[q].n, handler[q][f].k)
  /\ handler[q][f].pc = "done" /\ handler[q][f].ans = "ok" =>
       Tells(req[q].n, handler[q][f].k)
HandlerTells == \A q \in Req, f \in Send : req[q].op = "step" => HandlerTold(q, f)
\* ... of what an answer says, ...
AnswerTells ==
  \A q \in Req : req[q].op = "step" /\ req[q].stage = "answered" /\ req[q].ans = "ok" =>
    Tells(req[q].n, req[q].k)
\* ... and of what the agent was told, which is of steps that are over.
ToldTells == \A n \in 1..MaxSteps : told[n] # Untold => Tells(n, told[n])
ToldPast ==
  \A n \in 1..MaxSteps : told[n] # Untold =>
    client.op = "step" /\ (n < client.n \/ (n = client.n /\ client.pc = "ready"))

WInv == OInv /\ HandlerTells /\ AnswerTells /\ ToldTells /\ ToldPast

LEMMA InitWInv == Init => WInv
<1>1. Init => OInv
  BY InitOInv
<1>2. Init => HandlerTells /\ AnswerTells /\ ToldTells /\ ToldPast
  BY DEF Init, NoRun, NoReq, Working, HandlerTells, HandlerTold, AnswerTells, ToldTells, ToldPast
<1>3. QED
  BY <1>1, <1>2 DEF WInv

\* Steps that execute nothing and run nothing again.
LEMMA QuietTells ==
  ASSUME UNCHANGED <<applied, redone>>
  PROVE  /\ \A c : Executed(c)' = Executed(c)
         /\ \A n, k : /\ Within(n, k)' <=> Within(n, k)
                      /\ Tells(n, k)' <=> Tells(n, k)
<1>1. \A c : Executed(c)' = Executed(c)
  BY DEF Executed
<1>2. Done' = Done
  BY <1>1 DEF Done
<1>3. QED
  BY <1>1, <1>2 DEF Tells, InOne, Within

LEMMA ClientTells ==
  ASSUME WInv, AgentSteps \/ ClientStep
  PROVE  WInv'
<1>1. OInv' /\ SInv /\ TInv
  BY ClientOrder DEF WInv, OInv, SInv
<1>2. UNCHANGED <<handler, applied, redone>>
  BY <1>1, ClientKeeps DEF AgentSteps, ClientSends, envVars
<1>3. \A q \in Req : \/ SameReq(req'[q], req[q]) /\ (req'[q] = req[q] \/ req'[q].ans = "none")
                     \/ ~(q <= sent) /\ req'[q].stage = "arrived"
  <2>1. CASE AgentSteps
    BY <2>1 DEF AgentSteps, SameReq
  <2>2. CASE ClientSends
    <3>1. req \in [Req -> Requests] /\ sent \in Nat
      BY <1>1 DEF TInv, TypeOK
    <3>2. \A q \in Req : q # sent + 1 => req'[q] = req[q]
      BY <2>2, <3>1 DEF ClientSends
    <3>3. sent + 1 \in Req => req'[sent + 1].stage = "arrived"
      BY <2>2, <3>1 DEF ClientSends, NoReq
    <3>4. QED
      BY <3>1, <3>2, <3>3 DEF SameReq
  <2>3. CASE ClientStep /\ ~ClientSends
    BY <1>1, <2>3, ClientKeeps DEF ReqKept
  <2>4. QED
    BY <2>1, <2>2, <2>3
<1>4. HandlerTells'
  <2>1. ASSUME NEW q \in Req, NEW f \in Send, Started(q, f)
        PROVE  req'[q].op = req[q].op /\ req'[q].n = req[q].n
    BY <1>1, <1>3, <2>1 DEF TInv, Shape, HandlersPlaced, SameReq
  <2>2. \A q \in Req, f \in Send :
          handler[q][f].pc \in Working \/ handler[q][f].pc = "done" => Started(q, f)
    BY DEF Working, Started
  <2>3. QED
    BY <1>2, <2>1, <2>2, QuietTells DEF WInv, HandlerTells, HandlerTold
<1>5. AnswerTells'
  <2>1. ASSUME NEW q \in Req, req'[q].stage = "answered", req'[q].ans = "ok"
        PROVE  req'[q] = req[q]
    BY <1>3, <2>1
  <2>2. QED
    BY <1>2, <2>1, QuietTells DEF WInv, AnswerTells
<1>6. told' = told \/ (Tell /\ Tells(client.n, req[sent].k))
  <2>1. CASE AgentSteps \/ ClientSends
    BY <2>1 DEF AgentSteps, ClientSends
  <2>2. CASE ClientStep /\ ~ClientSends /\ Tell
    <3>1. client.pc = "wait" /\ req[sent].ans = "ok" /\ req[sent].stage = "answered"
      BY <1>1, <2>2, ClientKeeps DEF Tell
    <3>2. sent \in Req
      BY <1>1, <3>1 DEF TInv, TypeOK, Shape, StagesCounted
    <3>3. req[sent].op = "step" /\ req[sent].n = client.n
      BY <1>1, <2>2, <3>1 DEF SInv, LastIsSent, Tell
    <3>4. QED
      BY <2>2, <3>1, <3>2, <3>3 DEF WInv, AnswerTells
  <2>3. QED
    BY <1>1, <2>1, <2>2, ClientKeeps
<1>7. \A n \in 1..MaxSteps : \/ told'[n] = told[n]
                             \/ n = client.n /\ Tell /\ Tells(n, told'[n])
  BY <1>1, <1>6 DEF TInv, TypeOK, Tell
<1>8. ToldTells'
  BY <1>2, <1>7, QuietTells DEF WInv, ToldTells
<1>9. ToldPast'
  <2>1. CASE AgentSteps
    <3>1. client'.op = "step" /\ client'.n = client.n + 1 /\ client.n \in Nat /\ told' = told
      BY <1>1, <2>1 DEF AgentSteps, NoCall, TInv, TypeOK, Calls
    <3>2. QED
      BY <3>1 DEF WInv, ToldPast
  <2>2. CASE ClientStep
    <3>1. client'.op = client.op /\ client'.n = client.n /\ client.pc # "ready"
      <4>1. CASE ClientSends
        BY <1>1, <4>1 DEF ClientSends, TInv, TypeOK, Calls
      <4>2. CASE ~ClientSends
        <5>1. CallKept
          BY <1>1, <2>2, <4>2, ClientKeeps
        <5>2. client.pc # "ready"
          BY <2>2 DEF ClientStep, ClientUnreached, ClientSends, AnswerOk, AnswerTruncated, AnswerBusy,
             AnswerError, LineCut, ReadTimeout, Reads
        <5>3. QED
          BY <5>1, <5>2 DEF CallKept, SameCall
      <4>3. QED
        BY <4>1, <4>2
    <3>2. QED
      BY <1>7, <3>1 DEF WInv, ToldPast, Tell
  <2>3. QED
    BY <2>1, <2>2
<1>10. QED
  BY <1>1, <1>4, <1>5, <1>8, <1>9 DEF WInv

LEMMA RouterTells ==
  ASSUME WInv, NEW q \in Req, RouterStep(q)
  PROVE  WInv'
<1>1. OInv' /\ TInv
  BY RouterOrder DEF WInv, OInv, SInv
<1>2. UNCHANGED <<client, told, applied, redone>>
  BY <1>1, RouterSteps
<1>3. ToldTells' /\ ToldPast'
  BY <1>2, QuietTells DEF WInv, ToldTells, ToldPast
<1>4. /\ \A p \in Req : req'[p].op = req[p].op /\ req'[p].n = req[p].n
      /\ \A p \in Req \ {q} : req'[p] = req[p]
      /\ \A p \in Req, g \in Send : handler'[p][g] = handler[p][g] \/ handler'[p][g].pc = "enter"
  <2>1. \/ \E f \in Send, h \in Runs : MovesTo(q, f, h) /\ h.pc = "enter" /\ StageNow(q, "sent", f)
        \/ UNCHANGED handler /\ \E f \in Send : StageNow(q, "arrived", f)
        \/ UNCHANGED handler /\ AnsweredNow(q)
    BY <1>1, RouterSteps
  <2>2. /\ \A p \in Req : req'[p].op = req[p].op /\ req'[p].n = req[p].n
        /\ \A p \in Req \ {q} : req'[p] = req[p]
    BY <2>1 DEF StageNow, AnsweredNow
  <2>3. \A p \in Req, g \in Send : handler'[p][g] = handler[p][g] \/ handler'[p][g].pc = "enter"
    BY <2>1 DEF MovesTo
  <2>4. QED
    BY <2>2, <2>3
<1>5. HandlerTells'
  <2>1. ASSUME NEW p \in Req, NEW g \in Send, handler'[p][g].pc \in Working \cup {"done"}
        PROVE  handler'[p][g] = handler[p][g]
    BY <1>4, <2>1 DEF Working
  <2>2. QED
    BY <1>2, <1>4, <2>1, QuietTells DEF WInv, HandlerTells, HandlerTold
<1>6. ASSUME req[q].op = "step", req'[q].stage = "answered", req'[q].ans = "ok"
      PROVE  Tells(req[q].n, req'[q].k)
  <2>1. \E f \in Send : Relays(q, f)
    BY <1>1, <1>6, RouterSteps DEF StageNow
  <2>2. QED
    BY <1>6, <2>1 DEF Relays, WInv, HandlerTells, HandlerTold
<1>7. AnswerTells'
  <2>1. ASSUME NEW p \in Req, req'[p].op = "step", req'[p].stage = "answered", req'[p].ans = "ok"
        PROVE  Tells(req[p].n, req'[p].k)
    BY <1>4, <1>6, <2>1 DEF WInv, AnswerTells
  <2>2. QED
    BY <1>2, <1>4, <2>1, QuietTells DEF AnswerTells
<1>8. QED
  BY <1>1, <1>3, <1>5, <1>7 DEF WInv

\* What a handler's step adds to what was executed.
LEMMA MoreExecuted ==
  ASSUME OInv, NEW q \in Req, NEW f \in Send, HandlerMoves(q, f)
  PROVE  /\ \A c \in Box : Executed(c) \subseteq Executed(c)'
         /\ \A a \in Done' :
              \/ a \in Done
              \/ LandsNow(q, f) /\ a = <<req[q].n, handler[q][f].k + 1>>
         /\ \A c \in Box : LandsNow(q, f) /\ c = cur =>
              <<req[q].n, handler[q][f].k + 1>> \in Executed(c)'
<1>1. CASE UNCHANGED applied /\ ~LandsNow(q, f)
  BY <1>1, QuietOrder DEF Executed
<1>2. CASE LandsNow(q, f)
  <2>1. PICK b : b = <<req[q].n, handler[q][f].k + 1>>
    OBVIOUS
  <2>2. PICK d \in Box : d = cur
    BY DEF OInv, SInv, TInv, TypeOK
  <2>3. applied' = [applied EXCEPT ![d] = Append(@, b)] /\ applied \in [Box -> Seq(Action)]
    BY <1>2, <2>1, <2>2 DEF LandsNow, OInv, SInv, TInv, TypeOK
  <2>4. \A c \in Box \ {d} : applied'[c] = applied[c]
    BY <2>3
  <2>5. PICK s \in Seq(Action) : s = applied[d]
    BY <2>3
  <2>6. applied'[d] = Append(s, b)
    BY <2>3, <2>5
  <2>7. Executed(d)' = Executed(d) \cup {b}
    <3>1. /\ DOMAIN Append(s, b) = 1..(Len(s) + 1) /\ DOMAIN s = 1..Len(s) /\ Len(s) \in Nat
          /\ \A i \in 1..Len(s) : Append(s, b)[i] = s[i]
          /\ Append(s, b)[Len(s) + 1] = b
      OBVIOUS
    <3>2. 1..(Len(s) + 1) = 1..Len(s) \cup {Len(s) + 1}
      BY <3>1
    <3>3. {Append(s, b)[i] : i \in 1..(Len(s) + 1)} = {s[i] : i \in 1..Len(s)} \cup {b}
      BY <3>1, <3>2
    <3>4. Executed(d)' = {Append(s, b)[i] : i \in 1..(Len(s) + 1)}
      BY <2>6, <3>1 DEF Executed
    <3>5. Executed(d) = {s[i] : i \in 1..Len(s)}
      BY <2>5, <3>1 DEF Executed
    <3>6. QED
      BY <3>3, <3>4, <3>5
  <2>8. \A c \in Box \ {d} : Executed(c)' = Executed(c)
    BY <2>4 DEF Executed
  <2>9. \A a \in Done' : a \in Done \/ a = b
    <3>1. \A a \in Done' : \E c \in Box : a \in Executed(c)'
      BY DEF Done
    <3>2. \A c \in Box : Executed(c) \subseteq Done
      BY DEF Done
    <3>3. QED
      BY <2>7, <2>8, <3>1, <3>2
  <2>10. QED
    BY <1>2, <2>1, <2>2, <2>7, <2>8, <2>9
<1>3. QED
  BY <1>1, <1>2 DEF HandlerMoves

\* ... touches no step but its own.
LEMMA OtherTells ==
  ASSUME OInv, NEW q \in Req, NEW f \in Send, HandlerMoves(q, f), NEW n, NEW k,
         req[q].op = "step" => n # req[q].n
  PROVE  /\ Within(n, k) => Within(n, k)'
         /\ Tells(n, k) => Tells(n, k)'
<1>1. LandsNow(q, f) => req[q].op = "step"
  BY DEF LandsNow, OInv, SInv, TInv, Shape, HandlersPlaced, Working
<1>2. ASSUME NEW a \in Done', a[1] = n
      PROVE  a \in Done
  <2>1. a \in Done \/ (LandsNow(q, f) /\ a = <<req[q].n, handler[q][f].k + 1>>)
    BY MoreExecuted
  <2>2. a = <<req[q].n, handler[q][f].k + 1>> => a[1] = req[q].n
    OBVIOUS
  <2>3. QED
    BY <1>1, <1>2, <2>1, <2>2
<1>3. Within(n, k) => Within(n, k)'
  BY <1>2 DEF Within, HandlerMoves
<1>4. InOne(n, k) => InOne(n, k)'
  BY MoreExecuted DEF InOne
<1>5. QED
  BY <1>3, <1>4 DEF Tells

LEMMA HandlerTellsMore ==
  ASSUME WInv, NEW q \in Req, NEW f \in Send, HandlerMoves(q, f)
  PROVE  WInv'
<1>1. OInv /\ SInv /\ TInv /\ OInv'
  BY RestOrder, LandOrder DEF WInv, OInv, SInv, HandlerMoves
<1>2. /\ UNCHANGED <<client, sent, req, told>> /\ redone \subseteq redone'
      /\ handler[q][f].pc \notin {"none", "done"}
  BY DEF HandlerMoves
<1>3. PICK h \in Runs : /\ MovesTo(q, f, h) /\ h.pc \notin {"none", "enter"}
                        /\ h.pc \in Working => WorksOn(q, f, h)
                        /\ EndsWell(q, f, h)
  BY DEF HandlerMoves
<1>4. PICK r \in Runs : r = handler[q][f]
  BY <1>1 DEF TInv, TypeOK
<1>5. PICK n : n = req[q].n
  OBVIOUS
<1>6. r.k \in Nat /\ r.base \in Box
  BY DEF Runs
\* Its own step.
<1>7. ASSUME req[q].op = "step", r.pc \in Working
      PROVE  /\ \A j \in 1..r.k : <<n, j>> \in Executed(r.base)'
             /\ Within(n, r.k)'
  <2>1. (\A j \in 1..r.k : <<n, j>> \in Executed(r.base)) /\ Within(n, r.k)
    BY <1>4, <1>5, <1>7 DEF WInv, HandlerTells, HandlerTold
  <2>2. ASSUME NEW a \in Done', a[1] = n, n \notin redone'
        PROVE  a[2] <= r.k + 1
    <3>1. CASE a \in Done
      BY <1>2, <2>1, <2>2, <3>1 DEF Within
    <3>2. CASE a = <<req[q].n, r.k + 1>>
      BY <1>6, <3>2
    <3>3. QED
      BY <1>1, <1>4, <3>1, <3>2, MoreExecuted
  <2>3. Within(n, r.k)'
    BY <2>2 DEF Within
  <2>4. QED
    BY <1>1, <1>6, <2>1, <2>3, MoreExecuted
<1>8. ASSUME h.pc \in Working
      PROVE  /\ \A j \in 1..h.k : <<n, j>> \in Executed(h.base)'
             /\ Within(n, h.k)'
  <2>1. WorksOn(q, f, h) /\ req[q].op = "step"
    BY <1>3, <1>8 DEF WorksOn
  <2>2. q \in SentSteps /\ n = client.n /\ n \in Nat
    BY <1>1, <1>2, <1>5, <2>1, WorkIsOfTheStep
  <2>3. CASE h.k = 0 /\ UNCHANGED applied /\ (handler[q][f].pc = "enter" \/ n \in redone')
    <3>1. Done' = Done
      BY <1>1, <2>3, QuietOrder
    <3>2. handler[q][f].pc = "enter" => Untouched(q)
      BY <1>1 DEF SInv, OneHandler, Started, Untouched
    <3>3. n \notin redone' => \A a \in Done : a[1] < n
      BY <1>1, <1>5, <2>2, <2>3, <3>2 DEF OInv, UntouchedPast
    <3>4. Within(n, h.k)'
      BY <2>2, <3>1, <3>3 DEF Within
    <3>5. QED
      BY <2>3, <3>4
  <2>4. CASE h.base = r.base /\ h.k = r.k /\ r.pc \in Working
    BY <1>7, <2>1, <2>4
  <2>5. CASE h.base = r.base /\ h.k = r.k + 1 /\ LandsNow(q, f)
    <3>1. r.pc \in Working /\ r.base = cur
      BY <1>4, <2>5 DEF LandsNow, Working
    <3>2. (\A j \in 1..r.k : <<n, j>> \in Executed(r.base)') /\ Within(n, r.k)'
      BY <1>7, <2>1, <3>1
    <3>3. <<n, r.k + 1>> \in Executed(r.base)'
      BY <1>1, <1>4, <1>5, <1>6, <2>5, <3>1, MoreExecuted
    <3>4. Within(n, r.k + 1)'
      <4>1. ASSUME NEW a \in Done'
            PROVE  a[2] \in Nat
        <5>1. a \in Done \/ a = <<req[q].n, r.k + 1>>
          BY <1>1, <1>4, MoreExecuted
        <5>2. a \in Done => a[2] \in Nat
          BY <1>1, ActionPairs DEF Action
        <5>3. a = <<req[q].n, r.k + 1>> => a[2] \in Nat
          BY <1>6
        <5>4. QED
          BY <5>1, <5>2, <5>3
      <4>2. QED
        BY <1>6, <3>2, <4>1 DEF Within
    <3>5. QED
      BY <1>6, <2>5, <3>2, <3>3, <3>4
  <2>6. QED
    BY <1>4, <1>5, <2>1, <2>3, <2>4, <2>5 DEF WorksOn, Working
<1>9. ASSUME h.pc = "done", h.ans = "ok", req[q].op = "step"
      PROVE  Tells(n, h.k)'
  <2>1. r.pc \in Working /\ h.k = r.k
    BY <1>3, <1>4, <1>9 DEF EndsWell
  <2>2. InOne(n, r.k)'
    BY <1>6, <1>7, <1>9, <2>1 DEF InOne
  <2>3. QED
    BY <1>7, <1>9, <2>1, <2>2 DEF Tells
\* Every other one.
<1>10. \A p \in Req, g \in Send :
         req[q].op = "step" /\ req[p].op = "step" /\ Started(p, g) /\ req[p].n = n => p = q /\ g = f
  <2>1. Started(q, f)
    BY <1>2 DEF Started
  <2>2. QED
    BY <1>1, <1>5, <2>1, ServedOnce DEF StepsServedOnce, Started
<1>11. HandlerTells'
  <2>1. ASSUME NEW p \in Req, NEW g \in Send, req[p].op = "step"
        PROVE  HandlerTold(p, g)'
    <3>1. CASE p = q /\ g = f
      <4>1. handler'[p][g] = h
        BY <1>3, <3>1 DEF MovesTo
      <4>2. req'[p].n = n
        BY <1>2, <1>5, <3>1
      <4>3. QED
        BY <1>8, <1>9, <2>1, <3>1, <4>1, <4>2 DEF HandlerTold
    <3>2. CASE ~(p = q /\ g = f)
      <4>1. handler'[p][g] = handler[p][g]
        BY <1>3, <3>2 DEF MovesTo
      <4>2. PICK t \in Runs : t = handler[p][g]
        BY <1>1 DEF TInv, TypeOK
      <4>3. PICK m : m = req[p].n
        OBVIOUS
      <4>4. t.base \in Box /\ t.k \in Nat
        BY DEF Runs
      <4>5. t.pc \in Working \cup {"done"} => (req[q].op = "step" => m # req[q].n)
        BY <1>5, <1>10, <2>1, <3>2, <4>2, <4>3 DEF Working, Started
      <4>6. ASSUME t.pc \in Working
            PROVE  (\A j \in 1..t.k : <<m, j>> \in Executed(t.base)') /\ Within(m, t.k)'
        <5>1. (\A j \in 1..t.k : <<m, j>> \in Executed(t.base)) /\ Within(m, t.k)
          BY <2>1, <4>2, <4>3, <4>6 DEF WInv, HandlerTells, HandlerTold
        <5>2. QED
          BY <1>1, <4>4, <4>5, <4>6, <5>1, OtherTells, MoreExecuted
      <4>7. ASSUME t.pc = "done", t.ans = "ok"
            PROVE  Tells(m, t.k)'
        <5>1. Tells(m, t.k)
          BY <2>1, <4>2, <4>3, <4>7 DEF WInv, HandlerTells, HandlerTold
        <5>2. QED
          BY <1>1, <4>5, <4>7, <5>1, OtherTells
      <4>8. HandlerTold(p, g)'
        <5>1. handler'[p][g] = t /\ req'[p] = req[p]
          BY <1>2, <4>1, <4>2
        <5>2. QED
          BY <4>3, <4>6, <4>7, <5>1 DEF HandlerTold
      <4>9. QED
        BY <4>8
    <3>3. QED
      BY <3>1, <3>2
  <2>2. QED
    BY <1>2, <2>1 DEF HandlerTells
<1>12. AnswerTells'
  <2>1. ASSUME NEW p \in Req, req[p].op = "step", req[p].stage = "answered", req[p].ans = "ok"
        PROVE  \A m, k : m = req[p].n /\ k = req[p].k => Tells(m, k)'
    <3>1. Settled(p)
      BY <1>1, <2>1 DEF SInv, AnswersSettled
    <3>2. p # q
      BY <1>2, <3>1 DEF Settled
    <3>3. p \in SentSteps
      BY <1>1, <2>1 DEF TInv, Shape, StagesCounted, SentSteps
    <3>4. req[q].op = "step" => req[p].n # req[q].n
      BY <1>1, <1>2, <3>2, <3>3, WorkIsOfTheStep DEF SInv, StepsOnce
    <3>5. QED
      BY <1>1, <2>1, <3>4, OtherTells DEF WInv, AnswerTells
  <2>2. QED
    BY <1>2, <2>1 DEF AnswerTells
<1>13. ToldTells'
  <2>1. ASSUME NEW m \in 1..MaxSteps, told[m] # Untold
        PROVE  \A k : k = told[m] => Tells(m, k)'
    <3>1. req[q].op = "step" => q \in SentSteps /\ ~Settled(q) /\ req[q].n = client.n /\ client.n \in Nat
      BY <1>1, <1>2, WorkIsOfTheStep DEF Settled
    <3>2. req[q].op = "step" => client.pc # "ready"
      BY <1>1, <3>1 DEF SInv, StepsOnce
    <3>3. req[q].op = "step" => m # req[q].n
      BY <2>1, <3>1, <3>2 DEF WInv, ToldPast
    <3>4. QED
      BY <1>1, <2>1, <3>3, OtherTells DEF WInv, ToldTells
  <2>2. QED
    BY <1>2, <2>1 DEF ToldTells
<1>14. ToldPast'
  BY <1>2 DEF WInv, ToldPast
<1>15. QED
  BY <1>1, <1>11, <1>12, <1>13, <1>14 DEF WInv

LEMMA NextWInv == WInv /\ [Next]_vars => WInv'
<1>1. WInv /\ (AgentSteps \/ ClientStep) => WInv'
  BY ClientTells
<1>2. ASSUME WInv, NEW q \in Req, RouterStep(q)
      PROVE  WInv'
  BY <1>2, RouterTells
<1>3. ASSUME WInv, NEW q \in Req, NEW f \in Send, HandlerStep(q, f)
      PROVE  WInv'
  BY <1>3, HandlerSteps, HandlerTellsMore DEF WInv, OInv, SInv
<1>4. ASSUME WInv, UNCHANGED vars
      PROVE  WInv'
  <2>1. OInv'
    BY <1>4, NextOInv DEF WInv
  <2>2. UNCHANGED <<client, req, handler, applied, told, redone>>
    BY <1>4 DEF vars
  <2>3. QED
    BY <1>4, <2>1, <2>2, QuietTells DEF WInv, HandlerTells, HandlerTold, AnswerTells, ToldTells, ToldPast
<1>5. QED
  BY <1>1, <1>2, <1>3, <1>4 DEF Next

\* What the answer to a step says was executed was, all of it in one container,
\* and no more than the one action whose RPC failed besides.
THEOREM AnswersAreTrue == Spec => []AnswersTellWhatRan
<1>1. WInv => AnswersTellWhatRan
  <2>1. SUFFICES ASSUME WInv, NEW n \in 1..MaxSteps, told[n] # Untold
                 PROVE  /\ \E c \in Box : \A k \in 1..told[n] : <<n, k>> \in Executed(c)
                        /\ n \notin redone => \A c \in Box, k \in 1..BatchLen :
                             <<n, k>> \in Executed(c) => k <= told[n] + 1
    BY DEF AnswersTellWhatRan
  <2>2. InOne(n, told[n]) /\ Within(n, told[n])
    BY <2>1 DEF WInv, ToldTells, Tells
  <2>3. ASSUME NEW c \in Box, NEW k \in 1..BatchLen, <<n, k>> \in Executed(c), n \notin redone
        PROVE  k <= told[n] + 1
    <3>1. <<n, k>> \in Done
      BY <2>3 DEF Done
    <3>2. QED
      BY <2>2, <2>3, <3>1 DEF Within
  <2>4. QED
    BY <2>2, <2>3 DEF InOne
<1>2. QED
  BY InitWInv, NextWInv, <1>1, PTL DEF Spec

-----------------------------------------------------------------------------
(* StepDelivery implements AgentEpisode.                                     *)

Phase == IF client.pc \in {"send", "wait"} THEN "calling" ELSE client.pc
episode == <<client.n, Phase, applied, told, redone>>

\* The reset is step 0.
ResetIsFirst == client.op = "reset" => client.n = 0

EInv == WInv /\ ResetIsFirst

\* The invariant of the refinement.
LEMMA EpisodeInvariant == Spec => []EInv
<1>1. Init => EInv
  BY InitWInv DEF EInv, Init, ResetIsFirst, NoCall
<1>2. ASSUME EInv, [Next]_vars
      PROVE  EInv'
  <2>1. WInv' /\ TInv
    BY <1>2, NextWInv DEF EInv, WInv, OInv, SInv
  <2>2. CASE AgentSteps
    BY <2>1, <2>2 DEF AgentSteps, NoCall, EInv, ResetIsFirst
  <2>3. CASE ClientSends
    BY <1>2, <2>1, <2>3, PcEdit DEF ClientSends, TInv, TypeOK, SameCall, EInv, ResetIsFirst
  <2>4. CASE ClientStep /\ ~ClientSends
    BY <1>2, <2>1, <2>4, ClientKeeps DEF CallKept, SameCall, EInv, ResetIsFirst
  <2>5. CASE UNCHANGED client
    BY <1>2, <2>1, <2>5 DEF EInv, ResetIsFirst
  <2>6. ASSUME NEW q \in Req, RouterStep(q)
        PROVE  UNCHANGED client
    BY <2>1, <2>6, RouterSteps
  <2>7. ASSUME NEW q \in Req, NEW f \in Send, HandlerStep(q, f)
        PROVE  UNCHANGED client
    BY <2>1, <2>7, HandlerSteps DEF HandlerMoves
  <2>8. QED
    BY <1>2, <2>2, <2>3, <2>4, <2>5, <2>6, <2>7 DEF Next, vars
<1>3. QED
  BY <1>1, <1>2, PTL DEF Spec

\* Only a batch that is begun again is recorded as such.
LEMMA Redoes ==
  ASSUME NEW q \in Req, NEW f \in Send, HandlerStep(q, f)
  PROVE  \/ redone' = redone
         \/ /\ redone' = redone \cup {req[q].n} /\ UNCHANGED applied
            /\ At(q, f, "step", "sleep")
<1>1. CASE StepBegins(q, f)
  BY <1>1 DEF StepBegins
<1>2. CASE \/ NotFound(q, f) \/ ResetBegins(q, f) \/ ResetOk(q, f) \/ ResetBusy(q, f)
           \/ ResetRetries(q, f) \/ ResetFails(q, f) \/ StepTimeout(q, f) \/ ActNowhere(q, f)
  BY <1>2 DEF NotFound, ResetBegins, ResetOk, ResetBusy, ResetRetries, ResetFails, StepTimeout,
              ActNowhere, envVars
<1>3. CASE \/ ActOk(q, f) \/ ActRefused(q, f) \/ ActCut(q, f) \/ ActError(q, f)
           \/ CaptureOk(q, f) \/ StepOk(q, f) \/ \E reached \in BOOLEAN : ReadFails(q, f, reached)
  BY <1>3 DEF ActOk, ActRefused, ActCut, ActError, CaptureOk, StepOk, ReadFails, envVars
<1>4. QED
  BY <1>1, <1>2, <1>3 DEF HandlerStep

\* The client's steps: it begins a step, is answered, gives up or tries again.
LEMMA ClientSeen ==
  ASSUME EInv, AgentSteps \/ ClientStep
  PROVE  Promise!Next \/ UNCHANGED episode
<1>1. /\ TInv /\ WInv /\ client \in Calls /\ client.n \in 0..MaxSteps
      /\ client.op = "step" <=> client.n > 0
  <2>1. TInv /\ WInv /\ ResetIsFirst
    BY DEF EInv, WInv, OInv, SInv
  <2>2. client \in Calls
    BY <2>1 DEF TInv, TypeOK
  <2>3. client.op \in {"reset", "step"} /\ client.n \in 0..MaxSteps
    BY <2>2 DEF Calls
  <2>4. client.op = "step" => client.n >= 1
    BY <2>1 DEF TInv, Shape, StepsNumbered
  <2>5. QED
    BY <2>1, <2>2, <2>3, <2>4 DEF ResetIsFirst
<1>2. CASE AgentSteps
  <2>1. client.pc = "ready" /\ client'.pc = "send" /\ client'.n = client.n + 1
    BY <1>2 DEF AgentSteps, NoCall
  <2>2. Promise!Begin
    BY <1>2, <2>1 DEF AgentSteps, envVars, Promise!Begin
  <2>3. QED
    BY <2>2 DEF Promise!Next
<1>3. CASE ClientSends
  <2>1. client.pc = "send" /\ client'.pc = "wait" /\ client'.n = client.n
    BY <1>1, <1>3, PcEdit DEF ClientSends, SameCall
  <2>2. QED
    BY <1>3, <2>1 DEF ClientSends, envVars, episode, Phase
<1>4. CASE AnswerOk
  <2>1. client.pc = "wait" /\ client'.pc = "ready" /\ client'.n = client.n
    BY <1>1, <1>4, PcEdit DEF AnswerOk, Reads, SameCall
  <2>2. sent \in Req /\ req[sent].k \in 0..BatchLen
    BY <1>1, <2>1 DEF TInv, TypeOK, Shape, StagesCounted, Requests
  <2>3. CASE client.op = "reset"
    <3>1. Promise!Hear(0)
      BY <1>1, <1>4, <2>1, <2>3 DEF AnswerOk, envVars, Promise!Hear
    <3>2. QED
      BY <3>1 DEF Promise!Next
  <2>4. CASE client.op = "step"
    <3> DEFINE k == req[sent].k
    <3>1. Tells(client.n, k)
      BY <1>1, <1>4, <2>1, <2>2, <2>4
      DEF WInv, OInv, SInv, LastIsSent, AnswerTells, AnswerOk, Reads
    <3>2. told' = [told EXCEPT ![client.n] = k] /\ UNCHANGED <<applied, redone>>
      BY <1>4, <2>4 DEF AnswerOk, envVars
    <3>3. Promise!Hear(k)
      BY <1>1, <2>1, <2>4, <3>1, <3>2
      DEF Promise!Hear, Promise!In, Promise!Executed, Tells, InOne, Within, Done, Executed
    <3>4. QED
      BY <2>2, <3>3 DEF Promise!Next
  <2>5. QED
    BY <1>1, <2>3, <2>4 DEF Calls
<1>5. CASE ClientStep /\ ~ClientSends /\ ~AnswerOk
  <2>1. /\ client.pc \in {"send", "wait"} /\ client'.pc \in {"send", "over"}
        /\ client'.n = client.n /\ told' = told /\ UNCHANGED <<applied, redone>>
    <3>1. client'.n = client.n /\ UNCHANGED <<applied, redone>>
      BY <1>1, <1>5, ClientKeeps DEF CallKept, SameCall
    <3>2. ASSUME NEW reached \in BOOLEAN, TransportFails(reached)
          PROVE  client'.pc \in {"send", "over"}
      BY <1>1, <3>2, TransportFailsKeeps
    <3>3. Raises => client'.pc = "over"
      BY <1>1, RaisesKeeps
    <3>4. CASE ClientUnreached \/ LineCut
      BY <3>1, <3>2, <3>4 DEF ClientUnreached, LineCut
    <3>5. CASE AnswerError \/ ReadTimeout
      BY <3>1, <3>3, <3>5 DEF AnswerError, ReadTimeout, Reads
    <3>6. CASE AnswerTruncated \/ AnswerBusy
      <4>1. ASSUME NEW d, client' = [client EXCEPT !.pc = "send", !.tries = 0, !.frames = d]
            PROVE  client'.pc = "send"
        BY <1>1, <4>1 DEF Calls
      <4>2. client' = [client EXCEPT !.pc = "send"] => client'.pc = "send"
        BY <1>1 DEF Calls
      <4>3. QED
        BY <3>1, <3>3, <3>6, <4>1, <4>2 DEF AnswerTruncated, AnswerBusy, Reads
    <3>7. QED
      BY <1>5, <3>4, <3>5, <3>6 DEF ClientStep
  <2>2. CASE client'.pc = "send"
    BY <2>1, <2>2 DEF episode, Phase
  <2>3. CASE client'.pc = "over"
    <3>1. Promise!GiveUp
      BY <2>1, <2>3 DEF Promise!GiveUp
    <3>2. QED
      BY <3>1 DEF Promise!Next
  <2>4. QED
    BY <2>1, <2>2, <2>3
<1>6. QED
  BY <1>2, <1>3, <1>4, <1>5

\* A handler executes an action of the step under way, begins its batch again,
\* or does nothing that is seen.
LEMMA HandlerSeen ==
  ASSUME EInv, NEW q \in Req, NEW f \in Send, HandlerStep(q, f)
  PROVE  Promise!Next \/ UNCHANGED episode
<1>1. SInv /\ OInv /\ HandlerMoves(q, f)
  BY HandlerSteps DEF EInv, WInv, OInv, SInv
<1>2. UNCHANGED <<client, told>> /\ handler[q][f].pc \notin {"none", "done"}
  BY <1>1 DEF HandlerMoves
<1>3. ASSUME req[q].op = "step"
      PROVE  req[q].n = client.n /\ client.n \in 1..MaxSteps /\ client.pc # "ready"
  <2>1. q \in SentSteps /\ req[q].n = client.n
    BY <1>1, <1>2, <1>3, WorkIsOfTheStep
  <2>2. client.pc # "ready"
    BY <1>1, <1>2, <2>1 DEF SInv, StepsOnce, Settled
  <2>3. req[q].n \in 1..MaxSteps
    BY <1>1, <1>3 DEF SInv, TInv, TypeOK, Shape, StepsNumbered, Requests
  <2>4. QED
    BY <2>1, <2>2, <2>3
<1>4. CASE redone' = redone /\ UNCHANGED applied
  BY <1>2, <1>4 DEF episode, Phase
<1>5. CASE /\ redone' = redone \cup {req[q].n} /\ UNCHANGED applied
           /\ At(q, f, "step", "sleep")
  <2>1. Promise!Restart
    BY <1>2, <1>3, <1>5 DEF At, Promise!Restart
  <2>2. QED
    BY <2>1 DEF Promise!Next
<1>6. CASE redone' = redone /\ LandsNow(q, f)
  <2>1. PICK k \in 1..BatchLen : k = handler[q][f].k + 1
    BY <1>6 DEF LandsNow
  <2>2. req[q].op = "step" /\ Ahead(q, f) /\ cur \in Box
    BY <1>1, <1>6 DEF LandsNow, SInv, TInv, TypeOK, Shape, HandlersPlaced, Working, Ahead
  <2>3. client.n \notin redone => \A a \in Done : Earlier(a, <<client.n, k>>)
    BY <1>1, <1>3, <2>1, <2>2 DEF OInv, AheadPast
  <2>4. applied' = [applied EXCEPT ![cur] = Append(@, <<client.n, k>>)]
    BY <1>3, <1>6, <2>1, <2>2 DEF LandsNow
  <2>5. Promise!Execute(cur, k)
    BY <1>2, <1>3, <1>6, <2>2, <2>3, <2>4
    DEF Promise!Execute, Promise!Executed, Promise!In, Promise!Before, Earlier, Done, Executed
  <2>6. QED
    BY <2>2, <2>5 DEF Promise!Next
<1>7. QED
  BY <1>1, <1>4, <1>5, <1>6, Redoes DEF HandlerMoves

\* The episode implements the abstract one: over three hops that fail, retry and
\* run on, the agent's steps are executed one after the other, and what an answer
\* says was executed was.
THEOREM EpisodeKeepsPromise == Spec => ImplementsEpisode
<1>1. Init => Promise!Init
  BY DEF Init, Promise!Init, NoCall
<1>2. ASSUME EInv, [Next]_vars
      PROVE  Promise!Next \/ UNCHANGED episode
  <2>1. ASSUME NEW q \in Req, RouterStep(q)
        PROVE  UNCHANGED episode
    BY <1>2, <2>1, RouterSteps DEF EInv, WInv, OInv, SInv, episode, Phase
  <2>2. CASE UNCHANGED vars
    BY <2>2 DEF vars, episode, Phase
  <2>3. QED
    BY <1>2, <2>1, <2>2, ClientSeen, HandlerSeen DEF Next
<1>3. QED
  BY <1>1, <1>2, EpisodeInvariant, PTL
  DEF Spec, ImplementsEpisode, Promise!Spec, Promise!episodeVars, episode, Phase
=============================================================================
