--------------------------- MODULE DispatchProofs ---------------------------
(***************************************************************************)
(* Proofs about Dispatch, for every set of requests and connections, every *)
(* assignment of requests to connections, body length and channel size.    *)
(***************************************************************************)
EXTENDS Dispatch, TLAPS

-----------------------------------------------------------------------------
(* The inductive invariant *)

\* Nothing exists for a request before its instance does.
Fresh(r) ==
    svc[r] \in {"idle", "setup"} =>
        task[r] = "none" /\ reply[r] = "empty" /\ guest[r] = "none"

\* The reply is taken exactly when hyper has, or had, the response.
TakenOnce(r) ==
    /\ svc[r] = "await" => reply[r] # "taken"
    /\ svc[r] \in {"body", "done"} => reply[r] = "taken"

\* Until handle returns, nothing of its outcome is visible.
NotReturned(r) ==
    /\ guest[r] \in {"none", "collect", "js", "settled", "idle", "returning"} =>
          handled[r] = "pending" /\ written[r] = 0
    /\ guest[r] \in {"none", "collect", "js", "settled"} => result[r] = None

\* A response on its way, or taken, is one that handle returned.
ReplyReturned(r) == reply[r] \in {"response", "taken"} => handled[r] = "ok"

\* Only a handler that let the runtime go idle returns a result.
ReturnedIdle(r) ==
    /\ guest[r] \in {"returning", "writing", "closed"} \/ handled[r] = "ok"
    /\ result[r] # None
    => r \notin Stuck

\* The globals of an instance only ever hold the result of its one request.
OwnGlobals(r) == jsResult[r] \in {None, r}

\* Chunks are written and sent in step, and a closed body is a whole one.
BodyInStep(r) ==
    /\ delivered[r] <= written[r] /\ written[r] <= Size(r)
    /\ guest[r] = "closed" => written[r] = Size(r)
    /\ r \in HeadRequests => delivered[r] = 0

\* hyper calls a message complete at the close of its body, or after a fault.
DoneAtClose(r) ==
    svc[r] = "done" /\ r \notin HeadRequests /\ task[r] # "trapped"
        => guest[r] = "closed" /\ delivered[r] = written[r]

HostInv ==
    /\ EventLoopOutlivesBody /\ AwaitHasSender
    /\ \A r \in Requests : Fresh(r) /\ TakenOnce(r)

GuestInv ==
    /\ Isolated
    /\ \A r \in Requests :
          NotReturned(r) /\ ReplyReturned(r) /\ ReturnedIdle(r) /\ OwnGlobals(r)

BodyInv == \A r \in Requests : BodyInStep(r) /\ DoneAtClose(r)

IInv == TypeOK /\ HostInv /\ GuestInv /\ BodyInv

-----------------------------------------------------------------------------
(* Every step preserves it, part by part *)

\* Every variable keeps its type.
LEMMA TypeStep ==
    ASSUME TypeOK, [Next]_vars
    PROVE  TypeOK'
<1> USE RequestsAssumption, BodyAssumption
    DEF TypeOK, Live, Driven, hostVars, guestVars, bodyVars
<1>1. CASE AcceptError
  BY <1>1 DEF AcceptError
<1>2. ASSUME NEW c \in Conns, Accept(c) \/ ClientDisconnect(c) PROVE TypeOK'
  BY <1>2 DEF Accept, ClientDisconnect, InFlight
<1>3. ASSUME NEW r \in Requests, Receive(r) \/ UploadEnd(r) \/ Setup(r) PROVE TypeOK'
  BY <1>3 DEF Receive, UploadEnd, Setup, SetupFail, Instantiate
<1>4. ASSUME NEW r \in Requests, Guest(r) \/ Trap(r) PROVE TypeOK'
  BY <1>4 DEF Guest, Collect, JsSettle, JsThrow, ReadResult, Idle, GuestReturn,
              WriterWrite, WriterClose, Trap, Size, InstanceFor
<1>5. ASSUME NEW r \in Requests, Dispatcher(r) \/ LoopTrap(r) PROVE TypeOK'
  BY <1>5 DEF Dispatcher, SendResponse, SendError, DoneSignal, LoopTrap
<1>6. ASSUME NEW r \in Requests, Hyper(r) PROVE TypeOK'
  BY <1>6 DEF Hyper, SvcReply, SvcError, SendChunk, FinishBody, LoseBody, SkipBody
<1>7. CASE UNCHANGED vars
  BY <1>7 DEF vars
<1>8. QED
  BY <1>1, <1>2, <1>3, <1>4, <1>5, <1>6, <1>7 DEF Next, Quiescent, vars

\* The oneshot between dispatcher and service: it has a sender while it is awaited,
\* and the event loop runs while a response is held.
LEMMA HostStep ==
    ASSUME TypeOK, HostInv, [Next]_vars
    PROVE  HostInv'
<1> USE DEF HostInv, EventLoopOutlivesBody, AwaitHasSender, Fresh, TakenOnce,
        BodyHeld, TypeOK, Live, Driven, hostVars, guestVars, bodyVars
<1>1. CASE AcceptError
  BY <1>1 DEF AcceptError
<1>2. ASSUME NEW c \in Conns, ClientDisconnect(c) PROVE HostInv'
  BY <1>2 DEF ClientDisconnect, InFlight
<1>3. ASSUME NEW r \in Requests, Receive(r) PROVE HostInv'
  BY <1>3 DEF Receive
<1>4. ASSUME NEW r \in Requests, SetupFail(r) PROVE HostInv'
  BY <1>4 DEF SetupFail
<1>5. ASSUME NEW r \in Requests, Instantiate(r) PROVE HostInv'
  BY <1>5 DEF Instantiate
<1>6. ASSUME NEW r \in Requests, SendResponse(r) PROVE HostInv'
  BY <1>6 DEF SendResponse
<1>7. ASSUME NEW r \in Requests, SendError(r) PROVE HostInv'
  BY <1>7 DEF SendError
<1>8. ASSUME NEW r \in Requests, DoneSignal(r) PROVE HostInv'
  BY <1>8 DEF DoneSignal
<1>9. ASSUME NEW r \in Requests, SvcReply(r) PROVE HostInv'
  BY <1>9 DEF SvcReply
<1>10. ASSUME NEW r \in Requests, SvcError(r) PROVE HostInv'
  BY <1>10 DEF SvcError
<1>11. ASSUME NEW r \in Requests, FinishBody(r) PROVE HostInv'
  BY <1>11 DEF FinishBody
<1>12. ASSUME NEW r \in Requests, LoseBody(r) PROVE HostInv'
  BY <1>12 DEF LoseBody
<1>13. ASSUME NEW r \in Requests, SkipBody(r) PROVE HostInv'
  BY <1>13 DEF SkipBody
<1>14. ASSUME NEW r \in Requests, LoopTrap(r) PROVE HostInv'
  BY <1>14 DEF LoopTrap
<1>15. ASSUME NEW c \in Conns, Accept(c) PROVE HostInv'
  BY <1>15 DEF Accept, InFlight
\* These leave svc, task and reply alone; only guest moves on.
<1>16. ASSUME NEW r \in Requests, UploadEnd(r) \/ Collect(r) \/ JsSettle(r) \/
      JsThrow(r) \/ ReadResult(r) \/ Idle(r) \/ GuestReturn(r) \/ WriterWrite(r) \/
      WriterClose(r) \/ SendChunk(r) \/ Trap(r) PROVE HostInv'
  BY <1>16 DEF UploadEnd, Collect, JsSettle, JsThrow, ReadResult, Idle, GuestReturn,
      WriterWrite, WriterClose, SendChunk, Trap
<1>17. CASE UNCHANGED vars
  BY <1>17 DEF vars
<1>18. QED
  BY <1>1, <1>2, <1>3, <1>4, <1>5, <1>6, <1>7, <1>8, <1>9, <1>10, <1>11, <1>12, <1>13,
      <1>14, <1>15, <1>16, <1>17 DEF vars, Next, Quiescent, Setup, Guest, Dispatcher, Hyper

\* What the guest computed stays its own, and stays out of sight until handle returns.
LEMMA GuestStep ==
    ASSUME TypeOK, HostInv, GuestInv, [Next]_vars
    PROVE  GuestInv'
<1> USE RequestsAssumption DEF HostInv, Fresh, GuestInv, Isolated, NotReturned,
        ReplyReturned, ReturnedIdle, OwnGlobals, Size, InstanceFor, TypeOK, Live, Driven,
        hostVars, guestVars, bodyVars
<1>1. ASSUME NEW r \in Requests, Instantiate(r) PROVE GuestInv'
  BY <1>1 DEF Instantiate
<1>2. ASSUME NEW r \in Requests, Collect(r) PROVE GuestInv'
  BY <1>2 DEF Collect
<1>3. ASSUME NEW r \in Requests, JsSettle(r) PROVE GuestInv'
  BY <1>3 DEF JsSettle
<1>4. ASSUME NEW r \in Requests, JsThrow(r) PROVE GuestInv'
  BY <1>4 DEF JsThrow
<1>5. ASSUME NEW r \in Requests, ReadResult(r) PROVE GuestInv'
  BY <1>5 DEF ReadResult
<1>6. ASSUME NEW r \in Requests, Idle(r) PROVE GuestInv'
  BY <1>6 DEF Idle
<1>7. ASSUME NEW r \in Requests, GuestReturn(r) PROVE GuestInv'
  BY <1>7 DEF GuestReturn
<1>8. ASSUME NEW r \in Requests, WriterWrite(r) PROVE GuestInv'
  BY <1>8 DEF WriterWrite
<1>9. ASSUME NEW r \in Requests, WriterClose(r) PROVE GuestInv'
  BY <1>9 DEF WriterClose
<1>10. ASSUME NEW r \in Requests, SendResponse(r) PROVE GuestInv'
  BY <1>10 DEF SendResponse
<1>11. ASSUME NEW r \in Requests, SendError(r) PROVE GuestInv'
  BY <1>11 DEF SendError
<1>12. ASSUME NEW r \in Requests, SvcReply(r) PROVE GuestInv'
  BY <1>12 DEF SvcReply
<1>13. ASSUME NEW r \in Requests, Trap(r) PROVE GuestInv'
  BY <1>13 DEF Trap
<1>14. ASSUME NEW r \in Requests, LoopTrap(r) PROVE GuestInv'
  BY <1>14 DEF LoopTrap
<1>15. ASSUME NEW c \in Conns, AcceptError \/ Accept(c) \/ ClientDisconnect(c) PROVE
      GuestInv'
  BY <1>15 DEF Accept, ClientDisconnect, AcceptError, InFlight
\* These leave guest, result, jsResult, handled, written and reply alone.
<1>16. ASSUME NEW r \in Requests, Receive(r) \/ UploadEnd(r) \/ SetupFail(r) \/
      DoneSignal(r) \/ SvcError(r) \/ SendChunk(r) \/ FinishBody(r) \/ LoseBody(r) \/
      SkipBody(r) PROVE GuestInv'
  BY <1>16 DEF Receive, UploadEnd, SetupFail, DoneSignal, SvcError, SendChunk,
      FinishBody, LoseBody, SkipBody
<1>17. CASE UNCHANGED vars
  BY <1>17 DEF vars
<1>18. QED
  BY <1>1, <1>2, <1>3, <1>4, <1>5, <1>6, <1>7, <1>8, <1>9, <1>10, <1>11, <1>12, <1>13,
      <1>14, <1>15, <1>16, <1>17 DEF vars, Next, Quiescent, Setup, Guest, Dispatcher, Hyper

\* The body passes through its channel in step with what was written, and ends with it.
LEMMA BodyStep ==
    ASSUME TypeOK, HostInv, GuestInv, BodyInv, [Next]_vars
    PROVE  BodyInv'
<1> USE BodyAssumption DEF HostInv, EventLoopOutlivesBody, Fresh, BodyHeld,
        GuestInv, NotReturned, BodyInv, BodyInStep, DoneAtClose, Size, TypeOK, Live, Driven,
        hostVars, guestVars, bodyVars
<1>1. CASE AcceptError
  BY <1>1 DEF AcceptError
<1>2. ASSUME NEW c \in Conns, ClientDisconnect(c) PROVE BodyInv'
  BY <1>2 DEF ClientDisconnect, InFlight
<1>3. ASSUME NEW r \in Requests, Receive(r) PROVE BodyInv'
  BY <1>3 DEF Receive
<1>4. ASSUME NEW r \in Requests, Instantiate(r) PROVE BodyInv'
  BY <1>4 DEF Instantiate
<1>5. ASSUME NEW r \in Requests, JsThrow(r) PROVE BodyInv'
  BY <1>5 DEF JsThrow
<1>6. ASSUME NEW r \in Requests, ReadResult(r) PROVE BodyInv'
  BY <1>6 DEF ReadResult
<1>7. ASSUME NEW r \in Requests, GuestReturn(r) PROVE BodyInv'
  BY <1>7 DEF GuestReturn
<1>8. ASSUME NEW r \in Requests, WriterWrite(r) PROVE BodyInv'
  BY <1>8 DEF WriterWrite
<1>9. ASSUME NEW r \in Requests, WriterClose(r) PROVE BodyInv'
  BY <1>9 DEF WriterClose
<1>10. ASSUME NEW r \in Requests, SendResponse(r) PROVE BodyInv'
  BY <1>10 DEF SendResponse
<1>11. ASSUME NEW r \in Requests, SendError(r) PROVE BodyInv'
  BY <1>11 DEF SendError
<1>12. ASSUME NEW r \in Requests, DoneSignal(r) PROVE BodyInv'
  BY <1>12 DEF DoneSignal
<1>13. ASSUME NEW r \in Requests, SendChunk(r) PROVE BodyInv'
  BY <1>13 DEF SendChunk
<1>14. ASSUME NEW r \in Requests, FinishBody(r) PROVE BodyInv'
  BY <1>14 DEF FinishBody
<1>15. ASSUME NEW r \in Requests, LoseBody(r) PROVE BodyInv'
  BY <1>15 DEF LoseBody
<1>16. ASSUME NEW r \in Requests, SkipBody(r) PROVE BodyInv'
  BY <1>16 DEF SkipBody
<1>17. ASSUME NEW r \in Requests, LoopTrap(r) PROVE BodyInv'
  BY <1>17 DEF LoopTrap
<1>18. ASSUME NEW c \in Conns, Accept(c) PROVE BodyInv'
  BY <1>18 DEF Accept, InFlight
\* These touch neither the body nor the end of a message.
<1>19. ASSUME NEW r \in Requests, UploadEnd(r) \/ SetupFail(r) \/ Collect(r) \/
      JsSettle(r) \/ Idle(r) \/ SvcReply(r) \/ SvcError(r) \/ Trap(r) PROVE BodyInv'
  BY <1>19 DEF UploadEnd, SetupFail, Collect, JsSettle, Idle, SvcReply, SvcError, Trap
<1>20. CASE UNCHANGED vars
  BY <1>20 DEF vars
<1>21. QED
  BY <1>1, <1>2, <1>3, <1>4, <1>5, <1>6, <1>7, <1>8, <1>9, <1>10, <1>11, <1>12, <1>13,
      <1>14, <1>15, <1>16, <1>17, <1>18, <1>19, <1>20 DEF vars, Next, Quiescent, Setup,
      Guest, Dispatcher, Hyper

\* The invariant holds in every state.
THEOREM InvariantHolds == Spec => []IInv
<1>1. Init => IInv
  BY RequestsAssumption, BodyAssumption
     DEF Init, IInv, TypeOK, HostInv, GuestInv, BodyInv, EventLoopOutlivesBody, BodyHeld,
         AwaitHasSender, Isolated, Fresh, TakenOnce, NotReturned, ReplyReturned, ReturnedIdle,
         OwnGlobals, BodyInStep, DoneAtClose, Size, Live
<1>2. IInv /\ [Next]_vars => IInv'
  BY TypeStep, HostStep, GuestStep, BodyStep DEF IInv
<1>3. QED
  BY <1>1, <1>2, PTL DEF Spec

-----------------------------------------------------------------------------
(* The properties it gives *)

\* Every variable of the request path keeps its type: in particular no writer
\* passes the end of its body.
THEOREM TypeCorrect == Spec => []TypeOK
<1>1. IInv => TypeOK
  BY DEF IInv
<1>2. QED
  BY <1>1, InvariantHolds, PTL

\* `dispatch` keeps the event loop alive as long as hyper holds a body, however
\* connections, dispatchers and guests interleave.
THEOREM BodyHasEventLoop == Spec => []EventLoopOutlivesBody
<1>1. IInv => EventLoopOutlivesBody
  BY DEF IInv, HostInv
<1>2. QED
  BY <1>1, InvariantHolds, PTL

\* rx.await in `dispatch` never waits for a sender that is gone.
THEOREM ReplyHasSender == Spec => []AwaitHasSender
<1>1. IInv => AwaitHasSender
  BY DEF IInv, HostInv
<1>2. QED
  BY <1>1, InvariantHolds, PTL

\* A completed response is the whole body the handler returned, whatever the
\* length of the body and the size of the channel, unless the event loop failed.
THEOREM WholeBodies == Spec => []CompleteMeansWhole
<1>1. IInv => CompleteMeansWhole
  BY DEF IInv, BodyInv, BodyInStep, DoneAtClose, CompleteMeansWhole
<1>2. QED
  BY <1>1, InvariantHolds, PTL

\* No request is answered with the result of another one.
THEOREM RequestsIsolated == Spec => []Isolated
<1>1. IInv => Isolated
  BY DEF IInv, GuestInv
<1>2. QED
  BY <1>1, InvariantHolds, PTL

\* No head is sent for a result before rt.idle() has resolved.
THEOREM IdleBeforeHead == Spec => []HeadAfterIdle
<1>1. IInv => HeadAfterIdle
  BY DEF IInv, GuestInv, ReplyReturned, ReturnedIdle, HeadAfterIdle
<1>2. QED
  BY <1>1, InvariantHolds, PTL

-----------------------------------------------------------------------------
(* Dispatch implements RequestService *)

\* One request changes hands in hyper: one request changes phase.
LEMMA PhaseStep ==
    ASSUME TypeOK, NEW r \in Requests, NEW s, svc' = [svc EXCEPT ![r] = s]
    PROVE  phaseOf' = [phaseOf EXCEPT ![r] = View(s)]
  BY DEF TypeOK, phaseOf

\* Live requests that are over together are requests that fail together.
LEMMA FailTogether ==
    ASSUME TypeOK,
           \A r \in Requests :
               \/ svc'[r] = svc[r]
               \/ svc[r] \in Live /\ svc'[r] \in {"error", "dropped"},
           UNCHANGED <<authorOf, sizeOf, delivered, trapped>>
    PROVE  Service!Fail
<1> DEFINE S == {r \in Requests : svc[r] \in Live /\ svc'[r] \in {"error", "dropped"}}
<1>1. S \in SUBSET {r \in Requests : phaseOf[r] \in {"open", "streaming"}}
  BY DEF Live, phaseOf, View
<1>2. phaseOf' = [r \in Requests |-> IF r \in S THEN "failed" ELSE phaseOf[r]]
  BY DEF Live, phaseOf, View
<1> HIDE DEF S
<1>3. QED
  BY <1>1, <1>2 DEF Service!Fail

\* Steps that end requests without an answer.
LEMMA FailSteps ==
    ASSUME TypeOK,
           \/ AcceptError
           \/ \E c \in Conns : ClientDisconnect(c)
           \/ \E r \in Requests : SetupFail(r) \/ SvcError(r)
    PROVE  Service!Fail
<1>1. UNCHANGED <<authorOf, sizeOf, delivered, trapped>>
  BY DEF TypeOK, AcceptError, ClientDisconnect, SetupFail, SvcError, Driven, guestVars,
         bodyVars, authorOf, sizeOf, trapped, HeadSent, Size
<1>2. \A r \in Requests :
          \/ svc'[r] = svc[r]
          \/ svc[r] \in Live /\ svc'[r] \in {"error", "dropped"}
  BY DEF TypeOK, AcceptError, ClientDisconnect, InFlight, SetupFail, SvcError, Live
<1>3. QED
  BY <1>1, <1>2, FailTogether

\* hyper writes the head of an answer: the request's own, of the size it will have.
LEMMA HeadStep ==
    ASSUME IInv, NEW r \in Requests, SvcReply(r)
    PROVE  Service!Head(r)
<1> USE DEF IInv, TypeOK
<1>1. phaseOf[r] = "open" /\ phaseOf' = [phaseOf EXCEPT ![r] = "streaming"]
  BY PhaseStep DEF SvcReply, View, phaseOf
<1>2. UNCHANGED <<delivered, trapped>>
  BY DEF SvcReply, bodyVars, trapped
<1>3. authorOf' = [authorOf EXCEPT ![r] = result[r]] /\ result[r] \in {r, None}
  BY DEF SvcReply, guestVars, authorOf, HeadSent, GuestInv, Isolated
<1>4. \E k \in 0..BodyLen : sizeOf' = [sizeOf EXCEPT ![r] = k]
  <2> DEFINE k == IF r \in HeadRequests THEN 0 ELSE Size(r)
  <2>1. k \in 0..BodyLen
    BY BodyAssumption DEF Size
  <2>2. /\ reply[r] = "response" /\ reply' = [reply EXCEPT ![r] = "taken"]
        /\ reply \in [Requests -> {"empty", "response", "error", "closed", "taken"}]
        /\ UNCHANGED resp
    BY DEF SvcReply, guestVars
  <2>3. \A q \in Requests : (HeadSent(q))' <=> q = r \/ HeadSent(q)
    BY <2>2 DEF HeadSent
  <2>4. sizeOf' = [sizeOf EXCEPT ![r] = k]
    <3>1. sizeOf' = [q \in Requests |->
                        IF (HeadSent(q))' /\ q \notin HeadRequests THEN (Size(q))' ELSE 0]
      BY DEF sizeOf
    <3>2. \A q \in Requests : (Size(q))' = Size(q)
      BY <2>2 DEF Size
    <3>3. sizeOf' = [q \in Requests |->
                        IF q = r THEN k
                        ELSE IF HeadSent(q) /\ q \notin HeadRequests THEN Size(q) ELSE 0]
      BY <2>3, <3>1, <3>2
    <3> QED BY <3>3 DEF sizeOf
  <2>5. QED
    BY <2>1, <2>4
<1>5. QED
  BY <1>1, <1>2, <1>3, <1>4 DEF Service!Head

\* A chunk goes out while there is more to come.
LEMMA ChunkStep ==
    ASSUME IInv, NEW r \in Requests, SendChunk(r)
    PROVE  Service!Chunk(r)
<1>1. phaseOf[r] = "streaming"
  BY DEF SendChunk, phaseOf, View
<1>2. delivered[r] < sizeOf[r]
  BY BodyAssumption
     DEF IInv, TypeOK, HostInv, TakenOnce, BodyInv, BodyInStep, SendChunk, sizeOf, HeadSent, Size
<1>3. UNCHANGED <<phaseOf, authorOf, sizeOf, trapped>>
  BY DEF SendChunk, hostVars, guestVars, phaseOf, authorOf, sizeOf, trapped, HeadSent, Size
<1>4. QED
  BY <1>1, <1>2, <1>3 DEF SendChunk, Service!Chunk

\* A message ends whole, or after the worker broke down.
LEMMA CompleteStep ==
    ASSUME IInv, NEW r \in Requests, FinishBody(r) \/ LoseBody(r) \/ SkipBody(r)
    PROVE  Service!Complete(r) \/ Service!Fail
<1> USE DEF IInv
<1>1. phaseOf[r] = "streaming"
  BY DEF FinishBody, LoseBody, SkipBody, phaseOf, View
<1>2. UNCHANGED <<authorOf, sizeOf, delivered, trapped>>
  BY DEF FinishBody, LoseBody, SkipBody, guestVars, bodyVars, authorOf, sizeOf, trapped,
         HeadSent, Size
<1>3. delivered[r] = sizeOf[r] \/ r \in trapped
  BY BodyAssumption
     DEF TypeOK, HostInv, TakenOnce, EventLoopOutlivesBody, BodyHeld, BodyInv, BodyInStep,
         FinishBody, LoseBody, SkipBody, Driven, sizeOf, trapped, HeadSent, Size
<1>4. CASE svc' = [svc EXCEPT ![r] = "done"]
  <2>1. phaseOf' = [phaseOf EXCEPT ![r] = "complete"]
    BY <1>4, PhaseStep DEF View
  <2>2. QED
    BY <1>1, <1>2, <1>3, <2>1 DEF Service!Complete
<1>5. CASE svc[r] = "body" /\ svc' = [svc EXCEPT ![r] = "error"]
  <2>1. \A q \in Requests :
            \/ svc'[q] = svc[q]
            \/ svc[q] \in Live /\ svc'[q] \in {"error", "dropped"}
    BY <1>5 DEF TypeOK, Live
  <2>2. QED
    BY <1>2, <2>1, FailTogether
<1>6. QED
  BY <1>4, <1>5 DEF FinishBody, LoseBody, SkipBody

\* Steps of the guest, of the dispatcher and of the setup that no client sees.
LEMMA HiddenSteps ==
    ASSUME IInv, NEW r \in Requests,
           UploadEnd(r) \/ Instantiate(r) \/ Guest(r) \/ Trap(r) \/ Dispatcher(r)
    PROVE  UNCHANGED <<phaseOf, authorOf, sizeOf, delivered, trapped>>
<1> USE DEF IInv, TypeOK, HostInv, Fresh, TakenOnce, GuestInv, NotReturned, ReplyReturned,
        hostVars, guestVars, bodyVars, phaseOf, View, authorOf, sizeOf, trapped, HeadSent, Size
<1>1. CASE UploadEnd(r) \/ Instantiate(r)
  BY <1>1 DEF UploadEnd, Instantiate
<1>2. CASE Guest(r) \/ Trap(r)
  BY <1>2 DEF Guest, Collect, JsSettle, JsThrow, ReadResult, Idle, GuestReturn,
              WriterWrite, WriterClose, Trap
<1>3. CASE Dispatcher(r)
  BY <1>3 DEF Dispatcher, SendResponse, SendError, DoneSignal
<1>4. QED
  BY <1>1, <1>2, <1>3

\* Every step of the request path is a step of the service, or changes nothing the
\* clients see.
LEMMA ServiceStep ==
    ASSUME IInv, [Next]_vars
    PROVE  [Service!Next]_(Service!vars)
<1>1. CASE \/ AcceptError
           \/ \E c \in Conns : ClientDisconnect(c)
           \/ \E r \in Requests : SetupFail(r) \/ SvcError(r)
  BY <1>1, FailSteps DEF IInv, Service!Next
<1>2. ASSUME NEW r \in Requests, Receive(r) PROVE Service!Open(r)
  <2>1. phaseOf[r] = "idle" /\ phaseOf' = [phaseOf EXCEPT ![r] = "open"]
    BY <1>2, PhaseStep DEF IInv, Receive, View, phaseOf
  <2>2. UNCHANGED <<authorOf, sizeOf, delivered, trapped>>
    BY <1>2 DEF Receive, guestVars, bodyVars, authorOf, sizeOf, trapped, HeadSent, Size
  <2>3. QED
    BY <2>1, <2>2 DEF Service!Open
<1>3. ASSUME NEW r \in Requests, LoopTrap(r) PROVE Service!Fault(r)
  <2>1. trapped' = trapped \cup {r}
    BY <1>3 DEF IInv, TypeOK, LoopTrap, trapped
  <2>2. UNCHANGED <<phaseOf, authorOf, sizeOf, delivered>>
    BY <1>3 DEF IInv, TypeOK, LoopTrap, bodyVars, phaseOf, authorOf, sizeOf, HeadSent, Size
  <2>3. QED
    BY <2>1, <2>2 DEF Service!Fault
<1>4. ASSUME NEW c \in Conns, Accept(c) PROVE UNCHANGED Service!vars
  BY <1>4 DEF Accept, guestVars, bodyVars, phaseOf, authorOf, sizeOf, trapped, HeadSent,
              Size, Service!vars
<1>5. CASE UNCHANGED vars
  BY <1>5 DEF vars, hostVars, guestVars, bodyVars, phaseOf, authorOf, sizeOf, trapped,
              HeadSent, Size, Service!vars
<1>6. ASSUME NEW r \in Requests,
             \/ UploadEnd(r) \/ Setup(r) \/ Guest(r) \/ Trap(r) \/ Dispatcher(r) \/ Hyper(r)
      PROVE  [Service!Next]_(Service!vars)
  BY <1>1, <1>6, HeadStep, ChunkStep, CompleteStep, HiddenSteps
     DEF Setup, Hyper, Service!Next, Service!vars
<1>7. QED
  BY <1>1, <1>2, <1>3, <1>4, <1>5, <1>6 DEF Next, Quiescent, Service!Next

\* Whatever the interleaving, what the clients of `kyu run` see is a behaviour of the
\* abstract service: one answer each, their own, in order, ended once.
THEOREM DispatchImplementsService == Spec => ImplementsService
<1>1. Init => Service!Init
  BY DEF Init, Service!Init, HeadSent, View, phaseOf, authorOf, sizeOf, trapped
<1>2. IInv /\ [Next]_vars => [Service!Next]_(Service!vars)
  BY ServiceStep
<1>3. QED
  BY <1>1, <1>2, InvariantHolds, PTL DEF Spec, ImplementsService, Service!Spec

=============================================================================
