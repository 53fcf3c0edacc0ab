------------------------------ MODULE Dispatch ------------------------------
(***************************************************************************)
(* The request path of `kyu run`: the accept loop and the per-connection   *)
(* tasks of cli/src/server.rs, the per-request store of cli/src/runner.rs, *)
(* the dispatcher task that drives the Wasm event loop, and the guest side *)
(* of worker/src/handler.rs and worker/src/response.rs.                    *)
(*                                                                         *)
(* Three parties work on one request at the same time:                     *)
(*   - hyper's connection task, which awaits the service future and then   *)
(*     polls the response body (svc);                                      *)
(*   - the dispatcher, a spawned task that owns the store and runs its     *)
(*     event loop (task);                                                  *)
(*   - the guest: `handle`, then the body writer that `handle` spawned.    *)
(*     It makes progress only while the dispatcher runs (guest).           *)
(* They meet at two oneshot channels (the reply, the done signal) and at   *)
(* the bounded channel the body goes through.                              *)
(***************************************************************************)
EXTENDS Integers, FiniteSets

CONSTANTS
    Requests,      \* requests the clients may send
    Conns,         \* TCP connections
    ConnOf,        \* the connection each request is sent on
    HeadRequests,  \* requests whose method is HEAD: hyper sends no body
    Stuck,         \* requests whose handler never lets the JS runtime go idle
    BodyLen,       \* chunks in a response that has a body
    ChannelCap,    \* chunks the host's body channel holds
    None           \* not a request

ASSUME RequestsAssumption ==
    /\ ConnOf \in [Requests -> Conns]
    /\ HeadRequests \subseteq Requests
    /\ Stuck \subseteq Requests
    /\ None \notin Requests
ASSUME BodyAssumption == BodyLen \in Nat \ {0} /\ ChannelCap \in Nat \ {0}

VARIABLES
    server,     \* "up", or "down" once `serve` has returned
    conn,       \* each connection: "waiting", "open", "closed"
    svc,        \* hyper's view of a request
    task,       \* the dispatcher task of a request
    reply,      \* the oneshot between dispatcher and service future
    upload,     \* the request body: "open", "whole", "broken"
    handled,    \* what service.handle() returned to the dispatcher
    guest,      \* where the guest code of a request is
    resp,       \* the kind of response the guest built
    jsResult,   \* globalThis.jsResult of each instance
    result,     \* the request whose answer run_js picked up
    written,    \* body chunks the guest has written
    delivered   \* body chunks hyper has sent

hostVars  == <<server, conn, svc, task, reply>>
guestVars == <<upload, handled, guest, resp, jsResult, result>>
bodyVars  == <<written, delivered>>
vars      == <<hostVars, guestVars, bodyVars>>

Live == {"setup", "await", "body"}
Driven(r)      == task[r] \in {"handle", "stream"}
InFlight(c)    == {r \in Requests : ConnOf[r] = c /\ svc[r] \in Live}
Size(r)        == IF resp[r] = "body" THEN BodyLen ELSE 0

-----------------------------------------------------------------------------
(* Broken variants of the definitions below: the mistakes the properties are  *)
(* there to catch. No specification uses them.                                *)

\* One instance for all requests instead of one store per request.
SharedInstance(r) == CHOOSE i \in Requests : TRUE

\* The result is taken without waiting for rt.idle().
NoIdle(r) ==
    /\ Driven(r) /\ guest[r] = "idle"
    /\ guest' = [guest EXCEPT ![r] = "returning"]
    /\ UNCHANGED <<hostVars, upload, handled, resp, jsResult, result, bodyVars>>

\* The body is written in handle itself, before it returns.
ReturnAfterBody(r) ==
    /\ Driven(r) /\ guest[r] = "returning"
    /\ written[r] = Size(r)
    /\ handled' = [handled EXCEPT ![r] =
                     IF resp[r] = "badStatus" THEN "code" ELSE "ok"]
    /\ guest' = [guest EXCEPT ![r] =
                   IF resp[r] = "badStatus" THEN "exited" ELSE "closed"]
    /\ UNCHANGED <<hostVars, upload, resp, jsResult, result, bodyVars>>

\* The writer does not stop at the end of the body.
WritePastEnd(r) ==
    /\ task[r] = "stream" /\ guest[r] = "writing"
    /\ written[r] - delivered[r] < ChannelCap
    /\ written' = [written EXCEPT ![r] = @ + 1]
    /\ UNCHANGED <<hostVars, guestVars, delivered>>

\* write instead of write_all: closed after the first part that is accepted.
CloseAfterPart(r) ==
    /\ task[r] = "stream" /\ guest[r] = "writing"
    /\ written[r] > 0
    /\ guest' = [guest EXCEPT ![r] = "closed"]
    /\ UNCHANGED <<hostVars, upload, handled, resp, jsResult, result, bodyVars>>

\* The oneshot's sender outlives the closure that failed.
KeepSender(r) ==
    /\ Driven(r)
    /\ task' = [task EXCEPT ![r] = "trapped"]
    /\ guest' = [guest EXCEPT ![r] = "exited"]
    /\ UNCHANGED <<server, conn, svc, reply, upload, handled, resp, jsResult,
                   result, bodyVars>>

\* The dispatcher does not wait for the done signal.
NoDoneWait(r) ==
    /\ task[r] = "stream"
    /\ task' = [task EXCEPT ![r] = "ended"]
    /\ UNCHANGED <<server, conn, svc, reply, guestVars, bodyVars>>

\* The done signal is sent at the end of the body instead of on its drop.
DoneAtEnd(r) ==
    /\ task[r] = "stream" /\ svc[r] = "done"
    /\ task' = [task EXCEPT ![r] = "ended"]
    /\ UNCHANGED <<server, conn, svc, reply, guestVars, bodyVars>>

-----------------------------------------------------------------------------
\* The instance a request runs on: its own, in a store made for it.
InstanceFor(r) == r

\* hyper, or the reply still on its way to it, owns the response body.
BodyHeld(r) == svc[r] = "body" \/ (svc[r] = "await" /\ reply[r] = "response")

Init ==
    /\ server = "up"
    /\ conn = [c \in Conns |-> "waiting"]
    /\ svc = [r \in Requests |-> "idle"]
    /\ task = [r \in Requests |-> "none"]
    /\ reply = [r \in Requests |-> "empty"]
    /\ upload = [r \in Requests |-> "open"]
    /\ handled = [r \in Requests |-> "pending"]
    /\ guest = [r \in Requests |-> "none"]
    /\ resp = [r \in Requests |-> "none"]
    /\ jsResult = [r \in Requests |-> None]
    /\ result = [r \in Requests |-> None]
    /\ written = [r \in Requests |-> 0]
    /\ delivered = [r \in Requests |-> 0]

-----------------------------------------------------------------------------
(* The accept loop and the connection tasks *)

\* accept() yields a stream: its connection is served by a task of its own.
Accept(c) ==
    /\ server = "up" /\ conn[c] = "waiting"
    /\ conn' = [conn EXCEPT ![c] = "open"]
    /\ UNCHANGED <<server, svc, task, reply, guestVars, bodyVars>>

\* accept() fails: the `?` returns from `serve`, and the process ends with it.
AcceptError ==
    /\ server = "up"
    /\ server' = "down"
    /\ conn' = [c \in Conns |-> "closed"]
    /\ svc' = [r \in Requests |-> IF svc[r] \in Live THEN "dropped" ELSE svc[r]]
    /\ task' = [r \in Requests |-> IF Driven(r) THEN "ended" ELSE task[r]]
    /\ UNCHANGED <<reply, guestVars, bodyVars>>

\* hyper reads the head of the next request of a kept-alive connection, once
\* the previous one is answered and its body read to the end.
Receive(r) ==
    /\ conn[ConnOf[r]] = "open" /\ svc[r] = "idle"
    /\ InFlight(ConnOf[r]) = {}
    /\ \A q \in Requests :
          ConnOf[q] = ConnOf[r] /\ svc[q] # "idle" => upload[q] = "whole"
    /\ svc' = [svc EXCEPT ![r] = "setup"]
    /\ UNCHANGED <<server, conn, task, reply, guestVars, bodyVars>>

\* A mount that cannot be opened, or instantiation, fails: the service future
\* returns Err and hyper closes the connection without an answer.
SetupFail(r) ==
    /\ svc[r] = "setup"
    /\ svc' = [svc EXCEPT ![r] = "error"]
    /\ conn' = [conn EXCEPT ![ConnOf[r]] = "closed"]
    /\ UNCHANGED <<server, task, reply, guestVars, bodyVars>>

\* A fresh store and instance; `dispatch` spawns the dispatcher and awaits rx.
Instantiate(r) ==
    /\ svc[r] = "setup"
    /\ svc' = [svc EXCEPT ![r] = "await"]
    /\ task' = [task EXCEPT ![r] = "handle"]
    /\ guest' = [guest EXCEPT ![r] = "collect"]
    /\ UNCHANGED <<server, conn, reply, upload, handled, resp, jsResult, result,
                   bodyVars>>

\* The client ends its upload, or stops sending half way through it.
UploadEnd(r) ==
    /\ svc[r] \in {"setup", "await"} /\ upload[r] = "open"
    /\ \E end \in {"whole", "broken"} : upload' = [upload EXCEPT ![r] = end]
    /\ UNCHANGED <<hostVars, handled, guest, resp, jsResult, result, bodyVars>>

\* hyper finds the client gone and drops the service future or the body.
ClientDisconnect(c) ==
    /\ conn[c] = "open"
    /\ conn' = [conn EXCEPT ![c] = "closed"]
    /\ svc' = [r \in Requests |-> IF r \in InFlight(c) THEN "dropped" ELSE svc[r]]
    /\ upload' = [r \in Requests |-> IF r \in InFlight(c) /\ upload[r] = "open"
                                     THEN "broken" ELSE upload[r]]
    /\ UNCHANGED <<server, task, reply, handled, guest, resp, jsResult, result,
                   bodyVars>>

-----------------------------------------------------------------------------
(* The guest: handle(), run_js() and the body writer *)

\* extract_request has the end of the body stream, whatever ended it; jsRequest
\* is set and the handler module starts.
Collect(r) ==
    /\ Driven(r) /\ guest[r] = "collect" /\ upload[r] # "open"
    /\ guest' = [guest EXCEPT ![r] = "js"]
    /\ UNCHANGED <<hostVars, upload, handled, resp, jsResult, result, bodyVars>>

\* The application's promise settles and the module sets globalThis.jsResult.
JsSettle(r) ==
    /\ Driven(r) /\ guest[r] = "js"
    /\ guest' = [guest EXCEPT ![r] = "settled"]
    /\ jsResult' = [jsResult EXCEPT ![InstanceFor(r)] = r]
    /\ UNCHANGED <<hostVars, upload, handled, resp, result, bodyVars>>

\* run_js returns Err: a 500 with a text body, and idle() is not awaited.
JsThrow(r) ==
    /\ Driven(r) /\ guest[r] \in {"js", "settled"}
    /\ guest' = [guest EXCEPT ![r] = "returning"]
    /\ resp' = [resp EXCEPT ![r] = "body"]
    /\ UNCHANGED <<hostVars, upload, handled, jsResult, result, bodyVars>>

\* run_js, resumed after the await of the promise, reads globalThis.jsResult.
ReadResult(r) ==
    /\ Driven(r) /\ guest[r] = "settled"
    /\ guest' = [guest EXCEPT ![r] = "idle"]
    /\ result' = [result EXCEPT ![r] = jsResult[InstanceFor(r)]]
    /\ \E kind \in {"body", "empty", "badStatus"} : resp' = [resp EXCEPT ![r] = kind]
    /\ UNCHANGED <<hostVars, upload, handled, jsResult, bodyVars>>

\* rt.idle() resolves: no timer and no background promise is left.
Idle(r) ==
    /\ Driven(r) /\ guest[r] = "idle" /\ r \notin Stuck
    /\ guest' = [guest EXCEPT ![r] = "returning"]
    /\ UNCHANGED <<hostVars, upload, handled, resp, jsResult, result, bodyVars>>

\* stream_response and the return of handle: an invalid status is an error
\* code, a body is left to a spawned writer, no body closes the response.
GuestReturn(r) ==
    /\ Driven(r) /\ guest[r] = "returning"
    /\ handled' = [handled EXCEPT ![r] =
                     IF resp[r] = "badStatus" THEN "code" ELSE "ok"]
    /\ guest' = [guest EXCEPT ![r] = IF resp[r] = "badStatus" THEN "exited"
                                     ELSE IF resp[r] = "body" THEN "writing"
                                     ELSE "closed"]
    /\ UNCHANGED <<hostVars, upload, resp, jsResult, result, bodyVars>>

\* write_all hands one chunk to the host, when its body channel has room.
WriterWrite(r) ==
    /\ task[r] = "stream" /\ guest[r] = "writing"
    /\ written[r] < Size(r)
    /\ written[r] - delivered[r] < ChannelCap
    /\ written' = [written EXCEPT ![r] = @ + 1]
    /\ UNCHANGED <<hostVars, guestVars, delivered>>

\* The writer drops the body sender and the trailers sender.
WriterClose(r) ==
    /\ task[r] = "stream" /\ guest[r] = "writing"
    /\ written[r] = Size(r)
    /\ guest' = [guest EXCEPT ![r] = "closed"]
    /\ UNCHANGED <<hostVars, upload, handled, resp, jsResult, result, bodyVars>>

\* The guest traps inside handle: service.handle() resolves to Err.
Trap(r) ==
    /\ Driven(r) /\ guest[r] \in {"collect", "js", "settled", "idle", "returning"}
    /\ guest' = [guest EXCEPT ![r] = "exited"]
    /\ handled' = [handled EXCEPT ![r] = "trap"]
    /\ UNCHANGED <<hostVars, upload, resp, jsResult, result, bodyVars>>

-----------------------------------------------------------------------------
(* The dispatcher task *)

\* handle returned a response that converts: it is sent with the done signal
\* inside its body. Nobody listening any more ends the task.
SendResponse(r) ==
    /\ task[r] = "handle" /\ handled[r] = "ok"
    /\ \/ /\ svc[r] = "await"
          /\ reply' = [reply EXCEPT ![r] = "response"]
          /\ task' = [task EXCEPT ![r] = "stream"]
       \/ /\ svc[r] # "await"
          /\ task' = [task EXCEPT ![r] = "ended"]
          /\ UNCHANGED reply
    /\ UNCHANGED <<server, conn, svc, guestVars, bodyVars>>

\* An error code, a trap, or a response into_http refuses: Err is the reply.
SendError(r) ==
    /\ task[r] = "handle" /\ handled[r] # "pending"
    /\ reply' = [reply EXCEPT ![r] = IF svc[r] = "await" THEN "error" ELSE @]
    /\ task' = [task EXCEPT ![r] = "ended"]
    /\ UNCHANGED <<server, conn, svc, guestVars, bodyVars>>

\* run_concurrent itself fails: its closure is dropped, and with it the end of
\* the oneshot it holds.
LoopTrap(r) ==
    /\ Driven(r)
    /\ task' = [task EXCEPT ![r] = "trapped"]
    /\ guest' = [guest EXCEPT ![r] = "exited"]
    /\ reply' = [reply EXCEPT ![r] = IF @ = "empty" THEN "closed" ELSE @]
    /\ UNCHANGED <<server, conn, svc, upload, handled, resp, jsResult, result,
                   bodyVars>>

\* The body is dropped, so done_rx resolves and the event loop may stop.
DoneSignal(r) ==
    /\ task[r] = "stream" /\ ~BodyHeld(r)
    /\ task' = [task EXCEPT ![r] = "ended"]
    /\ UNCHANGED <<server, conn, svc, reply, guestVars, bodyVars>>

-----------------------------------------------------------------------------
(* hyper, awaiting the service future and then polling the body *)

\* rx.await yields the response: hyper writes its head.
SvcReply(r) ==
    /\ svc[r] = "await" /\ reply[r] = "response"
    /\ svc' = [svc EXCEPT ![r] = "body"]
    /\ reply' = [reply EXCEPT ![r] = "taken"]
    /\ UNCHANGED <<server, conn, task, guestVars, bodyVars>>

\* rx.await yields an Err, or "handler did not send a response": the service
\* fails and hyper closes the connection.
SvcError(r) ==
    /\ svc[r] = "await" /\ reply[r] \in {"error", "closed"}
    /\ svc' = [svc EXCEPT ![r] = "error"]
    /\ conn' = [conn EXCEPT ![ConnOf[r]] = "closed"]
    /\ UNCHANGED <<server, task, reply, guestVars, bodyVars>>

\* A frame of the body goes out.
SendChunk(r) ==
    /\ svc[r] = "body" /\ r \notin HeadRequests
    /\ delivered[r] < written[r]
    /\ delivered' = [delivered EXCEPT ![r] = @ + 1]
    /\ UNCHANGED <<hostVars, guestVars, written>>

\* The guest closed the body and all of it is sent: the message is complete.
FinishBody(r) ==
    /\ svc[r] = "body" /\ r \notin HeadRequests
    /\ guest[r] = "closed" /\ delivered[r] = written[r]
    /\ svc' = [svc EXCEPT ![r] = "done"]
    /\ UNCHANGED <<server, conn, task, reply, guestVars, bodyVars>>

\* The event loop is gone with the body still open: once the channel is empty
\* the body ends there, which hyper takes for an error or for its end.
LoseBody(r) ==
    /\ svc[r] = "body" /\ r \notin HeadRequests
    /\ ~Driven(r) /\ guest[r] # "closed" /\ delivered[r] = written[r]
    /\ \/ svc' = [svc EXCEPT ![r] = "done"] /\ UNCHANGED conn
       \/ /\ svc' = [svc EXCEPT ![r] = "error"]
          /\ conn' = [conn EXCEPT ![ConnOf[r]] = "closed"]
    /\ UNCHANGED <<server, task, reply, guestVars, bodyVars>>

\* The answer to HEAD has no body: hyper drops it unread.
SkipBody(r) ==
    /\ svc[r] = "body" /\ r \in HeadRequests
    /\ svc' = [svc EXCEPT ![r] = "done"]
    /\ UNCHANGED <<server, conn, task, reply, guestVars, bodyVars>>

-----------------------------------------------------------------------------
\* Nothing is left to do for any request; only a stuck handler may still run.
Quiescent ==
    /\ \A r \in Requests :
          svc[r] \notin Live /\ (Driven(r) => r \in Stuck /\ guest[r] = "idle")
    /\ UNCHANGED vars

Guest(r) ==
    \/ Collect(r) \/ JsSettle(r) \/ JsThrow(r) \/ ReadResult(r) \/ Idle(r)
    \/ GuestReturn(r) \/ WriterWrite(r) \/ WriterClose(r)

Dispatcher(r) == SendResponse(r) \/ SendError(r) \/ DoneSignal(r)

Setup(r) == SetupFail(r) \/ Instantiate(r)

Hyper(r) ==
    \/ SvcReply(r) \/ SvcError(r)
    \/ SendChunk(r) \/ FinishBody(r) \/ LoseBody(r) \/ SkipBody(r)

Next ==
    \/ AcceptError
    \/ \E c \in Conns : Accept(c) \/ ClientDisconnect(c)
    \/ \E r \in Requests :
          \/ Receive(r) \/ UploadEnd(r) \/ Setup(r)
          \/ Guest(r) \/ Dispatcher(r) \/ Hyper(r)
          \/ Trap(r) \/ LoopTrap(r)
    \/ Quiescent

Spec == Init /\ [][Next]_vars

\* tokio polls every task that is ready, and the event loop every guest task;
\* a client ends its upload and reads its answer, or its connection ends. No
\* connection has to come, nothing has to fail.
Fairness ==
    \A r \in Requests :
        /\ WF_vars(Setup(r)) /\ WF_vars(UploadEnd(r))
        /\ WF_vars(Guest(r)) /\ WF_vars(Dispatcher(r)) /\ WF_vars(Hyper(r))

FairSpec == Spec /\ Fairness

-----------------------------------------------------------------------------
(* Properties *)

TypeOK ==
    /\ server \in {"up", "down"}
    /\ conn \in [Conns -> {"waiting", "open", "closed"}]
    /\ svc \in [Requests -> Live \cup {"idle", "done", "error", "dropped"}]
    /\ task \in [Requests -> {"none", "handle", "stream", "ended", "trapped"}]
    /\ reply \in [Requests -> {"empty", "response", "error", "closed", "taken"}]
    /\ upload \in [Requests -> {"open", "whole", "broken"}]
    /\ handled \in [Requests -> {"pending", "ok", "code", "trap"}]
    /\ guest \in [Requests -> {"none", "collect", "js", "settled", "idle",
                               "returning", "writing", "closed", "exited"}]
    /\ resp \in [Requests -> {"none", "body", "empty", "badStatus"}]
    /\ jsResult \in [Requests -> Requests \cup {None}]
    /\ result \in [Requests -> Requests \cup {None}]
    /\ written \in [Requests -> 0..BodyLen]
    /\ delivered \in [Requests -> 0..BodyLen]

\* The doc comment of `dispatch`: the event loop is kept alive until hyper
\* drops the body. While hyper holds a response body, the dispatcher that feeds
\* it has not ended; only a failure of the event loop itself takes it away.
EventLoopOutlivesBody ==
    \A r \in Requests : BodyHeld(r) => task[r] \in {"stream", "trapped"}

\* A response hyper completes carries every chunk the handler returned, unless
\* the event loop failed under it: neither the return of handle, nor the end of
\* the dispatcher, nor the bounded channel ever cuts a body short.
CompleteMeansWhole ==
    \A r \in Requests :
        svc[r] = "done" /\ r \notin HeadRequests /\ task[r] # "trapped"
            => delivered[r] = Size(r)

\* Requests are stateless (a fresh instance each): the result a request picks
\* up from the globals is its own, whatever runs beside it.
Isolated == \A r \in Requests : result[r] \in {None, r}

\* rx.await is never left without a sender: while the service future waits on
\* an empty oneshot, the dispatcher that will answer it is still in handle.
AwaitHasSender ==
    \A r \in Requests : svc[r] = "await" /\ reply[r] = "empty" => task[r] = "handle"

\* No answer overtakes the handler: the head of a response goes out only after
\* run_js has let the runtime go idle or has failed, so all the work the
\* handler left behind is done by then.
HeadAfterIdle ==
    \A r \in Requests : reply[r] \in {"response", "taken"} /\ result[r] # None
        => r \notin Stuck

\* Every request hyper has read is settled: answered, refused or dropped,
\* unless its handler never goes idle.
Resolved ==
    \A r \in Requests \ Stuck : svc[r] = "setup" ~> svc[r] \notin Live

\* The store and instance of a request are given back once the request is over,
\* also when the client left before the answer.
Reclaimed ==
    \A r \in Requests \ Stuck : svc[r] \in {"done", "error", "dropped"} ~> ~Driven(r)

-----------------------------------------------------------------------------
(* The service the clients see *)

View(s) == IF s \in {"setup", "await"} THEN "open"
           ELSE IF s = "body" THEN "streaming"
           ELSE IF s = "done" THEN "complete"
           ELSE IF s = "idle" THEN "idle"
           ELSE "failed"

HeadSent(r) == reply[r] = "taken"

phaseOf  == [r \in Requests |-> View(svc[r])]
authorOf == [r \in Requests |-> IF HeadSent(r) THEN result[r] ELSE None]
sizeOf   == [r \in Requests |->
                IF HeadSent(r) /\ r \notin HeadRequests THEN Size(r) ELSE 0]
trapped  == {r \in Requests : task[r] = "trapped"}

Service == INSTANCE RequestService WITH
    MaxBody <- BodyLen, phase <- phaseOf, author <- authorOf, size <- sizeOf,
    got <- delivered, faulty <- trapped

\* Dispatch implements RequestService: in every behaviour each client sees one
\* answer, its own handler's or an error page, in order and ended once.
ImplementsService == Service!Spec

=============================================================================
