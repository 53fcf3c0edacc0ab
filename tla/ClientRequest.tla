---------------------------- MODULE ClientRequest ----------------------------
(***************************************************************************)
(* A request of node:http's client up to its response: ClientRequest of    *)
(* runtime/builtin/node_http.js with the native request under it           *)
(* (node_http_p3.rs). What the program writes goes through a chain of      *)
(* promises (_flushPromise), end() makes _doSend run beside it, and         *)
(* abort() and destroy() may come between any two continuations, the       *)
(* program's own listeners included. The native request is borrowed while  *)
(* one of its calls runs, and a second call then fails.                    *)
(*                                                                         *)
(* One step is one job; what a job does is a function of the record, as    *)
(* its listeners may destroy the request halfway. Chunks are numbered as   *)
(* they are written and have length 1; the headers are whether end() has   *)
(* to set Content-Length.                                                  *)
(***************************************************************************)
EXTENDS Integers, SequencesExt

CONSTANTS
    RequestChunks, \* bound on the chunks that are written
    DrainMark,     \* the 16 KiB of write(), in chunks
    Specials       \* what is special about the request

ASSUME RequestAssumption ==
    /\ RequestChunks \in Nat /\ DrainMark \in Nat \ {0}
    /\ Specials \subseteq {"plain", "malformed", "rejected", "lookup"}

VARIABLES
    client,  \* the ClientRequest and its native request, between two jobs
    special, \* "malformed": a URL that does not parse; "rejected": a transport of its own;
             \* "lookup": a lookup function of its own
    reacts   \* the events whose listener calls req.destroy()

RequestVars == <<client, special, reacts>>

Flushers == {"chain", "send"}
Events == {"socket", "drain", "finish", "response", "error", "abort", "close"}

RequestTypeOK ==
    /\ client \in [written : 0..RequestChunks, pending : Seq(1..RequestChunks),
                   buffered : 0..RequestChunks, needDrain : BOOLEAN,
                   acked : Seq(1..RequestChunks), ended : BOOLEAN, late : BOOLEAN,
                   length : 0..RequestChunks, destroyed : BOOLEAN, deferred : BOOLEAN,
                   started : BOOLEAN, chain : 0..RequestChunks,
                   loop : [Flushers -> {"idle", "start", "write"}],
                   chunk : [Flushers -> 0..RequestChunks],
                   sendAt : {"none", "turn", "chain", "flush", "flushed", "finish", "wait",
                             "lookup", "over"},
                   awaits : 0..RequestChunks, ticks : Seq({"reject", "error", "quiet", "abort"}),
                   events : Seq(Events), body : Seq(1..RequestChunks),
                   native : {"building", "sending", "failed", "ready", "consumed", "aborted"}]
    /\ special \in Specials /\ reacts \subseteq Events

RequestInit ==
    /\ special \in Specials /\ reacts \in {{}} \cup {{e} : e \in Events \ {"abort", "close"}}
    /\ client = [written |-> 0, pending |-> <<>>, buffered |-> 0, needDrain |-> FALSE,
                 acked |-> <<>>, ended |-> FALSE, late |-> FALSE, length |-> 0,
                 destroyed |-> FALSE, deferred |-> FALSE,
                 started |-> FALSE, chain |-> 0, loop |-> [f \in Flushers |-> "idle"],
                 chunk |-> [f \in Flushers |-> 0], sendAt |-> "none", awaits |-> 0,
                 ticks |-> IF special = "rejected" THEN <<"reject">> ELSE <<>>,
                 events |-> <<>>, body |-> <<>>, native |-> "building"]

Happened(s, e) == Contains(s.events, e)

-----------------------------------------------------------------------------
(* A broken variant, for MessagesInv to catch. No specification uses it. *)

\* _doSend does not wait for the writes that are being flushed.
AwaitsNothing(s) == [s EXCEPT !.sendAt = "chain", !.awaits = 0]

-----------------------------------------------------------------------------
(* abort(), destroy() and the events *)

\* A call of the native request runs, and holds its borrow.
InCall(s) == s.sendAt \in {"finish", "wait"} \/ \E f \in Flushers : s.loop[f] # "idle"

\* _abortNativeRequest
AbortNative(s) ==
    IF InCall(s) THEN [s EXCEPT !.deferred = TRUE]
    ELSE [s EXCEPT !.native = "aborted", !.deferred = FALSE]

\* destroy(error): without an error, one is made up for a request that has no response yet.
DestroyedRequest(s, error) ==
    LET made == ~(Happened(s, "response") \/ special = "rejected")
        tick == IF error \/ made THEN "error" ELSE "quiet"
    IN  IF s.destroyed THEN s
        ELSE AbortNative([s EXCEPT !.destroyed = TRUE, !.ticks = Append(@, tick)])

\* emit
Emitted(s, e) ==
    LET told == [s EXCEPT !.events = Append(@, e)]
    IN  IF e \in reacts THEN DestroyedRequest(told, FALSE) ELSE told

\* _emitCloseOnce
CloseOnce(s) == IF Happened(s, "close") THEN s ELSE Emitted(s, "close")

\* The end of _doSend: after an error, and when the response is there.
SendOver(s) == [s EXCEPT !.sendAt = "over"]
SendFails(s) == IF s.destroyed THEN SendOver(s) ELSE CloseOnce(SendOver(Emitted(s, "error")))

-----------------------------------------------------------------------------
(* _flushLoop, which the chain of the writes and _doSend both call *)

LoopReturns(s, f) ==
    LET idle == [s EXCEPT !.loop[f] = "idle", !.chunk[f] = 0]
    IN  IF f = "send" THEN [idle EXCEPT !.sendAt = "flushed"]
        ELSE [idle EXCEPT !.chain = @ - 1, !.awaits = IF @ = 0 THEN 0 ELSE @ - 1]

\* A rejection: _doSend has its own catch, the chain another.
LoopFails(s, f) ==
    LET idle == [s EXCEPT !.loop[f] = "idle", !.chunk[f] = 0]
    IN  IF f = "send" THEN SendFails(idle)
        ELSE LoopReturns(IF s.destroyed THEN idle ELSE Emitted(idle, "error"), f)

\* The next chunk, for writeStream
NextChunk(s, f) ==
    LET taken == [s EXCEPT !.pending = Tail(@)]
    IN  IF s.pending = <<>> \/ s.destroyed THEN LoopReturns(s, f)
        ELSE IF InCall(s) THEN LoopFails(taken, f)
        ELSE [taken EXCEPT !.loop[f] = "write", !.chunk[f] = Head(s.pending)]

\* Nothing is sent before end(): the headers stay open until then.
FlushLoop(s, f) ==
    IF s.destroyed \/ special = "rejected" \/ ~(s.started \/ s.ended) THEN LoopReturns(s, f)
    ELSE IF s.started THEN NextChunk(s, f)
    ELSE IF InCall(s) THEN LoopFails(s, f)
    ELSE [s EXCEPT !.loop[f] = "start"]

\* The native request has the chunk, and counts it.
Counted(s, f) ==
    [s EXCEPT !.body = Append(@, s.chunk[f]), !.acked = Append(@, s.chunk[f]),
              !.buffered = @ - 1, !.loop[f] = "idle"]

DrainTold(s) ==
    IF s.needDrain /\ s.buffered < DrainMark
    THEN Emitted([s EXCEPT !.needDrain = FALSE], "drain") ELSE s

\* start() is settled.
StartSettles(f) ==
    /\ client.loop[f] = "start" /\ UNCHANGED <<special, reacts>>
    /\ LET idle == [client EXCEPT !.loop[f] = "idle"]
       IN  client' = IF special = "malformed" THEN LoopFails(idle, f)
                     ELSE NextChunk([idle EXCEPT !.started = TRUE], f)

\* writeStream() is settled: it fails once the body is finished.
WriteSettles(f) ==
    /\ client.loop[f] = "write" /\ UNCHANGED <<special, reacts>>
    /\ client' = IF client.native = "building" THEN NextChunk(DrainTold(Counted(client, f)), f)
                 ELSE LoopFails(client, f)

\* The next _flushLoop of the chain
ChainRuns ==
    /\ client.chain > 0 /\ client.loop["chain"] = "idle" /\ UNCHANGED <<special, reacts>>
    /\ client' = FlushLoop(client, "chain")

-----------------------------------------------------------------------------
(* write() and end() *)

WithChunk(s) ==
    LET more == [s EXCEPT !.written = @ + 1, !.late = s.ended]
        kept == [more EXCEPT !.pending = Append(@, more.written), !.buffered = @ + 1,
                             !.chain = @ + 1,
                             !.needDrain = @ \/ s.buffered + 1 >= DrainMark]
    IN  IF special = "rejected" THEN more ELSE kept

WriteRequest ==
    /\ client.written < RequestChunks
    /\ client' = WithChunk(client) /\ UNCHANGED <<special, reacts>>

\* _doSend, up to its first await
Waits(s) == [s EXCEPT !.sendAt = "chain", !.awaits = s.chain]
SendNow(s) == IF special = "rejected" THEN SendOver(s) ELSE Waits(s)

\* end(), with a last chunk or without. It sets Content-Length if the program did not and the
\* method or the body asks for it, which throws once the native request is aborted.
EndRequest ==
    /\ ~client.ended /\ UNCHANGED <<special, reacts>>
    /\ \E last \in {client.written < RequestChunks, FALSE}, sets, now \in BOOLEAN :
         LET all  == IF last THEN WithChunk(client) ELSE client
             over == [all EXCEPT !.ended = TRUE, !.length = all.written]
         IN  client' = IF sets /\ all.native = "aborted" THEN all
                       ELSE IF now THEN SendNow(over) ELSE [over EXCEPT !.sendAt = "turn"]

\* The agent lets the request run.
RequestTurn ==
    /\ client.sendAt = "turn" /\ client' = SendNow(client) /\ UNCHANGED <<special, reacts>>

-----------------------------------------------------------------------------
(* _doSend *)

\* The writes before it are flushed.
AfterChain ==
    /\ client.sendAt = "chain" /\ client.awaits = 0 /\ UNCHANGED <<special, reacts>>
    /\ client' = IF client.started /\ client.pending = <<>>
                 THEN [client EXCEPT !.sendAt = "flushed"]
                 ELSE FlushLoop([client EXCEPT !.sendAt = "flush"], "send")

\* _setupMockSocket, then finish()
AfterFlush ==
    LET Finishes(s) == IF special = "lookup" THEN [s EXCEPT !.sendAt = "lookup"]
                       ELSE IF InCall(s) THEN SendFails(s)
                       ELSE [s EXCEPT !.sendAt = "finish"]
    IN  /\ client.sendAt = "flushed" /\ UNCHANGED <<special, reacts>>
        /\ client' = IF client.destroyed THEN SendOver(client)
                     ELSE Finishes(Emitted(client, "socket"))

\* finish() is settled: the body is sealed. 'finish' comes for an aborted request too.
FinishSettles ==
    LET sealed == Emitted([client EXCEPT !.native = "sending", !.sendAt = "flushed"], "finish")
    IN  /\ client.sendAt = "finish" /\ UNCHANGED <<special, reacts>>
        /\ client' = IF client.native # "building" THEN SendFails(client)
                     ELSE IF sealed.destroyed THEN SendOver(sealed)
                     ELSE IF InCall(sealed) THEN SendFails(sealed)
                     ELSE [sealed EXCEPT !.sendAt = "wait"]

\* waitForResponse() is settled with the host's error.
HostFails ==
    /\ client.sendAt = "wait" /\ UNCHANGED <<special, reacts>>
    /\ client' = SendFails([client EXCEPT !.native = "failed"])

\* waitForResponse() is settled with a response. An abort meanwhile is looked at now.
HostAnswers ==
    LET there == [client EXCEPT !.native = "ready", !.sendAt = "flushed"]
        Told(s) == IF s.destroyed THEN SendOver(s) ELSE CloseOnce(SendOver(s))
    IN  /\ client.sendAt = "wait" /\ UNCHANGED <<special, reacts>>
        /\ client' = IF client.destroyed
                     THEN SendOver(IF client.deferred THEN AbortNative(there) ELSE there)
                     ELSE Told(Emitted([there EXCEPT !.native = "consumed"], "response"))

-----------------------------------------------------------------------------
(* The program and process.nextTick *)

\* abort(), after which the request counts as destroyed too
AbortRequest ==
    /\ ~client.destroyed /\ UNCHANGED <<special, reacts>>
    /\ client' = AbortNative([client EXCEPT !.destroyed = TRUE, !.ticks = Append(@, "abort")])

\* destroy(), without an error or with one
HangUp ==
    /\ ~client.destroyed /\ UNCHANGED <<special, reacts>>
    /\ \E error \in BOOLEAN : client' = DestroyedRequest(client, error)

RequestTick ==
    /\ client.ticks # <<>> /\ UNCHANGED <<special, reacts>>
    /\ LET t    == Head(client.ticks)
           rest == [client EXCEPT !.ticks = Tail(@)]
       IN  client' = CASE t = "reject" -> DestroyedRequest(rest, TRUE)
                       [] t = "error"  -> CloseOnce(Emitted(rest, "error"))
                       [] t = "abort"  -> CloseOnce(Emitted(rest, "abort"))
                       [] t = "quiet"  -> CloseOnce(rest)

RequestRuns ==
    \/ \E f \in Flushers : StartSettles(f) \/ WriteSettles(f)
    \/ ChainRuns \/ RequestTurn \/ AfterChain \/ AfterFlush \/ FinishSettles
    \/ HostFails \/ HostAnswers \/ RequestTick

RequestNext == WriteRequest \/ EndRequest \/ AbortRequest \/ HangUp \/ RequestRuns

\* The jobs run, the agent's queue moves (HttpAgent) and the host answers or fails.
RequestFairness == WF_RequestVars(RequestRuns)

RequestSpec == RequestInit /\ [][RequestNext]_RequestVars /\ RequestFairness

-----------------------------------------------------------------------------
(* Properties *)

Outcomes == {i \in DOMAIN client.events : client.events[i] \in {"response", "error"}}

\* A request that nobody destroys and nobody writes to after end() has a response or an
\* error, never both, and the one of the two that comes is there when 'close' does.
OneOutcome ==
    special = "plain" /\ ~client.late /\ ~client.destroyed =>
        /\ \A i, j \in Outcomes : i = j
        /\ Happened(client, "close") => Outcomes # {}

\* Its error is the host's: no two calls of the native request ever meet.
OwnCallsNeverMeet ==
    special = "plain" /\ ~client.late /\ ~client.destroyed /\ Happened(client, "error") =>
        client.native = "failed"

\* The program may destroy the request at any point: it hears of no response afterwards,
\* and none after 'close'; 'close' comes once.
SilentAfterDestroy ==
    \A i, j \in DOMAIN client.events :
        i < j /\ client.events[i] = "close" => client.events[j] \notin {"response", "close"}

\* What goes to the host is all of what was written before end(), in order, and as long as
\* what end() counted for its Content-Length: an abort halfway sends no part of it.
BodyAsWritten ==
    client.native \in {"sending", "failed", "ready", "consumed"} /\ ~client.late =>
        /\ client.body = [i \in 1..client.written |-> i]
        /\ client.length = client.written

\* The callbacks of the writes are called in order, for what the native request has.
AckedInOrder ==
    /\ IsPrefix(client.acked, client.body)
    /\ \A i, j \in DOMAIN client.acked : i < j => client.acked[i] < client.acked[j]

\* Once end() has run or the request is destroyed, 'close' comes, even for a transport that
\* is refused; a lookup of its own hangs as it would in Node.
RequestCloses ==
    []<>(client.ended \/ client.destroyed =>
            Happened(client, "close") \/ (special = "lookup" /\ ~client.destroyed))

\* A write() that returned false is answered by 'drain' once end() lets the body go, unless
\* the request is destroyed first.
DrainOnceEnded ==
    []<>(client.ended /\ special \in {"plain", "lookup"} /\ ~client.late =>
            client.destroyed \/ ~client.needDrain)

RequestInv ==
    /\ RequestTypeOK /\ OneOutcome /\ OwnCallsNeverMeet /\ SilentAfterDestroy
    /\ BodyAsWritten /\ AckedInOrder
=============================================================================
