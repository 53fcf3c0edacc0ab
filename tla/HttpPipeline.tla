----------------------------- MODULE HttpPipeline -----------------------------
(***************************************************************************)
(* One connection of the node:http server (runtime/builtin/                *)
(* node_http_server.js): the parser that dispatches every request it finds *)
(* in its buffer, the queue of their responses, of which only the first may*)
(* write, and what ends the connection: a response that says so, a request *)
(* nobody can parse, the client's FIN, the idle timer, server.close().     *)
(*                                                                         *)
(* What arrives is counted in pieces; what a piece is, the parser finds out*)
(* when it reads it. A step of the parser is one turn of parseLoop: until  *)
(* the loop is done only the program's request listener acts. Outside the  *)
(* loop every action is one callback. server.timeout is 0 and nobody       *)
(* listens to 'timeout', the defaults.                                     *)
(***************************************************************************)
EXTENDS Integers, SequencesExt

CONSTANTS
    Pieces,      \* bound on the pieces the client sends
    MaxRequests, \* maxRequestsPerSocket; 0: no limit
    MaxWrites    \* bound on the write() calls of a response

ASSUME PipelineAssumption == Pieces \in Nat /\ MaxRequests \in Nat /\ MaxWrites \in Nat

\* Every request is at least one piece.
Ids == 1..Pieces

VARIABLES
    arrived,       \* pieces the client has sent
    buffer,     \* pieces not parsed yet
    parser,     \* state.state
    parsing,    \* parseLoop is running
    current,    \* the request whose body is being received; 0: none
    queue,      \* responseQueue
    served,     \* requestsServed
    detached,   \* the socket was handed to an 'upgrade' or 'connect' listener
    finReceived, closeAfterResponse, httpAllowHalfOpen,
    complete,   \* the requests that were received whole
    persistent, \* the requests after which the connection may go on
    alive,      \* shouldKeepAliveAfterResponse
    res,        \* the responses
    blocked,    \* _outputBlocked
    last,       \* the responses whose head says Connection: close
    kept,       \* pieces of output kept back for each response
    inflight,   \* the response of each write the socket has not completed
    written,       \* the response of each piece of output given to the socket; 0: a bare 400
    writes,     \* pieces each response has written
    socket, idleTimer, closeRequested, idleCheck

input == <<arrived, buffer, parser, parsing, current, served, detached>>
fin == <<finReceived, closeAfterResponse, httpAllowHalfOpen>>
requests == <<complete, persistent>>
output == <<res, blocked, kept, inflight, written>>
heads == <<last, writes>>
server == <<closeRequested, idleCheck>>
PipelineVars == <<input, queue, fin, requests, alive, output, heads, socket, idleTimer, server>>

PipelineTypeOK ==
    /\ arrived \in 0..Pieces /\ buffer \in 0..arrived /\ served \in 0..Pieces
    /\ parser \in {"idle", "headers", "body"} /\ parsing \in BOOLEAN
    /\ queue \in Seq(Ids) /\ current \in 0..served
    /\ \A i \in 1..Len(queue) : queue[i] = served - Len(queue) + i
    /\ {detached, finReceived, closeAfterResponse, httpAllowHalfOpen, closeRequested,
        idleCheck, idleTimer} \subseteq BOOLEAN
    /\ complete \subseteq 1..served /\ persistent \subseteq 1..served /\ alive \subseteq persistent
    /\ res \in [Ids -> {"none", "open", "ended", "tick", "finished", "aborted", "lost"}]
    /\ blocked \subseteq Ids /\ last \subseteq 1..served
    /\ kept \in [Ids -> Nat] /\ writes \in [Ids -> 0..MaxWrites + 1]
    /\ inflight \in Seq(0..served) /\ written \in Seq(0..served)
    /\ socket \in {"open", "ended", "closed"}

PipelineInit ==
    /\ arrived = 0 /\ buffer = 0 /\ parser = "idle" /\ parsing = FALSE /\ current = 0
    /\ queue = <<>> /\ served = 0 /\ detached = FALSE
    /\ finReceived = FALSE /\ closeAfterResponse = FALSE /\ httpAllowHalfOpen \in BOOLEAN
    /\ complete = {} /\ persistent = {} /\ alive = {}
    /\ res = [i \in Ids |-> "none"] /\ blocked = {} /\ last = {}
    /\ kept = [i \in Ids |-> 0] /\ writes = kept /\ inflight = <<>> /\ written = <<>>
    /\ socket = "open" /\ idleTimer = FALSE /\ closeRequested = FALSE /\ idleCheck = FALSE

-----------------------------------------------------------------------------
(* Output *)

EndConnection == socket' = IF socket = "open" THEN "ended" ELSE socket

\* _writeOutput: to the socket, or aside while another response is ahead. A response
\* whose socket is over is aborted: its callbacks are not called any more.
WriteOutput(i, status) ==
    IF socket # "open" THEN res' = [res EXCEPT ![i] = "aborted"] /\ UNCHANGED <<blocked, kept, inflight, written>>
    ELSE /\ res' = [res EXCEPT ![i] = status]
         /\ IF i \in blocked
            THEN kept' = [kept EXCEPT ![i] = @ + 1] /\ UNCHANGED <<blocked, inflight, written>>
            ELSE /\ inflight' = Append(inflight, i) /\ written' = Append(written, i)
                 /\ UNCHANGED <<blocked, kept>>

\* _activateOutput: what was kept back is written, or given up.
Activate(i, status, flight) ==
    LET out == [k \in 1..kept[i] |-> i]
        flush == socket = "open"
    IN  /\ blocked' = blocked \ {i} /\ kept' = [kept EXCEPT ![i] = 0]
        /\ inflight' = IF flush THEN flight \o out ELSE flight
        /\ written' = IF flush THEN written \o out ELSE written
        /\ res' = IF flush \/ kept[i] = 0 THEN status ELSE [status EXCEPT ![i] = "aborted"]

Outstanding(i) == kept[i] > 0 \/ \E k \in DOMAIN inflight : inflight[k] = i

\* The first piece carries the head, which says whether the connection goes on.
Commit(i) ==
    /\ writes' = [writes EXCEPT ![i] = @ + 1]
    /\ IF writes[i] > 0 THEN last' = last
       ELSE last' = last \cup {i} \/ (i \in persistent /\ last' = last)

\* write()
Write(i) ==
    /\ res[i] = "open" /\ writes[i] < MaxWrites
    /\ Commit(i) /\ WriteOutput(i, "open")
    /\ UNCHANGED <<input, queue, fin, requests, alive, socket, idleTimer, server>>

\* end() with something left to write
EndWithOutput(i) ==
    /\ res[i] = "open" /\ Commit(i) /\ WriteOutput(i, "ended")
    /\ UNCHANGED <<input, queue, fin, requests, alive, socket, idleTimer, server>>

\* end() after the whole body: 'finish' is for the last write, or for the next tick.
EndSilently(i) ==
    /\ res[i] = "open" /\ writes[i] > 0
    /\ res' = [res EXCEPT ![i] = IF Outstanding(i) THEN "ended" ELSE "tick"]
    /\ UNCHANGED <<input, queue, fin, requests, alive, blocked, kept, inflight, written, heads,
                   socket, idleTimer, server>>

-----------------------------------------------------------------------------
(* The end of a response *)

\* maybeFinalizeResponse of the first response, which is over as its request is: the
\* connection ends, or the next response gets the socket, or the connection is idle. The
\* parser is `at' with the request `cur' and `buf' pieces left; that parseLoop could start
\* here is dead code (NothingLeftIdle).
Finalize(goesOn, status, flight, cur, buf, at) ==
    LET rest == Tail(queue)
        same == UNCHANGED <<blocked, kept, written>> /\ res' = status /\ inflight' = flight
    IN  /\ queue' = rest
        /\ parser' = IF rest = <<>> /\ cur = 0 /\ buf = 0 THEN "idle" ELSE at
        /\ \/ ~goesOn /\ EndConnection /\ same /\ idleTimer' = idleTimer
           \/ /\ goesOn /\ rest # <<>>
              /\ Activate(Head(rest), status, flight) /\ UNCHANGED <<socket, idleTimer>>
           \/ /\ goesOn /\ rest = <<>> /\ same
              /\ IF finReceived /\ closeAfterResponse THEN EndConnection /\ idleTimer' = idleTimer
                 ELSE socket' = socket /\ idleTimer' = TRUE

\* 'finish' of response i, with these writes left in flight.
FinishResponse(i, flight) ==
    LET goesOn == i \in persistent /\ i \notin last /\ ~closeRequested
        status == [res EXCEPT ![i] = "finished"]
    IN  /\ alive' = IF goesOn THEN alive \cup {i} ELSE alive
        /\ IF Head(queue) = i /\ i \in complete
           THEN Finalize(goesOn, status, flight, current, buffer, parser)
           ELSE /\ res' = status /\ inflight' = flight
                /\ UNCHANGED <<queue, parser, blocked, kept, written, socket, idleTimer>>

\* The socket has completed its first write.
WriteDone ==
    /\ ~parsing /\ inflight # <<>>
    /\ LET i == Head(inflight)
           left == Tail(inflight)
       IN  IF i # 0 /\ res[i] = "ended" /\ kept[i] = 0 /\ \A k \in DOMAIN left : left[k] # i
           THEN FinishResponse(i, left)
           ELSE /\ inflight' = left
                /\ UNCHANGED <<queue, parser, alive, res, blocked, kept, written, socket, idleTimer>>
    /\ UNCHANGED <<arrived, buffer, parsing, current, served, detached, fin, requests, heads, server>>

\* The next tick of a response that had nothing left to write.
Tick(i) ==
    /\ ~parsing /\ res[i] = "tick" /\ FinishResponse(i, inflight)
    /\ UNCHANGED <<arrived, buffer, parsing, current, served, detached, fin, requests, heads, server>>

-----------------------------------------------------------------------------
(* The parser *)

Listens == ~parsing /\ socket # "closed"

\* 'data': n more pieces.
Data(n) ==
    /\ Listens /\ ~finReceived /\ arrived + n <= Pieces /\ arrived' = arrived + n
    /\ IF detached \/ socket # "open" THEN UNCHANGED <<buffer, parsing, idleTimer>>
       ELSE buffer' = buffer + n /\ parsing' = TRUE /\ idleTimer' = FALSE
    /\ UNCHANGED <<parser, current, served, detached, queue, fin, requests, alive, output, heads,
                   socket, server>>

\* parseLoop is done. A response under way has no idle timer.
LoopEnds(q, at) ==
    /\ parsing' = FALSE /\ parser' = at /\ queue' = q
    /\ idleTimer' = (idleTimer /\ \A k \in DOMAIN q : res[q[k]] = "finished")

\* Nothing the parser could go on with
ParseStops ==
    /\ parsing /\ (buffer = 0 \/ parser # "body")
    /\ LoopEnds(queue, IF parser = "body" THEN "body" ELSE "headers")
    /\ UNCHANGED <<arrived, buffer, current, served, detached, fin, requests, alive, output, heads,
                   socket, server>>

\* Not HTTP: a bare 400 goes straight to the socket, which is ended.
Reject ==
    /\ EndConnection
    /\ IF socket = "open" THEN inflight' = Append(inflight, 0) /\ written' = Append(written, 0)
       ELSE UNCHANGED <<inflight, written>>

ParseBad(n) ==
    /\ parsing /\ n <= buffer /\ buffer' = buffer - n
    /\ LoopEnds(queue, IF parser = "body" THEN "body" ELSE "headers") /\ Reject
    /\ UNCHANGED <<arrived, current, served, detached, fin, requests, alive, res, blocked, kept, heads,
                   server>>

\* A head whose framing nobody can read: the request is in the queue, the program never
\* sees it.
ParseBadFraming(n) ==
    LET i == served + 1
    IN  /\ parsing /\ parser # "body" /\ n <= buffer /\ buffer' = buffer - n
        /\ served' = i /\ current' = i /\ res' = [res EXCEPT ![i] = "lost"]
        /\ blocked' = IF queue = <<>> THEN blocked ELSE blocked \cup {i}
        /\ LoopEnds(Append(queue, i), "headers") /\ Reject
        /\ UNCHANGED <<arrived, detached, fin, requests, alive, kept, heads, server>>

\* An upgrade or CONNECT: the socket and what is left belong to the program, or, without
\* a 'connect' listener, to nobody.
ParseUpgrade ==
    /\ parsing /\ parser # "body" /\ buffer > 0 /\ buffer' = 0
    /\ detached' = TRUE /\ current' = 0
    /\ LoopEnds(queue, "headers") /\ socket' \in {socket, "closed"}
    /\ inflight' = IF socket' = "closed" THEN <<>> ELSE inflight
    /\ UNCHANGED <<arrived, served, fin, requests, alive, res, blocked, kept, written, heads, server>>

MustWait(i) == queue # <<>>

\* A request that is over with its head, or not; one too many is answered at once.
ParseHead(n) ==
    LET i == served + 1
        drop == MaxRequests > 0 /\ i > MaxRequests
    IN  /\ parsing /\ parser # "body" /\ n <= buffer /\ buffer' = buffer - n
        /\ served' = i /\ queue' = Append(queue, i)
        /\ \/ complete' = complete \cup {i} /\ current' = 0 /\ parser' = "idle"
           \/ complete' = complete /\ current' = i /\ parser' = "body"
        /\ persistent' = persistent \/ (~drop /\ persistent' = persistent \cup {i})
        /\ blocked' = IF MustWait(i) THEN blocked \cup {i} ELSE blocked
        /\ IF ~drop
           THEN res' = [res EXCEPT ![i] = "open"] /\ UNCHANGED <<kept, inflight, written, heads>>
           ELSE /\ last' = last \cup {i} /\ writes' = [writes EXCEPT ![i] = 1]
                /\ IF socket # "open"
                   THEN res' = [res EXCEPT ![i] = "aborted"] /\ UNCHANGED <<kept, inflight, written>>
                   ELSE /\ res' = [res EXCEPT ![i] = "ended"]
                        /\ IF MustWait(i)
                           THEN kept' = [kept EXCEPT ![i] = 1] /\ UNCHANGED <<inflight, written>>
                           ELSE /\ inflight' = Append(inflight, i) /\ written' = Append(written, i)
                                /\ kept' = kept
        /\ UNCHANGED <<arrived, parsing, detached, fin, alive, socket, idleTimer, server>>

\* More of a body, or the last of it
ParseBody(n) ==
    /\ parsing /\ parser = "body" /\ n <= buffer /\ buffer' = buffer - n
    /\ \/ UNCHANGED <<parser, current, queue, complete, output, socket, idleTimer>>
       \/ /\ complete' = complete \cup {current} /\ current' = 0
          /\ IF Head(queue) = current /\ res[current] = "finished"
             THEN Finalize(current \in alive, res, inflight, 0, buffer - n, "idle")
             ELSE parser' = "idle" /\ UNCHANGED <<queue, output, socket, idleTimer>>
    /\ UNCHANGED <<arrived, parsing, served, detached, fin, persistent, alive, heads, server>>

-----------------------------------------------------------------------------
(* The end of the connection *)

\* 'end': the client has sent its FIN.
Fin ==
    /\ Listens /\ ~finReceived /\ finReceived' = TRUE
    /\ LET partial == \E k \in DOMAIN queue : queue[k] \notin complete
       IN  IF detached THEN UNCHANGED <<closeAfterResponse, complete, socket>>
           ELSE IF ~httpAllowHalfOpen
           THEN /\ complete' = complete \cup ToSet(queue) /\ EndConnection
                /\ UNCHANGED closeAfterResponse
           ELSE IF ~partial /\ (queue # <<>> \/ buffer > 0)
           THEN closeAfterResponse' = TRUE /\ UNCHANGED <<complete, socket>>
           ELSE EndConnection /\ UNCHANGED <<closeAfterResponse, complete>>
    /\ UNCHANGED <<input, queue, httpAllowHalfOpen, persistent, alive, output, heads, idleTimer,
                   server>>

\* 'close': what no response has written is given up, and so are the callbacks.
Closed ==
    /\ socket' = "closed" /\ idleTimer' = FALSE /\ inflight' = <<>>
    /\ IF detached THEN UNCHANGED <<res, blocked, kept, complete>>
       ELSE LET gone == {i \in ToSet(queue) : res[i] \notin {"finished", "tick"}}
            IN  /\ res' = [i \in Ids |-> IF i \in gone THEN "aborted" ELSE res[i]]
                /\ blocked' = blocked \ ToSet(queue)
                /\ kept' = [i \in Ids |-> IF i \in gone THEN 0 ELSE kept[i]]
                /\ complete' = complete \cup ToSet(queue)
    /\ UNCHANGED <<input, queue, fin, persistent, alive, written, heads, server>>

\* Both sides have ended and everything is written.
BothEnded == Listens /\ socket = "ended" /\ finReceived /\ inflight = <<>> /\ Closed

\* The connection breaks.
Reset == Listens /\ Closed

\* The idle timer: nobody listens to 'timeout'.
IdleTimeout == Listens /\ idleTimer /\ Closed

\* server.close(), and the look for idle connections that it queues as a microtask
CloseServer ==
    /\ ~parsing /\ ~closeRequested /\ closeRequested' = TRUE /\ idleCheck' = TRUE
    /\ UNCHANGED <<input, queue, fin, requests, alive, output, heads, socket, idleTimer>>

CloseIdle ==
    /\ ~parsing /\ idleCheck /\ idleCheck' = FALSE
    /\ IF parser = "idle" /\ queue = <<>> THEN EndConnection ELSE socket' = socket
    /\ UNCHANGED <<input, queue, fin, requests, alive, output, heads, idleTimer, closeRequested>>

-----------------------------------------------------------------------------
Parse == ParseStops \/ ParseUpgrade \/ \E n \in 1..Pieces :
             ParseBad(n) \/ ParseBadFraming(n) \/ ParseHead(n) \/ ParseBody(n)

PipelineNext ==
    \/ \E i \in Ids : Write(i) \/ EndWithOutput(i) \/ EndSilently(i) \/ Tick(i)
    \/ WriteDone \/ Parse
    \/ \E n \in 1..Pieces : Data(n)
    \/ Fin \/ BothEnded \/ Reset \/ IdleTimeout \/ CloseServer \/ CloseIdle

\* The engine turns, the client reads what is written, and the program ends every
\* response it was given.
PipelineFairness ==
    /\ WF_PipelineVars(WriteDone) /\ WF_PipelineVars(Parse) /\ WF_PipelineVars(CloseIdle)
    /\ WF_PipelineVars(IdleTimeout)
    /\ \A i \in Ids : /\ WF_PipelineVars(EndWithOutput(i) \/ EndSilently(i))
                      /\ WF_PipelineVars(Tick(i))

PipelineSpec == PipelineInit /\ [][PipelineNext]_PipelineVars /\ PipelineFairness

-----------------------------------------------------------------------------
(* Properties *)

\* A client of pipelined requests tells the responses apart by their order alone: what
\* is written of them is in the order of their requests, however late an early one is.
ResponsesInOrder ==
    \A k, l \in DOMAIN written :
        k < l /\ written[k] # 0 /\ written[l] # 0 => written[k] <= written[l]

\* A response that says "Connection: close" is the last one the client gets.
NothingAfterClose ==
    \A k, l \in DOMAIN written : k < l /\ written[k] \in last => written[l] \in {0, written[k]}

\* Outside its loop the parser is idle only with nothing left to parse, so the two places
\* that parse again when it is (a finished response, the client's FIN) have nothing to do.
NothingLeftIdle == ~parsing /\ parser = "idle" => buffer = 0

\* Every response the program ends comes out, unless the connection is over: none stays
\* behind one that is done.
EveryResponseOut ==
    \A i \in Ids :
        []<>((\A k \in 1..i : k \in complete) /\ socket = "open" /\ ~detached => res[i] # "ended")

\* A closed server keeps no idle connection for ever.
IdleConnectionsEnd ==
    []<>~(closeRequested /\ socket = "open" /\ queue = <<>> /\ buffer = 0 /\ ~detached)

\* The responses of a connection are in order and complete, whatever listeners, writes and
\* timers do meanwhile.
PipelineInv == PipelineTypeOK /\ ResponsesInOrder /\ NothingAfterClose /\ NothingLeftIdle
=============================================================================
