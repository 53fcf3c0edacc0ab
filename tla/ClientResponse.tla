---------------------------- MODULE ClientResponse ---------------------------
(***************************************************************************)
(* The response of a node:http request: IncomingMessage of                 *)
(* runtime/builtin/node_http.js, a Readable that _pumpBody fills from the  *)
(* native body (node_http_p3.rs). The pump goes on by itself until push()  *)
(* says that the buffer is full, _read() starts it again, and the native   *)
(* response is borrowed while a chunk is read: discardBody() then throws.  *)
(*                                                                         *)
(* Of the Readable this keeps what it promises (SocketRead has its         *)
(* machine): it asks for more below its mark, and hands out what it has    *)
(* while it flows. Chunks are numbered as the server sends them.           *)
(***************************************************************************)
EXTENDS Integers, SequencesExt

CONSTANTS
    BodyPieces, \* bound on the chunks of a body
    BodyMark    \* highWaterMark, in chunks

ASSUME ResponseAssumption == BodyPieces \in Nat /\ BodyMark \in Nat \ {0}

VARIABLES
    incoming, \* the IncomingMessage and its native response, between two jobs
    total,    \* chunks the server sends
    ending,   \* and then: the end, an error, or nothing at all for a 204
    leaveAt   \* the chunk whose 'data' listener calls destroy(), or 0

ReplyVars == <<incoming, total, ending, leaveAt>>

ReplyTypeOK ==
    /\ incoming \in [asked : BOOLEAN, flowing : BOOLEAN, reading : BOOLEAN,
                     buffer : Seq(1..BodyPieces), consuming : BOOLEAN, pump : {"idle", "await"},
                     given : 0..BodyPieces, complete : BOOLEAN, ended : BOOLEAN,
                     endEmitted : BOOLEAN, destroyed : BOOLEAN, left : BOOLEAN,
                     error : {"none", "host", "borrow"}, closing : BOOLEAN, closed : BOOLEAN,
                     discarded : BOOLEAN, reqGone : BOOLEAN, data : Seq(1..BodyPieces)]
    /\ total \in 0..BodyPieces /\ leaveAt \in 0..BodyPieces
    /\ ending \in {"end", "error", "empty"}

ReplyInit ==
    /\ total \in 0..BodyPieces /\ leaveAt \in 0..total
    /\ ending \in {"end", "error", "empty"} /\ (ending = "empty" => total = 0)
    /\ incoming = [asked |-> FALSE, flowing |-> FALSE, reading |-> FALSE, buffer |-> <<>>,
                   consuming |-> FALSE, pump |-> "idle", given |-> 0, complete |-> FALSE,
                   ended |-> FALSE, endEmitted |-> FALSE, destroyed |-> FALSE, left |-> FALSE,
                   error |-> "none", closing |-> FALSE, closed |-> FALSE, discarded |-> FALSE,
                   reqGone |-> FALSE, data |-> <<>>]

Job == UNCHANGED <<total, ending, leaveAt>>

-----------------------------------------------------------------------------
(* A broken variant, for WebAnswers to catch. No specification uses it. *)

\* The pump stops at a full buffer and does not say so.
StaysConsuming(s) == s

-----------------------------------------------------------------------------
(* destroy() *)

\* _destroy: discardBody() throws while a chunk is read, and the request is left alone.
Dropped(s) ==
    IF s.pump = "await" THEN [s EXCEPT !.error = IF @ = "none" THEN "borrow" ELSE @]
    ELSE [s EXCEPT !.discarded = TRUE, !.reqGone = @ \/ ~s.complete]

Gone(s, error) ==
    IF s.destroyed THEN s
    ELSE Dropped([s EXCEPT !.destroyed = TRUE, !.closing = TRUE, !.error = error])

\* The program's own destroy(), which does nothing after abort()
LeftBy(s) == Gone([s EXCEPT !.left = @ \/ ~s.destroyed], "none")

-----------------------------------------------------------------------------
(* _read and _pumpBody *)

Heard(s, c) ==
    LET told == [s EXCEPT !.data = Append(@, c)]
    IN  IF c = leaveAt THEN LeftBy(told) ELSE told

\* push(): straight to the listener when the stream flows and nothing is before it
Pushed(s, c) ==
    LET read == [s EXCEPT !.reading = FALSE]
    IN  IF s.flowing /\ s.buffer = <<>> THEN Heard(read, c)
        ELSE [read EXCEPT !.buffer = Append(@, c)]

\* push(null)
PushedEnd(s) == [s EXCEPT !.complete = TRUE, !.ended = TRUE, !.reading = FALSE, !.pump = "idle"]

\* A turn of the pump's loop, up to readBodyChunk(), whose borrow another call may hold
PumpTurn(s) ==
    IF s.destroyed THEN [s EXCEPT !.discarded = TRUE, !.pump = "idle"]
    ELSE IF s.pump = "await" THEN Gone(s, "borrow")
    ELSE [s EXCEPT !.pump = "await"]

PumpStarts(s) ==
    IF ending = "empty" THEN PushedEnd([s EXCEPT !.discarded = TRUE]) ELSE PumpTurn(s)

\* _read()
Asked(s) ==
    LET reads == [s EXCEPT !.reading = TRUE]
    IN  IF ~s.consuming THEN PumpStarts([reads EXCEPT !.consuming = TRUE]) ELSE reads

\* Backpressure: the pump stops, and the next _read() starts it again.
Stopped(s) == [s EXCEPT !.consuming = FALSE]

\* readBodyChunk() is settled.
PieceArrives ==
    LET idle == [incoming EXCEPT !.pump = "idle"]
        On(s) == IF Len(s.buffer) < BodyMark THEN PumpTurn(s) ELSE Stopped(s)
        More == On(Pushed([idle EXCEPT !.given = @ + 1], incoming.given + 1))
        Over == IF ending = "error" THEN Gone(idle, "host") ELSE PushedEnd(idle)
    IN  /\ incoming.pump = "await" /\ Job
        /\ incoming' = IF incoming.destroyed THEN [idle EXCEPT !.discarded = TRUE]
                       ELSE IF incoming.given < total THEN More ELSE Over

-----------------------------------------------------------------------------
(* The Readable *)

\* It has room and asks, once it has been read from.
AsksMore ==
    /\ incoming.asked /\ ~incoming.reading /\ ~incoming.ended /\ ~incoming.destroyed
    /\ Len(incoming.buffer) < BodyMark /\ incoming' = Asked(incoming) /\ Job

\* A buffered chunk, to the listener or to a call of read(), of a destroyed stream too
Out == Heard([incoming EXCEPT !.buffer = Tail(@)], Head(incoming.buffer))
HandsOut == incoming.flowing /\ incoming.buffer # <<>> /\ incoming' = Out /\ Job
ReadPiece ==
    /\ ~incoming.flowing /\ Job
    /\ incoming' = IF incoming.buffer = <<>> THEN [incoming EXCEPT !.asked = TRUE]
                   ELSE [Out EXCEPT !.asked = TRUE]

\* 'end', after which the stream destroys itself
ReplyEnds ==
    /\ incoming.asked /\ incoming.ended /\ incoming.buffer = <<>>
    /\ ~incoming.endEmitted /\ ~incoming.closed
    /\ incoming' = Gone([incoming EXCEPT !.endEmitted = TRUE], "none") /\ Job

\* 'error', if there is one, and 'close'
ReplyCloses ==
    /\ incoming.closing /\ Job
    /\ incoming' = [incoming EXCEPT !.closing = FALSE, !.closed = TRUE]

-----------------------------------------------------------------------------
(* The program *)

\* resume(), a 'data' listener, or _dump() when there is no 'response' listener
Flows == ~incoming.flowing /\ incoming' = [incoming EXCEPT !.flowing = TRUE, !.asked = TRUE] /\ Job
Holds == incoming.flowing /\ incoming' = [incoming EXCEPT !.flowing = FALSE] /\ Job

DestroyReply == ~incoming.destroyed /\ incoming' = LeftBy(incoming) /\ Job

\* The request's abort(), which marks the response and does not destroy it, and its destroy()
RequestAborted ==
    /\ ~incoming.reqGone /\ Job
    /\ \/ incoming' = [incoming EXCEPT !.reqGone = TRUE, !.destroyed = TRUE]
       \/ incoming' = [incoming EXCEPT !.reqGone = TRUE]

ReplyNext ==
    \/ PieceArrives \/ AsksMore \/ HandsOut \/ ReadPiece \/ ReplyEnds \/ ReplyCloses
    \/ Flows \/ Holds \/ DestroyReply \/ RequestAborted

\* The jobs run, and the server sends the rest of its body or fails.
ReplyFairness ==
    /\ WF_ReplyVars(PieceArrives) /\ WF_ReplyVars(AsksMore) /\ WF_ReplyVars(HandsOut)
    /\ WF_ReplyVars(ReplyEnds) /\ WF_ReplyVars(ReplyCloses)

ReplySpec == ReplyInit /\ [][ReplyNext]_ReplyVars /\ ReplyFairness

-----------------------------------------------------------------------------
(* Properties *)

\* The listener has the chunks in order, whether they came straight from the pump or from
\* the buffer; 'end' comes after all of them, and never for a body that the host cut.
BodyInOrder ==
    /\ incoming.data \o incoming.buffer = [i \in 1..incoming.given |-> i]
    /\ incoming.endEmitted => Len(incoming.data) = total /\ ending # "error"

\* Two reads of the native body never meet: a borrow error is that of a program that
\* destroys the response while a chunk is read.
OneReadAtATime == incoming.error = "borrow" => incoming.left

\* No more is buffered than the mark, though the pump goes on by itself.
PumpStopsAtMark == Len(incoming.buffer) <= BodyMark

\* A body that is not read any more goes back to the host: that of a response that is closed
\* was read to its end or discarded, once the chunk that was being read is there.
NoBodyForgotten ==
    incoming.closed /\ incoming.pump = "idle" => incoming.complete \/ incoming.discarded

\* A response that flows and is not destroyed reaches its end; one that is destroyed, but
\* by abort(), closes.
ReplyFinishes ==
    /\ []<>(incoming.flowing => incoming.destroyed)
    /\ []<>(incoming.left => incoming.closed)

ReplyInv == ReplyTypeOK /\ BodyInOrder /\ OneReadAtATime /\ PumpStopsAtMark /\ NoBodyForgotten
=============================================================================
