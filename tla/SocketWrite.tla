----------------------------- MODULE SocketWrite -----------------------------
(***************************************************************************)
(* The writable side of a net.Socket: the Writable state machine (runtime/ *)
(* builtin/internal/streams/writable.js and destroy.js) over the socket's  *)
(* _write, _writev, _final and _destroy (net.js), which wait for 'connect' *)
(* while the socket is connecting.                                         *)
(*                                                                         *)
(* A function of the code that changes the stream is an operator from a    *)
(* record of its fields to another; an action is one callback, nextTick    *)
(* job or call of the program with all it calls. Chunks are counted, not   *)
(* measured.                                                               *)
(***************************************************************************)
EXTENDS Integers, SequencesExt

CONSTANTS
    Writes,     \* bound on the calls of write()
    WriteMark   \* highWaterMark, in chunks

ASSUME WriteAssumption == Writes \in Nat /\ WriteMark \in Nat \ {0}

VARIABLES
    made,  \* calls of write()
    stream \* the fields of _writableState and of the socket

WriteVars == <<made, stream>>

Chunk == 1..Writes

(***************************************************************************)
(* buffered, corked, needDrain, ending, errored, finalCalled, finished,    *)
(* destroyed, pendingcb: the fields of that name; onFinished: an end()     *)
(* callback waits; batch: the chunks of the write under way (writing,      *)
(* writecb); net: where _write or _final is, "connect" when it waits for   *)
(* the event, "handle" when the host has it; phase: of the socket; ticks:  *)
(* the nextTick queue; answers: what each callback was called with; onWire:*)
(* the chunks the host has taken.                                          *)
(***************************************************************************)
WriteInit ==
    /\ made = 0
    /\ stream = [buffered |-> <<>>, batch |-> <<>>, corked |-> FALSE, needDrain |-> FALSE,
                 ending |-> FALSE, errored |-> FALSE, finalCalled |-> FALSE, finished |-> FALSE,
                 destroyed |-> FALSE, pendingcb |-> 0, onFinished |-> FALSE, endAnswer |-> <<>>,
                 net |-> "none", phase |-> "connecting", ticks |-> <<>>, closed |-> FALSE,
                 answers |-> [i \in Chunk |-> <<>>], onWire |-> <<>>]

Ticks == {"errorBuffer", "finish", "close"}

WriteTypeOK ==
    /\ made \in 0..Writes
    /\ stream.buffered \in Seq(Chunk) /\ stream.batch \in Seq(Chunk)
    /\ {stream.corked, stream.needDrain, stream.ending, stream.errored, stream.finalCalled,
        stream.finished, stream.destroyed, stream.onFinished, stream.closed} \subseteq BOOLEAN
    /\ stream.pendingcb \in 0..Writes + 2
    /\ stream.net \in {"none", "connect", "handle", "final"}
    /\ stream.phase \in {"connecting", "open", "gone"} /\ stream.ticks \in Seq(Ticks)
    /\ \A i \in Chunk : stream.answers[i] \in Seq({"ok", "error"})
    /\ (stream.net = "handle" => stream.batch # <<>>)
    /\ (stream.batch # <<>> => stream.net \in {"connect", "handle"})

-----------------------------------------------------------------------------
(* A broken variant, for SocketsProgress to catch. No specification uses it. *)

\* 'drain' waits for end().
NeverDrains(s) == s

-----------------------------------------------------------------------------
(* Callbacks and nextTick jobs *)

Later(s, job) == [s EXCEPT !.ticks = Append(@, job)]

Answer(s, chunks, with) ==
    [s EXCEPT !.answers = [i \in Chunk |-> IF i \in ToSet(chunks) THEN Append(@[i], with) ELSE @[i]]]

AnswerEnd(s, with) == IF s.onFinished
    THEN [s EXCEPT !.onFinished = FALSE, !.endAnswer = Append(@, with)] ELSE s

Failed(s) == [AnswerEnd(Answer(s, s.buffered, "error"), "error") EXCEPT !.buffered = <<>>]

\* errorBuffer
ErrorBuffer(s) == IF s.batch # <<>> THEN s ELSE Failed(s)

\* destroy() with _destroy of the socket
Destroy(s, error) ==
    IF s.destroyed THEN s
    ELSE LET pending == IF s.buffered # <<>> \/ s.onFinished THEN Later(s, "errorBuffer") ELSE s
         IN  Later([pending EXCEPT !.destroyed = TRUE, !.errored = @ \/ error, !.phase = "gone"],
                   "close")

-----------------------------------------------------------------------------
(* Writing *)

Size(s) == Len(s.buffered) + Len(s.batch)

\* _write and _writev of the socket: a batch waits for 'connect', or goes to the host. (A
\* stream whose socket is gone is destroyed, and writes no more.)
DoWrite(s, chunks) ==
    [s EXCEPT !.batch = chunks, !.net = IF s.phase = "connecting" THEN "connect" ELSE "handle"]

\* clearBuffer: everything buffered in one batch.
ClearBuffer(s) ==
    IF s.corked \/ s.destroyed \/ s.buffered = <<>> THEN s
    ELSE DoWrite([s EXCEPT !.buffered = <<>>, !.pendingcb = @ - (Len(s.buffered) - 1)], s.buffered)

MustBuffer(s) == s.batch # <<>> \/ s.corked \/ s.errored

\* writeOrBuffer
WriteOrBuffer(s, i) ==
    LET c == [s EXCEPT !.pendingcb = @ + 1, !.needDrain = @ \/ Size(s) + 1 >= WriteMark]
    IN  IF MustBuffer(s) THEN [c EXCEPT !.buffered = Append(@, i)] ELSE DoWrite(c, <<i>>)

NeedFinish(s) == s.ending /\ Size(s) = 0 /\ ~s.errored /\ ~s.finished /\ ~s.closed

\* The callback of _final, without an error
OnFinish(s) ==
    LET d == [s EXCEPT !.pendingcb = @ - 1, !.net = "none"]
    IN  IF NeedFinish(d) THEN Later([d EXCEPT !.pendingcb = @ + 1], "finish") ELSE d

\* callFinal, with _final of the socket; shutdown works.
CallFinal(s) ==
    LET c == [s EXCEPT !.finalCalled = TRUE, !.pendingcb = @ + 1]
    IN  IF s.phase = "connecting" THEN [c EXCEPT !.net = "final"] ELSE OnFinish(c)

\* finish: the stream may be destroyed with it, when the readable side has ended.
Finished(s) == AnswerEnd([s EXCEPT !.pendingcb = @ - 1, !.finished = TRUE], "ok")

\* finishMaybe. A destroyed stream has no _final called.
FinishMaybe(s, sync) ==
    LET p == IF s.finalCalled \/ s.destroyed THEN s ELSE CallFinal(s)
    IN  IF ~NeedFinish(s) THEN s
        ELSE IF p.pendingcb # 0 \/ ~NeedFinish(p) THEN p
        ELSE IF sync THEN Later([p EXCEPT !.pendingcb = 1], "finish")
        ELSE Finished([p EXCEPT !.pendingcb = 1])

\* 'drain'
Drain(s) == IF ~s.ending /\ ~s.destroyed /\ Size(s) = 0 /\ s.needDrain
            THEN [s EXCEPT !.needDrain = FALSE] ELSE s

\* onwrite and afterWrite when the host has taken the batch: the next batch is on its way
\* before the callbacks are called.
Wrote(s) ==
    LET done == [s EXCEPT !.batch = <<>>, !.net = "none", !.onWire = @ \o s.batch]
        told == Answer(Drain(ClearBuffer(done)), s.batch, "ok")
        counted == [told EXCEPT !.pendingcb = @ - 1]
    IN  FinishMaybe(IF counted.destroyed THEN ErrorBuffer(counted) ELSE counted, FALSE)

\* onwriteError
WriteError(s) ==
    LET told == [Answer(s, s.batch, "error") EXCEPT !.batch = <<>>, !.net = "none",
                                                     !.errored = TRUE, !.pendingcb = @ - 1]
    IN  Destroy(ErrorBuffer(told), TRUE)

-----------------------------------------------------------------------------
(* The program *)

\* write(): after end() it is an error that destroys the stream.
Write ==
    /\ made < Writes /\ made' = made + 1
    /\ stream' = IF stream.ending THEN Destroy(Answer(stream, <<made'>>, "error"), TRUE)
                 ELSE IF stream.destroyed THEN Answer(stream, <<made'>>, "error")
                 ELSE WriteOrBuffer(stream, made')

Cork == ~stream.corked /\ ~stream.ending /\ stream' = [stream EXCEPT !.corked = TRUE] /\ UNCHANGED made

UncorkStream(s) ==
    LET u == [s EXCEPT !.corked = FALSE]
    IN  IF s.corked /\ s.batch = <<>> THEN ClearBuffer(u) ELSE u

Uncork == stream.corked /\ stream' = UncorkStream(stream) /\ UNCHANGED made

\* end() with a callback, which uncorks; the first one.
End ==
    /\ ~stream.ending /\ stream.endAnswer = <<>>
    /\ LET u == UncorkStream(stream)
       IN  stream' = IF u.errored THEN [u EXCEPT !.endAnswer = Append(@, "error")]
                     ELSE [FinishMaybe([u EXCEPT !.ending = TRUE], TRUE) EXCEPT !.onFinished = TRUE]
    /\ UNCHANGED made

DestroySocket ==
    /\ ~stream.destroyed
    /\ \E error \in BOOLEAN : stream' = Destroy(stream, error)
    /\ UNCHANGED made

-----------------------------------------------------------------------------
(* The host and the engine *)

\* 'connect'; whatever waited for it goes on. A connection that fails destroys the socket.
Connected ==
    /\ stream.phase = "connecting" /\ UNCHANGED made
    /\ LET o == [stream EXCEPT !.phase = "open"]
       IN  \/ stream' = IF o.net = "connect" THEN DoWrite(o, o.batch)
                        ELSE IF o.net = "final" THEN OnFinish(o) ELSE o
           \/ stream' = Destroy(stream, TRUE)

HostWrites ==
    /\ stream.net = "handle" /\ UNCHANGED made
    /\ stream' \in {Wrote(stream), WriteError(stream)}

Tick ==
    /\ stream.ticks # <<>> /\ UNCHANGED made
    /\ LET s == [stream EXCEPT !.ticks = Tail(@)]
           job == Head(stream.ticks)
       IN  \/ job = "errorBuffer" /\ stream' = ErrorBuffer(s)
           \/ job = "close" /\ stream' = [s EXCEPT !.closed = TRUE]
           \/ job = "finish" /\ stream' \in {Finished(s), Destroy(Finished(s), FALSE)}

WriteNext ==
    \/ Write \/ Cork \/ Uncork \/ End \/ DestroySocket
    \/ Connected \/ HostWrites \/ Tick

\* Jobs run, the host answers, and a connection is made or fails.
WriteSpec == WriteInit /\ [][WriteNext]_WriteVars
             /\ WF_WriteVars(Tick) /\ WF_WriteVars(HostWrites) /\ WF_WriteVars(Connected)

-----------------------------------------------------------------------------
(* Properties *)

\* The program learns of every chunk once: an error that answers what is buffered does not
\* meet the answer of the write that was under way.
AnsweredOnce == \A i \in Chunk : Len(stream.answers[i]) <= 1

\* Chunks reach the host in the order of the calls, and none is left out between two.
WrittenInOrder ==
    /\ stream.onWire = [k \in 1..Len(stream.onWire) |-> k]
    /\ \A i \in Chunk : stream.answers[i] = <<"ok">> <=> i <= Len(stream.onWire)

\* 'finish' means that the host has everything that write() took.
FinishMeansWritten ==
    stream.finished => stream.buffered = <<>> /\ stream.batch = <<>> /\
        \A i \in 1..made : stream.answers[i] # <<>>

\* A write() that returned false is followed by 'drain', unless the stream is over or its
\* writer keeps it corked.
DrainComes == []<>(stream.needDrain => stream.ending \/ stream.destroyed \/ stream.corked)

\* Every callback of write() is called in the end: of a stream that is neither corked nor
\* destroyed while it was connecting.
WritesAnswered ==
    \A i \in Chunk : []<>(\/ made < i \/ stream.answers[i] # <<>> \/ stream.corked
                           \/ (stream.net = "connect" /\ stream.destroyed))

\* "Invoke pending callbacks": a stream that is destroyed answers all its writes.
DestroyAnswersAll ==
    \A i \in Chunk : made >= i /\ stream.destroyed ~> stream.answers[i] # <<>>

\* What the callbacks of a socket's writer say is what was written.
WriteInv == WriteTypeOK /\ AnsweredOnce /\ WrittenInOrder /\ FinishMeansWritten
=============================================================================
