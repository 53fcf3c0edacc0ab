------------------------------ MODULE SocketRead ------------------------------
(***************************************************************************)
(* The read side of a net.Socket: the Readable state machine of            *)
(* runtime/builtin/internal/streams/readable.js with the poll loop of      *)
(* runtime/builtin/net.js under it. Two queues lie between the peer and a  *)
(* 'data' listener, the Readable's own buffer and _pendingReadChunks, and  *)
(* pause() and resume() may come between any two jobs, the ones that are   *)
(* made inside a 'data' listener included.                                 *)
(*                                                                         *)
(* A job runs to its end, so that the state of the stream is one record    *)
(* that the calls of a job pass on; chunks are numbered as the peer sends  *)
(* them and have length 1.                                                 *)
(***************************************************************************)
EXTENDS Integers, SequencesExt

CONSTANTS
    Sent,          \* chunks the peer sends before its FIN
    HighWaterMark, \* of the Readable, in chunks
    MaxPauses      \* bound on the calls of pause() from outside a listener

ASSUME ReadAssumption == Sent \in Nat /\ HighWaterMark \in Nat \ {0} /\ MaxPauses \in Nat

FIN == 0

VARIABLES
    sock,    \* the socket's own state and its _readableState, between two jobs
    ticks,   \* process.nextTick's queue
    taken,   \* chunks that native reads have returned, the FIN included
    pauseAt, \* the chunks whose 'data' listener calls pause()
    pauses   \* calls of pause() from elsewhere so far

ReadVars == <<sock, ticks, taken, pauseAt, pauses>>

Flowing == {"null", "yes", "no"}

ReadTypeOK ==
    /\ sock \in [started : BOOLEAN, flowing : Flowing, reading : BOOLEAN, sync : BOOLEAN,
                 ended : BOOLEAN, endEmitted : BOOLEAN, needReadable : BOOLEAN,
                 emittedReadable : BOOLEAN, readingMore : BOOLEAN, resumeScheduled : BOOLEAN,
                 buffer : Seq(1..Sent), data : Seq(1..Sent),
                 netPaused : BOOLEAN, netReading : BOOLEAN, token : Nat, inFlight : BOOLEAN,
                 pending : Seq(0..Sent), loops : Seq(Nat), todo : {<<>>}]
    /\ ticks \in Seq({"readable", "more", "resume", "end"})
    /\ taken \in 0..Sent + 1 /\ pauseAt \subseteq 1..Sent
    /\ pauses \in 0..MaxPauses

ReadInit ==
    /\ sock = [started |-> FALSE, flowing |-> "null", reading |-> FALSE, sync |-> TRUE,
               ended |-> FALSE, endEmitted |-> FALSE, needReadable |-> FALSE,
               emittedReadable |-> FALSE, readingMore |-> FALSE, resumeScheduled |-> FALSE,
               buffer |-> <<>>, data |-> <<>>,
               netPaused |-> FALSE, netReading |-> FALSE, token |-> 0, inFlight |-> FALSE,
               pending |-> <<>>, loops |-> <<>>, todo |-> <<>>]
    /\ ticks = <<>> /\ taken = 0 /\ pauses = 0
    /\ pauseAt \in SUBSET (1..Sent)

\* A job ends: the ticks it asked for go to the end of the queue.
Ends(s, queue) == sock' = [s EXCEPT !.todo = <<>>] /\ ticks' = queue \o s.todo
ReadTick(s, t) == [s EXCEPT !.todo = Append(@, t)]

-----------------------------------------------------------------------------
(* net.js: pause, _read and its poll loop *)

PausedSocket(s) == [s EXCEPT !.netPaused = TRUE, !.netReading = FALSE, !.flowing = "no"]

\* The 'data' event: the listener has the chunk, and may pause the socket at once.
Emit(s, c) ==
    LET seen == [s EXCEPT !.data = Append(@, c)]
    IN  IF c \in pauseAt THEN PausedSocket(seen) ELSE seen

StartPollLoop(s) ==
    IF s.inFlight THEN s
    ELSE [s EXCEPT !.token = @ + 1, !.inFlight = TRUE, !.loops = Append(@, s.token + 1)]

-----------------------------------------------------------------------------
(* readable.js: push, the way in *)

EmitReadable(s) ==
    LET quiet == [s EXCEPT !.needReadable = FALSE]
    IN  IF s.emittedReadable THEN quiet
        ELSE ReadTick([quiet EXCEPT !.emittedReadable = TRUE], "readable")

MaybeReadMore(s) == IF s.readingMore THEN s ELSE ReadTick([s EXCEPT !.readingMore = TRUE], "more")

AddChunk(s, c) ==
    MaybeReadMore(
        IF s.flowing = "yes" /\ s.buffer = <<>> /\ ~s.sync THEN Emit(s, c)
        ELSE LET kept == [s EXCEPT !.buffer = Append(@, c)]
             IN  IF s.needReadable THEN EmitReadable(kept) ELSE kept)

PushChunk(s, c) == AddChunk([s EXCEPT !.reading = FALSE], c)
KeepGoing(s) == ~s.ended /\ (Len(s.buffer) < HighWaterMark \/ s.buffer = <<>>)

\* A while loop is the function of its rounds, which change nothing once it is over.

\* _drainPendingReadChunks, up to the FIN, a pause or a full buffer
DrainOne(s) ==
    LET c    == Head(s.pending)
        rest == [s EXCEPT !.pending = Tail(@)]
        Pushed(t) == [state |-> IF KeepGoing(t) THEN t ELSE [t EXCEPT !.netReading = FALSE],
                      fin |-> FALSE, on |-> KeepGoing(t)]
    IN  IF c = FIN THEN [state |-> rest, fin |-> TRUE, on |-> FALSE] ELSE Pushed(PushChunk(rest, c))

DrainRound(d) ==
    IF d.on /\ ~d.state.netPaused /\ d.state.pending # <<>> THEN DrainOne(d.state) ELSE d

Drained(s) ==
    LET round[n \in Nat] == IF n = 0 THEN [state |-> s, fin |-> FALSE, on |-> TRUE]
                            ELSE DrainRound(round[n - 1])
    IN  round[Len(s.pending)]

-----------------------------------------------------------------------------
(* readable.js: read, the way out *)

EndReadable(s) == IF s.endEmitted THEN s ELSE ReadTick([s EXCEPT !.ended = TRUE], "end")

\* push(null) from within _read, which read() calls with sync set
EofInRead(s) == LET off == [s EXCEPT !.reading = FALSE]
                IN  IF s.ended THEN off ELSE EmitReadable([off EXCEPT !.ended = TRUE])

\* Socket._read: what was put aside goes first; a drained FIN ends the Readable.
NetRead(s) ==
    LET Eof(drained) == IF drained.fin THEN EofInRead(drained.state) ELSE drained.state
        Polls(after) == IF s.pending # <<>> /\ (after.netPaused \/ after.pending # <<>>) THEN after
                        ELSE StartPollLoop([after EXCEPT !.netReading = TRUE])
    IN  Polls(Eof(Drained(s)))

\* What read() does before it takes anything: n is what it asks for.
Pulled(s, n) ==
    LET want == s.needReadable \/ s.buffer = <<>> \/ Len(s.buffer) - n < HighWaterMark
        asks == [s EXCEPT !.reading = TRUE, !.sync = TRUE,
                          !.needReadable = @ \/ s.buffer = <<>>]
    IN  IF want /\ ~s.ended /\ ~s.reading THEN [NetRead(asks) EXCEPT !.sync = FALSE] ELSE s

\* read(0)
ReadZero(s) ==
    IF s.needReadable /\ (Len(s.buffer) >= HighWaterMark \/ s.ended)
    THEN IF s.buffer = <<>> /\ s.ended THEN EndReadable(s) ELSE EmitReadable(s)
    ELSE IF s.ended THEN (IF s.buffer = <<>> THEN EndReadable(s) ELSE s)
    ELSE LET Room(pulled) == [pulled EXCEPT !.needReadable = Len(pulled.buffer) <= HighWaterMark]
         IN  Room(Pulled(s, 0))

\* read(), which takes one chunk of a flowing stream
Took(s) ==
    LET quiet == [s EXCEPT !.emittedReadable = FALSE]
        Dry(pulled) == IF pulled.ended THEN EndReadable([pulled EXCEPT !.needReadable = TRUE])
                       ELSE [pulled EXCEPT !.needReadable = TRUE]
        Left(left) == IF left.buffer # <<>> THEN left
                      ELSE IF left.ended THEN EndReadable(left)
                      ELSE [left EXCEPT !.needReadable = TRUE]
        Takes(pulled) ==
            IF pulled.buffer = <<>> THEN [state |-> Dry(pulled), chunk |-> FALSE]
            ELSE [state |-> Emit(Left([pulled EXCEPT !.buffer = Tail(@)]), Head(pulled.buffer)),
                  chunk |-> TRUE]
    IN  IF s.buffer = <<>> /\ s.ended THEN [state |-> EndReadable(quiet), chunk |-> FALSE]
        ELSE Takes(Pulled(quiet, IF s.buffer = <<>> THEN 0 ELSE 1))

\* flow: each round but the last takes a chunk.
FlowRound(took) == IF took.chunk /\ took.state.flowing = "yes" THEN Took(took.state) ELSE took

Flow(s) ==
    LET round[n \in Nat] == IF n = 0 THEN [state |-> s, chunk |-> TRUE]
                            ELSE FlowRound(round[n - 1])
    IN  round[Len(s.buffer) + Len(s.pending) + 1].state

EmitReadableNow(s) ==
    LET told == IF s.buffer # <<>> \/ s.ended THEN [s EXCEPT !.emittedReadable = FALSE] ELSE s
    IN  Flow([told EXCEPT !.needReadable =
                told.flowing # "yes" /\ ~told.ended /\ Len(told.buffer) <= HighWaterMark])

\* push(null)
PushEof(s) ==
    IF s.ended \/ s.sync THEN EofInRead(s)
    ELSE EmitReadableNow([s EXCEPT !.reading = FALSE, !.ended = TRUE,
                                   !.needReadable = FALSE, !.emittedReadable = TRUE])

\* maybeReadMore_: each round but the last adds to the buffer.
Wants(s) ==
    /\ ~s.reading /\ ~s.ended
    /\ Len(s.buffer) < HighWaterMark \/ (s.flowing = "yes" /\ s.buffer = <<>>)

MoreRound(m) ==
    LET Read(t) == [state |-> t, on |-> Len(t.buffer) # Len(m.state.buffer)]
    IN  IF m.on /\ Wants(m.state) THEN Read(ReadZero(m.state)) ELSE m

ReadMore(s) ==
    LET round[n \in Nat] == IF n = 0 THEN [state |-> s, on |-> TRUE] ELSE MoreRound(round[n - 1])
    IN  round[Len(s.pending) + 1].state

-----------------------------------------------------------------------------
(* A broken variant, for StreamsInv to catch. No specification uses it. *)

\* resume_ leaves resumeScheduled set, and the next resume() asks for no tick.
ResumesOnce(s) ==
    LET Reads(flowed) == IF flowed.flowing = "yes" /\ ~flowed.reading THEN ReadZero(flowed) ELSE flowed
    IN  Reads(Flow(IF s.reading THEN s ELSE ReadZero(s)))

-----------------------------------------------------------------------------
(* readable.js and net.js: resume *)

ResumeNow(s) ==
    LET Flows(asked) == Flow([asked EXCEPT !.resumeScheduled = FALSE])
        Reads(flowed) == IF flowed.flowing = "yes" /\ ~flowed.reading THEN ReadZero(flowed) ELSE flowed
    IN  Reads(Flows(IF s.reading THEN s ELSE ReadZero(s)))

-----------------------------------------------------------------------------
(* The jobs *)

\* Readable.resume, the first one by the 'data' listener that is added
Resumed(s) ==
    LET on == [s EXCEPT !.flowing = "yes"]
    IN  IF s.flowing = "yes" THEN s
        ELSE IF s.resumeScheduled THEN on ELSE ReadTick([on EXCEPT !.resumeScheduled = TRUE], "resume")

\* What Socket.resume does after it: the chunks that came meanwhile, then a read.
AfterResume(s) ==
    LET Eof(drained) == IF drained.fin THEN PushEof(drained.state) ELSE drained.state
        Reads(after) == IF ~after.netReading /\ ~after.netPaused THEN ReadZero(after) ELSE after
    IN  Reads(Eof(Drained(s)))

\* The connection is there: read(0) fills the buffer ahead of any listener.
Start ==
    /\ ~sock.started
    /\ Ends(ReadZero([sock EXCEPT !.started = TRUE]), ticks)
    /\ UNCHANGED <<taken, pauseAt, pauses>>

\* on('data'): starts the flow, unless the socket was paused before.
AddListener ==
    /\ sock.started /\ sock.flowing = "null"
    /\ Ends(AfterResume(Resumed(sock)), ticks)
    /\ UNCHANGED <<taken, pauseAt, pauses>>

Pause ==
    /\ sock.started /\ ~sock.netPaused /\ pauses < MaxPauses
    /\ Ends(PausedSocket(sock), ticks) /\ pauses' = pauses + 1
    /\ UNCHANGED <<taken, pauseAt>>

Resume ==
    /\ sock.netPaused
    /\ Ends(AfterResume(Resumed([sock EXCEPT !.netPaused = FALSE])), ticks)
    /\ UNCHANGED <<taken, pauseAt, pauses>>

RunTick ==
    /\ ticks # <<>>
    /\ LET t == Head(ticks)
       IN  Ends(IF t = "readable" THEN EmitReadableNow(sock)
                ELSE IF t = "more" THEN [ReadMore(sock) EXCEPT !.readingMore = FALSE]
                ELSE IF t = "resume" THEN ResumeNow(sock)
                ELSE [sock EXCEPT !.endEmitted = @ \/ sock.buffer = <<>>], Tail(ticks))
    /\ UNCHANGED <<taken, pauseAt, pauses>>

\* A paused loop puts what it read aside and stops.
PutAside(s, c) ==
    [s EXCEPT !.pending = Append(@, c), !.netReading = IF c = FIN THEN @ ELSE FALSE]

\* The loop goes on while there is room, unless another has taken its place.
GoesOn(s, token) ==
    IF ~KeepGoing(s) THEN [s EXCEPT !.netReading = FALSE]
    ELSE IF s.netReading /\ s.token = token
         THEN [s EXCEPT !.inFlight = TRUE, !.loops = Append(@, token)]
         ELSE s

\* await this._handle.read: the next chunk, or the FIN, for the loop that waits for it.
\* A second read finds the native reader taken and is told that the stream is over.
ReadAnswers(i) ==
    /\ i \in DOMAIN sock.loops
    /\ LET token == sock.loops[i]
           c     == IF i > 1 \/ taken >= Sent THEN FIN ELSE taken + 1
           s     == [sock EXCEPT !.inFlight = FALSE, !.loops = RemoveAt(@, i)]
       IN  /\ Ends(IF token # s.token THEN s
                    ELSE IF s.netPaused THEN PutAside(s, c)
                    ELSE IF c = FIN THEN ReadZero(PushEof(s))
                    ELSE GoesOn(PushChunk(s, c), token), ticks)
           /\ taken' = IF i > 1 \/ taken > Sent THEN taken ELSE taken + 1
    /\ UNCHANGED <<pauseAt, pauses>>

ReadNext == Start \/ AddListener \/ Pause \/ Resume \/ RunTick \/ \E i \in 1..2 : ReadAnswers(i)

\* The event loop runs its ticks, and the peer sends all it has. Weak fairness with
\* what enables the two steps written out: TLC takes very long over their ENABLED.
ReadFairness ==
    /\ []<>(ticks = <<>>) \/ []<><<RunTick>>_ReadVars
    /\ []<>(sock.loops = <<>>) \/ []<><<ReadAnswers(1)>>_ReadVars

ReadSpec == ReadInit /\ [][ReadNext]_ReadVars /\ ReadFairness

-----------------------------------------------------------------------------
(* Properties *)

Chunks(q) == IF q # <<>> /\ Last(q) = FIN THEN Front(q) ELSE q

\* Across both queues and every pause no chunk is lost, repeated or overtaken: what the
\* listener has had, then the Readable's buffer, then the chunks put aside are exactly
\* what the native reads returned.
InOrder ==
    sock.data \o sock.buffer \o Chunks(sock.pending)
        = [i \in 1..(IF taken > Sent THEN Sent ELSE taken) |-> i]

\* 'end' comes after the last chunk of the peer, never before it.
EndIsLast == sock.ended => taken > Sent /\ Chunks(sock.pending) = <<>>

\* There is one native read at a time: a second one would be told that the stream is over.
OneRead == Len(sock.loops) <= 1

\* A paused socket hands out nothing before resume(), whatever was scheduled before the
\* pause.
SilentWhilePaused == [][sock.netPaused /\ ~Resume => sock'.data = sock.data]_ReadVars

\* A reader that is not left paused for good gets everything, and then the end.
ReadsToTheEnd == []<>(sock.flowing = "yes" => sock.endEmitted /\ Len(sock.data) = Sent)

\* A reader that flows is never stranded: a tick will take what is in its buffer, and until
\* 'end' a tick or the native read goes on with it. The flags that keep a tick from being
\* asked for twice (emittedReadable, readingMore, resumeScheduled, reading) are each set and
\* cleared by several functions, and one that stays set too long is a stall.
NeverStranded ==
    sock.flowing = "yes" =>
        /\ sock.buffer # <<>> => {"readable", "resume"} \cap ToSet(ticks) # {}
        /\ sock.endEmitted \/ ticks # <<>> \/ sock.loops # <<>>

\* What a socket's reader sees is what the peer sent: in order, the end last, through one
\* native read at a time.
ReadInv == ReadTypeOK /\ InOrder /\ EndIsLast /\ OneRead
=============================================================================
