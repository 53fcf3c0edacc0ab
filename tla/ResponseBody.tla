----------------------------- MODULE ResponseBody -----------------------------
(***************************************************************************)
(* The body of a fetched response and of its clones: the Response class of *)
(* runtime/builtin/http.js over the buffer its clones share, runtime/      *)
(* internal/shared_response_body.rs. Whichever branch runs out of buffered *)
(* bytes takes the native stream out of the shared state for one read (the *)
(* lease) and the others wait; a branch can be cancelled, dropped or       *)
(* aborted at each of those awaits.                                        *)
(*                                                                         *)
(* A position counts pieces of up to 16 KiB, what one pull hands out. A    *)
(* body that was never cloned is the case of one branch.                   *)
(***************************************************************************)
EXTENDS Integers, FiniteSets, FiniteSetsExt

CONSTANTS
    Branches,  \* the response and the clones the program may make
    MaxPieces  \* the longest body there is

ASSUME BodyAssumption == MaxPieces \in Nat /\ IsFiniteSet(Branches)

VARIABLES
    \* SharedBody
    native,    \* "none" yet, "here", "leased" to a branch, or "gone"
    produced,  \* buffer_end: pieces the native stream has given
    start,     \* buffer_start: pieces that are reclaimed
    finished, error,
    waiters,   \* branches whose waker is registered
    pos,       \* reader_positions, of the branches that are in it
    \* the branches
    at,        \* the await a branch is at
    mode,      \* how it is read: "stream" (body), "collect" (text, arrayBuffer), "cancel"
    read,      \* the pieces it has handed out
    \* the world
    whole      \* the native stream reached its end

shared == <<native, produced, start, finished, error, waiters, pos>>
BodyVars == <<shared, at, mode, read, whole>>

\* A branch is at its read loop ("polled" until that finds something to wait
\* for), or is to be dropped when its future is polled next ("aborted").
Reading == {"polled", "waiting", "reading"}

BodyTypeOK ==
    /\ native \in {"none", "here", "leased", "gone"}
    /\ produced \in 0..MaxPieces /\ start \in 0..MaxPieces
    /\ finished \in BOOLEAN /\ error \in BOOLEAN /\ whole \in BOOLEAN
    /\ waiters \subseteq Branches
    /\ DOMAIN pos \subseteq Branches /\ \A b \in DOMAIN pos : pos[b] \in 0..MaxPieces
    /\ at \in [Branches -> {"absent", "fresh", "open", "aborted", "leaving", "parked",
                            "holding", "done", "failed", "dropped"} \cup Reading]
    /\ mode \in [Branches -> {"stream", "collect", "cancel"}]
    /\ read \in [Branches -> 0..MaxPieces]

BodyInit ==
    /\ native = "none" /\ produced = 0 /\ start = 0
    /\ finished = FALSE /\ error = FALSE /\ whole = FALSE
    /\ waiters = {} /\ pos = [b \in {} |-> 0]
    /\ at = [b \in Branches |-> "absent"]
    /\ mode = [b \in Branches |-> "stream"]
    /\ read = [b \in Branches |-> 0]

-----------------------------------------------------------------------------
(* Broken variants, for the properties to catch. No specification uses them. *)

\* A lease that is dropped closes the body.
LeaseClosed(b) ==
    /\ at[b] = "holding" /\ native' = "gone" /\ finished' = TRUE
    /\ waiters' = {} /\ at' = [at EXCEPT ![b] = "aborted"]
    /\ UNCHANGED <<produced, start, error, pos, mode, read, whole>>

-----------------------------------------------------------------------------
(* Helpers *)

\* reclaim_consumed_prefix: up to the slowest branch that is left
Reclaimed(positions) ==
    IF DOMAIN positions = {} THEN start ELSE Min({positions[b] : b \in DOMAIN positions})

Without(f, b) == [x \in DOMAIN f \ {b} |-> f[x]]
With(f, b, v) == [x \in DOMAIN f \cup {b} |-> IF x = b THEN v ELSE f[x]]

\* wake_all: whoever waits polls again, a cancellation too.
Woken(f) == [b \in Branches |->
    IF b \in waiters /\ f[b] = "waiting" THEN "polled"
    ELSE IF b \in waiters /\ f[b] = "parked" THEN "leaving" ELSE f[b]]

\* Drop for SharedBodyReader; a branch that has ended is dropped with its future.
DropReader(b, to) ==
    LET left == Without(pos, b)
        last == DOMAIN left = {} /\ ~finished
    IN  /\ pos' = left /\ start' = Reclaimed(left)
        /\ finished' = (finished \/ last)
        /\ native' = IF last THEN "gone" ELSE native
        /\ waiters' = IF last THEN {} ELSE waiters
        /\ at' = [IF last THEN Woken(at) ELSE at EXCEPT ![b] = to]

-----------------------------------------------------------------------------
(* Response *)

\* fetch resolves with a native response.
Respond(b) ==
    /\ native = "none" /\ native' = "here"
    /\ pos' = With(pos, b, 0) /\ at' = [at EXCEPT ![b] = "fresh"]
    /\ UNCHANGED <<produced, start, finished, error, waiters, mode, read, whole>>

\* clone: refused once the body is used or locked. It reads from where b is.
Clone(b, c) ==
    /\ at[b] = "fresh" /\ at[c] = "absent"
    /\ pos' = With(pos, c, pos[b]) /\ at' = [at EXCEPT ![c] = "fresh"]
    /\ UNCHANGED <<native, produced, start, finished, error, waiters, mode, read, whole>>

\* The pull of the stream that is response.body
Pull(b) ==
    /\ at[b] = "open" \/ at[b] = "fresh"
    /\ at' = [at EXCEPT ![b] = "polled"]
    /\ UNCHANGED <<shared, mode, read, whole>>

\* text, arrayBuffer, json, blob and bytes
Collect(b) ==
    /\ at[b] = "fresh"
    /\ at' = [at EXCEPT ![b] = "polled"] /\ mode' = [mode EXCEPT ![b] = "collect"]
    /\ UNCHANGED <<shared, read, whole>>

\* cancel of the stream, with its wait for the other branches, or a discard by the
\* collector of a response nobody reads ("dropped"). A pull that is under way holds
\* the source: only its abort handle is set, and the source goes when it is polled.
Cancel(b) ==
    /\ mode[b] = "stream"
    /\ \/ /\ at[b] \in {"fresh", "open"}
          /\ \E to \in {"leaving", "dropped"} : DropReader(b, to)
          /\ mode' = mode
       \/ /\ at[b] \in Reading
          /\ at' = [at EXCEPT ![b] = IF at[b] = "reading" THEN "holding" ELSE "aborted"]
          /\ mode' = [mode EXCEPT ![b] = "cancel"]
          /\ UNCHANGED <<native, start, finished, waiters, pos>>
    /\ UNCHANGED <<error, produced, read, whole>>

\* The signal of the request, which the clones share: an idle branch is discarded at
\* once, one that is being read when its future is polled next.
BodyAbort ==
    /\ \E b \in DOMAIN pos : at[b] \in Reading \cup {"fresh", "open"}
    /\ LET idle == {b \in DOMAIN pos : at[b] \in {"fresh", "open"}}
           left == [b \in DOMAIN pos \ idle |-> pos[b]]
           last == DOMAIN left = {} /\ ~finished
       IN /\ pos' = left /\ start' = Reclaimed(left)
          /\ finished' = (finished \/ last)
          /\ native' = IF last THEN "gone" ELSE native
          /\ waiters' = IF last THEN {} ELSE waiters
          /\ at' = [b \in Branches |->
                      IF b \in idle THEN "dropped"
                      ELSE IF at[b] = "reading" THEN "holding"
                      ELSE IF at[b] \in Reading THEN "aborted"
                      ELSE IF last THEN Woken(at)[b] ELSE at[b]]
    /\ UNCHANGED <<error, produced, mode, read, whole>>

-----------------------------------------------------------------------------
(* read_chunk *)

\* What is buffered goes first: a pull takes one piece of it.
Buffered(b) ==
    /\ at[b] = "polled" /\ mode[b] = "stream" /\ pos[b] < produced
    /\ pos' = [pos EXCEPT ![b] = @ + 1] /\ start' = Reclaimed(pos')
    /\ read' = [read EXCEPT ![b] = @ + 1]
    /\ at' = [at EXCEPT ![b] = "open"]
    /\ UNCHANGED <<native, produced, finished, error, waiters, mode, whole>>

\* A collector takes all of it, and either finds an error, the end or the native
\* stream, or waits.
RunsOut(b) ==
    /\ at[b] = "polled" /\ (mode[b] = "collect" \/ pos[b] = produced)
    /\ read' = [read EXCEPT ![b] = @ + (produced - pos[b])]
    /\ LET ahead == [pos EXCEPT ![b] = produced]
       IN IF finished
          THEN /\ at' = [at EXCEPT ![b] = IF error THEN "failed" ELSE "done"]
               /\ pos' = Without(ahead, b) /\ start' = Reclaimed(pos')
               /\ UNCHANGED <<native, waiters>>
          ELSE /\ pos' = ahead /\ start' = Reclaimed(ahead)
               /\ IF native = "here"
                  THEN native' = "leased" /\ waiters' = waiters /\ at' = [at EXCEPT ![b] = "reading"]
                  ELSE native' = native /\ waiters' = waiters \cup {b} /\ at' = [at EXCEPT ![b] = "waiting"]
    /\ UNCHANGED <<produced, finished, error, mode, whole>>

\* The native stream gives a piece to the branch that leased it, which hands it out;
\* a collector takes the stream again before anybody it woke runs.
NativePiece(b) ==
    /\ at[b] = "reading" /\ produced < MaxPieces
    /\ produced' = produced + 1
    /\ pos' = [pos EXCEPT ![b] = produced'] /\ start' = Reclaimed(pos')
    /\ read' = [read EXCEPT ![b] = @ + 1]
    /\ waiters' = {}
    /\ IF mode[b] = "stream"
       THEN native' = "here" /\ at' = [Woken(at) EXCEPT ![b] = "open"]
       ELSE native' = native /\ at' = Woken(at)
    /\ UNCHANGED <<finished, error, mode, whole>>

NativeEnd(b) ==
    /\ at[b] = "reading"
    /\ native' = "gone" /\ finished' = TRUE /\ whole' = TRUE
    /\ waiters' = {} /\ at' = [Woken(at) EXCEPT ![b] = "done"]
    /\ pos' = Without(pos, b) /\ start' = Reclaimed(pos')
    /\ UNCHANGED <<produced, error, mode, read>>

NativeError(b) ==
    /\ at[b] = "reading"
    /\ native' = "gone" /\ finished' = TRUE /\ error' = TRUE
    /\ waiters' = {} /\ at' = [Woken(at) EXCEPT ![b] = "failed"]
    /\ pos' = Without(pos, b) /\ start' = Reclaimed(pos')
    /\ UNCHANGED <<produced, mode, read, whole>>

-----------------------------------------------------------------------------
(* The drop of a read that was aborted: the lease first, then the reader *)

\* Drop for NativeLease: the branch is still registered, so the stream goes back.
DropLease(b) ==
    /\ at[b] = "holding" /\ native' = "here"
    /\ waiters' = {} /\ at' = [Woken(at) EXCEPT ![b] = "aborted"]
    /\ UNCHANGED <<produced, start, finished, error, pos, mode, read, whole>>

DropAborted(b) ==
    /\ at[b] = "aborted"
    /\ DropReader(b, IF mode[b] = "cancel" THEN "leaving" ELSE "dropped")
    /\ UNCHANGED <<error, produced, mode, read, whole>>

\* SharedBodyCompletion::wait, which a cancel ends with
Leaves(b) ==
    /\ at[b] = "leaving"
    /\ IF finished \/ DOMAIN pos = {}
       THEN at' = [at EXCEPT ![b] = "dropped"] /\ waiters' = waiters
       ELSE at' = [at EXCEPT ![b] = "parked"] /\ waiters' = waiters \cup {b}
    /\ UNCHANGED <<native, produced, start, finished, error, pos, mode, read, whole>>

Work(b) == Buffered(b) \/ RunsOut(b) \/ DropLease(b) \/ DropAborted(b) \/ Leaves(b)
Native(b) == NativePiece(b) \/ NativeEnd(b) \/ NativeError(b)

BodyNext ==
    \/ \E b \in Branches : Respond(b) \/ Pull(b) \/ Collect(b) \/ Cancel(b) \/ Work(b) \/ Native(b)
    \/ \E b, c \in Branches : Clone(b, c)
    \/ BodyAbort

\* The executor polls a woken future and the host ends every read.
BodyFairness == \A b \in Branches : WF_BodyVars(Work(b)) /\ WF_BodyVars(Native(b))

BodySpec == BodyInit /\ [][BodyNext]_BodyVars /\ BodyFairness

-----------------------------------------------------------------------------
(* Properties *)

\* A branch that ends without an error has read every byte of the body, however the
\* others were cancelled meanwhile: none takes the end of another for the end.
EndsWhole == \A b \in Branches : at[b] = "done" => whole /\ read[b] = produced

\* Nothing is reclaimed that a branch has still to read, and everything is that all
\* of them have read: the buffer is no longer than the slowest branch makes it.
BufferFitsReaders ==
    DOMAIN pos # {} => start = Min({pos[b] : b \in DOMAIN pos})

\* The native stream is in one place: a branch that reads it is the only one, and it
\* is given up only when the body is over.
OneLease ==
    /\ native = "leased" <=> \E b \in Branches : at[b] \in {"reading", "holding"}
    /\ Cardinality({b \in Branches : at[b] \in {"reading", "holding"}}) <= 1
    /\ native = "gone" => finished

\* Every read gets an answer, also when the branch that held the native stream is
\* cancelled under it.
ReadsAnswered == \A b \in Branches : []<>(at[b] \notin Reading)

\* A cancel that waits for the other branches resolves once the body is over.
CancelResolves == \A b \in Branches : []<>(finished => at[b] \notin {"leaving", "parked"})

\* The response and its clones share one native stream and one buffer, and each reads the
\* whole body once.
BodyInv == BodyTypeOK /\ EndsWhole /\ BufferFitsReaders /\ OneLease
=============================================================================
