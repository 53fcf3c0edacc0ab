-------------------------------- MODULE Fetch --------------------------------
(***************************************************************************)
(* fetch() with a ReadableStream as its body: streamingRequest and         *)
(* sendBody of runtime/builtin/http.js on top of the native request of     *)
(* http_p3.rs. Two coroutines share an abortRef: one sends the body, the   *)
(* other waits for the head of the response and follows redirects. The     *)
(* server may answer at any time, early answers and redirects included,    *)
(* the source of the body may end or fail, and the signal may abort the    *)
(* whole between any two awaits.                                           *)
(*                                                                         *)
(* A stream is sent at most once: a later attempt has no body, so that     *)
(* `upload` is that of the first attempt, detached once hops > 0.          *)
(***************************************************************************)
EXTENDS Integers

CONSTANTS
    Chunks,       \* the longest source there is
    MaxRedirects  \* maxRedirects, 20 in the code

ASSUME FetchAssumption == Chunks \in Nat /\ MaxRedirects \in Nat

VARIABLES
    \* streamingRequest
    fetch,     \* the await it is at
    outcome,   \* what the promise of fetch() settles with
    redirect, method,
    creator,   \* currentBodyCreator is not null
    hops,      \* currentRedirects
    reply,     \* what the native receiveResponse has for it
    discarded, \* the body of the returned response was discarded at once
    signal,    \* the caller's AbortSignal
    \* sendBody and its abortRef and bodyState
    upload,    \* the await it is at; "ended": settled, bodyState is not yet
    stopped,   \* abortRef.aborted
    failure,   \* the error sendBody ended with
    firstChunk,
    \* the world
    source,    \* the caller's stream
    sent,      \* chunks the transport has taken
    wire       \* the request body: "open", "ended" (writer dropped), "dropped" (by the host)

attempt  == <<redirect, method, creator, hops>>
sendVars == <<upload, failure, firstChunk, sent>>
FetchVars == <<fetch, outcome, attempt, reply, discarded, signal, stopped, sendVars, source, wire>>

\* Redirects by what they do to the method; "lost" has no usable Location.
Redirects == {"see-other", "moved", "keep", "lost"}
Heads == {"ok"} \cup Redirects
Errors == {"locked", "aborted", "network", "source", "transport",
           "redirects", "unexpected", "resend"}
Running == {"reading", "got", "eof", "threw", "writing", "cancelling"}

FetchTypeOK ==
    /\ fetch \in {"idle", "receiving", "race", "upload", "done"}
    /\ outcome \in {"none", "response", "opaque"} \cup Errors
    /\ redirect \in {"follow", "error", "manual"} /\ method \in {"GET", "POST", "PUT"}
    /\ creator \in BOOLEAN /\ hops \in 0..MaxRedirects
    /\ reply \in {"pending", "failed", "aborted"} \cup Heads
    /\ discarded \in BOOLEAN /\ signal \in {"none", "live", "aborted"}
    /\ upload \in {"off", "ended", "settled"} \cup Running
    /\ stopped \in BOOLEAN /\ failure \in {"none", "source", "transport"}
    /\ firstChunk \in BOOLEAN /\ sent \in 0..Chunks
    /\ source \in {"open", "closed", "errored", "cancelled"}
    /\ wire \in {"open", "ended", "dropped"}

FetchInit ==
    /\ fetch = "idle" /\ outcome = "none" /\ reply = "pending"
    /\ redirect \in {"follow", "error", "manual"}
    /\ method \in {"GET", "POST", "PUT"}
    /\ creator = TRUE /\ hops = 0 /\ discarded = FALSE
    /\ signal \in {"none", "live", "aborted"}
    /\ upload = "off" /\ stopped = FALSE /\ failure = "none" /\ firstChunk = FALSE
    /\ source = "open" /\ sent = 0 /\ wire = "open"

HasBody == creator /\ method # "GET"
\* bodyState.settled of the attempt that is under way
Settled == hops > 0 \/ upload \in {"off", "settled"}

-----------------------------------------------------------------------------
(* Broken variants, for the properties to catch. No specification uses them. *)

\* The signal is not looked at again when the upload is over.
UploadedUnchecked ==
    /\ fetch = "upload" /\ Settled
    /\ fetch' = "done"
    /\ outcome' = IF hops = 0 /\ failure # "none" THEN failure ELSE "response"
    /\ UNCHANGED <<attempt, reply, discarded, signal, stopped, sendVars, source, wire>>

-----------------------------------------------------------------------------
(* stopUpload *)

\* reader.cancel(): a pending read is done
StoppedSource == IF upload \in Running /\ source = "open" THEN "cancelled" ELSE source

\* abortBody() throws while a write holds the writer, and that is ignored.
StoppedWire == IF hops = 0 /\ wire = "open" /\ upload # "writing" THEN "ended" ELSE wire

StopUpload ==
    /\ stopped' = (stopped \/ hops = 0)
    /\ source' = IF hops = 0 THEN StoppedSource ELSE source
    /\ wire' = StoppedWire

-----------------------------------------------------------------------------
(* fetch and streamingRequest *)

Settles(how) ==
    /\ fetch' = "done" /\ outcome' = how
    /\ discarded' = (how \in {"response", "opaque"} /\ signal = "aborted")

\* fetch: the checks before the first attempt
Refuse ==
    /\ fetch = "idle"
    /\ \/ Settles("locked")                            \* body.locked, or already used
       \/ signal = "aborted" /\ Settles("aborted")
    /\ UNCHANGED <<attempt, reply, signal, stopped, sendVars, source, wire>>

\* The first attempt: the body is read from here on, the native request is under way.
Send ==
    /\ fetch = "idle" /\ signal # "aborted"
    /\ fetch' = "receiving"
    /\ IF HasBody THEN upload' = "reading" /\ wire' = wire
                  ELSE upload' = upload /\ wire' = "ended"
    /\ UNCHANGED <<outcome, attempt, reply, discarded, signal, stopped, failure,
                   firstChunk, sent, source>>

\* await receiveResponse failed: the catch block
ReceiveFails ==
    /\ fetch = "receiving" /\ reply \in {"failed", "aborted"}
    /\ Settles(IF reply = "failed" THEN "network" ELSE "aborted")
    /\ StopUpload
    /\ UNCHANGED <<attempt, reply, signal, sendVars>>

\* A redirect waits for the first pull of a body that has given nothing yet.
FirstPull == firstChunk \/ Settled

Receive ==
    /\ fetch = "receiving" /\ reply \in Heads
    /\ fetch' = IF reply \in Redirects THEN "race" ELSE "upload"
    /\ UNCHANGED <<outcome, attempt, reply, discarded, signal, stopped, sendVars, source, wire>>

\* await bodyPromise, then the signal and the result of the upload
Uploaded ==
    /\ fetch = "upload" /\ Settled
    /\ Settles(IF signal = "aborted" THEN "aborted"
               ELSE IF hops = 0 /\ failure # "none" THEN failure ELSE "response")
    /\ UNCHANGED <<attempt, reply, signal, stopped, sendVars, source, wire>>

SourceFailed ==
    /\ fetch = "race" /\ FirstPull
    /\ hops = 0 /\ upload = "settled" /\ failure = "source"
    /\ Settles("source")
    /\ UNCHANGED <<attempt, reply, signal, stopped, sendVars, source, wire>>

AtRedirect ==
    /\ fetch = "race" /\ FirstPull
    /\ ~(hops = 0 /\ upload = "settled" /\ failure = "source")
    /\ StopUpload

\* 303, and 301 or 302 of a POST, become a GET without a body
DropsBody == reply = "see-other" \/ (reply = "moved" /\ method = "POST")

CanFollow == redirect = "follow" /\ reply # "lost" /\ hops < MaxRedirects

RedirectEnds ==
    /\ AtRedirect
    /\ \/ redirect = "follow" /\ hops >= MaxRedirects /\ Settles("redirects")
       \/ redirect = "follow" /\ hops < MaxRedirects /\ reply = "lost" /\ Settles("response")
       \/ CanFollow /\ ~DropsBody /\ creator /\ Settles("resend")
       \/ redirect = "error" /\ Settles("unexpected")
       \/ redirect = "manual" /\ Settles("opaque")
    /\ UNCHANGED <<attempt, reply, signal, sendVars>>

\* The next attempt, unless the signal is found aborted at the top of the loop
Follow ==
    /\ AtRedirect /\ CanFollow /\ (DropsBody \/ ~creator)
    /\ method' = IF DropsBody THEN "GET" ELSE method
    /\ creator' = FALSE /\ hops' = hops + 1
    /\ IF signal = "aborted"
       THEN Settles("aborted") /\ reply' = reply
       ELSE fetch' = "receiving" /\ reply' = "pending" /\ UNCHANGED <<outcome, discarded>>
    /\ UNCHANGED <<redirect, signal, sendVars>>

-----------------------------------------------------------------------------
(* sendBody *)

SendStep(to) == upload' = to /\ UNCHANGED <<fetch, outcome, attempt, reply, discarded, signal, stopped>>

\* The caller's stream answers the read that is pending; a cancelled one is done.
SourceAnswers ==
    /\ upload = "reading"
    /\ \/ source = "open" /\ sent < Chunks /\ SendStep("got") /\ source' = source
       \/ source = "open" /\ SendStep("eof") /\ source' = "closed"
       \/ source = "open" /\ SendStep("threw") /\ source' = "errored"
       \/ source = "cancelled" /\ SendStep("eof") /\ source' = source
    /\ UNCHANGED <<failure, firstChunk, sent, wire>>

TakeChunk ==
    /\ upload = "got"
    /\ SendStep(IF stopped THEN "cancelling" ELSE "writing")
    /\ source' = IF stopped /\ source = "open" THEN "cancelled" ELSE source
    /\ UNCHANGED <<failure, firstChunk, sent, wire>>

\* The transport takes the chunk; the loop goes on to its next read.
Written ==
    /\ upload = "writing" /\ wire # "dropped"
    /\ SendStep(IF stopped THEN "cancelling" ELSE "reading")
    /\ sent' = sent + 1 /\ firstChunk' = TRUE
    /\ UNCHANGED <<failure, source, wire>>

\* The peer has hung up. A write that was stopped is no failure.
WriteFails ==
    /\ upload = "writing"
    /\ SendStep("ended")
    /\ failure' = IF stopped THEN failure ELSE "transport"
    /\ wire' = "dropped"
    /\ UNCHANGED <<firstChunk, sent, source>>

ReadFails ==
    /\ upload = "threw"
    /\ SendStep("ended")
    /\ failure' = IF stopped THEN failure ELSE "source"
    /\ UNCHANGED <<firstChunk, sent, source, wire>>

\* done: finishBody, unless the upload was stopped
Finish ==
    /\ upload = "eof"
    /\ SendStep("ended")
    /\ wire' = IF ~stopped /\ wire = "open" THEN "ended" ELSE wire
    /\ UNCHANGED <<failure, firstChunk, sent, source>>

Cancelled == upload = "cancelling" /\ SendStep("ended") /\ UNCHANGED <<failure, firstChunk, sent, source, wire>>

\* bodyState is filled in one job after sendBody has settled.
BodySettles == upload = "ended" /\ SendStep("settled") /\ UNCHANGED <<failure, firstChunk, sent, source, wire>>

-----------------------------------------------------------------------------
(* The signal and the host *)

\* onSignalAbort, then with_abort_signal's own listener, which drops the request
Abort ==
    /\ signal = "live" /\ fetch # "done"
    /\ signal' = "aborted"
    /\ IF fetch = "idle" THEN UNCHANGED <<stopped, source, wire, reply>>
       ELSE /\ stopped' = (stopped \/ hops = 0)
            /\ source' = IF hops = 0 THEN StoppedSource ELSE source
            /\ reply' = IF reply = "pending" THEN "aborted" ELSE reply
            /\ wire' = IF reply = "pending" /\ StoppedWire = "open" THEN "dropped" ELSE StoppedWire
    /\ UNCHANGED <<fetch, outcome, attempt, discarded, sendVars>>

\* A server may answer before it has read the body, and need not answer at all
\* until it has.
Answers ==
    /\ fetch = "receiving" /\ reply = "pending"
    /\ reply' \in Heads \cup {"failed"}
    /\ UNCHANGED <<fetch, outcome, attempt, discarded, signal, stopped, sendVars, source, wire>>

FetchNext ==
    \/ Refuse \/ Send \/ ReceiveFails \/ Receive \/ Uploaded
    \/ SourceFailed \/ RedirectEnds \/ Follow
    \/ SourceAnswers \/ TakeChunk \/ Written \/ WriteFails \/ ReadFails
    \/ Finish \/ Cancelled \/ BodySettles
    \/ Abort \/ Answers

\* The event loop runs every ready job and the host ends every write; nothing
\* says when the source or the server answers.
FetchFairness ==
    /\ WF_FetchVars(ReceiveFails \/ Receive \/ Uploaded \/ SourceFailed \/ RedirectEnds \/ Follow)
    /\ WF_FetchVars(TakeChunk \/ ReadFails \/ Finish \/ Cancelled \/ BodySettles)
    /\ WF_FetchVars(Written \/ WriteFails)
    /\ WF_FetchVars(source = "cancelled" /\ SourceAnswers)

FetchSpec == FetchInit /\ [][FetchNext]_FetchVars /\ FetchFairness

-----------------------------------------------------------------------------
(* Properties *)

\* A caller whose signal was aborted before fetch settled never gets a body:
\* the promise is rejected, or the response it resolves with is discarded.
AbortWins ==
    fetch = "done" /\ signal = "aborted" /\ outcome \in {"response", "opaque"} => discarded

\* fetch resolves with a final response only if the whole body went out: the
\* source was read to its end and the transport took every chunk.
ResolvesAfterUpload ==
    outcome = "response" /\ reply = "ok" /\ hops = 0 /\ HasBody =>
        source = "closed" /\ failure = "none" /\ wire \in {"ended", "dropped"}

\* "A source failure is authoritative even if the server has already sent the
\* redirect" (http.js): if nothing was written before it, no redirect is followed.
SourceFailureIsFatal ==
    failure = "source" /\ ~firstChunk =>
        hops = 0 /\ outcome \in {"none", "source", "aborted", "network"}

\* Whenever fetch is over its upload ends too, and the caller's stream is unlocked.
UploadEnds == []<>(fetch = "done" => upload \in {"off", "settled"})

\* An aborted fetch settles, whatever the server and the source do.
AbortSettles == []<>(signal = "aborted" => fetch \in {"idle", "done"})

\* The promise of fetch() never says more than what happened: an abort, a body that did
\* not go out whole and a source that failed are all told.
FetchInv == FetchTypeOK /\ AbortWins /\ ResolvesAfterUpload /\ SourceFailureIsFatal
=============================================================================
