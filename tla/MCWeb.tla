-------------------------------- MODULE MCWeb --------------------------------
(***************************************************************************)
(* What a program sends and answers: fetch(), the body of its response, a  *)
(* request of node:http and its response, the connections of its server,   *)
(* the WebSocket and the MessagePort, and the asynchronous exports and     *)
(* component streams of the runtime below them, each with the actors of    *)
(* its own. They share no state, and a behaviour runs one of them.         *)
(***************************************************************************)
EXTENDS Fetch, ResponseBody, HttpPipeline, WebSocket, MessagePorts, AsyncExports, ComponentStream,
        ClientRequest, ClientResponse

VARIABLE part

FetchingVars == <<FetchVars, BodyVars>>
HttpVars == <<PipelineVars, RequestVars, ReplyVars>>
MessageVars == <<SocketVars, PortVars>>
RuntimeVars == <<ExportVars, StreamVars>>

Parts == {"fetch", "body", "pipeline", "request", "reply", "websocket", "ports", "exports",
          "stream"}

\* A component that does not run starts in one of its states.
WebInit ==
    /\ part \in Parts
    /\ FetchInit /\ BodyInit /\ PipelineInit /\ RequestInit /\ ReplyInit /\ WebSocketInit
    /\ PortsInit /\ ExportsInit /\ StreamInit
    /\ part = "fetch" \/ (redirect = "error" /\ method = "GET" /\ signal = "none")
    /\ part = "pipeline" \/ ~httpAllowHalfOpen
    /\ part = "request" \/ special = "plain"
    /\ (part = "request" /\ special # "lookup") \/ reacts = {}
    /\ part = "reply" \/ (total = 0 /\ ending = "end")
    /\ part = "exports" \/ (~restored /\ \A w \in Writers : kind[w] = "stream")
    /\ kind[CHOOSE w \in Writers : TRUE] = "stream"  \* two futures are left out

WebNext ==
    \/ /\ UNCHANGED <<part, HttpVars, MessageVars, RuntimeVars>>
       /\ \/ part = "fetch" /\ FetchNext /\ UNCHANGED BodyVars
          \/ part = "body" /\ BodyNext /\ UNCHANGED FetchVars
    \/ /\ UNCHANGED <<part, FetchingVars, MessageVars, RuntimeVars>>
       /\ \/ part = "pipeline" /\ PipelineNext /\ UNCHANGED <<RequestVars, ReplyVars>>
          \/ part = "request" /\ RequestNext /\ UNCHANGED <<PipelineVars, ReplyVars>>
          \/ part = "reply" /\ ReplyNext /\ UNCHANGED <<PipelineVars, RequestVars>>
    \/ /\ UNCHANGED <<part, FetchingVars, HttpVars, RuntimeVars>>
       /\ \/ part = "websocket" /\ WebSocketNext /\ UNCHANGED PortVars
          \/ part = "ports" /\ PortsNext /\ UNCHANGED SocketVars
    \/ /\ UNCHANGED <<part, FetchingVars, HttpVars, MessageVars>>
       /\ \/ part = "exports" /\ ExportsNext /\ UNCHANGED StreamVars
          \/ part = "stream" /\ StreamNext /\ UNCHANGED ExportVars

\* Each component's own fairness; none of its actions is enabled in the first state of a
\* component that does not run.
WebSpec ==
    /\ WebInit
    /\ [][WebNext]_<<part, FetchingVars, HttpVars, MessageVars, RuntimeVars>>
    /\ FetchFairness /\ BodyFairness /\ PipelineFairness /\ RequestFairness /\ ReplyFairness
    /\ WF_SocketVars(Connects) /\ WF_SocketVars(BlobRead)
    /\ WF_PortVars(RunMicrotasks)
    /\ ExportsFairness /\ StreamFairness

-----------------------------------------------------------------------------
(* Properties *)

\* Messages arrive in the order they were given, each once, and before the end that was
\* asked for after them: the body of a request and its one outcome, the body of its
\* response, pipelined responses, a WebSocket's queue, what is posted to a port, and the
\* items of a component stream.
MessagesInv == RequestInv /\ ReplyInv /\ PipelineInv /\ WebSocketInv /\ PortsInv /\ StreamInv

\* Nobody waits for ever: uploads end, an aborted fetch settles, reads and cancels of a
\* body are answered, a request of node:http closes and its response is read to the end,
\* every response of a connection goes out and idle connections end,
\* a closing WebSocket closes, what is posted to a port arrives, a call of an export
\* enters, returns and releases its driver, and the pulls of a component stream are
\* answered and its producer ends with its consumer.
WebAnswers ==
    /\ UploadEnds /\ AbortSettles
    /\ ReadsAnswered /\ CancelResolves
    /\ RequestCloses /\ DrainOnceEnded /\ ReplyFinishes
    /\ EveryResponseOut /\ IdleConnectionsEnd
    /\ ClosingEnds /\ PostsArrive
    /\ CallsSettle /\ StreamSettles
=============================================================================
