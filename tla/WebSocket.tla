------------------------------ MODULE WebSocket ------------------------------
(***************************************************************************)
(* A WebSocket (runtime/builtin/websocket.js): the connection that the     *)
(* constructor leaves to a microtask, the queue of messages in which a blob*)
(* has to be read before it and what follows can be sent, a close() that   *)
(* waits for that queue, and the loop that receives.                       *)
(*                                                                         *)
(* A drain of the queue runs without a break up to the next blob, so the   *)
(* queue is empty between two steps unless a blob is being read.           *)
(***************************************************************************)
EXTENDS Integers, SequencesExt

CONSTANT Messages  \* bound on the calls of send()

ASSUME MessagesAssumption == Messages \in Nat

VARIABLES
    readyState,
    connectJob,   \* the microtask of the constructor
    connected,    \* _connection
    accepted,     \* messages that send() has taken, numbered in order
    blobs,        \* those that are blobs
    reading,      \* the blob whose bytes the drain awaits; 0: none. _sendPending
    sendQueue,    \* what comes after it
    pendingClose,
    sentMessages, \* what the connection was given
    farewell,     \* the connection was closed by us
    receiving,    \* receive() is pending
    closedFirst,  \* close() was called before the connection was made
    opens, closes \* 'open' and 'close' events

drain == <<accepted, blobs, reading, sendQueue, sentMessages>>
SocketVars == <<readyState, connectJob, connected, drain, pendingClose, farewell, receiving,
                closedFirst, opens, closes>>

States == {"none", "CONNECTING", "OPEN", "CLOSING", "CLOSED"}

WebSocketTypeOK ==
    /\ readyState \in States /\ accepted \in 0..Messages
    /\ {connectJob, connected, pendingClose, farewell, receiving, closedFirst} \subseteq BOOLEAN
    /\ blobs \subseteq 1..accepted /\ reading \in 0..accepted
    /\ sendQueue \in Seq(1..accepted) /\ (reading = 0 => sendQueue = <<>>)
    /\ sentMessages \in Seq(1..accepted)
    /\ opens \in 0..1 /\ closes \in 0..2
    /\ (readyState = "OPEN" => connected)

WebSocketInit ==
    /\ readyState = "none" /\ connectJob = FALSE /\ connected = FALSE
    /\ accepted = 0 /\ blobs = {} /\ reading = 0 /\ sendQueue = <<>> /\ sentMessages = <<>>
    /\ pendingClose = FALSE /\ farewell = FALSE /\ receiving = FALSE
    /\ closedFirst = FALSE /\ opens = 0 /\ closes = 0

-----------------------------------------------------------------------------
(* Closing *)

\* 'close', unless the socket is closed already.
Told == closes' = IF readyState = "CLOSED" THEN closes ELSE closes + 1

\* _finishClose
FinishClose ==
    /\ readyState' = "CLOSED" /\ connected' = FALSE /\ pendingClose' = FALSE
    /\ farewell' = (farewell \/ connected) /\ closes' = closes + 1

\* The drain is over.
Drained == IF pendingClose THEN FinishClose
           ELSE UNCHANGED <<readyState, connected, pendingClose, farewell, closes>>

\* The drain throws: the queue and the connection are dropped.
DrainFails ==
    /\ reading' = 0 /\ sendQueue' = <<>> /\ pendingClose' = FALSE
    /\ readyState' = "CLOSED" /\ connected' = FALSE /\ Told /\ farewell' = farewell

-----------------------------------------------------------------------------
(* Sending *)

\* The first blob of the queue from this place on, or the end of the queue
Stop(queue, from) ==
    CHOOSE k \in from..Len(queue) + 1 :
        /\ k = Len(queue) + 1 \/ queue[k] \in blobs'
        /\ \A l \in from..k - 1 : queue[l] \notin blobs'

Left(queue, from) == SubSeq(queue, from, Len(queue))

\* _drainSendQueue from a queue whose first from - 1 messages are not (or no longer) blobs:
\* everything before the next blob is sent, unless the connection is gone or refuses one.
DrainQueue(queue, from) ==
    LET stop == Stop(queue, from)
    IN  \/ /\ connected /\ readyState # "CLOSED"
           /\ sentMessages' = sentMessages \o SubSeq(queue, 1, stop - 1)
           /\ IF stop <= Len(queue)
              THEN /\ reading' = queue[stop] /\ sendQueue' = Left(queue, stop + 1)
                   /\ UNCHANGED <<readyState, connected, pendingClose, farewell, closes>>
              ELSE reading' = 0 /\ sendQueue' = <<>> /\ Drained
        \/ /\ connected /\ readyState # "CLOSED"
           /\ \E n \in 0..stop - 2 : sentMessages' = sentMessages \o SubSeq(queue, 1, n)
           /\ DrainFails
        \/ /\ ~connected \/ readyState = "CLOSED"
           /\ stop > 1 /\ UNCHANGED sentMessages /\ DrainFails

Busy == reading # 0

\* send(): while the socket is CLOSING or CLOSED the message is dropped.
SendMessage ==
    LET i == accepted + 1
    IN  /\ readyState = "OPEN" /\ accepted < Messages /\ accepted' = i
        /\ blobs' \in {blobs, blobs \cup {i}}
        /\ IF Busy
           THEN /\ sendQueue' = Append(sendQueue, i)
                /\ UNCHANGED <<reading, sentMessages, readyState, connected, pendingClose, farewell, closes>>
           ELSE DrainQueue(<<i>>, 1)
        /\ UNCHANGED <<connectJob, receiving, closedFirst, opens>>

\* The bytes of the blob are there, or cannot be read.
BlobRead ==
    /\ reading # 0
    /\ UNCHANGED <<accepted, blobs, connectJob, receiving, closedFirst, opens>>
    /\ \/ DrainQueue(<<reading>> \o sendQueue, 2)
       \/ UNCHANGED sentMessages /\ DrainFails

-----------------------------------------------------------------------------
(* The life of the socket *)

Construct ==
    /\ readyState = "none" /\ readyState' = "CONNECTING" /\ connectJob' = TRUE
    /\ UNCHANGED <<connected, drain, pendingClose, farewell, receiving, closedFirst, opens, closes>>

\* _connectAsync, whatever the state is by now: a socket that was closed meanwhile opens.
Connects ==
    /\ connectJob /\ connectJob' = FALSE /\ closedFirst' = (readyState = "CLOSED")
    /\ \/ /\ connected' = TRUE /\ readyState' = "OPEN" /\ opens' = opens + 1
          /\ receiving' = TRUE /\ closes' = closes
       \/ /\ readyState' = "CLOSED" /\ closes' = closes + 1
          /\ UNCHANGED <<connected, opens, receiving>>
    /\ UNCHANGED <<drain, pendingClose, farewell>>

\* close(): now, or when the queue is empty.
CloseSocket ==
    /\ readyState \in {"CONNECTING", "OPEN"}
    /\ IF Busy
       THEN /\ readyState' = "CLOSING" /\ pendingClose' = TRUE
            /\ UNCHANGED <<connected, farewell, closes>>
       ELSE FinishClose
    /\ UNCHANGED <<connectJob, drain, receiving, closedFirst, opens>>

\* receive() returns a message: the loop goes on while the socket is OPEN.
ReceiveMessage ==
    /\ receiving /\ receiving' = (readyState = "OPEN")
    /\ UNCHANGED <<readyState, connectJob, connected, drain, pendingClose, farewell, closedFirst,
                   opens, closes>>

\* The peer's close, or an error. The connection is kept, for the drain to find it closed.
ReceiveEnd ==
    /\ receiving /\ receiving' = FALSE /\ readyState' = "CLOSED" /\ Told
    /\ UNCHANGED <<connectJob, connected, drain, pendingClose, farewell, closedFirst, opens>>

WebSocketNext ==
    \/ Construct \/ Connects \/ SendMessage \/ BlobRead \/ CloseSocket
    \/ ReceiveMessage \/ ReceiveEnd

\* The engine turns and a blob is read or fails.
WebSocketSpec == WebSocketInit /\ [][WebSocketNext]_SocketVars
                 /\ WF_SocketVars(Connects) /\ WF_SocketVars(BlobRead)

-----------------------------------------------------------------------------
(* Properties *)

\* Messages go out in the order of the calls, each once and none left out, however long the
\* blob of an earlier call takes to read.
SentInOrder == sentMessages = [k \in 1..Len(sentMessages) |-> k]

\* Whoever closes the socket after sending has sent: the connection is closed by close()
\* only when it was given every message that send() took.
SentBeforeClose == farewell => Len(sentMessages) = accepted

\* The program is told once that the socket is closed, whether it, the peer, or a failure
\* closed it first. (One that was closed before it opened is told again, by Connects.)
ToldOnce == closes > 1 => closedFirst

\* close() is not forgotten.
ClosingEnds == []<>(readyState # "CLOSING")

\* Messages and the goodbye leave a WebSocket in the order of the program's calls.
WebSocketInv == WebSocketTypeOK /\ SentInOrder /\ SentBeforeClose /\ ToldOnce
=============================================================================
