------------------------------- MODULE Datagram -------------------------------
(***************************************************************************)
(* A socket of node:dgram (runtime/builtin/dgram.js over dgram.rs). It     *)
(* binds by itself at the first send() or connect(), which wait in a queue *)
(* until it is bound. A loop reads datagrams; connect(), disconnect() and  *)
(* close() cannot stop a read that waits, they raise a token, and the old  *)
(* loop finds out when its read is answered.                               *)
(*                                                                         *)
(* One step is one job or one call of the program. Datagrams that arrive   *)
(* are numbered, addresses are left out.                                   *)
(***************************************************************************)
EXTENDS Integers, SequencesExt, FiniteSets

CONSTANTS
    Messages,   \* the calls of send()
    Arrivals,   \* datagrams that arrive
    MaxConnects \* bound on the calls of connect()

ASSUME DatagramAssumption ==
    /\ Arrivals \in Nat /\ MaxConnects \in Nat /\ "connect" \notin Messages

VARIABLES
    udp,      \* the Socket, between two jobs
    sends,    \* of each message: where its send() is
    read,     \* datagrams that reads have taken from the host
    connects  \* calls of connect() so far

DatagramVars == <<udp, sends, read, connects>>

DatagramTypeOK ==
    /\ udp \in [open : BOOLEAN, bindState : {"unbound", "binding", "bound"},
                binding : {"no", "lookup", "host"}, listening : BOOLEAN,
                connectState : {"disconnected", "connecting", "connected"},
                connecting : {"no", "lookup", "queued", "host", "lost"},
                queue : Seq(Messages \cup {"connect"}), token : Nat, loops : SUBSET Nat,
                deaf : BOOLEAN, heard : Seq(1..Arrivals)]
    /\ sends \in [Messages -> {"new", "queued", "lookup", "host", "done", "failed", "lost"}]
    /\ read \in 0..Arrivals /\ connects \in 0..MaxConnects

DatagramInit ==
    /\ udp = [open |-> TRUE, bindState |-> "unbound", binding |-> "no", listening |-> FALSE,
              connectState |-> "disconnected", connecting |-> "no", queue |-> <<>>,
              token |-> 0, loops |-> {}, deaf |-> FALSE, heard |-> <<>>]
    /\ sends = [m \in Messages |-> "new"] /\ read = 0 /\ connects = 0

-----------------------------------------------------------------------------
(* A broken variant, for StreamsInv to catch. No specification uses it. *)

\* The socket counts as bound once bind() is called.
BoundAtOnce(s, how) == [s EXCEPT !.bindState = "bound", !.binding = how]

-----------------------------------------------------------------------------
(* The queue and the loop *)

\* _doBind, of an address or of a name to look up; a closed socket has no handle for it.
DoBind(s, how) ==
    IF s.open THEN [s EXCEPT !.bindState = "binding", !.binding = how]
    ELSE [s EXCEPT !.bindState = "binding"]

\* send() and connect() of a socket that is not bound
Enqueue(s, job) ==
    LET queued == [s EXCEPT !.queue = Append(@, job)]
    IN  IF s.bindState = "unbound" THEN DoBind(queued, "host") ELSE queued

\* The jobs of a queue that is dropped are never heard of again.
LoseQueue(s) ==
    [s EXCEPT !.queue = <<>>,
              !.connecting = IF Contains(s.queue, "connect") THEN "lost" ELSE @]
SendsLost(s) == [m \in Messages |-> IF Contains(s.queue, m) THEN "lost" ELSE sends[m]]

\* _startReceiving: the loop's first read is asked for at once.
StartReceiving(s) ==
    LET next == s.token + 1
    IN  [s EXCEPT !.token = next, !.loops = IF s.open THEN @ \cup {next} ELSE @,
                  !.deaf = FALSE]

\* doConnect, up to its await
StartConnect(s) == [s EXCEPT !.token = @ + 1, !.connecting = "host"]

-----------------------------------------------------------------------------
(* The program *)

\* bind()
Bind ==
    /\ udp.open /\ udp.bindState = "unbound" /\ UNCHANGED <<sends, read, connects>>
    /\ \E how \in {"lookup", "host"} : udp' = DoBind(udp, how)

\* send(), to an address, to a name, or to the peer of a connected socket
Send(m) ==
    /\ udp.open /\ sends[m] = "new" /\ UNCHANGED <<read, connects>>
    /\ \/ /\ udp.bindState = "bound" /\ udp' = udp
          /\ \E how \in {"lookup", "host"} :
               /\ udp.connectState = "connected" => how = "host"
               /\ sends' = [sends EXCEPT ![m] = how]
       \/ /\ udp.bindState # "bound" /\ udp' = Enqueue(udp, m)
          /\ sends' = [sends EXCEPT ![m] = "queued"]

\* performConnect
ConnectOrQueue(s) ==
    IF s.bindState = "bound" THEN StartConnect(s)
    ELSE Enqueue([s EXCEPT !.connecting = "queued"], "connect")

\* connect()
ConnectUdp ==
    /\ udp.open /\ udp.connectState = "disconnected" /\ connects < MaxConnects
    /\ connects' = connects + 1 /\ UNCHANGED <<sends, read>>
    /\ LET begun == [udp EXCEPT !.connectState = "connecting"]
       IN  udp' = ConnectOrQueue(begun) \/ udp' = [begun EXCEPT !.connecting = "lookup"]

\* disconnect()
Disconnect ==
    /\ udp.open /\ udp.connectState = "connected" /\ UNCHANGED <<sends, read, connects>>
    /\ LET off == [udp EXCEPT !.token = @ + 1, !.connectState = "disconnected"]
       IN  udp' = IF udp.bindState = "bound" THEN StartReceiving(off) ELSE off

\* close()
Closed(s) ==
    [LoseQueue(s) EXCEPT !.open = FALSE, !.token = @ + 1, !.bindState = "unbound",
                         !.connectState = "disconnected"]
CloseUdp ==
    /\ udp.open /\ udp' = Closed(udp) /\ sends' = SendsLost(udp) /\ UNCHANGED <<read, connects>>

-----------------------------------------------------------------------------
(* The jobs *)

\* A queued job starts: a send, to an address or a name, or the connect.
RunConnect(s, queue) ==
    IF Contains(queue, "connect") THEN StartConnect(s) ELSE s

\* bind() is settled. A 'listening' listener may close the socket before the queue runs; its
\* connect() counts as one that comes right after it.
BindSettles ==
    LET bound == StartReceiving([udp EXCEPT !.bindState = "bound", !.binding = "no",
                                            !.listening = TRUE])
        fails == [LoseQueue(udp) EXCEPT !.bindState = "unbound", !.binding = "no"]
    IN  /\ udp.binding = "host" /\ UNCHANGED <<read, connects>>
        /\ \/ ~udp.open /\ udp' = [udp EXCEPT !.binding = "no"] /\ sends' = sends
           \/ /\ udp.open /\ udp' = RunConnect([bound EXCEPT !.queue = <<>>], bound.queue)
              /\ \E how \in [Messages -> {"lookup", "host"}] :
                   sends' = [m \in Messages |->
                                IF Contains(bound.queue, m) THEN how[m] ELSE sends[m]]
           \/ udp.open /\ udp' = Closed(bound) /\ sends' = SendsLost(bound)
           \/ udp' = fails /\ sends' = SendsLost(udp)

\* The name of bind() is looked up. A socket that was closed has no handle to go on with.
BindLookup ==
    LET fails == [LoseQueue(udp) EXCEPT !.bindState = "unbound", !.binding = "no"]
    IN  /\ udp.binding = "lookup" /\ UNCHANGED <<read, connects>>
        /\ \/ udp.open /\ udp' = [udp EXCEPT !.binding = "host"] /\ sends' = sends
           \/ udp' = fails /\ sends' = SendsLost(udp)

\* The name of connect() is looked up, or not found.
ConnectLookup ==
    /\ udp.connecting = "lookup" /\ UNCHANGED <<sends, read, connects>>
    /\ \/ udp' = ConnectOrQueue(udp)
       \/ udp' = [udp EXCEPT !.connecting = "no", !.connectState = "disconnected"]

\* The native connect() is settled, perhaps after close(). One that fails starts no loop.
ConnectSettled ==
    /\ udp.connecting = "host" /\ UNCHANGED <<sends, read, connects>>
    /\ LET over == [udp EXCEPT !.connecting = "no"]
       IN  \/ udp' = StartReceiving([over EXCEPT !.connectState = "connected"])
           \/ udp' = [over EXCEPT !.connectState = "disconnected", !.deaf = TRUE]

\* A send() goes on: a name is looked up, the host has it, or it fails. Its callback is
\* called with the outcome.
SendGoesOn(m) ==
    /\ UNCHANGED <<udp, read, connects>>
    /\ \/ sends[m] = "lookup" /\ udp.open /\ sends' = [sends EXCEPT ![m] = "host"]
       \/ sends[m] \in {"lookup", "host"} /\ sends' = [sends EXCEPT ![m] = "failed"]
       \/ sends[m] = "host" /\ sends' = [sends EXCEPT ![m] = "done"]

\* A read has a datagram. An old loop drops it, and ends.
Received(t) ==
    /\ t \in udp.loops /\ read < Arrivals /\ read' = read + 1 /\ UNCHANGED <<sends, connects>>
    /\ udp' = IF t = udp.token THEN [udp EXCEPT !.heard = Append(@, read')]
              ELSE [udp EXCEPT !.loops = @ \ {t}]

\* A read fails: the loop ends, and no other starts.
ReceiveFails(t) ==
    /\ t \in udp.loops /\ UNCHANGED <<sends, read, connects>>
    /\ udp' = [udp EXCEPT !.loops = @ \ {t}, !.deaf = @ \/ t = udp.token]

DatagramRuns ==
    \/ BindSettles \/ BindLookup \/ ConnectLookup \/ ConnectSettled
    \/ \E m \in Messages : SendGoesOn(m)

DatagramNext ==
    \/ Bind \/ ConnectUdp \/ Disconnect \/ CloseUdp \/ DatagramRuns
    \/ \E m \in Messages : Send(m)
    \/ \E t \in udp.loops : Received(t) \/ ReceiveFails(t)

\* The host answers every call but a read.
DatagramFairness ==
    /\ WF_DatagramVars(BindSettles) /\ WF_DatagramVars(BindLookup)
    /\ WF_DatagramVars(ConnectLookup) /\ WF_DatagramVars(ConnectSettled)
    /\ \A m \in Messages : WF_DatagramVars(SendGoesOn(m))

DatagramSpec == DatagramInit /\ [][DatagramNext]_DatagramVars /\ DatagramFairness

-----------------------------------------------------------------------------
(* Properties *)

\* A socket that is bound listens: while no connect() is on its way and after none that
\* failed, there is a loop with the current token, and it has a read that waits.
ListensWhileBound ==
    udp.bindState = "bound" /\ udp.connectState # "connecting" /\ ~udp.deaf =>
        udp.token \in udp.loops

\* However loops overlap, 'message' comes in the order of arrival, and a change of loops
\* costs one datagram at most.
HeardInOrder ==
    /\ \A i, j \in DOMAIN udp.heard : i < j => udp.heard[i] < udp.heard[j]
    /\ read - Len(udp.heard) <= udp.token - Cardinality(udp.loops)

\* Nothing is sent and nobody is connected before the socket is bound.
BoundFirst ==
    udp.open /\ udp.bindState # "bound" =>
        /\ \A m \in Messages : sends[m] \in {"new", "queued", "lost"}
        /\ udp.connecting # "host" /\ udp.connectState # "connected"

\* A queue has somebody to run it: bind() is on its way.
QueueIsRun == udp.open /\ udp.queue # <<>> => udp.binding # "no"

DatagramInv == DatagramTypeOK /\ ListensWhileBound /\ HeardInOrder /\ BoundFirst /\ QueueIsRun

\* After close() there is no 'message' and no 'listening'.
QuietAfterClose ==
    [][~udp.open => udp'.heard = udp.heard /\ udp'.listening = udp.listening]_DatagramVars

\* Each send() is answered, unless its queue is dropped.
SendsAnswered == \A m \in Messages : []<>(sends[m] \in {"new", "done", "failed", "lost"})
=============================================================================
