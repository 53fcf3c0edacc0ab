------------------------------ MODULE NetServer ------------------------------
(***************************************************************************)
(* net.Server of runtime/builtin/net.js: the accept loop that listen()     *)
(* starts and close() can only end by connecting to its own listener, the  *)
(* count of its connections, and the 'close' event, which may be due when  *)
(* close() is called, when the loop ends or when the last connection does. *)
(* The server may listen again before the loop of its last listen() is     *)
(* over. A listener of the native side is the number of its listen().      *)
(*                                                                         *)
(* _accepting goes with listening; errors of bind are left out, nothing of *)
(* the server's state changes with them.                                   *)
(***************************************************************************)
EXTENDS Integers, Sequences

CONSTANTS
    Listens,    \* bound on the calls of listen()
    Clients,    \* bound on the clients that connect
    MaxClosing  \* bound on the calls of close()

ASSUME ServerAssumption == Listens \in Nat /\ Clients \in Nat /\ MaxClosing \in Nat

VARIABLES
    \* the server
    listens,        \* calls of listen() so far
    listening, handle, acceptToken, acceptLoopActive, closeRequested,
    connections, unrefed,
    maxConnections, \* 0: no limit
    loops,          \* the accept loops: the token and the listener each awaits
    closeTicks,     \* 'close' events that are due
    \* the world
    live,      \* native listeners that are open
    backlog,   \* what has connected to each listener: "client", "wake"
    waking,    \* listeners that _wakeAcceptLoop connects to
    clients,   \* clients that have connected so far
    \* the program's side
    waiting,   \* callbacks of close() that have not been called
    closes, closeEvents

serving == <<listens, listening, handle, acceptToken, acceptLoopActive, closeRequested>>
world == <<live, backlog, waking, clients>>
ServerVars == <<serving, connections, unrefed, maxConnections, loops, closeTicks, world,
                waiting, closes, closeEvents>>

ServerTypeOK ==
    /\ listening \in BOOLEAN /\ acceptLoopActive \in BOOLEAN /\ closeRequested \in BOOLEAN
    /\ listens \in 0..Listens /\ handle \in 0..Listens /\ acceptToken \in Nat /\ unrefed \in BOOLEAN
    /\ connections \in Nat /\ maxConnections \in Nat
    /\ loops \subseteq [token : 1..acceptToken, handle : 1..Listens]
    /\ live \subseteq 1..Listens /\ waking \subseteq 1..Listens
    /\ backlog \in [1..Listens -> Seq({"client", "wake"})]
    /\ clients \in 0..Clients /\ closes \in Nat /\ waiting \in 0..closes
    /\ closeTicks \in Nat /\ closeEvents \in Nat

ServerInit ==
    /\ listens = 0 /\ listening = FALSE /\ handle = 0 /\ acceptToken = 0
    /\ acceptLoopActive = FALSE /\ closeRequested = FALSE
    /\ connections = 0 /\ maxConnections \in 0..1 /\ unrefed \in BOOLEAN
    /\ loops = {} /\ closeTicks = 0
    /\ live = {} /\ backlog = [h \in 1..Listens |-> <<>>] /\ waking = {} /\ clients = 0
    /\ waiting = 0 /\ closes = 0 /\ closeEvents = 0

-----------------------------------------------------------------------------
(* Broken variants, for the properties to catch. No specification uses them. *)

\* 'close' does not wait for the handle.
CountsConnectionsOnly(isListening, h, count) == ~isListening /\ count = 0

-----------------------------------------------------------------------------
(* Helpers *)

\* _maybeEmitClose
CloseIsDue(isListening, h, count) == ~isListening /\ h = 0 /\ count = 0
Due(isListening, h, count) == IF CloseIsDue(isListening, h, count) THEN 1 ELSE 0

Current(l) == l.token = acceptToken

\* _wakeAcceptLoop: a connection to the listener's own address is started.
Woken == waking \cup {handle}

\* The finally block of a loop that ends, of whichever listen() it is
LoopEnds(l, count) ==
    LET after == IF closeRequested THEN 0 ELSE handle IN
    /\ loops' = loops \ {l}
    /\ acceptLoopActive' = FALSE
    /\ handle' = after /\ live' = IF closeRequested THEN live \ {handle} ELSE live
    /\ closeTicks' = closeTicks + Due(listening, after, count)
    /\ UNCHANGED <<listens, listening, acceptToken, closeRequested>>

-----------------------------------------------------------------------------
(* listen and close *)

Listen ==
    /\ ~listening /\ listens < Listens
    /\ listens' = listens + 1
    /\ handle' = listens' /\ live' = live \cup {listens'}
    /\ listening' = TRUE /\ closeRequested' = FALSE
    /\ acceptToken' = acceptToken + 1 /\ acceptLoopActive' = TRUE
    /\ loops' = loops \cup {[token |-> acceptToken', handle |-> listens']}
    /\ UNCHANGED <<connections, unrefed, maxConnections, closeTicks, backlog, waking, clients,
                   waiting, closes, closeEvents>>

\* close(): a loop that is under way is woken and closes the handle itself. again is
\* what else asks for the 'close' event in the same job.
CloseAt(count, again) ==
    LET after == IF handle # 0 /\ acceptLoopActive THEN handle ELSE 0 IN
    /\ listening' = FALSE /\ acceptToken' = acceptToken + 1 /\ closeRequested' = TRUE
    /\ handle' = after
    /\ live' = IF after = 0 THEN live \ {handle} ELSE live
    /\ waking' = IF after = 0 THEN waking ELSE Woken
    /\ closeTicks' = closeTicks + again * Due(FALSE, after, count)
    /\ closes' = closes + 1
    /\ UNCHANGED <<listens, acceptLoopActive>>

Close ==
    /\ listens > 0 /\ closes < MaxClosing
    /\ CloseAt(connections, 1) /\ waiting' = waiting + 1
    /\ UNCHANGED <<connections, unrefed, maxConnections, loops, backlog, clients, closeEvents>>

\* The 'close' event, with every callback that waits for it
EmitClose ==
    /\ closeTicks > 0
    /\ closeTicks' = closeTicks - 1 /\ closeEvents' = closeEvents + 1 /\ waiting' = 0
    /\ UNCHANGED <<serving, connections, unrefed, maxConnections, loops, world, closes>>

-----------------------------------------------------------------------------
(* _acceptLoop *)

\* Whoever connects to a listener that is open
ClientConnects ==
    /\ clients < Clients /\ clients' = clients + 1
    /\ \E h \in live : backlog' = [backlog EXCEPT ![h] = Append(@, "client")]
    /\ UNCHANGED <<serving, connections, unrefed, maxConnections, loops, closeTicks, live, waking,
                   waiting, closes, closeEvents>>

WakeConnects ==
    /\ \E h \in waking :
         /\ waking' = waking \ {h}
         /\ backlog' = IF h \in live THEN [backlog EXCEPT ![h] = Append(@, "wake")] ELSE backlog
    /\ UNCHANGED <<serving, connections, unrefed, maxConnections, loops, closeTicks, live, clients,
                   waiting, closes, closeEvents>>

\* await this._handle.accept() has the next client, the server's own wake included. A
\* 'connection' listener that throws ends the loop, with the connection counted.
Accepts(l) ==
    /\ l.handle \in live /\ backlog[l.handle] # <<>>
    /\ backlog' = [backlog EXCEPT ![l.handle] = Tail(@)]
    /\ IF ~Current(l)
       THEN LoopEnds(l, connections) /\ connections' = connections
       ELSE IF maxConnections > 0 /\ connections >= maxConnections
       THEN UNCHANGED <<serving, connections, loops, closeTicks, live>>
       ELSE /\ connections' = connections + 1
            /\ \/ UNCHANGED <<serving, loops, closeTicks, live>>
               \/ LoopEnds(l, connections')
    /\ UNCHANGED <<unrefed, maxConnections, waking, clients, waiting, closes, closeEvents>>

\* accept() fails: the listener was closed under it, or the host says so. The loop is
\* over, and the server goes on listening.
AcceptFails(l) ==
    /\ LoopEnds(l, connections)
    /\ UNCHANGED <<connections, unrefed, maxConnections, backlog, waking, clients,
                   waiting, closes, closeEvents>>

\* A connection's 'close' event. The last one of an unref'd server closes it.
SocketCloses ==
    /\ connections > 0 /\ connections' = connections - 1
    /\ IF unrefed /\ connections' = 0 /\ listening
       THEN CloseAt(connections', 2)
       ELSE /\ closeTicks' = closeTicks + Due(listening, handle, connections')
            /\ UNCHANGED <<serving, live, waking, closes>>
    /\ UNCHANGED <<unrefed, maxConnections, loops, backlog, clients, waiting, closeEvents>>

ServerNext ==
    \/ Listen \/ Close \/ EmitClose \/ ClientConnects \/ WakeConnects \/ SocketCloses
    \/ \E l \in loops : Accepts(l) \/ AcceptFails(l)

\* Ticks run, connections end, the server reaches its own address, and the host hands
\* over what has connected and ends the accept of a listener that was closed.
ServerFairness ==
    /\ WF_ServerVars(EmitClose) /\ WF_ServerVars(SocketCloses) /\ WF_ServerVars(WakeConnects)
    /\ WF_ServerVars(\E l \in loops : Accepts(l) \/ (l.handle \notin live /\ AcceptFails(l)))

ServerSpec == ServerInit /\ [][ServerNext]_ServerVars /\ ServerFairness

-----------------------------------------------------------------------------
(* Properties *)

\* A client that is accepted after close(), the server's own wake among them, never
\* becomes a connection, however the loops of two listen() overlap.
NoneAfterClose == [][connections' > connections => listening]_ServerVars

\* What the server counts are clients, and never the connection it makes to itself.
ClientsOnly == connections <= clients

\* The callbacks of close() run once the connections have ended, unless the server is
\* told to listen again before.
CloseHappens == []<>(waiting = 0 \/ listening)

\* A server that nobody unref'd emits 'close' at most once for each call of close(),
\* though three places may ask for it.
OneCloseEach == ~unrefed => closeEvents + closeTicks <= closes

\* Each close() of a server is one 'close'.
ServerInv == ServerTypeOK /\ OneCloseEach
=============================================================================
