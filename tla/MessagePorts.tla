----------------------------- MODULE MessagePorts -----------------------------
(***************************************************************************)
(* The two ports of a MessageChannel (runtime/builtin/worker_threads.js):  *)
(* a queue for each, a microtask that drains it, and close(), which cuts   *)
(* both off at once and tells them in a microtask. Microtasks run in the   *)
(* order they were queued; the program acts in any of them, in the         *)
(* listeners that a drain calls, and between them.                         *)
(***************************************************************************)
EXTENDS Integers, SequencesExt

CONSTANTS
    Port1, Port2,
    Posts     \* bound on the messages to a port

ASSUME PortsAssumption == Port1 # Port2 /\ "none" \notin {Port1, Port2} /\ Posts \in Nat

Ports == {Port1, Port2}
Other(p) == IF p = Port1 THEN Port2 ELSE Port1

VARIABLES
    deposited,    \* messages each port has been given, numbered in order
    portQueue,    \* #queue
    draining,     \* #draining
    disentangled, \* #pendingClose, of both ports
    microtasks,   \* <<"drain" or "close", port>>
    activeDrain,  \* the port whose drain is running, or "none"
    delivered,    \* what its listeners were called with
    told,         \* the ports whose 'close' was emitted
    threw         \* the ports with a listener that threw

PortVars == <<deposited, portQueue, draining, disentangled, microtasks, activeDrain, delivered,
              told, threw>>

Tasks == {"drain", "close"} \X Ports

PortsTypeOK ==
    /\ deposited \in [Ports -> 0..Posts] /\ portQueue \in [Ports -> Seq(1..Posts)]
    /\ draining \in [Ports -> BOOLEAN] /\ disentangled \in BOOLEAN
    /\ microtasks \in Seq(Tasks) /\ activeDrain \in {"none"} \cup Ports
    /\ delivered \in [Ports -> Seq(1..Posts)] /\ told \subseteq Ports /\ threw \subseteq Ports
    /\ \A p \in Ports : draining[p] <=>
          p \in threw \/ activeDrain = p \/ <<"drain", p>> \in ToSet(microtasks)

PortsInit ==
    /\ deposited = [p \in Ports |-> 0] /\ portQueue = [p \in Ports |-> <<>>]
    /\ draining = [p \in Ports |-> FALSE] /\ disentangled = FALSE /\ microtasks = <<>>
    /\ activeDrain = "none" /\ delivered = [p \in Ports |-> <<>>] /\ told = {} /\ threw = {}

-----------------------------------------------------------------------------
Enqueue(job) == Append(microtasks, job)

First(q) == Head(q)

\* Nothing more to deliver
IsDrained(p) == portQueue[p] = <<>>

\* The first message to a port whose queue is not being drained queues a drain.
Deposit(p) ==
    IF draining[p] THEN draining' = draining /\ microtasks' = microtasks
    ELSE draining' = [draining EXCEPT ![p] = TRUE] /\ microtasks' = Enqueue(<<"drain", p>>)

\* postMessage() on the other port
Post(p) ==
    /\ ~disentangled /\ deposited[p] < Posts
    /\ deposited' = [deposited EXCEPT ![p] = @ + 1]
    /\ portQueue' = [portQueue EXCEPT ![p] = Append(@, deposited'[p])]
    /\ Deposit(p)
    /\ UNCHANGED <<disentangled, activeDrain, delivered, told, threw>>

\* close() on port p: neither port takes another message.
ClosePort(p) ==
    /\ ~disentangled /\ disentangled' = TRUE
    /\ microtasks' = Enqueue(<<"close", p>>)
    /\ UNCHANGED <<deposited, portQueue, draining, activeDrain, delivered, told, threw>>

StartDrain ==
    /\ activeDrain = "none" /\ microtasks # <<>> /\ Head(microtasks)[1] = "drain"
    /\ activeDrain' = Head(microtasks)[2] /\ microtasks' = Tail(microtasks)
    /\ UNCHANGED <<deposited, portQueue, draining, disentangled, delivered, told, threw>>

\* One turn of the drain: the listeners get a message, and may throw.
Deliver ==
    LET p == activeDrain
    IN  /\ p # "none" /\ portQueue[p] # <<>>
        /\ delivered' = [delivered EXCEPT ![p] = Append(@, First(portQueue[p]))]
        /\ portQueue' = [portQueue EXCEPT ![p] = Tail(@)]
        /\ \/ UNCHANGED <<activeDrain, threw>>
           \/ activeDrain' = "none" /\ threw' = threw \cup {p}
        /\ UNCHANGED <<deposited, draining, disentangled, microtasks, told>>

EndDrain ==
    /\ activeDrain # "none" /\ IsDrained(activeDrain)
    /\ draining' = [draining EXCEPT ![activeDrain] = FALSE] /\ activeDrain' = "none"
    /\ UNCHANGED <<deposited, portQueue, disentangled, microtasks, delivered, told, threw>>

\* 'close' on the port that was closed and then on the other, unless a listener throws.
TellClosed ==
    /\ activeDrain = "none" /\ microtasks # <<>> /\ Head(microtasks)[1] = "close"
    /\ LET p == Head(microtasks)[2]
       IN  told' = told \cup {p} \/ told' = told \cup {p, Other(p)}
    /\ microtasks' = Tail(microtasks)
    /\ UNCHANGED <<deposited, portQueue, draining, disentangled, activeDrain, delivered, threw>>

RunMicrotasks == StartDrain \/ Deliver \/ EndDrain \/ TellClosed

PortsNext == RunMicrotasks \/ \E p \in Ports : Post(p) \/ ClosePort(p)

\* Microtasks run.
PortsSpec == PortsInit /\ [][PortsNext]_PortVars /\ WF_PortVars(RunMicrotasks)

-----------------------------------------------------------------------------
(* Properties *)

\* A port's listeners get its messages in the order they were posted.
DeliveredInOrder ==
    \A p \in Ports : delivered[p] = [k \in 1..Len(delivered[p]) |-> k]

\* 'close' is the last event: what was posted before close() has been delivered by then,
\* on both ports, as long as no listener throws.
DrainedBeforeClose ==
    told # {} => \A p \in Ports \ threw : Len(delivered[p]) = deposited[p]

\* Every message is delivered, close() or not, as long as no listener throws.
PostsArrive ==
    \A p \in Ports : []<>(Len(delivered[p]) = deposited[p] \/ p \in threw)

\* "Already-queued messages must still drain after close()": when both ports were told,
\* nothing is left in a queue.
QueuedStillDrain == told = Ports => \A p \in Ports : portQueue[p] = <<>>

\* A port delivers what was posted to it, in order, and only then says that it is closed.
PortsInv == PortsTypeOK /\ DeliveredInOrder /\ DrainedBeforeClose
=============================================================================
