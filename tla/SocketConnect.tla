---------------------------- MODULE SocketConnect ----------------------------
(***************************************************************************)
(* Socket.prototype.connect of runtime/builtin/net.js: the lookup, the     *)
(* attempts at each address with their timer (autoSelectFamily), _destroy, *)
(* and connect() again on a destroyed socket. Each call of connect() keeps *)
(* its own addresses, timer and attempt number in a closure; what tells    *)
(* its callbacks that they are late are two flags of the socket, connecting*)
(* and destroyed, that the next call sets back.                            *)
(*                                                                         *)
(* An attempt is <<call, number>>; its native connect goes on after a      *)
(* close() and then fails.                                                 *)
(***************************************************************************)
EXTENDS Integers, FiniteSets

CONSTANTS
    MaxCalls,     \* bound on the calls of connect()
    Addresses  \* the longest answer of a lookup

ASSUME ConnectAssumption == MaxCalls \in Nat /\ Addresses \in Nat \ {0}

VARIABLES
    \* the socket
    call,       \* calls of connect() so far: the last one is the connection's own
    connecting, destroyed,
    connectingHandle, \* an attempt, or None
    connected,  \* the attempt whose handle the socket has, or None
    \* the closure of each call
    stage,      \* "off", "lookup", "single" (doConnect), "list" (doAutoSelectConnect)
    length, active, timer, failed,
    \* the attempts and their native handles
    pending,    \* those whose callback is to come
    six,        \* those at an IPv6 address, which have no handle and fail on a tick
    closed,
    open,       \* those that are connected and not closed
    by          \* the call whose callback destroyed the socket last; 0: destroy()

closure == <<stage, length, active, timer, failed>>
native == <<pending, six, closed, open>>
ConnectVars == <<call, connecting, destroyed, connectingHandle, connected, closure, native, by>>

None == <<0, 0>>
Attempts == (1..MaxCalls) \X (1..Addresses)

ConnectTypeOK ==
    /\ call \in 0..MaxCalls /\ connecting \in BOOLEAN /\ destroyed \in BOOLEAN
    /\ connectingHandle \in Attempts \cup {None} /\ connected \in Attempts \cup {None}
    /\ stage \in [1..MaxCalls -> {"off", "lookup", "single", "list"}]
    /\ length \in [1..MaxCalls -> 0..Addresses] /\ active \in [1..MaxCalls -> 0..Addresses]
    /\ timer \in [1..MaxCalls -> 0..Addresses]  \* the attempt it is for, or 0
    /\ failed \in [1..MaxCalls -> 0..Addresses]
    /\ pending \subseteq Attempts /\ six \subseteq Attempts
    /\ closed \subseteq Attempts /\ open \subseteq Attempts
    /\ by \in 0..MaxCalls

ConnectInit ==
    /\ call = 0 /\ connecting = FALSE /\ destroyed = FALSE
    /\ connectingHandle = None /\ connected = None
    /\ stage = [c \in 1..MaxCalls |-> "off"]
    /\ length = [c \in 1..MaxCalls |-> 0] /\ active = length /\ timer = length /\ failed = length
    /\ pending = {} /\ six = {} /\ closed = {} /\ open = {} /\ by = 0

\* What tells a callback that it comes too late.
Late == ~connecting \/ destroyed

-----------------------------------------------------------------------------
(* Broken variants, for the properties to catch. No specification uses them. *)

\* A handle that connects too late is left open.
LateIsLeft(a) == open' = open \cup {a} /\ closed' = closed

-----------------------------------------------------------------------------
(* destroy *)

\* _destroy closes the handle that connects and the one that is connected. The
\* closures and their timers are left to themselves.
Destroyed(c, ch, shut) ==
    /\ destroyed' = TRUE /\ connecting' = FALSE /\ by' = c
    /\ connectingHandle' = None /\ connected' = None
    /\ closed' = shut \cup ({ch, connected} \ {None})
    /\ open' = open \ {connected}

DestroyConnecting ==
    /\ call > 0 /\ ~destroyed
    /\ Destroyed(0, connectingHandle, closed)
    /\ UNCHANGED <<call, closure, pending, six>>

-----------------------------------------------------------------------------
(* connect *)

\* connectAttempt at address i of n. An attempt at an IPv6 address has no handle.
Try(c, i, n, ch, under) ==
    /\ active' = [active EXCEPT ![c] = i]
    /\ timer' = [timer EXCEPT ![c] = IF i < n THEN i ELSE 0]
    /\ pending' = under \cup {<<c, i>>}
    /\ \/ connectingHandle' = <<c, i>> /\ six' = six
       \/ connectingHandle' = ch /\ six' = six \cup {<<c, i>>}

\* connect(): to an address at once, to a name after its lookup. On a destroyed
\* socket it sets the flags back and starts afresh.
Connect ==
    /\ call < MaxCalls /\ (call = 0 \/ destroyed)
    /\ call' = call + 1
    /\ connecting' = TRUE /\ destroyed' = FALSE /\ connected' = None
    /\ \/ /\ stage' = [stage EXCEPT ![call + 1] = "lookup"]
          /\ UNCHANGED <<length, active, timer, connectingHandle, pending, six>>
       \/ /\ stage' = [stage EXCEPT ![call + 1] = "single"]
          /\ length' = [length EXCEPT ![call + 1] = 1]
          /\ Try(call + 1, 1, 1, connectingHandle, pending)
    /\ UNCHANGED <<failed, closed, open, by>>

\* handleLookupResult with an error: destroy(err), whatever came of the call meanwhile.
LookupFails(c) ==
    /\ stage[c] = "lookup"
    /\ stage' = [stage EXCEPT ![c] = "off"]
    /\ IF destroyed
       THEN connecting' = FALSE /\ UNCHANGED <<destroyed, connectingHandle, connected, closed, open, by>>
       ELSE Destroyed(c, connectingHandle, closed)
    /\ UNCHANGED <<call, length, active, timer, failed, pending, six>>

\* The only address is connected to, those of a list in turn.
LookupAnswers(c) ==
    /\ stage[c] = "lookup"
    /\ \E n \in 1..Addresses :
         IF Late
         THEN stage' = [stage EXCEPT ![c] = "off"]
              /\ UNCHANGED <<length, active, timer, pending, six, connectingHandle>>
         ELSE /\ stage' = [stage EXCEPT ![c] = IF n = 1 THEN "single" ELSE "list"]
              /\ length' = [length EXCEPT ![c] = n]
              /\ Try(c, 1, n, connectingHandle, pending)
    /\ UNCHANGED <<call, connecting, destroyed, connected, failed, closed, open, by>>

-----------------------------------------------------------------------------
(* The callbacks of an attempt *)

\* attemptId = activeAttemptId, of the closure of its own call
IsActive(a) == a[2] = active[a[1]]

Ignored(a) == Late \/ (stage[a[1]] = "list" /\ ~IsActive(a))

\* The catch block, and what comes after a connect, forget the handle that connects,
\* whichever it is by then.
ForgetsHandle(a) == IF a \in six THEN connectingHandle ELSE None

CloseLate(a) == open' = open /\ closed' = closed \cup {a}

\* completeConnection, unless the attempt is ignored
Succeeds(a) ==
    /\ a \in pending \ (closed \cup six)
    /\ pending' = pending \ {a} /\ connectingHandle' = None
    /\ IF Ignored(a)
       THEN CloseLate(a) /\ UNCHANGED <<connecting, connected, timer>>
       ELSE /\ connecting' = FALSE /\ connected' = a
            /\ open' = open \cup {a} /\ closed' = closed
            /\ timer' = [timer EXCEPT ![a[1]] = 0]
    /\ UNCHANGED <<call, destroyed, stage, length, active, failed, six, by>>

\* tryNext: the next address, or the end of the list and of the socket
TryNext(c, ch, under, shut) ==
    IF active[c] = length[c]
    THEN Destroyed(c, ch, shut) /\ pending' = under /\ UNCHANGED <<active, six>>
         /\ timer' = [timer EXCEPT ![c] = 0]
    ELSE Try(c, active[c] + 1, length[c], ch, under) /\ closed' = shut
         /\ UNCHANGED <<connecting, destroyed, connected, open, by>>

\* The native connect fails, as it does in the end when its handle was closed.
Fails(a) ==
    /\ a \in pending
    /\ LET shut == IF a \in six THEN closed ELSE closed \cup {a} IN
       IF Ignored(a)
       THEN /\ pending' = pending \ {a} /\ connectingHandle' = ForgetsHandle(a) /\ closed' = shut
            /\ UNCHANGED <<connecting, destroyed, connected, active, timer, failed, six, open, by>>
       ELSE /\ failed' = [failed EXCEPT ![a[1]] = @ + 1]
            /\ TryNext(a[1], ForgetsHandle(a), pending \ {a}, shut)
    /\ UNCHANGED <<call, stage, length>>

\* The timer of an attempt: it counts as failed, and its connect is left to end.
AttemptTimeout(c) ==
    /\ timer[c] > 0
    /\ IF timer[c] # active[c] \/ Late
       THEN timer' = [timer EXCEPT ![c] = 0]
            /\ UNCHANGED <<connecting, destroyed, connectingHandle, connected, active, failed, native, by>>
       ELSE failed' = [failed EXCEPT ![c] = @ + 1]
            /\ TryNext(c, connectingHandle, pending, closed)
    /\ UNCHANGED <<call, stage, length>>

Lookup(c) == LookupFails(c) \/ LookupAnswers(c)
Settle(a) == Succeeds(a) \/ Fails(a)

ConnectNext ==
    \/ Connect \/ DestroyConnecting
    \/ \E c \in 1..MaxCalls : Lookup(c) \/ AttemptTimeout(c)
    \/ \E a \in Attempts : Settle(a)

\* The resolver and the host answer in the end.
ConnectFairness ==
    /\ \A c \in 1..MaxCalls : WF_ConnectVars(Lookup(c))
    /\ \A a \in Attempts : WF_ConnectVars(Settle(a))

ConnectSpec == ConnectInit /\ [][ConnectNext]_ConnectVars /\ ConnectFairness

-----------------------------------------------------------------------------
(* Properties *)

\* Every native handle that connects is the socket's or is closed: a success that
\* comes after a destroy, a timeout or another success leaves no connection behind.
NoHandleLeaks == open \subseteq {connected}

\* A connect never hangs: it ends connected or destroyed, also when one address never
\* answers but for its timer.
ConnectSettles == []<>~connecting

\* A list gives up only when each of its addresses has failed, and counts none twice,
\* though a timed out attempt may still answer.
GivesUpLast ==
    \A c \in 1..MaxCalls : failed[c] <= length[c]
        /\ (by = c /\ stage[c] # "off" => failed[c] = length[c])

\* "Reset state for reconnection ... instead of being a silent no-op on this.destroyed"
\* (net.js): a socket that is connected again is destroyed by its own attempts, and
\* not by what an earlier call of connect() left behind.
ReconnectIsFresh == destroyed => by \in {0, call}

\* However attempts, their timers and destroy() race, a socket has one native handle at
\* most, and gives up only when every address has failed.
ConnectInv == ConnectTypeOK /\ NoHandleLeaks /\ GivesUpLast
=============================================================================
