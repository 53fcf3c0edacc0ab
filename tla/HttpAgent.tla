------------------------------ MODULE HttpAgent ------------------------------
(***************************************************************************)
(* node:http's Agent and the requests that go through it (runtime/builtin/ *)
(* node_http.js): how many of them may run, the queue of the others, and   *)
(* the stand-in sockets that a request takes and leaves for the next one.  *)
(* The host makes the connections; the sockets are the program's view.     *)
(*                                                                         *)
(* One step is one continuation of _doSend, of the agent's bookkeeping     *)
(* after it, or one call of the program. What a request sends before end() *)
(* is buffered (node_http_p3.rs), so nothing of it runs before its turn.   *)
(***************************************************************************)
EXTENDS Integers, SequencesExt, FiniteSets

CONSTANTS
    Calls,                       \* the requests
    Names,                       \* the agent's names for hosts
    MaxSockets, MaxTotalSockets, \* limits of a name and of the agent
    MaxFreeSockets,
    MaxAborts,                   \* bound on the calls of abort() and destroy()
    Hosts                        \* the ways to give each request a name

ASSUME AgentAssumption ==
    /\ Hosts \subseteq [Calls -> Names] /\ MaxSockets \in Nat \ {0} /\ MaxTotalSockets \in Nat \ {0}
    /\ MaxFreeSockets \in Nat /\ MaxAborts \in Nat
    /\ IsFiniteSet(Calls) /\ IsFiniteSet(Names) /\ "none" \notin Calls

NoSocket == "none"

\* Each request makes one socket at most.
Sockets == Calls

VARIABLES
    phase,     \* of each request
    host,      \* its name
    gone,      \* the requests that were aborted or destroyed
    mine,      \* req.socket
    activeCount, requestQueue,
    used, free, \* agent.sockets and agent.freeSockets
    dead,      \* sockets that were destroyed
    dying,     \* those whose 'close' is due
    leaked,    \* sockets of requests that were destroyed by their 'response' listener
    destroyedAgent

limits == <<activeCount, requestQueue>>
pool == <<used, free, dead, dying>>
AgentVars == <<phase, host, gone, mine, limits, pool, leaked, destroyedAgent>>

Phases == {"new", "queued", "flushing", "finishing", "waiting", "over", "done"}

\* Those that _doSend runs for
Running == {r \in Calls : phase[r] \in {"flushing", "finishing", "waiting", "over"}}

AgentTypeOK ==
    /\ phase \in [Calls -> Phases] /\ host \in Hosts
    /\ gone \subseteq Calls /\ mine \in [Calls -> Sockets \cup {NoSocket}]
    /\ activeCount \in [Names -> 0..Cardinality(Calls)] /\ requestQueue \in [Names -> Seq(Calls)]
    /\ used \in [Names -> Seq(Sockets)] /\ free \in [Names -> Seq(Sockets)]
    /\ \A n \in Names : Len(free[n]) <= MaxFreeSockets
    /\ dead \subseteq Sockets /\ dying \subseteq dead /\ leaked \subseteq Sockets
    /\ destroyedAgent \in BOOLEAN
    /\ \A n \in Names : ToSet(requestQueue[n]) \subseteq {r \in Calls : phase[r] = "queued" /\ host[r] = n}

AgentInit ==
    /\ phase = [r \in Calls |-> "new"] /\ host \in Hosts
    /\ gone = {} /\ mine = [r \in Calls |-> NoSocket]
    /\ activeCount = [n \in Names |-> 0] /\ requestQueue = [n \in Names |-> <<>>]
    /\ used = [n \in Names |-> <<>>] /\ free = [n \in Names |-> <<>>]
    /\ dead = {} /\ dying = {} /\ leaked = {} /\ destroyedAgent = FALSE

-----------------------------------------------------------------------------
(* Broken variants, for the properties to catch. No specification uses them. *)

\* One request more than the limits allow.
CanRunOneMore(count, n) == count[n] <= MaxSockets

-----------------------------------------------------------------------------
(* The limits *)

\* The slots that are taken under all the names: the sum of the counts
Slots(count) == {slot \in Names \X (1..Cardinality(Calls)) : slot[2] <= count[slot[1]]}
Total(count) == Cardinality(Slots(count))

\* _canRunRequest
CanRun(count, n) == count[n] < MaxSockets /\ Total(count) < MaxTotalSockets

\* end(): _scheduleRequest
Schedule(r) ==
    /\ phase[r] = "new"
    /\ IF CanRun(activeCount, host[r])
       THEN /\ phase' = [phase EXCEPT ![r] = "flushing"]
            /\ activeCount' = [activeCount EXCEPT ![host[r]] = @ + 1]
            /\ UNCHANGED requestQueue
       ELSE /\ phase' = [phase EXCEPT ![r] = "queued"]
            /\ requestQueue' = [requestQueue EXCEPT ![host[r]] = Append(@, r)]
            /\ UNCHANGED activeCount
    /\ UNCHANGED <<host, gone, mine, pool, leaked, destroyedAgent>>

\* The names whose queues _drainQueues looks at
Looked(n) == Names

\* _drainQueues with this count: the slot that is free goes to the first request of a
\* name that may run one; the order of the names is that of an object's keys, which depends
\* on its history. A second one never could run (NoIdleSlot).
QueueDrained(count, names) ==
    LET able == {m \in names : requestQueue[m] # <<>> /\ CanRun(count, m)}
    IN  IF able = {} THEN {<<>>} ELSE {<<m, Head(requestQueue[m])>> : m \in able}

\* The promise of _doSend is settled: the slot is free, as far as the agent knows.
SettleSend(r) ==
    /\ phase[r] = "over"
    /\ LET n == host[r]
           freed == [activeCount EXCEPT ![n] = IF @ = 0 THEN 0 ELSE @ - 1]
           over == [phase EXCEPT ![r] = "done"]
       IN  \E next \in QueueDrained(freed, Looked(n)) :
             IF next = <<>> THEN phase' = over /\ activeCount' = freed /\ UNCHANGED requestQueue
             ELSE /\ activeCount' = [freed EXCEPT ![next[1]] = @ + 1]
                  /\ requestQueue' = [requestQueue EXCEPT ![next[1]] = Tail(@)]
                  /\ phase' = [over EXCEPT ![next[2]] = "flushing"]
    /\ UNCHANGED <<host, gone, mine, pool, leaked, destroyedAgent>>

-----------------------------------------------------------------------------
(* The sockets *)

\* indexOf and splice
Without(list, s) ==
    IF s \notin ToSet(list) THEN list
    ELSE RemoveAt(list, CHOOSE k \in DOMAIN list : list[k] = s /\ \A l \in 1..(k - 1) : list[l] # s)

\* The free socket that was used last, if any lives
Reusable(n) == {k \in DOMAIN free[n] : free[n][k] \notin dead}

TakeFrom(n, s) == free' = [free EXCEPT ![n] = Without(@, s)]

\* _setupMockSocket
TakeSocket(r) ==
    LET n == host[r]
    IN  IF Reusable(n) = {}
        THEN /\ mine' = [mine EXCEPT ![r] = r] /\ used' = [used EXCEPT ![n] = Append(@, r)]
             /\ UNCHANGED free
        ELSE LET s == free[n][CHOOSE k \in Reusable(n) : \A l \in Reusable(n) : l <= k]
             IN  /\ mine' = [mine EXCEPT ![r] = s] /\ used' = [used EXCEPT ![n] = Append(@, s)]
                 /\ TakeFrom(n, s)

\* _cleanupMockSocket: kept for another request, or destroyed.
LeaveSocket(r, keepAlive) ==
    LET s == mine[r]
        n == host[r]
    IN  IF s = NoSocket THEN UNCHANGED <<mine, pool>>
        ELSE /\ mine' = mine
             /\ used' = [used EXCEPT ![n] = Without(@, s)]
             /\ IF keepAlive /\ s \notin dead /\ Len(free[n]) < MaxFreeSockets
                THEN free' = [free EXCEPT ![n] = Append(@, s)] /\ UNCHANGED <<dead, dying>>
                ELSE /\ free' = free /\ dead' = dead \cup {s}
                     /\ dying' = IF s \in dead THEN dying ELSE dying \cup {s}

\* A free socket's error or its keep-alive timeout
FreeSocketEnds(s) ==
    /\ s \notin dead /\ \E n \in Names : s \in ToSet(free[n])
    /\ dead' = dead \cup {s} /\ dying' = dying \cup {s}
    /\ free' = free \/ free' = [n \in Names |-> Without(free[n], s)]
    /\ UNCHANGED <<phase, host, gone, mine, limits, used, leaked, destroyedAgent>>

\* 'close'
SocketClose(s) ==
    /\ s \in dying /\ dying' = dying \ {s}
    /\ used' = [n \in Names |-> Without(used[n], s)]
    /\ free' = [n \in Names |-> Without(free[n], s)]
    /\ UNCHANGED <<phase, host, gone, mine, limits, dead, leaked, destroyedAgent>>

-----------------------------------------------------------------------------
(* A request *)

\* _doSend returns, after an error or because the request is gone, and leaves its socket.
RequestEnds(r, keepAlive) ==
    /\ phase' = [phase EXCEPT ![r] = "over"] /\ LeaveSocket(r, keepAlive) /\ UNCHANGED leaked

Others == <<host, limits, destroyedAgent>>

\* What was buffered is with the host's request.
Flushed(r) ==
    /\ phase[r] = "flushing" /\ UNCHANGED <<Others, gone>>
    /\ \/ \E keepAlive \in BOOLEAN : RequestEnds(r, keepAlive)
       \/ /\ r \notin gone /\ phase' = [phase EXCEPT ![r] = "finishing"]
          /\ TakeSocket(r) /\ UNCHANGED <<dead, dying, leaked>>

\* The body is finished.
BodyFinished(r) ==
    /\ phase[r] = "finishing" /\ UNCHANGED <<Others, gone>>
    /\ \/ \E keepAlive \in BOOLEAN : RequestEnds(r, keepAlive)
       \/ /\ r \notin gone /\ phase' = [phase EXCEPT ![r] = "waiting"]
          /\ UNCHANGED <<mine, pool, leaked>>

\* The response or an error is there. An abort meanwhile did not reach the host, whose
\* request was busy: it is looked at now. A 'response' listener that destroys its request
\* leaves the socket where it is.
Response(r) ==
    /\ phase[r] = "waiting" /\ UNCHANGED Others
    /\ \/ \E keepAlive \in BOOLEAN : RequestEnds(r, keepAlive) /\ gone' = gone
       \/ /\ r \notin gone /\ gone' = gone \cup {r} /\ leaked' = leaked \cup {mine[r]}
          /\ phase' = [phase EXCEPT ![r] = "over"] /\ UNCHANGED <<mine, pool>>

\* abort() or destroy()
Abort(r) ==
    /\ r \notin gone /\ Cardinality(gone) < MaxAborts /\ gone' = gone \cup {r}
    /\ UNCHANGED <<phase, Others, mine, pool, leaked>>

\* agent.destroy(): the sockets with their requests, the queues and the counts.
DestroyAgent ==
    LET all == UNION {ToSet(used[n]) \cup ToSet(free[n]) : n \in Names}
    IN  /\ ~destroyedAgent /\ destroyedAgent' = TRUE
        /\ dead' = dead \cup all /\ dying' = dying \cup (all \ dead)
        /\ gone' = gone \cup {r \in Running : mine[r] \in all \ dead}
        /\ used' = [n \in Names |-> <<>>] /\ free' = [n \in Names |-> <<>>]
        /\ activeCount' = [n \in Names |-> 0] /\ requestQueue' = [n \in Names |-> <<>>]
        /\ UNCHANGED <<phase, host, mine, leaked>>

Sends(r) == Flushed(r) \/ BodyFinished(r) \/ Response(r)

AgentNext ==
    \/ \E r \in Calls : Schedule(r) \/ Sends(r) \/ SettleSend(r) \/ Abort(r)
    \/ \E s \in Sockets : FreeSocketEnds(s) \/ SocketClose(s)
    \/ DestroyAgent

\* Servers answer or fail, and promises are settled.
AgentSpec == AgentInit /\ [][AgentNext]_AgentVars
             /\ \A r \in Calls : WF_AgentVars(Sends(r)) /\ WF_AgentVars(SettleSend(r))

-----------------------------------------------------------------------------
(* Properties *)

\* No more requests are on their way than the agent's limits say, to a host and together,
\* until agent.destroy() (which forgets those that run).
WithinLimits ==
    ~destroyedAgent =>
        /\ Cardinality(Running) <= MaxTotalSockets
        /\ \A n \in Names : Cardinality({r \in Running : host[r] = n}) <= MaxSockets

\* No request waits while it could run: the end of one starts whichever was held back by
\* it, of the same host or another.
NoIdleSlot == \A n \in Names : requestQueue[n] # <<>> => ~CanRun(activeCount, n)

\* A free socket is nobody's, and no two requests share one.
SocketsNotShared ==
    \A r \in Calls : phase[r] \in {"finishing", "waiting"} =>
        /\ \A n \in Names : mine[r] \notin ToSet(free[n])
        /\ \A q \in Calls \ {r} : phase[q] \in {"finishing", "waiting"} => mine[q] # mine[r]

\* agent.sockets lists the sockets in use and no other: none is left behind by a request
\* that is over, but for those of Response.
OnlyUsedSockets ==
    \A n \in Names : \A s \in ToSet(used[n]) :
        s \in leaked \/ \E r \in Running : mine[r] = s

\* A request that waits for its turn gets it, aborted or not.
EveryoneServed ==
    \A r \in Calls : []<>(phase[r] # "queued" \/ destroyedAgent)

\* The agent's counts and lists are those of the requests that run.
AgentInv == AgentTypeOK /\ WithinLimits /\ NoIdleSlot /\ SocketsNotShared /\ OnlyUsedSockets
=============================================================================
