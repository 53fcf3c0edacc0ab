------------------------------ MODULE MCSockets ------------------------------
(***************************************************************************)
(* The four sides of node:net, a socket of node:dgram and the agent of     *)
(* node:http, each with the actors of its own: they share no state, and a  *)
(* behaviour runs one of them.                                              *)
(***************************************************************************)
EXTENDS SocketRead, SocketWrite, SocketConnect, NetServer, HttpAgent, Datagram

CONSTANTS r1, r2, r3, n1, n2, n3

VARIABLE part

\* Two requests that share a host, and three that do not.
PairAndApart == {r1 :> n1 @@ r2 :> n1 @@ r3 :> n2, r1 :> n1 @@ r2 :> n2 @@ r3 :> n3}

\* A component that does not run starts in one of its states.
SocketsInit ==
    /\ part \in {"read", "write", "connect", "server", "agent", "datagram"}
    /\ ReadInit /\ WriteInit /\ ConnectInit /\ ServerInit /\ AgentInit /\ DatagramInit
    /\ part = "read" \/ pauseAt = {}
    /\ part = "server" \/ (maxConnections = 0 /\ ~unrefed)
    /\ part = "agent" \/ host[r1] = host[r2]

NetVars == <<ReadVars, WriteVars, ConnectVars, ServerVars>>

SocketsNext ==
    \/ /\ UNCHANGED <<part, AgentVars, DatagramVars>>
       /\ \/ part = "read" /\ ReadNext /\ UNCHANGED <<WriteVars, ConnectVars, ServerVars>>
          \/ part = "write" /\ WriteNext /\ UNCHANGED <<ReadVars, ConnectVars, ServerVars>>
          \/ part = "connect" /\ ConnectNext /\ UNCHANGED <<ReadVars, WriteVars, ServerVars>>
          \/ part = "server" /\ ServerNext /\ UNCHANGED <<ReadVars, WriteVars, ConnectVars>>
    \/ part = "agent" /\ AgentNext /\ UNCHANGED <<part, NetVars, DatagramVars>>
    \/ part = "datagram" /\ DatagramNext /\ UNCHANGED <<part, NetVars, AgentVars>>

\* Each component's own fairness: the stream that is written to is the one with a fair
\* action enabled in its first state.
SocketsSpec ==
    /\ SocketsInit
    /\ [][SocketsNext]_<<part, NetVars, AgentVars, DatagramVars>>
    /\ ReadFairness /\ ConnectFairness /\ ServerFairness /\ DatagramFairness
    /\ WF_WriteVars(Tick) /\ WF_WriteVars(HostWrites) /\ WF_WriteVars(part = "write" /\ Connected)
    /\ \A r \in Calls : WF_AgentVars(Sends(r)) /\ WF_AgentVars(SettleSend(r))

-----------------------------------------------------------------------------
(* Properties *)

\* What a socket's reader sees is what the peer sent, and while it flows something goes on
\* with it; what its writer is told is what was written; a datagram socket that is bound
\* listens, and hears in order.
StreamsInv == ReadInv /\ NeverStranded /\ WriteInv /\ DatagramInv

\* Nothing is lost between pause() and resume(), 'drain' comes and every write is answered,
\* connect() ends one way or the other, a server that is closed accepts nobody and says
\* that it is closed, each request of an agent has its turn, and each datagram that is sent
\* is answered for.
SocketsProgress ==
    /\ SilentWhilePaused /\ ReadsToTheEnd
    /\ DrainComes /\ WritesAnswered
    /\ ConnectSettles
    /\ NoneAfterClose /\ []ClientsOnly /\ CloseHappens
    /\ EveryoneServed
    /\ QuietAfterClose /\ SendsAnswered
=============================================================================
