----------------------------- MODULE Transports -----------------------------
(* What NetworkServer and NetworkClient rely on from the classes below them:
   a TCPConnection at each end of one connection per client process, the
   server's TCPListener, and the UDPTransports.

   A direction of a TCP connection is one sequence: the messages the sender's
   io_context has still to write, those in flight, and those in the receiver's
   m_inMessages.  A receiver therefore cannot tell an empty m_inMessages from a
   message that has not arrived yet, and a loop of tryRecv may stop anywhere.
   Datagrams are a set: any one of them may be delivered next, and one that is
   lost is one that never is.  Identical datagrams in flight are one element; a
   later copy is what a resend puts there again. *)
EXTENDS Naturals, Sequences, Messages

CONSTANTS Process,      \* client processes; each opens one TCP connection
          Endpoint,     \* UDP endpoints (address and ephemeral port)
          EndpointOf    \* the endpoint the operating system gives a process

ASSUME EndpointAssumption == EndpointOf \in [Process -> Endpoint]

VARIABLES m_newConnections,   \* TCPListener: accepted, not yet taken by the game thread
          connID,             \* TCPConnection::m_id at the server, 0 before setID
          serverOpen,         \* the server's end of the connection is open
          clientOpen,         \* the client's end of the connection is open
          toServer, toClient, \* the two directions of each connection
          udpToServer,        \* datagrams on their way to the server
          udpToClient,        \* datagrams on their way to clients
          udpOpen             \* the server's UDPTransport is open

tcpVars == <<m_newConnections, connID, serverOpen, clientOpen, toServer, toClient>>
udpVars == <<udpToServer, udpToClient, udpOpen>>
transportVars == <<tcpVars, udpVars>>

ToServerDatagram == [from: Endpoint, msg: Message]
ToClientDatagram == [to: Endpoint, msg: Message]

TransportTypeOK ==
    /\ m_newConnections \in Seq(Process)
    /\ connID \in [Process -> Nat]
    /\ serverOpen \in [Process -> BOOLEAN]
    /\ clientOpen \in [Process -> BOOLEAN]
    /\ toServer \in [Process -> Seq(Message)]
    /\ toClient \in [Process -> Seq(Message)]
    /\ udpToServer \subseteq ToServerDatagram
    /\ udpToClient \subseteq ToClientDatagram
    /\ udpOpen \in BOOLEAN

TransportInit ==
    /\ m_newConnections = <<>>
    /\ connID = [p \in Process |-> 0]
    /\ serverOpen = [p \in Process |-> FALSE]
    /\ clientOpen = [p \in Process |-> FALSE]
    /\ toServer = [p \in Process |-> <<>>]
    /\ toClient = [p \in Process |-> <<>>]
    /\ udpToServer = {}
    /\ udpToClient = {}
    /\ udpOpen = TRUE

(* handleDisconnect at the server's end, after a read or a write failed.  What
   the connection had received stays readable, what it had sent may arrive. *)
ServerDisconnect(p) ==
    /\ serverOpen[p]
    /\ serverOpen' = [serverOpen EXCEPT ![p] = FALSE]
    /\ UNCHANGED <<m_newConnections, connID, clientOpen, toServer, toClient, udpVars>>

(* handleDisconnect at the client's end. *)
ClientDisconnect(p) ==
    /\ clientOpen[p]
    /\ clientOpen' = [clientOpen EXCEPT ![p] = FALSE]
    /\ UNCHANGED <<m_newConnections, connID, serverOpen, toServer, toClient, udpVars>>

(* UDPTransport::close at the server. *)
UDPClose ==
    /\ udpOpen
    /\ udpOpen' = FALSE
    /\ UNCHANGED <<tcpVars, udpToServer, udpToClient>>
=============================================================================
