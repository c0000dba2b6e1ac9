--------------------------- MODULE NetworkClient ---------------------------
(* The NetworkClient class of src/game/network_client.h, one per client
   process: the UDP handshake, then pumpReceive and pumpSend.  Each process is
   one thread.  Its outboxes are filled and flushed within one call chain of
   that thread, so queueOutgoingMessage and the pumpSend after it are one step;
   likewise pumpReceive and the use of what it received. *)
EXTENDS Transports, FiniteSetsExt

CONSTANTS MaxPolls,     \* timeout / poll interval of the handshake loops (60 in the code)
          MaxPings,     \* bound on the pings all processes send
          PingTransport \* Config::pingTransport

ASSUME PollAssumption == MaxPolls \in Nat /\ MaxPings \in Nat
ASSUME PingAssumption == PingTransport \in {"TCP", "UDP"}

VARIABLES phase,         \* where the process is in the NetworkClient
          bindToken,     \* the token of the UDPBindRequest it received
          elapsed,       \* polls done by the handshake loop it is in
          m_nextPingSeq

clientVars == <<phase, bindToken, elapsed, m_nextPingSeq>>

Phase == {"off", "waitRequest", "waitAck", "connected", "exited"}

ClientTypeOK ==
    /\ phase \in [Process -> Phase]
    /\ bindToken \in [Process -> Nat]
    /\ elapsed \in [Process -> 0 .. MaxPolls]
    /\ m_nextPingSeq \in [Process -> Nat]

ClientInit ==
    /\ phase = [p \in Process |-> "off"]
    /\ bindToken = [p \in Process |-> 0]
    /\ elapsed = [p \in Process |-> 0]
    /\ m_nextPingSeq = [p \in Process |-> 0]

Running(p) == phase[p] \in {"waitRequest", "waitAck", "connected"}

(* The process connects and enters doUDPHandshake; its port is not the port of
   a process that still runs. *)
Start(p) ==
    /\ phase[p] = "off"
    /\ \A q \in Process : Running(q) => EndpointOf[q] # EndpointOf[p]
    /\ phase' = [phase EXCEPT ![p] = "waitRequest"]
    /\ clientOpen' = [clientOpen EXCEPT ![p] = TRUE]
    /\ serverOpen' = [serverOpen EXCEPT ![p] = TRUE]
    /\ m_newConnections' = Append(m_newConnections, p)
    /\ UNCHANGED <<connID, toServer, toClient, udpVars, bindToken, elapsed, m_nextPingSeq>>

(* tryRecv: the next message from the server, taken whatever it is. *)
TakeTCP(p) ==
    /\ toClient[p] # <<>>
    /\ toClient' = [toClient EXCEPT ![p] = Tail(@)]
    /\ UNCHANGED <<m_newConnections, connID, serverOpen, clientOpen, toServer, udpVars>>

(* A turn of the tryRecv loop of waitForUDPBindRequest. *)
TakeBindRequest(p) ==
    /\ phase[p] = "waitRequest"
    /\ elapsed[p] < MaxPolls
    /\ TakeTCP(p)
    /\ LET msg == Head(toClient[p]) IN
        IF msg.type = "UDPBindRequest"
        THEN /\ phase' = [phase EXCEPT ![p] = "waitAck"]
             /\ bindToken' = [bindToken EXCEPT ![p] = msg.token]
             /\ elapsed' = [elapsed EXCEPT ![p] = 0]
        ELSE UNCHANGED <<phase, bindToken, elapsed>>
    /\ UNCHANGED m_nextPingSeq

(* Nothing more to read: sleep, and look again. *)
PollBindRequest(p) ==
    /\ phase[p] = "waitRequest"
    /\ elapsed[p] < MaxPolls
    /\ elapsed' = [elapsed EXCEPT ![p] = @ + 1]
    /\ UNCHANGED <<transportVars, phase, bindToken, m_nextPingSeq>>

(* A turn of the tryRecv loop of sendUDPBindAndWaitForAck: every message that is
   not the acknowledgement is thrown away. *)
TakeBindAck(p) ==
    /\ phase[p] = "waitAck"
    /\ elapsed[p] < MaxPolls
    /\ TakeTCP(p)
    /\ phase' = [phase EXCEPT ![p] =
                    IF Head(toClient[p]).type = "UDPBindAck" THEN "connected" ELSE @]
    /\ UNCHANGED <<bindToken, elapsed, m_nextPingSeq>>

\* Mutant: running out of time counts as success.
PollBindAckGivesUp(p) ==
    /\ phase[p] = "waitAck"
    /\ elapsed[p] < MaxPolls
    /\ elapsed' = [elapsed EXCEPT ![p] = @ + 1]
    /\ phase' = [phase EXCEPT ![p] = IF elapsed'[p] = MaxPolls THEN "connected" ELSE @]
    /\ udpToServer' = udpToServer \cup
         {[from |-> EndpointOf[p], msg |-> UDPBind(bindToken[p])]}
    /\ UNCHANGED <<tcpVars, udpToClient, udpOpen, bindToken, m_nextPingSeq>>

(* Nothing more to read: send the token again, sleep, and look again. *)
PollBindAck(p) ==
    /\ phase[p] = "waitAck"
    /\ elapsed[p] < MaxPolls
    /\ elapsed' = [elapsed EXCEPT ![p] = @ + 1]
    /\ udpToServer' = udpToServer \cup
         {[from |-> EndpointOf[p], msg |-> UDPBind(bindToken[p])]}
    /\ UNCHANGED <<tcpVars, udpToClient, udpOpen, phase, bindToken, m_nextPingSeq>>

(* The process ends: the handshake timed out (doUDPHandshake returns false and
   GameClient::init throws), isConnected is false, the player quits, or it is
   killed.  What it had not read is gone. *)
Exit(p) ==
    /\ Running(p)
    /\ phase' = [phase EXCEPT ![p] = "exited"]
    /\ clientOpen' = [clientOpen EXCEPT ![p] = FALSE]
    /\ toClient' = [toClient EXCEPT ![p] = <<>>]
    /\ udpToClient' = {d \in udpToClient : d.to # EndpointOf[p]}
    /\ UNCHANGED <<m_newConnections, connID, serverOpen, toServer, udpToServer, udpOpen,
                   bindToken, elapsed, m_nextPingSeq>>

(* A turn of the TCP loop of pumpReceive; handlePong only updates m_pingMs. *)
ReceiveFromServer(p) ==
    /\ phase[p] = "connected"
    /\ TakeTCP(p)
    /\ UNCHANGED clientVars

(* A turn of its UDP loop; only the server sends to the process's endpoint. *)
ReceiveDatagram(p, d) ==
    /\ phase[p] = "connected"
    /\ d \in udpToClient
    /\ d.to = EndpointOf[p]
    /\ udpToClient' = udpToClient \ {d}
    /\ UNCHANGED <<tcpVars, udpToServer, udpOpen, clientVars>>

PingsSent == MapThenSumSet(LAMBDA q : m_nextPingSeq[q], Process)

(* pumpSend of tcpMsgs and udpMsgs, with the ping maybeQueuePing adds when the
   interval has passed. *)
ClientPumpSend(p, tcpMsgs, udpMsgs, withPing) ==
    LET ping == IF withPing THEN <<Ping(m_nextPingSeq[p])>> ELSE <<>>
        tcp  == IF PingTransport = "TCP" THEN tcpMsgs \o ping ELSE tcpMsgs
        udp  == IF PingTransport = "UDP" THEN udpMsgs \o ping ELSE udpMsgs
    IN /\ phase[p] = "connected"
       /\ withPing => PingsSent < MaxPings
       /\ m_nextPingSeq' = [m_nextPingSeq EXCEPT ![p] = IF withPing THEN @ + 1 ELSE @]
       /\ toServer' = [toServer EXCEPT ![p] =
                          IF clientOpen[p] /\ serverOpen[p] THEN @ \o tcp ELSE @]
       /\ udpToServer' = udpToServer \cup
            {[from |-> EndpointOf[p], msg |-> udp[i]] : i \in 1 .. Len(udp)}
       /\ UNCHANGED <<m_newConnections, connID, serverOpen, clientOpen, toClient,
                      udpToClient, udpOpen, phase, bindToken, elapsed>>
=============================================================================
