----------------------------- MODULE NetSession -----------------------------
(* Network with an application TLC can run: between the server's operations, and
   inside its callbacks, the layer above queues one message for whom it likes,
   consumes an inbox, or returns; a client process sends one message, a ping, or
   both. *)
EXTENDS Network

CONSTANTS AppSent,      \* the messages the applications send
          MaxAppSends   \* bound on how often they send one

ASSUME AppSentAssumption == AppSent \subseteq AppMessage

VARIABLE appSends       \* application sends so far

vars == <<networkVars, appSends>>

Init ==
    /\ NetworkInit
    /\ appSends = 0

AppSend ==
    /\ appSends < MaxAppSends
    /\ appSends' = appSends + 1

(* The server's application queues a message for the clients C: one of them, or
   all but one with queueBroadcast.  It may do so from inside a callback. *)
ServerAppQueues(C, msg, transport) ==
    /\ toRemove = {} \/ callback # NoCallback
    /\ AppSend
    /\ m_clients' = QueueMessages(m_clients, C, <<msg>>, transport)
    /\ UNCHANGED <<transportVars, clientVars,
                   m_nextClientID, m_udpEndpointToClientID, callback, toRemove>>

ServerAppConsumes(c) ==
    /\ ServerIdle
    /\ m_clients[c].inbox # <<>>
    /\ m_clients' = Consumed(m_clients, c)
    /\ UNCHANGED <<transportVars, clientVars, appSends,
                   m_nextClientID, m_udpEndpointToClientID, callback, toRemove>>

CallbackReturns ==
    /\ callback # NoCallback
    /\ callback' = NoCallback
    /\ UNCHANGED <<transportVars, clientVars, appSends,
                   m_clients, m_nextClientID, m_udpEndpointToClientID, toRemove>>

ClientAppSends(p, msg, transport, withPing) ==
    /\ AppSend
    /\ IF transport = "TCP" THEN ClientPumpSend(p, <<msg>>, <<>>, withPing)
                            ELSE ClientPumpSend(p, <<>>, <<msg>>, withPing)
    /\ UNCHANGED serverVars

(* A pumpSend that finds nothing but the ping to send. *)
ClientPings(p) ==
    /\ ClientPumpSend(p, <<>>, <<>>, TRUE)
    /\ UNCHANGED <<serverVars, appSends>>

ServerAppStep ==
    \/ \E msg \in AppSent, transport \in {"TCP", "UDP"}, c \in DOMAIN m_clients :
         \/ ServerAppQueues({c}, msg, transport)
         \/ ServerAppQueues(DOMAIN m_clients \ {c}, msg, transport)
    \/ \E c \in DOMAIN m_clients : ServerAppConsumes(c)
    \/ CallbackReturns

ClientAppStep(p) ==
    \/ \E msg \in AppSent, transport \in {"TCP", "UDP"}, withPing \in BOOLEAN :
         ClientAppSends(p, msg, transport, withPing)
    \/ ClientPings(p)

Next ==
    \/ NetworkServerStep /\ UNCHANGED <<clientVars, appSends>>
    \/ ServerAppStep
    \/ \E p \in Process : NetworkClientStep(p) /\ UNCHANGED <<serverVars, appSends>>
    \/ \E p \in Process : ClientAppStep(p)
    \/ TransportStep /\ UNCHANGED <<serverVars, clientVars, appSends>>

Spec == Init /\ [][Next]_vars

=============================================================================
