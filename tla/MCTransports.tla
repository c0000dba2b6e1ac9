---------------------------- MODULE MCTransports ----------------------------
(* Instances of the three transports for TLC: a TCPConnection, two UDPTransports
   and a TCPListener.  They share nothing (in the program, the io_context thread,
   which runs one handler after another of all of them), so a behaviour is about
   one of them, and part says which; the others stay as they begin. *)
EXTENDS TCPConnection, UDPTransport, TCPListener

VARIABLE part

MCHeaderOnly == {2, 3}

ASSUME TransportAssumptions == DatagramAssumption /\ ConnectionAssumption

MCInit ==
    /\ part \in {"connection", "udp", "listener"}
    /\ Init
    /\ UDPInit
    /\ ListenerInit

MCNext ==
    \/ /\ part = "connection" /\ Next
       /\ UNCHANGED <<part, udpVars, listenerVars>>
    \/ /\ part = "udp" /\ UDPNext
       /\ UNCHANGED <<part, vars, listenerVars>>
    \/ /\ part = "listener" /\ ListenerNext
       /\ UNCHANGED <<part, vars, udpVars>>

(* Fairness asks nothing of a component that stays as it begins, apart from the
   listener, which has to be started. *)
MCSpec ==
    /\ MCInit /\ [][MCNext]_<<part, vars, udpVars, listenerVars>>
    /\ Fairness
    /\ UDPFairness
    /\ part = "listener" => ListenerFairness

(* The types of all three. *)
AllTypesOK == TypeOK /\ UDPTypeOK /\ ListenerTypeOK
=============================================================================
