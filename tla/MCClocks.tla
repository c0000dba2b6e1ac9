------------------------------ MODULE MCClocks ------------------------------
(* Instances of PingClock and GameClock for TLC.  They share nothing, so a
   behaviour is about one of them, and clock says which; the other stays as it
   begins. *)
EXTENDS PingClock, GameClock

VARIABLE clock

(* Pings by UDP that take longer than two intervals, and pings by TCP, as the
   clients are configured, that take less than one. *)
MCConfigs == {[pingTransport |-> "UDP", pingInterval |-> 3, roundTrip |-> 8],
              [pingTransport |-> "TCP", pingInterval |-> 5, roundTrip |-> 3]}

ClocksInit ==
    /\ clock \in {"ping", "game"}
    /\ PingInit /\ (clock # "ping" => config.pingTransport = "TCP")
    /\ ClockInit /\ (clock # "game" => sdlStart = 0)

ClocksNext ==
    \/ clock = "ping" /\ PingNext /\ UNCHANGED <<clock, clockVars>>
    \/ clock = "game" /\ ClockNext /\ UNCHANGED <<clock, pingVars>>

ClocksSpec == ClocksInit /\ [][ClocksNext]_<<clock, pingVars, clockVars>>
=============================================================================
