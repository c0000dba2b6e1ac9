----------------------------- MODULE GameClient -----------------------------
(* The GameClient class of src/game/game_client.h on top of NetworkClient, one
   per process: waitToAssignLocalPlayerID, then the frames of run().  A frame
   receives a batch (all it finds by TCP, then all it finds by UDP), applies it
   and sends.  Nothing reads the game between two messages of a batch, so each
   is applied as it is received.  Input other than shooting, the client's own
   copies of projectiles, and drawing are left out. *)
EXTENDS NetworkClient, GameSimulation, FiniteSetsExt

CONSTANTS MaxShots,     \* bound on the projectiles all processes spawn
          NoPlayer      \* m_localPlayerID before it is assigned

ASSUME ShotAssumption == MaxShots \in Nat /\ NoPlayer \notin Nat

VARIABLES m_localPlayerID,    \* NoPlayer until AssignLocalPlayerID
          inGame,             \* init() has returned
          reading,            \* the loop of pumpReceive that read last in this batch
          view,               \* m_gameSimulation: PlayerID -> health
          m_nextProjectileID

gameClientVars == <<m_localPlayerID, inGame, reading, view, m_nextProjectileID>>

GameClientTypeOK ==
    /\ m_localPlayerID \in [Process -> Nat \cup {NoPlayer}]
    /\ inGame \in [Process -> BOOLEAN]
    /\ reading \in [Process -> {"TCP", "UDP"}]
    /\ DOMAIN view = Process
    /\ \A p \in Process : /\ DOMAIN view[p] \subseteq Nat
                          /\ view[p] \in [DOMAIN view[p] -> 1 .. MaxHealth]
    /\ m_nextProjectileID \in [Process -> Nat]

GameClientInit ==
    /\ m_localPlayerID = [p \in Process |-> NoPlayer]
    /\ inGame = [p \in Process |-> FALSE]
    /\ reading = [p \in Process |-> "TCP"]
    /\ view = [p \in Process |-> <<>>]
    /\ m_nextProjectileID = [p \in Process |-> 0]

(* While the process waits for its identifier that message sets it; every other
   one, and in the game that one too, goes to the simulation. *)
Apply(p, msg) ==
    IF msg.type = "AssignLocalPlayerID" /\ ~inGame[p]
    THEN /\ m_localPlayerID' = [m_localPlayerID EXCEPT ![p] = msg.playerID]
         /\ UNCHANGED view
    ELSE /\ view' = [view EXCEPT ![p] = ApplyIncomingMessage(@, msg)]
         /\ UNCHANGED m_localPlayerID

ClientReceiveTCP(p) ==
    /\ reading[p] = "TCP"
    /\ ReceiveFromServer(p)
    /\ Apply(p, Head(toClient[p]))
    /\ UNCHANGED <<inGame, reading, m_nextProjectileID>>

ClientReceiveUDP(p, d) ==
    /\ ReceiveDatagram(p, d)
    /\ Apply(p, d.msg)
    /\ reading' = [reading EXCEPT ![p] = "UDP"]
    /\ UNCHANGED <<inGame, m_nextProjectileID>>

\* Mutant: the local player is left to the server's messages.
EndPollWithoutPlayer(p) ==
    /\ phase[p] = "connected" /\ ~inGame[p]
    /\ reading' = [reading EXCEPT ![p] = "TCP"]
    /\ inGame' = [inGame EXCEPT ![p] = m_localPlayerID[p] # NoPlayer]
    /\ UNCHANGED <<transportVars, clientVars, m_localPlayerID, view, m_nextProjectileID>>

(* The batch of waitToAssignLocalPlayerID is done.  If it had the identifier,
   init() adds the local player, after everything else in the batch. *)
EndPoll(p) ==
    /\ phase[p] = "connected" /\ ~inGame[p]
    /\ reading' = [reading EXCEPT ![p] = "TCP"]
    /\ IF m_localPlayerID[p] # NoPlayer
       THEN /\ inGame' = [inGame EXCEPT ![p] = TRUE]
            /\ view' = [view EXCEPT ![p] = AddPlayer(@, m_localPlayerID[p])]
       ELSE UNCHANGED <<inGame, view>>
    /\ UNCHANGED <<transportVars, clientVars, m_localPlayerID, m_nextProjectileID>>

ShotsFired == MapThenSumSet(LAMBDA q : m_nextProjectileID[q], Process)

ProjectileID(p) == m_localPlayerID[p] * 100000 + m_nextProjectileID[p]

(* The frame ends with pumpSend: what the input spawned, by TCP, the local
   player's state, by UDP, and a ping when the interval has passed. *)
EndFrame(p, shoots, withPing) ==
    /\ inGame[p]
    /\ m_localPlayerID[p] \in DOMAIN view[p]
    /\ shoots => ShotsFired < MaxShots
    /\ reading' = [reading EXCEPT ![p] = "TCP"]
    /\ LET spawn == IF shoots THEN <<ProjectileSpawn(m_localPlayerID[p], ProjectileID(p))>> ELSE <<>>
       IN ClientPumpSend(p, spawn, <<PlayerStateUpdate(m_localPlayerID[p])>>, withPing)
    /\ m_nextProjectileID' = [m_nextProjectileID EXCEPT ![p] = IF shoots THEN @ + 1 ELSE @]
    /\ UNCHANGED <<m_localPlayerID, inGame, view>>

(* The handshake leaves the game alone. *)
Handshaking(p) ==
    /\ \/ Start(p)
       \/ TakeBindRequest(p)
       \/ PollBindRequest(p)
       \/ TakeBindAck(p)
       \/ PollBindAck(p)
    /\ UNCHANGED gameClientVars

(* The process ends, and its memory with it. *)
End(p) ==
    /\ Exit(p)
    /\ m_localPlayerID' = [m_localPlayerID EXCEPT ![p] = NoPlayer]
    /\ inGame' = [inGame EXCEPT ![p] = FALSE]
    /\ reading' = [reading EXCEPT ![p] = "TCP"]
    /\ view' = [view EXCEPT ![p] = <<>>]
    /\ UNCHANGED m_nextProjectileID

GameClientStep(p) ==
    \/ Handshaking(p)
    \/ End(p)
    \/ ClientReceiveTCP(p)
    \/ \E d \in udpToClient : ClientReceiveUDP(p, d)
    \/ EndPoll(p)
    \/ \E shoots, withPing \in BOOLEAN : EndFrame(p, shoots, withPing)
=============================================================================
