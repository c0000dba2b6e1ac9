------------------------------ MODULE Messages ------------------------------
(* The messages of src/game/message.h.  A Message is a tagged union; a record
   keeps the tag and the fields the behaviour depends on.  Positions and
   velocities are left out: nothing modelled with these messages reads them. *)
EXTENDS Naturals

(* Messages NetworkServer and NetworkClient exchange among themselves. *)
NetMessage ==
    [type: {"UDPBindRequest", "UDPBind"}, token: Nat]
      \cup [type: {"UDPBindAck"}]
      \cup [type: {"Ping", "Pong"}, seq: Nat]

(* Messages the game layer sends through them. *)
AppMessage ==
    [type: {"AssignLocalPlayerID", "PlayerStateUpdate", "PlayerJoined", "PlayerLeft"},
     playerID: Nat]
      \cup [type: {"PlayerHealthUpdate", "PlayerRespawned"}, playerID: Nat, health: Nat]
      \cup [type: {"ProjectileSpawn"}, ownerPlayerID: Nat, projectileID: Nat]

Message == NetMessage \cup AppMessage

UDPBindRequest(token) == [type |-> "UDPBindRequest", token |-> token]
UDPBind(token)        == [type |-> "UDPBind", token |-> token]
UDPBindAck            == [type |-> "UDPBindAck"]
Ping(seq)             == [type |-> "Ping", seq |-> seq]
Pong(seq)             == [type |-> "Pong", seq |-> seq]

AssignLocalPlayerID(id) == [type |-> "AssignLocalPlayerID", playerID |-> id]
PlayerStateUpdate(id)   == [type |-> "PlayerStateUpdate", playerID |-> id]
PlayerJoined(id)        == [type |-> "PlayerJoined", playerID |-> id]
PlayerLeft(id)          == [type |-> "PlayerLeft", playerID |-> id]
PlayerHealthUpdate(id, health) ==
    [type |-> "PlayerHealthUpdate", playerID |-> id, health |-> health]
PlayerRespawned(id, health) ==
    [type |-> "PlayerRespawned", playerID |-> id, health |-> health]
ProjectileSpawn(owner, id) ==
    [type |-> "ProjectileSpawn", ownerPlayerID |-> owner, projectileID |-> id]
=============================================================================
