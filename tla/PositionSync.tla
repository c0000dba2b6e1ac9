---------------------------- MODULE PositionSync ----------------------------
(* Where one player is: at the client that plays it, at the server, which
   decides hits, and at another client.  The owner sends its position by UDP in
   every frame and the server relays it; the server respawns the player and says
   so by TCP.  Nothing orders the two: state updates carry no sequence number
   and no trace of the respawns their sender knew of.

   Positions are points of a line that lead from one end of the window to the
   other; velocities and animation states follow the same way, and are left out.
   life counts the respawns a position dates from; the program has no such
   thing, it tells what the copies show.

   It begins when the server has added the player and told its client the
   identifier (onClientConnected), which is still to read that. *)
EXTENDS Naturals, Sequences

CONSTANTS MaxPosition,   \* the last position inside the window
          Spawn,         \* where respawned players are put
          MaxMoves, MaxRespawns    \* bounds on what the player goes through

ASSUME PositionAssumption ==
    /\ MaxPosition \in Nat /\ Spawn \in 0 .. MaxPosition
    /\ MaxMoves \in Nat /\ MaxRespawns \in Nat

VARIABLES copy,             \* the Player object at the owner, the server and the other
          inGame,           \* the owner's init() has returned
          joined,           \* the other client is in the game
          stateToServer,    \* state updates on their way to the server
          stateToOther,     \* those the server has relayed
          tcpToOwner,       \* respawns on their way
          tcpToOther,       \* respawns, after the state update of the snapshot
          moves, respawns

syncVars == <<copy, inGame, joined, stateToServer, stateToOther, tcpToOwner, tcpToOther, moves, respawns>>

Copy == {"owner", "server", "other"}
Place == [position: 0 .. MaxPosition, life: 0 .. MaxRespawns]

SyncTypeOK ==
    /\ copy \in [Copy -> Place]
    /\ inGame \in BOOLEAN /\ joined \in BOOLEAN
    /\ stateToServer \subseteq Place
    /\ stateToOther \subseteq Place
    /\ tcpToOwner \in Seq(Place)
    /\ tcpToOther \in Seq(Place)
    /\ moves \in 0 .. MaxMoves
    /\ respawns \in 0 .. MaxRespawns

Spawned(life) == [position |-> Spawn, life |-> life]

SyncInit ==
    /\ copy = [c \in Copy |-> Spawned(0)]
    /\ inGame = FALSE /\ joined = FALSE
    /\ stateToServer = {}
    /\ stateToOther = {}
    /\ tcpToOwner = <<>>
    /\ tcpToOther = <<>>
    /\ moves = 0
    /\ respawns = 0

-----------------------------------------------------------------------------
(* What n messages of a TCP connection, and then the datagrams a turn reads,
   leave of a place: the last one applied.  A turn reads at most one datagram:
   several in one turn are turns that follow each other directly. *)
AfterTCP(place, queue, n) == IF n = 0 THEN place ELSE queue[n]

AfterUDP(place, datagrams) == IF datagrams = {} THEN place ELSE CHOOSE d \in datagrams : TRUE

Readable(inFlight) == {{}} \cup {{d} : d \in inFlight}

Rest(queue, n) == SubSeq(queue, n + 1, Len(queue))

\* Mutant: positions are not kept inside the window.
MovedAnywhere(position) == {position, position + 1} \cup (IF position = 0 THEN {} ELSE {position - 1})

(* Where the input and Player::update take the owner's copy in a frame. *)
Moved(position) == {q \in 0 .. MaxPosition : q <= position + 1 /\ position <= q + 1}

\* Mutant: only a player that moved sends its position.
SentIfMoved(place) == IF place = copy["owner"] THEN {} ELSE {place}

Sent(place) == {place}

(* The batch of waitToAssignLocalPlayerID that has the identifier.  Respawns in it
   find no player yet and are dropped (src/game/game_simulation.h:314-319), after
   which init() adds the player, new, where a respawn would have put it. *)
OwnerJoins(n) ==
    /\ ~inGame
    /\ n \in 0 .. Len(tcpToOwner)
    /\ inGame' = TRUE
    /\ copy' = [copy EXCEPT !["owner"] = Spawned(IF n = 0 THEN 0 ELSE tcpToOwner[n].life)]
    /\ tcpToOwner' = Rest(tcpToOwner, n)
    /\ UNCHANGED <<joined, stateToServer, stateToOther, tcpToOther, moves, respawns>>

(* A frame of GameClient::run at the owner. *)
OwnerFrame ==
    /\ inGame
    /\ \E n \in 0 .. Len(tcpToOwner) :
         LET place == AfterTCP(copy["owner"], tcpToOwner, n) IN
         /\ tcpToOwner' = Rest(tcpToOwner, n)
         /\ \E q \in Moved(place.position) :
               /\ moves' = moves + (IF q = place.position THEN 0 ELSE 1)
               /\ moves' <= MaxMoves
               /\ copy' = [copy EXCEPT !["owner"] = [place EXCEPT !.position = q]]
               /\ stateToServer' = stateToServer \cup Sent(copy'["owner"])
    /\ UNCHANGED <<inGame, joined, stateToOther, tcpToOther, respawns>>

(* GameServer::update applies and relays what it reads; a hit may then eliminate
   the player. *)
ServerReads(datagrams) ==
    /\ datagrams \in Readable(stateToServer)
    /\ stateToServer' = stateToServer \ datagrams
    /\ stateToOther' = IF joined THEN stateToOther \cup datagrams ELSE stateToOther

ServerApplies(datagrams) ==
    /\ ServerReads(datagrams)
    /\ copy' = [copy EXCEPT !["server"] = AfterUDP(@, datagrams)]
    /\ UNCHANGED <<inGame, joined, tcpToOwner, tcpToOther, moves, respawns>>

ServerRespawns(datagrams) ==
    /\ respawns < MaxRespawns
    /\ respawns' = respawns + 1
    /\ ServerReads(datagrams)
    /\ copy' = [copy EXCEPT !["server"] = Spawned(respawns')]
    /\ tcpToOwner' = Append(tcpToOwner, Spawned(respawns'))
    /\ tcpToOther' = IF joined THEN Append(tcpToOther, Spawned(respawns')) ELSE tcpToOther
    /\ UNCHANGED <<inGame, joined, moves>>

(* onClientConnected for the other client: the snapshot has the server's copy. *)
OtherJoins ==
    /\ ~joined
    /\ joined' = TRUE
    /\ tcpToOther' = Append(tcpToOther, copy["server"])
    /\ UNCHANGED <<copy, inGame, stateToServer, stateToOther, tcpToOwner, moves, respawns>>

(* A frame of GameClient::run at the other client, which reads TCP before UDP
   and moves its own player only. *)
OtherFrame(n, datagrams) ==
    /\ joined
    /\ n \in 0 .. Len(tcpToOther)
    /\ datagrams \in Readable(stateToOther)
    /\ copy' = [copy EXCEPT !["other"] = AfterUDP(AfterTCP(@, tcpToOther, n), datagrams)]
    /\ tcpToOther' = Rest(tcpToOther, n)
    /\ stateToOther' = stateToOther \ datagrams
    /\ UNCHANGED <<inGame, joined, stateToServer, tcpToOwner, moves, respawns>>

LoseToServer(place) ==
    /\ place \in stateToServer
    /\ stateToServer' = stateToServer \ {place}
    /\ UNCHANGED <<copy, inGame, joined, stateToOther, tcpToOwner, tcpToOther, moves, respawns>>

LoseToOther(place) ==
    /\ place \in stateToOther
    /\ stateToOther' = stateToOther \ {place}
    /\ UNCHANGED <<copy, inGame, joined, stateToServer, tcpToOwner, tcpToOther, moves, respawns>>

OtherStep ==
    \E n \in 0 .. Len(tcpToOther), datagrams \in Readable(stateToOther) : OtherFrame(n, datagrams)

SyncNext ==
    \/ \E n \in 0 .. Len(tcpToOwner) : OwnerJoins(n)
    \/ OwnerFrame
    \/ \E datagrams \in Readable(stateToServer) :
          ServerApplies(datagrams) \/ ServerRespawns(datagrams)
    \/ OtherJoins
    \/ OtherStep
    \/ \E place \in stateToServer : LoseToServer(place)
    \/ \E place \in stateToOther : LoseToOther(place)

SyncSpec == SyncInit /\ [][SyncNext]_syncVars

-----------------------------------------------------------------------------
(* The owner gets to the game, both loops run for ever and TCP delivers.  A
   datagram that is not sent again is delivered or lost at last; one that is sent
   again and again is also received again and again, after those it overtook are
   gone. *)
StaleLeaves(before, after) == \E place \in before : place # copy["owner"] /\ place \notin after

Fairness ==
    /\ WF_syncVars(\E n \in 0 .. Len(tcpToOwner) : OwnerJoins(n))
    /\ WF_syncVars(OwnerFrame)
    /\ WF_syncVars(OwnerFrame /\ Len(tcpToOwner') < Len(tcpToOwner))
    /\ WF_syncVars(OtherStep /\ Len(tcpToOther') < Len(tcpToOther))
    /\ WF_syncVars(SyncNext /\ StaleLeaves(stateToServer, stateToServer'))
    /\ WF_syncVars(SyncNext /\ StaleLeaves(stateToOther, stateToOther'))
    /\ SF_syncVars(ServerApplies({copy["owner"]}))
    /\ SF_syncVars(OtherFrame(0, {copy["owner"]}))

FairSpec == SyncSpec /\ Fairness

(* Once the player has stopped moving and is not hit any more, every copy comes
   to show the owner's for good, whatever was lost, reordered or overtaken: the
   owner sends its position again in every frame. *)
CopiesAgree ==
    <>[](copy["server"] = copy["owner"] /\ (joined => copy["other"] = copy["owner"]))

(* A player that was eliminated stays respawned at the server, where hits are
   decided (README.md:17). *)
RespawnSticks == copy["server"].life = respawns
=============================================================================
