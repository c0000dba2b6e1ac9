# Pixelators in TLA+

A verification development for Pixelators, a small real-time multiplayer arena
game in C++ (SDL2, Asio): a server and any number of client processes that share
a game over TCP (reliable events) and UDP (positions). The specifications are
translated from the code under `src/`; file and line references below are to it.

## 1. The system

| Component | State | Operations | Interacts with |
|---|---|---|---|
| `NetworkServer` (`game/network_server.h`) | clients by id: status, token, connection, endpoint, two outboxes, inbox; endpoint → client id | `acceptConnections`, `pumpReceive`, `consumeIncomingMessages`, `queueOutgoingMessage`, `queueBroadcast`, `pumpSend`, `cleanupDisconnectedClients` | takes connections from `TCPListener`, calls `TCPConnection` and `UDPTransport`, calls back into `GameServer` on connect and disconnect |
| `NetworkClient` (`game/network_client.h`) | handshake progress, inbox, outboxes, pending ping | `doUDPHandshake`, `pumpReceive`, `pumpSend`, `isConnected` | one TCP connection and one UDP socket per process |
| `GameServer` (`game/game_server.h`) | a simulation, client id → player id | `update` (one tick), `onClientConnected`, `onClientDisconnected` | drives `NetworkServer` and `GameSimulation` |
| `GameClient` (`game/game_client.h`) | a simulation, its own player id | `init`, `waitToAssignLocalPlayerID`, `run` (frames) | drives `NetworkClient`, `GameSimulation`, input, rendering |
| `GameSimulation`, `GameState`, `Player`, `Projectile` | players with health, position, animation state; projectiles | apply a message, apply input, advance time, register hits | the server's copy and one copy per client |
| `TCPConnection`, `TCPListener`, `UDPTransport` (`networking/`) | sockets, queues between two threads | asynchronous reads and writes; `send`, `tryRecv` | handlers run on the io_context thread, everything else on the game thread |
| `ThreadSafeQueue` (`common/utils.h`) | a deque, a mutex, a condition variable | `push`, `pop`, `tryPop`, `front`, `empty` | between the two threads |
| Rendering, statistics, logging, command line | – | – | read only |

How a process joins: it connects by TCP; the server's tick accepts it, gives it a
client id and sends a `UDPBindRequest` with a token; the process sends
`UDPBind(token)` by UDP, again and again, until a `UDPBindAck` comes by TCP; the
`UDPBind` makes the server note the process's UDP endpoint and call
`onClientConnected`, which queues `AssignLocalPlayerID`, a snapshot of all players
for the newcomer, and `PlayerJoined` for everyone else. From then on each frame
sends a `PlayerStateUpdate` by UDP, which the server relays; shots go by TCP, and
hits are decided by the server and broadcast by TCP.

What makes it hard: two threads per process; two transports with no order between
them, one of which loses and reorders; a handshake that resends, times out and
throws away what it does not expect; disconnects noticed by one side at a time and
handled at one point of the tick; callbacks that run in the middle of the network
layer's loops; a snapshot taken while messages about the same players are under
way. `PROJECT.json` lists the hazards line by line, with the properties that cover
them.

What makes each component correct:

- *NetworkServer*: the endpoint map and the clients describe the same bindings; a
  client is bound to its own process; connect is called back once per client; every
  process that ends is removed, everywhere; pings are answered in order.
- *NetworkClient*: the handshake can always finish; it never reads past what it
  needs later.
- *GameServer*: exactly one player per connected client; whoever joins learns of
  every player and health, whoever is there learns of whoever joins.
- *GameClient*: its own player is there in every frame; its copy of the others comes
  to agree with the server's.
- *TCPConnection*, *UDPTransport*, *TCPListener*: whole messages, datagrams with the
  endpoint they came from, connections in the order clients opened them; each once; an
  asynchronous loop lives exactly as long as its socket; what was received is handed over.
- *ThreadSafeQueue*: a FIFO queue to its callers; no wake-up lost; `tryRecv`, which asks
  `empty` and then calls the blocking `pop`, never blocks.
- *GameSimulation* at the server: no shot is lost on its way to a player it flies at, none
  replaces another; the copies of a player's position come to agree.
- *Player*: keys decide whether it runs; it stays in the window.
- *Clocks*: a ping shown is a round trip; the game lives through the time that passes.

## 2. The modules

| Module | Models | Notes |
|---|---|---|
| `Messages` | `game/message.h` | records with the tag and the fields that matter |
| `MessageChannel` | what a TCP direction promises | abstract specification |
| `TCPConnection` | `tcp_connection.h`, one direction | implements `MessageChannel` |
| `UDPTransport` | `udp_transport.h` | receive loop with its one buffer, sends at once or later, close |
| `TCPListener` | `tcp_listener.h` | accept loop, start, shutdown |
| `FIFOQueue` | what the transports take a queue for | abstract specification |
| `ThreadSafeQueue` | `common/utils.h` | mutex, condition variable; implements `FIFOQueue` |
| `Transports` | what the network layer uses of TCP, listener and UDP | a TCP direction is one sequence, UDP a set of datagrams |
| `NetworkServer` | `network_server.h` | extends `Transports` |
| `NetworkClient` | `network_client.h` | extends `Transports` |
| `Network` | server and clients under the most general application | the invariants and properties of the network layer |
| `NetSession` | `Network` under an application that sends one message at a time | what TLC runs of the network layer |
| `PingClock` | the times of pings in `network_client.h` | with a clock; pings lost, reordered, delivered twice |
| `GameSimulation` | players and health of `game_simulation.h`, `game_state.h` | operators, used by both sides |
| `GameServer` | `game_server.h` over `NetworkServer` | the tick in phases |
| `GameClient` | `game_client.h` over `NetworkClient` | one per process |
| `GameSession` | the whole program | safety and liveness; implements `Network` |
| `Player` | `player.h`, `player.cpp`: keys, Idle/Run, position of the local player | nothing outside a process sees more of it than the state updates |
| `Window` | `constants.h`, boxes, the respawn point | shared by `Player` and `Arena` |
| `Arena` | flight, lifetime, bounds and hits of projectiles at the server, respawn, identifiers | lengths in fractions of a pixel |
| `PositionSync` | one player's position at its owner, the server and another client | updates lost, reordered, overtaken by a respawn |
| `GameClock` | `frame_timer.h` and the clock of `server.cpp` | 32-bit ticks kept as `int`, milliseconds that are cut |
| `MCNetSession`, `MCGameSession`, `MCThreadSafeQueue`, `MCPlayer`, `MCPositionSync`, `MCUDPTransport` | instances for TLC | constants, symmetry, a late start |
| `MCTransports`, `MCSimulation`, `MCClocks` | instances of several modules | see 3 |
| `Network_proofs`, `NetSession_proofs`, `GameServer_proofs`, `GameSession_proofs`, `Transports_proofs`, `ThreadSafeQueue_proofs`, `Simulation_proofs` | theorems and lemmas | see 5 |
| `Recursion_proofs` | what may be said of recursive functions and of loops | see 5 |

How they compose: `NetworkServer` and `NetworkClient` share the variables of `Transports`;
`Network` joins them under an application that may do anything the interface allows: between
the server's operations and inside its callbacks it adds application messages to outboxes and
takes inboxes, and a client that is past the handshake sends what it likes. That is an
abstract specification: `ServerApplication` says what a whole tick or callback may have done to
the queues, not how, so it has too many successors for TLC. Two applications implement it:
`NetSession`, which queues one message at a time and is proved to (`SessionIsNetwork`), and the game,
`GameSession`, which is checked and proved to (`ImplementsNetwork`). The modules of a single component (the transports, the queue, `Player`, `Arena`,
`PositionSync`, the clocks) each justify what the composed ones take for granted: that TCP is
a sequence and UDP a set with true senders, that queues are queues, and that a
hit, which `GameSession` lets happen at any time, is found where a shot flies.

Variables and operators keep the code's names (`m_clients`, `m_udpEndpointToClientID`,
`m_outMessages`, ...). Modules that one run joins do not share names: definitions of
`UDPTransport`, `TCPListener` and `Arena` carry their component's name (`UDPInit`,
`ListenerNext`, `arenaVars`), and `udpInMessages` and `udpSent` are the transport's
`m_inMessages` and what was sent. Definitions marked *Mutant* are not part of the specification:
each is a plausible mistake in the definition after it, used to show that a property
would notice it.

**Steps.** The game thread of the server calls every method of `NetworkServer` and
`GameServer`. What another thread or process can notice of it is at the transports,
so a step is one turn of a receive or accept loop, a whole `pumpSend`, the making of
the list of disconnected clients, one removal, one callback, and, in `GameServer`,
the rest of `update`. Each client process is one thread; a step is one `tryRecv` of a
loop with what it leads to, a poll, or the end of a frame. A removal and its callback
are two steps in `NetworkServer` (`callback`, `toRemove`) and no other server step
comes between them.

**TCP.** In `Transports` one sequence stands for everything between a `send` and the
`tryRecv` that returns it. That is justified by `TCPConnection`, which follows a
message through the post, `m_outMessages`, the two writes, the wire, the two reads and
`m_inMessages`, with either end closing in between, and implements `MessageChannel`.
`MessageChannel` loses the last messages when an end closes; `Transports` instead lets
the reader never get to them, which shows the same to the layers above.

**UDP.** A set of datagrams: delivery in any order, loss as never being delivered,
duplicates only through resending (an identical datagram sent again is one element of
the set again). The network itself duplicating a datagram is not modelled. What
`Transports` assumes, that a datagram is read with its own sender and at most once, is what
`UDPTransport` shows of the receive loop: its buffer `m_recvMsg` and `m_recvSender` are one
pair of members used again and again.

**Handlers.** In `TCPConnection`, `UDPTransport` and `TCPListener` an asynchronous operation
is started, completed by the operating system, and handled, in three steps; the game
thread's calls, closing included, fall between any two of them. A handler that tests
`is_open` and then starts the next operation is two steps.

**The queue.** In `ThreadSafeQueue` a step is what a thread does under one holding of the
mutex, or getting the mutex, or waking. `notify_one` wakes any one waiting thread, and
threads also wake without reason. `tryRecv` of the transports is `empty` and then `pop`.

**Lengths and times.** Positions are integers, in fractions of a pixel; the conversion
to `int` in the bounding boxes is division that truncates. In `Arena` a velocity along both
axes is the length the code's normalising gives, rounded. `PingClock` and `GameClock` have a clock that advances by any
bounded time between two calls.

**Exit.** Timeouts (`doUDPHandshake`, `waitToAssignLocalPlayerID`), quitting, an
exception and a killed process are one action: the process may end at any point, its
socket closes, what it had not read is gone, what it sent is still under way.

**Ports.** A process keeps one endpoint, and two processes may have the same one after
each other (`Start`). In `GameSession` endpoints differ.

## 3. The runs

| Run | What it asks | Bounds | States |
|---|---|---|---|
| `net_session` | binding, handshake, connect once, inboxes, pings | 2 processes on one port after each other, 2 polls, 2 pings, 1 application message | 858 000 |
| `game_session` | the inductive invariant of the game (agreement of the copies in it), one player per client, own player present, the game is an application of `Network` | 2 processes, 2 polls, 1 state update read per client and tick, or 1 ping, health 2, no shots | 516 000 |
| `game_late` | a process joins a game in which someone was hit, while a projectile flies; ended processes are forgotten, players meet | 1 shot, no state updates | 116 000 |
| `transports` | TCP: framing, the channel, delivery, closing; UDP and listener: each thing once, loops follow sockets | 5 messages, 2 of them header-only; 2 datagrams between 2 transports; 4 connections | 28 000 |
| `thread_safe_queue` | FIFO, no lost wake-up, polling never blocks, everything returned | 2 producers of 2 items, 2 consumers, 3 ways to use the queue | 55 000 |
| `simulation` | keys, window; shots along an axis arrive, shots are kept; copies agree | see below | 172 000 |
| `clocks` | round trips; no time lost | 3 pings; 14 ms of frames and ticks | 514 000 |
| `player_stuck`, `game_ghost`, `game_own_health`, `position_respawn`, `udp_intact` | violations, see 6 | | – |

*Components side by side.* `MCTransports` (a TCP connection, UDP, a listener), `MCSimulation`
(`Player`, `Arena`, `PositionSync`) and `MCClocks` each join components that share no variable. A product of them would only multiply their states, so
a behaviour moves one of them, chosen at the start by `part` or `clock`, and the others stay as they
begin. What a property says of a component is asked of the behaviours in which it moves. Such a
behaviour is one of each component (`EachTransportRuns`, `EachPartRuns`, `EachClockRuns`), so the theorems about the
components are about what is run.

*Why the bounds are enough.* Everything the properties of the network layer relate is
about one client, or about one client and another that takes its endpoint or is removed
beside it; two processes give both. Two polls give a `UDPBind` and a retry that is late.
Health 2 with damage 1 gives a hit that hurts and a hit that kills; the code has
100 and 25, and the model only uses that damage brings health to 0 or less at some hit.
A client pings by TCP, as it is configured. `game_session` has one ping in all, from whichever process,
at a frame when no state update is being relayed, and leaves out what follows when one is later
(`PingsOrUpdates`, the run's constraint): what is asked of a ping is that it finds its way among the messages
of the game by TCP and leaves them alone. Behaviours with both are covered by the theorems (5) only. That several come back in order is `net_session`'s question.
Client ids start at 10000 and tokens are 100 more, as in the code. Where two processes
can be exchanged, symmetry is used, and never with a liveness property.

`transports`: five messages, two of them without a body one after the other, put each kind
before and behind each kind; two datagrams are what can meet in one buffer; four connections
leave one accepted, one failed, one reset and one in the backlog at the same time.
`thread_safe_queue`: a wake-up can be lost only between two items and two who wait.

`simulation`: a window of 9×6 with players of 3 has even and odd distances (the centre is then
not the respawn point), positions on whole and half pixels, and steps that leave the window by
less than a pixel and by more. Directions are signs in `Player`: normalising
changes the length of a step, which is any up to `MaxStep`, never where it points. Arena: a
projectile of 1 that flies 1.5 pixels a millisecond, ticks of up to three milliseconds, of which the
longest would jump over a player; two shots each, two in flight. State updates put a player half a pixel
outside the window at its corner or its edge, where `boundPosition` may leave it. That gives straight and
diagonal flights, both edges, two hits in one tick, a shot that passes a player exactly, lifetimes that end.
Each player has a range of one identifier, of two there are, so that its second shot may meet the
other's first. Copies: two positions, two moves and a respawn are an update
from before and one from after it, in either order; the respawn may come before the owner knows its identifier.

`clocks`: a modulus of 10 stands for 2^32, so that `SDL_GetTicks` passes its half, where the difference of two
`int`s overflows, and goes through 0 again within a run; two fractions of a millisecond make ticks that are cut and ticks that are not.
Pings by UDP take up to more than two intervals; pings by TCP, as clients are configured, less
than one. The third ping is then pending when a Pong of the first may still come, or come again.

`MaxPolls` stands for timeout / poll interval (60). `MaxPings`, a bound on the pings of all processes together, `MaxShots`, `MaxUpdates`,
`MaxAppSends`, `MaxSends`, `MaxDatagrams`, `MaxFlying`, `MaxMoves`, `MaxRespawns`, `MaxPushes`, `MaxTime` are
bounds of the model only. `MaxUpdates` also hides that the code's receive loop has no bound (see
the hazards). `game_late` starts in a state the program reaches in a longer run: one player, hit
once by someone who has left since. That state satisfies the inductive invariant (`LateJoinersFollow`).

*Deadlock* is checked except in `transports` and `udp_intact`, where sockets may be closed;
`thread_safe_queue`, where a thread may wait in `pop` for an item that nobody pushes; and
`clocks`, where the pings and the time are used up.

*Fairness.*
- `game_late`: the server's loop (`server.cpp:69`) always takes its next step; a connected client
  ends the batch it is in, and reads from TCP again and again (strong fairness, since every
  frame calls `tryRecv` on TCP first but other work comes between); an end of a connection
  notices that the other is closed; a process that finds itself disconnected exits. Nothing is
  assumed of datagrams, of the handshake, of players quitting.
- `transports`: handlers whose operation is complete run, since one thread runs the io_context
  until the program ends; the system carries out writes and reads of open sockets; `tryRecv` and
  `getNextConnection` are called in every turn of the game loops; accepting does not fail for
  ever. Nothing is assumed of sends, of datagrams arriving, or of closing.
- `thread_safe_queue`: a mutex that is free again and again is got at last; a thread that is
  inside a call goes on. Nothing makes a producer push, or wakes a thread without a notification.
- `simulation` (copies): the owner reads its identifier at last, both loops run, TCP delivers, a datagram that is not sent again is
  delivered or lost at last, and one that is sent in every frame is received again and again.

## 4. The properties

Network layer
- `EndpointMapConsistent` – the two maps of `NetworkServer` agree. `pumpReceive` uses
  `m_clients[it->second]`, which would create an empty client for a stale entry.
- `BindingInvariant`, `GameInvariant` – the inductive forms, types included, see 5.
- `ConnectOnce` – `handleUDPBind` does not look at the status; a late retry must not call
  back again.
- `HandshakeCanFinish` – the handshake discards what it does not expect; the message it
  waits for is still to come as long as both ends are open.
- `InboxOnlyFromConnected` – the game only ever hears from bound clients, though nothing
  in the server checks it.
- `PingsAnsweredInOrder` – pongs come back once each, in order, over TCP.

Game
- `OnePlayerPerClient` – no player without a client, no connected client without one, no
  player shared.
- `RemotePlayersAgree` – a client's copy plus everything still under way to it by TCP is
  the server's game, as far as the other players are concerned: nothing the handshake
  threw away is missed.
- `LocalPlayerPresent` – `getPlayer(m_localPlayerID)` never fails its assertion.
- `ImplementsNetwork` – what the game does between the network layer's operations is no more than
  `Network` allows, so that what is proved there holds here.
- `ExitedIsForgotten`, `PlayersMeet` – liveness.

Transports
- `WellFramed`, `ImplementsChannel`, `EverythingArrives`, `ClosingIsNoticed` – the TCP
  connection.
- `NothingLost`, `NeverIdle` (proved, see 5) – the messages returned are those sent, from the first on;
  none that is missing is left with nobody to go on with it.
- `EachFromItsSender` – one buffer for all datagrams, and still each is returned with its own
  endpoint, and once.
- `ReceivedIsReturned`, `LoopFollowsSocket` – errors do not end the receive loop, closing
  does, and nothing received is lost by it. `LoopAlive` (proved) is what this comes to in every state.
- `HandedOverInOrder`, `EachHandedOver` – the server numbers clients as it gets them; an accept
  that fails costs nobody but the connection it failed for. `NoneForgotten` (proved) says where each
  connection is until then.

Queue
- `NoLostWakeup` – `push` notifies one thread per item; `empty`, `tryPop` and threads that
  wake without reason come between.
- `NeverBlocks` – `tryRecv` is `empty` and then `pop`: safe with one consumer, as the
  transports use it, and only so.
- `ImplementsFIFO`, `EveryItemReturned`.

Simulation
- `KeysDecide` – whatever keys come and go, the player runs exactly while one is down,
  unless it was stuck from the beginning (see 6).
- `BoxInWindow` – `boundPosition` tests truncated pixels and moves exact positions; the box
  is in the window all the same.
- `AimedShotsArrive` – hits are tested once a tick on truncated boxes, after projectiles that left
  the window or expired have gone; no tick loses a shot along one axis that has a player in its way, unless
  the tick is so long that the shot jumps over a player (`NotOver`), which nothing in the code rules out.
  Nothing is said of diagonal shots, which may pass a corner between two ticks.
- `ShotsKept` – identifiers are made by each client for itself, and `emplace` drops a shot whose
  identifier is in flight. That happens only with a projectile of another player, and only when one of the two
  has fired its range of identifiers empty or the range does not fit into 32 bits.
- `CopiesAgree` – state updates carry no order, respawns go another way, and a player at rest is
  seen in the same place by all in the end.

Clocks
- `PingIsRoundTrip`, `EveryPingMeasured` – every ping replaces the pending one; a pong that comes
  after that must not be measured against the wrong time, nor one that comes twice. Slow connections keep
  the last fast value. That no ping is missed is true over TCP only.
- `ClientTimeExact`, `ServerTimeLags` – unsigned ticks stored in `int`: no millisecond is lost from frame
  to frame while they are negative or go through 0. The frame in which they pass 2^31 is excepted: the
  difference of two `int`s (`frame_timer.h:13`) then overflows, which is undefined, and its delta is any `int`.
  The server's elapsed time is cut to whole milliseconds in each tick and the rest is dropped.

Types are one invariant of a run: `TypeOK`, `AllTypesOK` where a run has several modules, or a part of the
inductive invariant.

Definitions marked *Mutant* in the modules are the mistakes each property was seen to catch.

## 5. What is proved

Theorems hold for every value of the constants that satisfies the assumptions named; TLC
evaluates those in the runs.

**Network layer** (`Network_proofs`), for every set of processes,
every assignment of endpoints to them (shared ones included), every bound and every application.

- `BindingCorrect`: `NetworkSpec => []BindingInvariant`
- `TypeCorrect`: `NetworkSpec => []NetworkTypeOK`
- `EndpointMapCorrect`: `NetworkSpec => []EndpointMapConsistent`
- `ConnectsOnce`: `NetworkSpec => ConnectOnce`
- `InboxFromConnected`: `NetworkSpec => []InboxOnlyFromConnected`
- `HandshakeCanAlwaysFinish`: `NetworkSpec => []HandshakeCanFinish`
- `PingsAnswered`: `NetworkSpec => []PingsAnsweredInOrder`

`EndpointMapConsistent` is not inductive: a `UDPBind` from an unbound endpoint for a
client that is already bound elsewhere would break it. That this does not happen is a
matter of where tokens are. `BindingInvariant` says so: client ids are given out once and
one per connection (`Identities`), a client's token is a function of its id
(`ClientsIdentified`), every copy of a token – in an outbox, on the wire, in a process, in
a datagram – is that of the connection it travels on or the process it came from
(`Tokens`), and a client is bound to its process's endpoint or none (`BoundToProcess`). So
a client's `UDPBind`s all come from one endpoint; after the first that endpoint is in the
map, and the map is looked at first. That also gives `ConnectsOnce`. The type invariant
needs `EndpointMapConsistent` in turn, since `pumpSend` addresses datagrams to the
endpoints of `Connected` clients; the two are proved together.

`InboxOnlyFromConnected` rests on the order of the handshake (`AckFollowsBinding`): an
acknowledgement is made only for a bound client, is only ever on that client's connection, and
a process sends nothing by TCP before it has read one; and a client that is bound stays so until
it is removed (`BoundKept`, from `BindingInvariant`).

`HandshakeCanFinish` and `PingsAnsweredInOrder` are about what the server has still to tell a
process (`ToCome`): the outbox and the connection as one sequence. One lemma, `ToComeFrame`, says what
any step does to it: the first element is read, one message of the network layer or any of the
application's are added at the end, or the connection is no longer open at both ends. On top of it `HandshakeInvariant` has
each message of the handshake once, in its phase; and `PingInvariant` has the numbers of pongs
and pings increase along the way of a ping, from the connection to the server back to the
client.

Assumptions: `EndpointAssumption`, `NoEndpointAssumption`, `PollAssumption`.

What TLC runs of it is `NetSession`, for which `NetSession_proofs` has, for any messages the application may send
and however often (`AppSentAssumption`):

- `SessionIsNetwork`: `Spec => NetworkSpec`
- `SessionInOrder`: the properties above, of `Spec`

A queue with a message put at its end, an inbox that is taken and a callback that returns are what `Network` allows an
application (`QueuedIsUsed`), which takes the types that `BindingInvariant` contains.

**The whole program** (`GameSession_proofs`, with lemmas about the tick in `GameServer_proofs`), for
every number of processes, with distinct endpoints, of polls, shots and updates, every health and
damage.

- `SessionCorrect`: `Spec => []SessionInvariant`
- `Implements`: `Spec => ImplementsNetwork`
- `GameInvariantHolds`: `Spec => []GameInvariant`
- `OnePlayerEach`: `Spec => []OnePlayerPerClient`
- `LocalPlayerStays`: `Spec => []LocalPlayerPresent`
- `RemotePlayersFollow`: `Spec => []RemotePlayersAgree`
- `WholeCorrect`: `Spec => []WholeInvariant`
- `LateJoinersFollow`: `MCLateJoinSpec => [](GameInvariant /\ RemotePlayersAgree)`, from `LateJoinAssumption`:
  the process that plays first is one, and may poll at least once

That a step of the game is a step of `Network` needs the types and the consistency of the tables, for
a tick only relays what inboxes hold, and those the lemmas of the network layer, so
`SessionInvariant`, which joins `BindingInvariant` and `PlayersInvariant`, is proved first: a step of the game from it
is a step of `Network` (`StepIsNetworkStep`), which keeps `BindingInvariant`, and the parts of
`PlayersInvariant` follow one by one. `OnePlayerPerClient` is not inductive because a state update of a
player that is not in the game adds it. `PlayersInvariant` therefore follows every message that names a player:
updates sent by a process are of the player the server gave it, wherever they are (`Datagrams`),
what it sends by TCP is shots and pings (`FromProcess`), and no process is told that its own player left (`ToProcess`), which also gives
`LocalPlayerPresent`; and a client that ends takes what it sent with it, since its identifier,
and so its player's, is never given out again. Between a removal and its callback the tables
disagree by one client (`CallbackState`).

`RemotePlayersAgree` relates three places at once, the server's game, what is under way and a client's
copy of it, and has an inductive form of its own, `AgreementInvariant`, proved together with the
invariants of the handshake (`WholeInvariant`; `GameInvariant` is the part of it that is the game's, and is
what the run checks). `Agrees(known, msgs, q, health)` says that the messages, applied to what is known,
come to a game in which `q` has that health, and that none of them tells a health of `q` before one
introduces it, for such a message would be dropped if it were read at once but not if a datagram had
added `q` before. Each kind of step has a lemma about `Agrees`: a message is read (`AgreesRead`), one is added
(`AgreesTold`), a datagram or `init` adds a player to the copy (`AgreesAdded`), a player joins
(`AgreesJoined`), and a new client gets the snapshot (`SnapshotAgrees`). They need to know that nobody hears
of a player before it is made (`GivenOut`), that a player who is in the game is not about to be told as left
(`LeftIsGone`), and that the acknowledgement is the last message of the outbox when `onClientConnected`
runs (`JustBound`), so that the process, which throws away what comes before the acknowledgement, throws away
nothing of the snapshot. What a tick of the server adds to each outbox is exactly what it does to the game
(`GameTells`, from `OnClientConnectedTells`, `OnClientDisconnectedTells` and `UpdateTells`).

**TCP connection** (`Transports_proofs`), for every number of messages, any of them without a
body, either end closing at any point.

- `ConnectionTypeCorrect`: `Spec => []TypeOK`
- `MessagesWellFramed`: `Spec => []WellFramed`
- `ConnectionIsChannel`: `Spec => ImplementsChannel`
- `NothingIsLost`: `Spec => []NothingLost`
- `SomethingGoesOn`: `Spec => []NeverIdle`

The invariant says that one write is under way exactly while `m_outMessages` is not empty
(`OneWrite`), that what lies on the wire continues what the receiver has read so far
(`WireFits`, `ReadFits`), and that what the sender writes next continues the wire (`SenderFits`).
The refinement maps the connection to what its handlers have still to bring to `tryRecv`: the messages
that were received, those whose last part is on the wire, and those not yet written. It adds to
the invariant that the message being written is the first of `m_outMessages` (`CurrentIsFirst`). Then posts,
headers and reads change nothing of it, `send` adds at its end, `tryRecv` takes from its front, and a close
cuts off its end.

The channel may hold any messages; `NothingLost` says that they are the ones that were sent, from the first
on, and follows from the same lemmas: `send` adds the next number (`SendNumbers`), and every other step leaves
what was returned and what is in the channel together as it was, or its front (`KnownShrinks`).
`NeverIdle` is what `EverythingArrives` comes to without fairness: no state between two open ends has a
message missing and no handler, read, write or `tryRecv` to go on with it, for then the channel would be empty.

**UDP transport** and **TCP listener** (`Transports_proofs`), for every
set of transports, number of sends, and set of connections.

- `TransportTypeCorrect`, `DatagramsFromTheirSender` (`EachFromItsSender`)
- `LoopGoesOn`: `UDPSpec => []LoopAlive`
- `ListenerTypeCorrect`, `ConnectionsInOrder` (`HandedOverInOrder`)
- `NoConnectionForgotten`: `ListenerSpec => []NoneForgotten`
- `EachTransportRuns`: `MCSpec => Spec /\ UDPSpec /\ ListenerSpec`
- `TransportsTypeCorrect`: `MCSpec => []AllTypesOK`

A datagram is in one place at a time: waiting in a socket, on the network, in `m_recvMsg` with
its handler to run, or handed over (`DeferredRight`, `NetworkRight`, `ReceivedRight`,
`HandedOverRight`); since the receive loop does not start again before it has pushed, nothing
is pushed twice. For the listener, what is handed over, what is accepted and the backlog form one
increasing sequence (`InOrder`, `AcceptedInOrder`).

`LoopAlive` and `NoneForgotten` are the parts of `LoopFollowsSocket` and `EachHandedOver` that need no
fairness: wherever a close or a shutdown falls between the steps of a handler, the loop is at a step that
leads on. `LoopAlive` needs that a transport is opened once (`LoopInv`). For `NoneForgotten` the places where a connection may be
are one set (`InHand`), which no step makes smaller; it needs that the loop does nothing before `start`
(`LoopOfListener`). These two, `NothingLost` and `NeverIdle`
are properties of no run; they are proved for every instance. Assumptions: `DatagramAssumption`, `ConnectionAssumption`.

**Queue** (`ThreadSafeQueue_proofs`), for any threads and items.

- `QueueTypeCorrect`, `WakeupsNeverLost` (`NoLostWakeup`), `TryRecvNeverBlocks` (`NeverBlocks`)
- `QueueRefinement`: `Spec => ImplementsFIFO`: each step of the queue is a push, a take or nothing
  of the abstract one. Assumption: `QueueAssumption`.

**Arena** (`Simulation_proofs`), for every window, size, speed, set of players and frame length.

- `ArenaTypeCorrect`: `ArenaSpec => []ArenaTypeOK`
- `ShotsAreKept`: `ArenaSpec => ShotsKept`
- `ShotsArrive`: `ArenaSpec => AimedShotsArrive`

The first says of each player that it has some health left and is in the window, and needs that several
hits of one tick, registered one after another, leave it so. It and the others rest on positions that clients report
being in the window as `boundPosition` leaves them, in whole pixels: since it moves the exact
position by what the truncated box is outside, a corner may be outside by a fraction (`PixelAtEdge`).
`ShotsAreKept` adds that the projectiles of a player carry identifiers it has made (`OwnIDsDiffer`, `IDsDiffer`).
It does not assume that the ranges of two players are apart; `ShotsMeet` is what follows when they meet.
`ShotsArrive` compares a projectile's truncated box before and after a
tick with the player's, and its age with the window it still has to cross (`OnCourse`).
Assumptions: `WindowAssumption` (the player fits into the window); `SizeAssumption` (lengths and
damage are positive, a projectile is no bigger than a player, and positions reported are in the window);
`IDAssumption` (a player does not make the same identifier twice, which takes 2^32 shots);
`FlightAssumption` (a projectile lives long enough to cross the window, as with the code's numbers). No bound
on the length of a tick is assumed: `AimedShotsArrive` says itself which ticks it is about.

**Player** (`Simulation_proofs`), for every size of window and player, every fraction of a
pixel and every step length (`WindowAssumption`, `StepAssumption`).

- `PlayerTypeCorrect`, `KeysDecideAlways`, `IdleIsStill`, `AlwaysInWindow`
- `StuckForEver`: `Spec => (Stuck => []Stuck)`, what the finding in 6 comes to.

`KeysDecide` is not inductive: a running player whose `m_currentState` said Idle could not
stop. `StatesAgree` adds that the two differ only while the first, idle object is there.
`AlwaysInWindow` rests on one lemma about truncating division (`DivInRange`), from which
`boundPosition`, the centre and the respawn point follow.

**Game clocks** (`Simulation_proofs`), for every modulus, resolution, frame duration and first value of
`SDL_GetTicks`.

- `ClientLosesNoTime`: `ClockSpec => ClientTimeExact`
- `ServerFallsBehind`: `ClockSpec => []ServerTimeLags`

`ClientTimeExact` is about every frame but that in which the ticks pass 2^31; what its delta
is (any `int`) the type invariant says and no more. It
rests on two facts about the conversion to `int`: the difference of two
readings is that of the milliseconds, modulo the modulus (`TicksDiffer`), and the one number of that
class in the range of an `int` (`SignedUnique`) is the true difference as long as the frames begin less than
half the modulus apart. How far apart that is, the proof decided: a frame that is busy for `MaxBusy`
begins a millisecond later than its length says when that millisecond has just begun, and `ClockAssumption`
leaves room for it.

**Pings** (`Simulation_proofs`), for every interval, round trip and length of a turn, by TCP and UDP
(`PingAssumption`).

- `PingClockTypeCorrect`: `PingSpec => []PingTypeOK`
- `PingShown`: `PingSpec => PingIsRoundTrip`
- `PingsMeasured`: `PingSpec => EveryPingMeasured`

The first two need that the pending ping is always the last one sent, with its time, and that `pumpSend` leaves
it younger than `pingInterval` (`Pending`). The third follows a ping over TCP: as long as it has not been
measured it is on its way, and once `pumpReceive` has read what there is, it is younger than a round trip
(`AnswerDue`), so the `pumpSend` that finds it a whole interval old cannot come next.

**Copies of a position** (`Simulation_proofs`), for every line of positions, number of moves and of respawns
(`PositionAssumption`).

- `SyncTypeCorrect`: `SyncSpec => []SyncTypeOK`

Respawns that come in the batch of `AssignLocalPlayerID` are dropped, since the owner's player is added after it
(`OwnerJoins`); the player is then new, where a respawn would have put it. `CopiesAgree` is liveness and model-checked.

**The `simulation` and `clocks` runs** (`Simulation_proofs`).

- `EachPartRuns`: `MCSpec => Spec /\ ArenaSpec /\ SyncSpec`
- `SimulationTypeCorrect`: `MCSpec => []AllTypesOK`, with `SizeAssumption` and `IDAssumption`
- `EachClockRuns`: `ClocksSpec => PingSpec /\ ClockSpec`

**Recursive functions** (`Recursion_proofs`). The loops of the code are recursive functions of the number of
turns. Induction rules that take an operator cannot be used, so what holds after every turn is proved by way
of the least number of turns after which it would not (`LeastNat`), stated for sets of values
that each turn keeps (`KeptThroughout`, `Runs`, `AllReached`).

*Only model-checked.* All liveness, which is out of the proof system's reach: `ExitedIsForgotten`, `PlayersMeet`,
`EverythingArrives`, `ClosingIsNoticed`, `ReceivedIsReturned`, `LoopFollowsSocket`, `EachHandedOver`,
`EveryItemReturned`, `CopiesAgree`. Every other property of a passing run is proved.
No `RECURSIVE` operator is used anywhere.

## 6. Where the code does not do what it says

- **Ghost players** (`game_ghost`, `game_simulation.h:280`). A state update of an unknown
  player adds it, on the assumption that its `PlayerJoined` was missed (`:282`). By UDP an
  update can also come after `PlayerLeft`; the player then stays on that client for good.
- **Own health** (`game_own_health`, `game_client.h:56`). `init` adds the local player after
  the batch that brought its identifier. If the batch also has a health update for it, that
  is dropped, and the client's own health bar is wrong until the next hit.
- **Stuck player** (`player_stuck`, `player.h:109`). `m_currentState` is initialised nowhere.
  When it happens to hold Run, `maybeChangeState(Run)` does nothing, for ever, and the player
  cannot be moved. In a fresh process the memory is usually zero, which is Idle.
- **Respawn undone** (`position_respawn`, `game_simulation.h:257`). State updates carry no
  sequence number. One that was sent before its owner read `PlayerRespawned` puts the player back,
  at the server, where it was eliminated, until a later one arrives. That it does not last is
  `CopiesAgree`.
- **Send buffer** (`udp_intact`, `udp_transport.h:150`). `startSend` hands `async_send_to` the buffer
  of its by-value parameter, while the handler captures a copy of it with a buffer of its own. If
  the socket cannot take the datagram at once, what is sent later is read from memory that is gone.

## 7. Not modelled, and why

- Rendering, text and logging: they read the game and change none of its state.
- The statistics of `stats_manager.h`: floating-point averages that only the debug overlay shows.
- Command lines and configuration: constants of the models.
- Byte encodings of messages: fixed-size structures copied as they are; a message is a record
  here. Framing, where bytes could go wrong, is in `TCPConnection`.
- Rounding of floating-point arithmetic: positions are exact fractions.
- A client's own copies of projectiles: only drawing uses them; hits are the server's.
- The data race on an open socket's state between the game thread and a handler
  (`tcp_connection.h:48`): its outcomes are inside the library. The models let the closing fall
  between any two steps.
- What a client's game does with the undefined delta of the frame in which the ticks pass 2^31 (after 24.8 days):
  `GameClock` leaves the delta open, and no other model uses it.
- The unbounded receive loops of a tick (`network_server.h:153`): `MaxUpdates` is an assumption.
- Opening a UDP transport again after closing it, and the two directions of a TCP connection in one
  model: nothing does the first, and the second share the socket and `m_disconnected` only.
