# Verification of sfrpg

sfrpg is a chat server and client over TCP and UDP with accounts in SQLite, and
the beginnings of an authoritative role-playing-game server (entities, combat,
map) that no CMake target builds yet. This directory holds TLA+ modules
translated from the sources, the TLC runs that check them and TLAPS proofs about
them. Paths below are relative to `src/` of the repository.

## 1. The system

| Part | State | Operations | Interacts with |
|---|---|---|---|
| Server registry and heartbeats (`server/Server.cpp`, `Server.h`) | `m_clientMap`, `m_tcpClients`, `m_lastID`, `m_serverTime`, `m_running`, sockets, two threads | `start`, `stop`, `update`, `addClient`, `removeClient`, `getClientID`, `send`, `broadcast`, `disconnectAll`, `tcpListen`, `udpListen` | handler callback, database, peers |
| Server program (`server/main.cpp`) | the command thread | `handlePacket`, `commandProcess`, `main` | registry, accounts |
| Accounts and messages (`Server.cpp:459-586`) | SQLite tables `user` and `message` | `registerUser`, `authenticateUser`, `addMessage`, `getMessagesForUser`, `getChatMessages` | called by `handlePacket` from both listener threads |
| Client (`client/Client.cpp`) | `m_connected`, `m_serverTime`, `m_lastHeartbeat`, socket, `m_clientThread`, `m_username` | `connect`, `disconnect`, `send`, `update`, `tcpListen`, `udpListen` | server, client program |
| Client program (`client/main.cpp`) | the command thread | commands `register`, `login`, `chat`, `message`, `chatwith`, `!quit`; `handlePacket` | client |
| ECS core (`common/Entity_Manager`, `System_Manager`, `S_Base`, `Event_Queue`, `Communicator`) | entities, component bits, membership of systems, event queues, subscriptions | add, remove and purge entities and components, events, messages | all systems |
| State, combat, timers (`common/S_State`, `server/S_Combat`, `S_Timers`) | state, health, attacked flag, timers of an entity | `changeState`, `notify`, `update` | messages and events |
| Movement, collision (`server/S_Movement`, `S_Collision`) | position, velocity, collision flags | `update`, `handleEvent` | map, events |
| Player input and snapshots (`server/S_Network`, `Server_Entity_Manager`) | `m_input` per entity | `updatePlayer`, `createSnapshot`, `update` | server mutex, entities |
| World (`server/World`) | server, entities, map, timers | `update`, `handlePacket`, `clientLeave` | everything above |
| Map (`server/Map`) | tile set, tile map | `getTile`, `loadMap`, `convertCoords` | collision, movement |
| Resource manager, utilities | reference counts | require, release | unused |

What is hard here:

* **Four server threads share the registry.** The mutex is recursive and covers
  single operations, not `handlePacket` as a whole when a datagram is handled;
  `m_serverTime` is not under it at all; `tcpListen` keeps it during a blocking
  `receive`.
* **A clock of 64 bits read in 32.** Both programs wrap it by hand, the server
  by mirroring every heartbeat, the client by forgetting its last one.
* **Three client threads share everything without a lock**, and any of them may
  call `disconnect`, which joins one of them.
* **Requests are not matched to answers**, datagrams are lost, duplicated and
  reordered, and queries fail.
* **Shutdown** joins threads that may be blocked in system calls.
* **Either end may be alone**: no heartbeat, answer or `Disconnect` is ever sent a
  second time.
* **Ids outlive what they name**: a removed entity keeps its id, a purge starts the
  ids again while events and inputs stay filed under the old ones, a departed
  player's client stays registered.
* **A frame has no order**: the systems are visited in the order of a hash table,
  and a hit, a timer, an event and the operator may all want another state for
  one entity.

Correctness per part: a ClientID means one peer for ever, addresses are unique,
a TCP client has its socket, clients leave by timeout or are told; nobody is
dropped who is not silent, everybody who is silent is dropped; the client takes
no live server for dead; no process is torn down around a running thread; names
and accounts correspond, lists of messages hold what was confirmed, requests are
answered; both ends find out when the other is gone; a system sees exactly the
entities that have what it requires; dying and having no health are the same;
players, clients and inputs match.

## 2. Modules and runs

| Module | Models | Runs |
|---|---|---|
| `Server` | `Server.cpp:1-430`, `Server.h`, the control of `server/main.cpp` | `MCServerClock`, `MCServer`, `MCServerLive` |
| `Client` | `Client.cpp`, the control of `client/main.cpp` | `MCClient` with `MCClient.cfg`, `MCClientTimeout.cfg` |
| `Accounts` | `Server.cpp:459-586`, the data of both `main.cpp` | `MCAccounts` with three cfgs |
| `Registry` | what `m_clientMap` promises (abstract; `Server` implements it) | `MCServer` |
| `Session` | one UDP client and the server over a lossy network | `MCSession` |
| `Entities` | `common/Entity_Manager.cpp`, `System_Manager.cpp`, `S_Base.cpp`, `Event_Queue.h` | `MCEntities` |
| `EntityView` | what a system may rely on (abstract; `Entities` implements it) | `MCEntities` |
| `Combat` | `common/S_State.cpp`, `server/S_Combat.cpp`, `S_Timers.cpp`, the messages of `S_Network::update()` and `S_Collision::entityCollisions()` | `MCCombat` |
| `World` | `server/World.cpp`, the inputs of `S_Network.cpp`; extends `Entities` | `MCWorld` |
| `TileMap` | the tile index of `server/Map.cpp`, with its theorems | `tlapm TileMap.tla` |
| `ServerProofs` | theorems on registry, goodbyes, clock and heartbeats | `tlapm ServerProofs.tla` |
| `ClientProofs` | theorems on the client's threads and clocks | `tlapm ClientProofs.tla` |
| `AccountsProofs` | theorems on accounts, messages, answers and logins | `tlapm AccountsProofs.tla` |
| `SessionProofs` | theorems on a client and its entry | `tlapm SessionProofs.tla` |
| `EntitiesProofs` | theorems on entities and their systems | `tlapm EntitiesProofs.tla` |
| `CombatProofs` | theorems on states, deaths and hits | `tlapm CombatProofs.tla` |
| `WorldProofs` | theorems on players and clients | `tlapm WorldProofs.tla` |

### Server

A step of `Server` is what a thread does between two points where another
thread can interfere: a critical section of `m_clientMutex`, an access to the
unprotected `m_serverTime`, an access to the atomic `m_running`. `main`, `udp`,
`tcp` and `cmd` say where the threads are; the prefix of an action says whose it
is. `update()` becomes `MainTick` (286-288), `MainSetBack` (289),
`MainMirror` (290-294) and `MainScan` (297-329). `udpListen()` with
`handlePacket()` is a chain `UdpReceive`, `UdpLookup`, then one of `UdpRemove`,
`UdpBroadcast`, `UdpReply`, `UdpAddCheck`/`UdpAddInsert`/`UdpWelcome`, because
the thread holds the mutex in none of the gaps. `tcpListen()` holds the mutex from
`TcpReady` to the end of `handlePacket()` or of the removal, and no other thread
enters (`MutexFree`). The flag is another matter: `stop()` clears it without the
mutex, so each test of it is a step, under the mutex too. `removeClient()` tests it
(388) before it takes the mutex and its `send()` (69) once more: `UdpTest` and
`UdpErase`, `TcpHandle` and `TcpErase`, `TcpDisconnected` and `TcpClosed`. `stop()` is `StopDisconnectAll`, `StopSockets`, `StopFlag`,
`StopJoin`. Peers are the environment: any datagram may come from any address
at any time, so loss, delay, duplication and reordering need no actions.

History variables: the field `silence` (true time since a client was last heard
of), `notified` and `mark` (whom a `disconnectAll()` addressed), `sent` (the
packets of the last step). Undefined behaviour: the subtraction at line 292
overflows for a negative reading; the model takes both results a build
produces, and the properties hold for either.

Abstractions: a send never blocks; a socket in `m_selector` whose client is gone
may wake `wait()` at any time (`TcpIdle`); statistics, pings and the unlocked
read of the map by `getClientList()` are left out.

* `server_clock`: one datagram client, `HighestTimestamp = 14`, timeout 5,
  interval 2, iterations of 0..2 ms. The clock wraps without end (it is never
  unbounded), so heartbeats fall on every side of every wrap.
  `ProbedOnce`: the retry counter never passes 1, hence
  `HEARTBEAT_RETRIES` and the "Re-try" message are dead code.
  `NotDroppedEarly`, `SilenceBounded`, `ElapsedFits`, `ProbedBeforeDropped`: the
  wrap and the missing lock cost at most two iterations in one direction and one
  period of the clock in the other.
* `server_registry`: two addresses, one used over UDP and TCP, a clock as small as
  `TimingAssumption` lets it be, connection attempts until `m_lastID = 2`
  (reuse, refusal and re-connection all occur). TLC takes states for one that differ only
  in `sent` or `silence`, which no step reads (`StateView`); what each step sends is
  still checked.
  `UniquePeer`, `HandlerServesItsPeer`, `TcpClientHasSocket`;
  `DropsAreAnnounced`: who leaves the map has timed out or was sent a `Disconnect`, with
  two exceptions, both races with the operator that the code leaves open: a client added
  between the broadcast of `disconnectAll()` and its clear, and one added after the clear
  of `stop()` whose removal passes the test at 388 before line 46 clears the flag and
  meets the test at 69 after it. Nobody else is removed in silence.
  `ImplementsRegistry`: under the mapping that forgets threads, clocks and
  sockets, every step joins one new address under the next number, drops some
  clients, or does nothing.
* `server_live`: one TCP client and the operator. `SilentClientsDropped` and
  `QuitEnds` name the blocking receives that can prevent both.

Fairness of `Server`: each thread runs when it can, again and again (weak or,
where it competes for the mutex, strong fairness), and time passes in
`MainTick`. Strong fairness for the mutex says that a thread that finds it free
infinitely often gets it, which the futex-based mutex of the platform does in
practice. Nothing is assumed of peers, of the operator, or of a blocked receive.

### Client

`pc` says where the main, listener and command threads are; `loaded` holds an
`sf::Time` a thread has read and not yet used, since every `+=` and every
copy of a shared time is a read and a write. `update()` is `UpdateRead`, `UpdateWrite`
(230), `UpdateCheck` (231), `UpdateReadAgain`, `UpdateWrap` (232), `UpdateReread`,
`UpdateRestamp` (233), `UpdateCompare`, `UpdateDecide` (237, whose two operands are read
in either order). The test of line 231 and the subtraction of line 232 read the clock
separately: when a heartbeat arrives in between, the clock goes below 0, and as
further updates may find it there and be interrupted again it can fall by one more
range. `TypeOK` states the range, and `Narrow` the 32 bits of `asMilliseconds()` on it;
where the subtraction of line 237 overflows 32 bits, which is undefined, the comparison
may yield either answer. `disconnect()` is
`CloseSocket`, `ClearConnected`, `Join`, `Joined`, for whichever thread calls
it. Joining oneself, or a thread that is being joined, throws and is caught
(lines 89-95). `MainExit` ends in `"aborted"` when `~Client()` finds a joinable
thread. The heartbeat reply the listener sends changes no state here.

* `client`: both protocols, `HighestTimestamp = 4`, timeout 1 and iterations of up to
  1 ms, the smallest that `TimingAssumption` admits; heartbeats carry the first or the
  last time, 0 or 4, which is what takes the clock furthest. Silences, wraps and torn
  recordings follow each other without end. `SilenceMeasured` bounds the error of the timeout when no
  heartbeat was recorded while `update()` used the clocks (`torn`);
  `AbortOnlyAfterSelfJoin`: the process ends in `std::terminate()` only after the
  listener ran `disconnect()` on itself; `SilentServerNoticed`;
  `DisconnectEnds`.
* `client_timeout` (expected violation): `TimeoutMeansSilence`, see findings.

Fairness of `Client`: the threads run and time passes. The server, the user and
a receive that blocks owe nothing.

### Accounts

Requests and answers are records in per-client channels; TCP channels are FIFO,
datagrams are lost, duplicated and reordered (`Lose`, `Arrivals`). One action
per branch of `handlePacket()`, atomic up to the query, then `SendAnswer`: the
other listener thread may run in between. Each query may fail.
`Authenticated` includes the missing `return` at `Server.cpp:520`: for an unknown
address the caller finds true or false. Foreign keys are not enforced, as SQLite
does unless a connection asks for it. `m_username` is read and written in one piece: the
data race on the `std::string` between the listener and the command thread is left out.
A list of messages is a set of rows: no query has an
`ORDER BY`, so the code promises no order.

* `accounts`: a TCP client with two requests and a UDP client with one, two
  addresses and two names (symmetric), any consistent table to start from, two
  rows of messages. Two requests of one client overlap, and every property takes at
  most two requests of one client and one of another to violate.
  `SameNameSameAccount`, `SendersExist`, `ListingsComplete`; `RequestsAccountedFor`:
  every other request is answered exactly once (the listing whose query fails is counted
  as unanswered here, and is what `accounts_answers` is about); `LoginsInOrder`, for TCP
  clients only: two logins by datagram may be answered in either order, in the code and in
  the model. The model stops when the requests are
  used up, so deadlock is not checked.
* `accounts_answers`, `accounts_keys` (expected violations): see findings.

Handling of connections, the broadcast of chat text and the registry are in
`Server`; `Accounts` takes its clients as connected.

### Session

Client and server together, for the question neither module can ask: what one
end believes when the other is gone or the network loses packets. Each handler is
one step; the retry counter is a Boolean, which `ProbedOnce` justifies. Datagrams are
lost, duplicated and reordered, and what is not lost arrives within `MaxDelay`. The client
may quit, the operator may disconnect everybody, a `Connect` may be answered after the
client has given up.

Of each clock and its `m_lastHeartbeat` the model keeps the difference, `age`, which is
what `update()` compares; the history `silence` is the true one. What wraps and races do
to the difference is modelled as choices:

* the client's wrap (`ClientWraps`, 231-235) makes it 0 whatever it was, once between two
  heartbeats;
* the server's wrap (`ServerWraps`, 288-294) mirrors it: an entry whose clock is past the
  end by `over` and that is `age` old comes out `2 * over - age` old, which puts probes
  and timeouts off;
* a heartbeat that the client's listener records while `update()` uses the clocks
  (146-147 against 230-240) leaves any age, and the client is `torn`;
* an entry that is added or renewed between the server's setback (289) and the mirror
  (290-294) is mirrored as well (`Renewed`): stamped after the setback it lies almost a
  whole period ahead of the clock, and is `hidden` until the clock has come up to it.

The ages a torn recording may leave follow from the range of the clocks
(`Client!TypeOK`); that a clock which has wrapped does not wrap again before the next
heartbeat or timeout, from the last conjunct of `TimesAssumption`.

* `session`: the clock ends at 38, timeouts 18 and 5, interval 4, delay 1, iterations of up
  to 1 ms: as small as `TimesAssumption` lets the timeout and the period be, in the order
  of the real ones (2147483647, 10000, 5000, 1000). Each clock wraps once between two
  heartbeats, before, after or without a torn recording.
  `HalfOpenBounded`: one end is alone for at most
  `3 * (ClientTimeout + MaxStep) + MaxDelay`, wraps of both clocks included, and for one
  period of a clock more only when its last heartbeat was recorded in the middle of an
  `update()`. `TimeoutsMeanLoss`: while nothing but a `Disconnect` has been lost, the
  server never times out the entry of a connected client, and the client never times out
  unless it is torn (finding 1) or its entry is hidden, so that no heartbeat is sent for a
  period of the server's clock.

### Entities

An operation of `EntityManager` with all it calls in `SystemManager` and `S_Base` is
one step: `World` calls them under the server's mutex. A `Bitmask` is a set of
components; mask and component objects are kept apart, because `addEntity()` tells
the systems of the mask that was asked for (line 18) and the factory may know less.
`RemoveEntities` leaves the id in `m_entities` and its events in their queue, `Purge`
empties everything but the queues. `Update` is one frame: systems raise events for
entities they have, then all queues are handed out and emptied.
`delivered`, `numbered` and the flag `stale` of an event are history.

* `entities`: two ids, three systems of the server, one of them with two alternative
  requirements, masks with nothing and with a component the server cannot make.
  `CounterFree`; `StaleEventsAreSpawns`: after a purge the next bearer of an id is
  handed the `Spawned` of the previous one, and nothing else;
  `ImplementsView`: `Entities` refines `EntityView`, so a system has only entities that
  own the components of one of its requirements. It says nothing of what a system uses
  beyond its requirements: `S_Timers.cpp:42-43` takes `C_Attacker` without a test, while
  `S_Timers` requires only State and Health (see `Combat`). The refinement needs `RequirementsAssumption` (no system requires
  a component that the factory lacks, none requires nothing), which holds for the
  constructors in `server/`.

### Combat

A step is one system's `update()`, in any order within a frame, or one
`Being_Attacked` message. Whom an area of attack covers, who stands still and what
players send is chosen anew in each frame, which covers every geometry. `HandleEvents`
ends a frame, because `Became_Idle` waits for it. The operator's `health` command is not
under the mutex and comes at any point. `m_attacked` starts with any value
(`C_Attacker.h:8` does not initialize it). Histories: `sinceDeath`, `sinceHits`, `typedSince`.

* `combat`: a player and a monster, both fighting, two points of health, frames of 0 or
  1 ms, durations of 2 and 3. `DyingIsHavingNoHealth`; `DeathLasts`: the time an
  interrupted `Hurt` leaves in the timer shortens the next death, by less than
  `HurtDuration` and a frame; `DeathsEnd`: nothing makes a death longer by a frame;
  `HitsTakeTime`: an interrupted attack, and an attack that nobody started, may hit, but
  of three hits, in the same frame or not, the last is `AttackDuration` after the first.

What the model also shows to a reader: `S_Timers` builds its second requirement (State and
Attacker) and does not push it (`S_Timers.cpp:10-13`), so that only what has health is
timed, and an entity with State, Health and no Attacker that began to attack would end the
process at line 43. Only players are told to attack, and the model assumes that they have
an Attacker. And since `Attack` messages come from the inputs of players alone, the flag
`m_attacked` of anything else is never cleared: a monster hits once and never again.

### World

`World` extends `Entities` with the registry (reduced to its map), the `C_Client` of
players, the inputs of `S_Network` and the three threads of the game server. A
`Disconnect` removes the player and leaves the client registered (`left`); a player file
that cannot be read leaves a client without player (`playerless`); `disconnectall` is
two steps, `CmdClear` and `CmdPurge`; inputs survive the purge (`leftover`) and are
inherited by whoever gets the id. `AddEntity`, `RemoveEntities`, `Purge` and `Update` are
those of `Entities`.

* `world`: two addresses (symmetric), three ids, one of them an entity of the map, up to
  three ClientIDs: both addresses join and one of them again, before and after a purge.
  `PlayersAreClients`, `InputsBelong`: they except, by name, what the code itself lets
  happen (`cleared`, `playerless`, `left`, `leftover`), and exclude everything else.
  After `terminate` the model stops, so deadlock is
  not checked.

No CMake target compiles `World`, and it could not run today: the constructor starts the
threads of the server before the map is loaded and before the systems know their managers
(`World.cpp:6-16`), and nothing joins `m_commandThread`. The model starts when the
constructor is done. TCP clients are registered before `handlePacket()` sees them and so
never get a player; they are left out.

### TileMap

Operators for `convertCoords()`, `getTile()` and the `TILE` line of `loadMap()`; there is
no behaviour to run, and the questions are arithmetic, so that the module has theorems and
no run.

## 3. Findings

1. `client/Client.cpp:146-147` against `227-241`: an update between the two
   assignments of the listener sees the new server time with the old heartbeat
   and disconnects from a live server; likely whenever a client joins a server
   that has been up for more than ten seconds (run `client_timeout`).
2. `server/main.cpp:65-68`: a failed list of messages is never answered, although
   the client has a branch for that answer (run `accounts_answers`).
3. `server/Server.cpp:471-472`: the declared foreign keys are not enforced (run
   `accounts_keys`).

## 4. Proofs

All theorems hold for every value of the constants, under the assumptions on constants
that the modules name only, and rest on an inductive invariant that TLC checked first.
Every invariant and every action property of the passing runs is a theorem, and so are
both refinements.

On `Server`:

* `TypeCorrect` by the invariant `TypeInv` (one step per action of each thread;
  `ThreadSteps` splits `Next`).
* `AddressesUnique` and `HandlerKeepsItsPeer` by `RegistryInv`: `UniquePeer` alone
  is not enough, because `AddEntry` must not overwrite; the invariant adds that all
  ClientIDs in use, in the map or in a thread's locals, lie below `m_lastID`, and
  that a handler's ClientID, if it is in the map, has the handler's peer.
* `RetriesNeverHappen`, `ElapsedInRange`, `NoEarlyTimeout`, `SilenceIsNoticed` and
  `HeartbeatBeforeTimeout` by `EntryInv`, which relates one entry of the map to the
  clock for each place of the main thread. The relation is a disjunction: the
  entry's time is of the current epoch, or was stamped between the two halves of
  the wrap, or has been mirrored; each implies bounds on elapsed time and silence.
* `RegistryImplemented`: `Server` refines `Registry`. `RegistryViewStep` maps each action;
  besides `RegistryInv` it needs that `AddClient` searches and files in one step.
* `SocketForEveryTcpClient`: inductive as it stands, because `ThreadSockets` shows that
  every action changes both maps together; it is why `EveryClientReached` holds, that a
  packet for a client in the map is sent.
* `NoSilentRemoval` by `NoticeInv`: between the two critical sections of
  `disconnectAll()` everybody below `mark` has been notified, and the server still runs;
  after the clear of `stop()` everybody in the map is `mark` or above, that is, came after
  it; and the flag is cleared only then. The two exceptions of the property are stated,
  not hidden, and the invariant shows that they concern late comers only.

On `Client`, by three invariants, each over the one before:

* `TypeCorrect` by `TypeInv`, which says at each line of `update()` how far the clocks can
  be past either end: past `HighestTimestamp` only between lines 230 and 232, below 0 only
  after a heartbeat in the middle of a wrap, and never so far that 32 bits would narrow
  them by more than one addition of 2^32.
* `ListenerIsJoined` by `ConnectInv`, which says what `connect()` has set up at each of its
  lines, and `JoinInv`: once the connection is gone, a joinable listener has somebody who
  is about to join it, unless it called `disconnect()` itself. The property speaks of the
  end of the process, the invariant of every step towards it.
* `SilenceIsMeasured` by `ClocksInv`, which relates `m_serverTime`, `m_lastHeartbeat`, the
  true silence and what a thread has loaded at each line of `update()`, as long as the
  listener used the clocks at another time (`~torn`); `ElapsedIsDifference` shows that the
  narrowed readings of line 237 then have the difference of the clocks.
* `FalseTimeoutsAreTorn`: the property that `client_timeout` refutes holds in every
  behaviour in which the listener does not use the clocks at the same time as `update()`.
  The race of finding 1 is the only cause of a false timeout.

On `Accounts`, for any clients over both protocols, any database to start from and any
`hashPassword()`. `AccountsInvariant` joins `TypeInv`, what can be in each channel and each
thread's hand, and `DataInv`, what a packet in flight promises. The properties alone are
not inductive, because an answer is true of the tables when it is made and used later:
a login answer names the user of its account (`Named`), a confirmation a stored row, a list
its rows (`Complete`), a request only what its sender knew (`RequestOK`). Nothing is ever
deleted, so promises stay true (`Growth`, `RequestStays`, `AnswerStays`), and
`PacketsStay` reduces each step to the packets it adds:

* `TypeCorrect`, `OneAccountPerName` (from `KeysInv`, the two UNIQUE columns),
  `SendersAreUsers`, `ListingsAreComplete`.
* `EachRequestOnce`, inductive over `AccountsInvariant`: each kind of step moves one packet
  from one place of the sum to another.
* `LaterLoginWins` (the action property `LoginsInOrder`) by `OrderInv`: both channels are in
  order, and no login is younger than one further up, in the channel to the client, in the
  TCP thread's hand or in the channel to the server. For UDP it does not hold.

On `Session`, by `SessionInv` (`SessionInvariant`). Neither property mentions the packets
in flight, and neither is inductive without them: the invariant bounds, by the
milliseconds a datagram may still take, how old the news is that one end has of the other,
for an entry without client (`GhostAges`), a client without entry (`DeafAges`), both
together (`TogetherAges`), and says that what an end waits for is on its way unless it was
lost (`AnswersComing`, `HeartbeatComing`). By how much an age falls short of the true
silence is a part of its own for each end, because every bound on the other end passes
through it: `Clocked` for the server, before and after its wrap, hidden or not;
`ClientClock` and `Overlooked` for the client. `HiddenAhead` says that the clock wraps
when it has come up to a hidden entry:

* `HalfOpenEnds`, `NoTimeoutWithoutLoss`, for all times that `TimesAssumption` admits: a
  datagram and two iterations pass within an interval, three intervals leave time for a
  heartbeat and its answer, and two timeouts for one wrap at most.

On `Entities`, by the invariant `FrameInv` (`FrameInvariant`), which adds to the
properties what relates them: the objects of an entity are its mask (`MasksTrue`), each
system has exactly the entities whose mask fits (`MembersFit`), ids beyond the counter
were asked for by number (`NumberedAhead`), and between frames only `Spawned` is queued
(`SpawnsQueued`):

* `EntitiesTypeCorrect`, `CounterStaysFree`, `OnlySpawnsOutliveAPurge`.
* `ViewImplemented`: `Entities` refines `EntityView`. `FactoryDecides` is the lemma
  behind it: as no system requires what the factory lacks, the mask that was asked for
  and the components that were made meet the same requirements.

On `Combat`, over `CombatTypeInvariant`:

* `CombatTypeCorrect`, `DyingExactlyWithoutHealth` (each action changes state and health
  together, or neither).
* `DeathsLastAsLong` and `NobodyStaysDead` by `DeathTimedInvariant`, which relates the
  timer of a dying entity to the true time since its death within the frame, and
  `ThirdHitsWait` by `HitsTimedInvariant`, which relates the attack timer to the last
  two hits.

On `World`, by the invariant `WorldInv` (`WorldInvariant`), under `WorldAssumption`, the
names `World.cpp` itself relies on. It takes `EntitiesInv` over from `EntitiesProofs`, whose
lemmas carry every call into the entity manager, and adds that the `ClientID` the UDP
thread has looked up was given out (`LookedUp`); `PlayersHaveClients` turns membership in
`S_Network` into having a `C_Client`:

* `WorldTypeCorrect`, `PlayersMatchClients`, `InputsAreTheirOwners`.

On `TileMap`, for every map size whose indices fit `unsigned int`: `IndicesApart`,
`FoundWhereItWasPut`, and `EdgeIsFoundElsewhere`, which shows why the edge must be
excepted: `Map.cpp:54` accepts `x = width` and `y = height`.

Model-checked only: the liveness properties `SilentClientsDropped`, `QuitEnds`,
`SilentServerNoticed` and `DisconnectEnds`, because reasoning under fairness is outside the
prover, and the three violations, which are single behaviours.

## 5. Plan

Done: `Server`, `Client`, `Accounts`, `Session`, `Entities`, `Combat`, `World`, `TileMap`,
and two refinements, to `Registry` and to `EntityView`.

All safety properties are proved. Left, in this order:

1. A refinement of `Session` to what the two ends promise each other, and of `Accounts`
   to a database that serves one request at a time.
2. The bounds behind the liveness properties as safety theorems, as `SilenceIsNoticed` is
   for `SilentClientsDropped`.

## 6. Not modelled

* Movement, friction, push-out and the clamp at the map's edge (`S_Movement.cpp`,
  `S_Collision.cpp:76-163`): geometry over `float`. What they tell the rest, who stands
  still and who is covered, is a free choice in `Combat`.
* Parsing of map, tile and entity files, and what `S_Control` does to an acceleration.
* Snapshots: they read the entities under the mutex and change nothing.
* The constructor of `World` while datagrams arrive, and the process's end (see `World`).
* The unlocked reads of `getClientList()` and `getClientCount()`; a timed-out TCP
  client's socket, which stays open (hazards `Server.cpp:443` and `303`).
* The resource manager (unused, does not compile), SFML and SQLite themselves (external,
  modelled as this code relies on them).
