------------------------------- MODULE World --------------------------------
(***************************************************************************)
(* The game server of src/server/World.cpp: the registry of clients (the   *)
(* Server, reduced to its map), the entities, and what ties them together, *)
(* a C_Client component in each player and the inputs of S_Network.        *)
(*                                                                         *)
(*   main   World::update(): Server::update() with clientLeave() for the   *)
(*          timed out, then the systems, each under the mutex; snapshots   *)
(*          change nothing and have no step                                *)
(*   udp    World::handlePacket() for datagrams: the lookup, and then the  *)
(*          work, in two critical sections                                 *)
(*   cmd    World::commandLine(): "disconnectall" clears the registry and  *)
(*          purges the entities in two critical sections, "terminate"      *)
(*                                                                         *)
(* TCP clients never get a player: tcpListen() registers them before       *)
(* handlePacket() sees them, and only the unregistered are let in.         *)
(***************************************************************************)
EXTENDS Entities

CONSTANTS
    Peers,          \* ip:port pairs
    PlayerMask,     \* the components of Player.entity
    MapMask,        \* those of the entities of the map
    MapEntities,    \* how many the map has
    MaxClients      \* bound: connection attempts stop at this m_lastID

(* Names of the systems and components that World.cpp itself uses.         *)
ASSUME WorldAssumption ==
    /\ "Network" \in Systems /\ Requirements["Network"] = {{"Client"}}
    /\ "Client" \in PlayerMask \cap Factory
    /\ "Client" \notin MapMask
    /\ PlayerMask \subseteq Components /\ MapMask \subseteq Components
    /\ MapEntities \in 0..MaxId
    /\ MaxClients \in Nat
    /\ Raised # {}

VARIABLES
    m_running,
    m_clientMap,    \* ClientID -> peer, partial
    m_lastID,       \* the next ClientID
    m_clientID,     \* C_Client of the entities that have it
    m_input,        \* S_Network::m_input, partial
    main, udp, cmd, \* where the threads are
    left,           \* history: clients whose Disconnect was handled
    playerless,     \* history: clients that joined without, or lost, a player
    cleared,        \* history: clients "disconnectall" took from the registry
    leftover        \* history: ids whose input was there before a purge

registry == <<m_clientMap, m_lastID>>
worldHistory == <<left, playerless, cleared, leftover>>
worldVars == <<vars, m_running, registry, m_clientID, m_input, main, udp, cmd,
               worldHistory>>

NullID == -1

Clients == DOMAIN m_clientMap

Players == members["Network"]

(* A PlayerInput is reduced to the client whose direction it holds.        *)
(* m_input[e] makes an entry, without direction, where there was none.     *)
InputOf(e) == IF e \in DOMAIN m_input THEN m_input[e] ELSE NullID

(* S_Network::getEntityId(), as the set of what it may find.               *)
PlayersOf(cids) == {e \in Players : m_clientID[e] \in cids}

-----------------------------------------------------------------------------
(* World::World(): the map is loaded, nobody is connected.                 *)
WorldInit ==
    LET loaded == 0..(MapEntities - 1) IN
    /\ m_idCounter = MapEntities
    /\ m_entities = [e \in loaded |-> [m_bitmask |-> MapMask \cap Factory,
                                       m_components |-> MapMask \cap Factory]]
    /\ members = [s \in Systems |-> IF FitsRequirements(s, MapMask)
                                    THEN loaded ELSE {}]
    /\ m_events = [e \in Ids |-> IF e \in loaded THEN <<New("Spawned")>>
                                                 ELSE <<>>]
    /\ numbered = {} /\ delivered = {}
    /\ m_running = TRUE
    /\ m_clientMap = [c \in {} |-> {}] /\ m_lastID = 0
    /\ m_clientID = [e \in {} |-> {}] /\ m_input = [e \in {} |-> {}]
    /\ main = "server" /\ udp = [pc |-> "receive"] /\ cmd = "idle"
    /\ left = {} /\ playerless = {} /\ cleared = {} /\ leftover = {}

(* Mutant: the systems forget the entity before the message is sent, so    *)
(* that S_Network ignores it.                                              *)
LeaveUnheard(cids) ==
    /\ RemoveEntities(PlayersOf(cids))
    /\ m_clientID' = Restrict(m_clientID, DOMAIN m_clientID \ PlayersOf(cids))
    /\ UNCHANGED <<m_input, leftover>>

(* clientLeave(): nothing for a client without player; else removeEntity(),*)
(* whose Removed_Entity message S_Network hears while it has the entity.   *)
Leave(cids) ==
    /\ RemoveEntities(PlayersOf(cids))
    /\ m_clientID' = Restrict(m_clientID, DOMAIN m_clientID \ PlayersOf(cids))
    /\ m_input' = Restrict(m_input, DOMAIN m_input \ PlayersOf(cids))
    /\ leftover' = leftover \ PlayersOf(cids)

-----------------------------------------------------------------------------
(* The main thread.                                                        *)

(* Mutant: bindTimeoutHandler() is forgotten.                              *)
MainServerUnbound(timedOut) ==
    /\ main = "server" /\ m_running
    /\ main' = "systems"
    /\ m_clientMap' = Restrict(m_clientMap, Clients \ timedOut)
    /\ delivered' = {}
    /\ UNCHANGED <<entityVars, m_running, m_lastID, m_clientID, m_input, udp,
                   cmd, worldHistory>>

(* Server::update(): who times out is the business of the module Server.   *)
MainServer(timedOut) ==
    /\ main = "server" /\ m_running
    /\ main' = "systems"
    /\ Leave(timedOut)
    /\ m_clientMap' = Restrict(m_clientMap, Clients \ timedOut)
    /\ delivered' = {}
    /\ UNCHANGED <<m_running, m_lastID, udp, cmd, left, playerless, cleared>>

(* SystemManager::update(): S_Network asks for every player's input, and   *)
(* players may come to move or attack.                                     *)
MainSystems(raised) ==
    /\ main = "systems"
    /\ main' = "server"
    /\ Update(raised)
    /\ m_input' = [e \in DOMAIN m_input \cup Players |-> InputOf(e)]
    /\ UNCHANGED <<m_running, registry, m_clientID, udp, cmd, worldHistory>>

-----------------------------------------------------------------------------
(* The UDP thread.                                                         *)

UdpDone ==
    /\ udp' = [pc |-> "receive"]
    /\ delivered' = {}
    /\ UNCHANGED <<m_running, main, cmd, cleared>>

(* getClientID(), and the branch it selects; a registered client's Connect *)
(* has none.                                                               *)
UdpLookup(peer, type) ==
    /\ udp.pc = "receive" /\ m_running
    /\ LET cids == {c \in Clients : m_clientMap[c] = peer}
       IN  \/ \E c \in cids : type # "Connect"
                 /\ udp' = [pc |-> type, cid |-> c]
           \/ /\ cids = {} /\ type = "Connect" /\ m_lastID < MaxClients
              /\ udp' = [pc |-> type, peer |-> peer]
    /\ delivered' = {}
    /\ UNCHANGED <<entityVars, m_running, registry, m_clientID, m_input, main,
                   cmd, worldHistory>>

(* The client stays registered.                                            *)
UdpDisconnect ==
    /\ udp.pc = "Disconnect"
    /\ Leave({udp.cid})
    /\ left' = left \cup {udp.cid}
    /\ UNCHANGED <<registry, playerless>>
    /\ UdpDone

(* S_Network::updatePlayer(): the player is looked up again; a packet      *)
(* without Move changes whether he attacks, and leaves the direction.      *)
UdpPlayerUpdate(moves) ==
    /\ udp.pc = "Player_Update"
    /\ m_input' = [e \in DOMAIN m_input \cup PlayersOf({udp.cid}) |->
           IF e \in PlayersOf({udp.cid}) /\ moves THEN udp.cid ELSE InputOf(e)]
    /\ UNCHANGED <<entityVars, registry, m_clientID, left, playerless, leftover>>
    /\ UdpDone

(* A Connect is refused once the server has stopped.  The entity file may  *)
(* be missing; the client is registered all the same.                      *)
UdpConnect(opens) ==
    /\ udp.pc = "Connect"
    /\ IF ~m_running
       THEN UNCHANGED <<entityVars, registry, m_clientID, playerless>>
       ELSE /\ m_clientMap' = [c \in Clients \cup {m_lastID} |->
                                  IF c = m_lastID THEN udp.peer
                                                  ELSE m_clientMap[c]]
            /\ m_lastID' = m_lastID + 1
            /\ IF opens
               THEN /\ AddEntity(PlayerMask, -1)
                    /\ m_clientID' = [e \in DOMAIN m_clientID \cup {m_idCounter} |->
                                         IF e = m_idCounter THEN m_lastID
                                                            ELSE m_clientID[e]]
                    /\ UNCHANGED playerless
               ELSE /\ playerless' = playerless \cup {m_lastID}
                    /\ UNCHANGED <<entityVars, m_clientID>>
    /\ UNCHANGED <<m_input, left, leftover>>
    /\ UdpDone

-----------------------------------------------------------------------------
(* The command thread.                                                     *)

(* Server::disconnectAll(), of "disconnectall" and of "terminate".         *)
CmdClear(next) ==
    /\ cmd = "idle"
    /\ cmd' = next
    /\ m_clientMap' = [c \in {} |-> {}]
    /\ cleared' = cleared \cup Clients
    /\ delivered' = {}
    /\ UNCHANGED <<entityVars, m_running, m_lastID, m_clientID, m_input, main,
                   udp, left, playerless, leftover>>

(* EntityManager::purge(); S_Network keeps its inputs.                     *)
CmdPurge ==
    /\ cmd = "purge"
    /\ cmd' = "idle"
    /\ Purge
    /\ m_clientID' = [e \in {} |-> {}]
    /\ playerless' = playerless \cup Clients
    /\ cleared' = {}
    /\ leftover' = DOMAIN m_input
    /\ delivered' = {}
    /\ UNCHANGED <<m_running, registry, m_input, main, udp, left>>

(* The end of Server::stop().                                              *)
CmdStop ==
    /\ cmd = "stop"
    /\ cmd' = "done"
    /\ m_running' = FALSE
    /\ delivered' = {}
    /\ UNCHANGED <<entityVars, registry, m_clientID, m_input, main, udp,
                   worldHistory>>

-----------------------------------------------------------------------------
WorldNext ==
    \/ \E timedOut \in SUBSET Clients : MainServer(timedOut)
    \/ \E ids \in SUBSET Players :
           \E raised \in [ids -> Raised] : MainSystems(raised)
    \/ \E peer \in Peers, type \in {"Connect", "Disconnect", "Player_Update"} :
           UdpLookup(peer, type)
    \/ UdpDisconnect
    \/ \E moves \in BOOLEAN : UdpPlayerUpdate(moves)
    \/ \E opens \in BOOLEAN : UdpConnect(opens)
    \/ \E next \in {"purge", "stop"} : CmdClear(next)
    \/ CmdPurge
    \/ CmdStop

WorldSpec == WorldInit /\ [][WorldNext]_worldVars

-----------------------------------------------------------------------------
(* Properties.                                                             *)

WorldTypeOK ==
    /\ TypeOK
    /\ m_running \in BOOLEAN
    /\ m_lastID \in Nat
    /\ Clients \subseteq 0..(m_lastID - 1)
    /\ m_clientMap \in [Clients -> Peers]
    /\ m_clientID \in [Players -> 0..(m_lastID - 1)]
    /\ m_input \in [DOMAIN m_input -> -1..(m_lastID - 1)]
    /\ DOMAIN m_input \subseteq Ids
    /\ main \in {"server", "systems"}
    /\ cmd \in {"idle", "purge", "stop", "done"}
    /\ \A cids \in {left, playerless, cleared} : cids \subseteq 0..(m_lastID - 1)
    /\ leftover \subseteq Ids

(* Each player is the player of one client, and its client is registered,  *)
(* except after disconnectAll() has emptied the registry and before the    *)
(* purge, also when clients join or time out in between.  A client has a   *)
(* player unless it has taken its leave (it stays registered, and its next *)
(* Connect is ignored, until it times out), its entity file could not be   *)
(* read, or it joined before the purge (World.cpp:52-104, 122-125).        *)
PlayersAreClients ==
    /\ \A e \in Players : m_clientID[e] \in Clients \cup cleared
    /\ \A e, f \in Players : m_clientID[e] = m_clientID[f] => e = f
    /\ \A c \in Clients : \/ PlayersOf({c}) # {}
                          \/ c \in left \cup playerless

(* An input is that of a player who is there, set by the player's client,  *)
(* or it has survived a purge: then whoever gets the id next inherits it   *)
(* (Entity_Manager.cpp:76-80 before 87, 150; S_Network.cpp:17, 107-138).   *)
InputsBelong ==
    \A e \in DOMAIN m_input \ leftover :
        e \in Players /\ m_input[e] \in {NullID, m_clientID[e]}
=============================================================================
