----------------------------- MODULE WorldProofs ----------------------------
(***************************************************************************)
(* Registry, players and inputs of the game server stay matched, for any   *)
(* peers, systems and entity files.  What happens to the entities alone is *)
(* proved in EntitiesProofs.                                               *)
(***************************************************************************)
EXTENDS World, EntitiesProofs

(* What the UDP thread has looked up: a ClientID that was given out, or an *)
(* address.                                                                *)
LookedUp ==
    /\ udp.pc \in {"receive", "Connect", "Disconnect", "Player_Update"}
    /\ udp.pc \in {"Disconnect", "Player_Update"} => udp.cid \in 0..(m_lastID - 1)
    /\ udp.pc = "Connect" => udp.peer \in Peers

(* WorldTypeOK without what EntitiesInv says.                              *)
WorldTypes ==
    /\ m_running \in BOOLEAN
    /\ m_lastID \in Nat
    /\ Clients \subseteq 0..(m_lastID - 1)
    /\ m_clientMap \in [Clients -> Peers]
    /\ m_clientID \in [Players -> 0..(m_lastID - 1)]
    /\ m_input \in [DOMAIN m_input -> -1..(m_lastID - 1)]
    /\ DOMAIN m_input \subseteq Ids
    /\ main \in {"server", "systems"}
    /\ cmd \in {"idle", "purge", "stop", "done"}
    /\ left \subseteq 0..(m_lastID - 1)
    /\ playerless \subseteq 0..(m_lastID - 1)
    /\ cleared \subseteq 0..(m_lastID - 1)
    /\ leftover \subseteq Ids

Delivered == delivered \subseteq [system : Systems, entity : Ids, queued : Queued]

Matched == PlayersAreClients /\ InputsBelong

WorldInv == EntitiesInv /\ Delivered /\ LookedUp /\ WorldTypes /\ Matched

LEMMA TypesAreWorldTypes == WorldInv => WorldTypeOK
BY DEF WorldInv, EntitiesInv, Delivered, WorldTypes, WorldTypeOK, TypeOK

-----------------------------------------------------------------------------
(* S_Network has the entities with a client, and no others.                *)
LEMMA PlayersHaveClients ==
    ASSUME EntitiesInv
    PROVE  /\ Players = {e \in Existing : "Client" \in m_entities[e].m_bitmask}
           /\ Players \subseteq Existing /\ Existing \subseteq Ids
<1>1. \A mask : FitsRequirements("Network", mask) <=> "Client" \in mask
  BY WorldAssumption DEF FitsRequirements
<1>2. members["Network"] =
          {e \in Existing : FitsRequirements("Network", m_entities[e].m_bitmask)}
  BY WorldAssumption DEF EntitiesInv, MembersFit
<1>3. Players = {e \in Existing : "Client" \in m_entities[e].m_bitmask}
  BY <1>1, <1>2 DEF Players
<1> QED
  BY <1>3 DEF EntitiesInv, EntitiesTypeOK

LEMMA WorldInitInv == WorldInit => WorldInv
<1> SUFFICES ASSUME WorldInit PROVE WorldInv
  OBVIOUS
<1> DEFINE loaded == 0..(MapEntities - 1)
           objects == MapMask \cap Factory
<1>1. loaded \subseteq Ids /\ MapEntities \in Nat
  BY WorldAssumption, EntityBoundsAssumption DEF Ids
<1>2. /\ Existing = loaded
      /\ \A e \in loaded : m_entities[e] = [m_bitmask |-> objects,
                                            m_components |-> objects]
      /\ m_entities \in [Existing -> [m_bitmask : SUBSET Factory,
                                      m_components : SUBSET Factory]]
  BY DEF WorldInit, Existing
<1>3. members = [s \in Systems |-> IF FitsRequirements(s, objects) THEN loaded
                                                                   ELSE {}]
  BY FactoryDecides DEF WorldInit
<1>4. New("Spawned") \in Queued /\ New("Spawned").event = "Spawned"
  BY NewQueued DEF Events, New
<1>5. m_events \in [Ids -> Seq(Queued)] /\ SpawnsQueued
  BY <1>4 DEF WorldInit, SpawnsQueued
<1>6. EntitiesInv
  <2>1. MasksTrue
    <3> SUFFICES ASSUME NEW e \in Existing
                 PROVE  m_entities[e].m_bitmask = m_entities[e].m_components
      BY DEF MasksTrue
    <3>1. m_entities[e] = [m_bitmask |-> objects, m_components |-> objects]
      BY <1>2
    <3> QED
      BY ONLY <3>1
  <2>2. MembersFit
    <3> SUFFICES ASSUME NEW s \in Systems
                 PROVE  members[s] = {e \in Existing :
                            FitsRequirements(s, m_entities[e].m_bitmask)}
      BY DEF MembersFit
    <3>1. \A e \in Existing : m_entities[e].m_bitmask = objects
      BY <1>2
    <3>2. members[s] = IF FitsRequirements(s, objects) THEN Existing ELSE {}
      BY <1>2, <1>3
    <3> QED
      BY <3>1, <3>2
  <2>3. NumberedAhead
    BY <1>1, <1>2 DEF NumberedAhead, WorldInit
  <2> QED
    BY <1>1, <1>2, <1>3, <1>5, <2>1, <2>2, <2>3
       DEF EntitiesInv, EntitiesTypeOK, WorldInit
<1>7. Players = {}
  BY <1>2, <1>6, PlayersHaveClients, WorldAssumption
<1>8. Clients = {} /\ DOMAIN m_clientID = {} /\ DOMAIN m_input = {}
  BY DEF WorldInit, Clients
<1> QED
  BY <1>6, <1>7, <1>8
     DEF WorldInit, WorldInv, Delivered, LookedUp, WorldTypes, Matched,
         PlayersAreClients, InputsBelong, PlayersOf, NullID

-----------------------------------------------------------------------------
(* clientLeave(): the players of the clients go, with their inputs; all    *)
(* others keep theirs.                                                     *)
LEMMA LeaveKeeps ==
    ASSUME WorldInv, NEW cids, Leave(cids), m_lastID' = m_lastID
    PROVE  /\ EntitiesInv'
           /\ Players' = {e \in Players : m_clientID[e] \notin cids}
           /\ m_clientID' \in [Players' -> 0..(m_lastID - 1)]
           /\ \A e \in Players' : m_clientID'[e] = m_clientID[e]
           /\ m_input' \in [DOMAIN m_input' -> -1..(m_lastID - 1)]
           /\ DOMAIN m_input' \subseteq Ids /\ leftover' \subseteq Ids
           /\ InputsBelong'
<1> USE DEF WorldInv
<1>1. EntitiesInv'
  BY RemoveEntitiesInv DEF Leave
<1>2. Players' = Players \ PlayersOf(cids)
  BY WorldAssumption DEF Leave, RemoveEntities, Players
<1>3. DOMAIN m_clientID = Players /\ Players \ PlayersOf(cids) \subseteq Players
  BY DEF WorldTypes
<1>4. m_clientID' = [e \in Players \ PlayersOf(cids) |-> m_clientID[e]]
  BY <1>3 DEF Leave, Restrict
<1>5. m_input' = [e \in DOMAIN m_input \ PlayersOf(cids) |-> m_input[e]]
  BY DEF Leave, Restrict
<1>6. leftover' = leftover \ PlayersOf(cids)
  BY DEF Leave
<1>7. InputsBelong'
  BY <1>2, <1>4, <1>5, <1>6 DEF InputsBelong, Matched
<1> QED
  BY <1>1, <1>2, <1>4, <1>5, <1>6, <1>7 DEF WorldTypes, PlayersOf

LEMMA MainServerInv ==
    ASSUME WorldInv, NEW timedOut \in SUBSET Clients, MainServer(timedOut)
    PROVE  WorldInv'
<1> USE DEF WorldInv
<1>1. /\ Leave(timedOut) /\ m_lastID' = m_lastID /\ delivered' = {}
      /\ UNCHANGED <<m_running, udp, cmd, left, playerless, cleared>>
      /\ main' = "systems"
  BY DEF MainServer
<1>2. /\ Clients' = Clients \ timedOut
      /\ m_clientMap' = [c \in Clients \ timedOut |-> m_clientMap[c]]
  BY DEF MainServer, Restrict, Clients
<1>3. PlayersAreClients'
  BY <1>1, <1>2, LeaveKeeps DEF PlayersAreClients, PlayersOf, Matched
<1>4. WorldTypes'
  BY <1>1, <1>2, LeaveKeeps DEF WorldTypes
<1> QED
  BY <1>1, <1>3, <1>4, LeaveKeeps DEF Delivered, LookedUp, Matched

LEMMA UdpDisconnectInv ==
    ASSUME WorldInv, UdpDisconnect
    PROVE  WorldInv'
<1> USE DEF WorldInv
<1>1. /\ Leave({udp.cid}) /\ delivered' = {}
      /\ udp' = [pc |-> "receive"]
      /\ udp.cid \in 0..(m_lastID - 1)
      /\ left' = left \cup {udp.cid}
      /\ UNCHANGED <<m_clientMap, m_lastID, m_running, main, cmd, playerless,
                     cleared>>
  BY DEF UdpDisconnect, UdpDone, registry, LookedUp
<1>2. Clients' = Clients
  BY <1>1 DEF Clients
<1>3. PlayersAreClients'
  BY <1>1, <1>2, LeaveKeeps DEF PlayersAreClients, PlayersOf, Matched
<1>4. WorldTypes'
  BY <1>1, <1>2, LeaveKeeps DEF WorldTypes
<1> QED
  BY <1>1, <1>3, <1>4, LeaveKeeps DEF Delivered, LookedUp, Matched

-----------------------------------------------------------------------------
(* The entities and all that is filed under clients stand still.           *)
LEMMA Unmoved ==
    ASSUME WorldInv, UNCHANGED <<entityVars, m_clientID>>
    PROVE  EntitiesInv' /\ Players' = Players
BY DEF WorldInv, entityVars, EntitiesInv, EntitiesTypeOK, Existing, MasksTrue,
       MembersFit, NumberedAhead, SpawnsQueued, Players

LEMMA MainSystemsInv ==
    ASSUME WorldInv, NEW ids \in SUBSET Players, NEW raised \in [ids -> Raised],
           MainSystems(raised)
    PROVE  WorldInv'
<1> USE DEF WorldInv
<1>1. ids \in SUBSET Raisable
  BY WorldAssumption DEF Raisable, Players
<1>2. EntitiesInv' /\ Delivered'
  BY <1>1, UpdateInv DEF MainSystems, Delivered
<1>3. Players' = Players
  BY DEF MainSystems, Update, Players
<1>4. /\ m_input' = [e \in DOMAIN m_input \cup Players |-> InputOf(e)]
      /\ Players \subseteq Ids
  BY PlayersHaveClients DEF MainSystems
<1>5. /\ UNCHANGED <<m_clientMap, m_lastID, m_running, m_clientID, udp, cmd,
                     left, playerless, cleared, leftover>>
      /\ main' = "server" /\ Clients' = Clients
  BY DEF MainSystems, registry, worldHistory, Clients
<1>6. PlayersAreClients'
  BY <1>3, <1>5 DEF PlayersAreClients, PlayersOf, Matched
<1>7. InputsBelong'
  BY <1>3, <1>4, <1>5 DEF InputsBelong, InputOf, Matched
<1>8. WorldTypes'
  <2>1. \A e \in DOMAIN m_input \cup Players : InputOf(e) \in -1..(m_lastID - 1)
    BY DEF InputOf, WorldTypes, NullID
  <2> QED
    BY <1>3, <1>4, <1>5, <2>1 DEF WorldTypes
<1> QED
  BY <1>2, <1>5, <1>6, <1>7, <1>8 DEF LookedUp, Matched

LEMMA UdpLookupInv ==
    ASSUME WorldInv, NEW peer \in Peers,
           NEW type \in {"Connect", "Disconnect", "Player_Update"},
           UdpLookup(peer, type)
    PROVE  WorldInv'
<1> USE DEF WorldInv
<1>1. /\ UNCHANGED <<entityVars, m_clientMap, m_lastID, m_running, m_clientID,
                     m_input, main, cmd, left, playerless, cleared, leftover>>
      /\ delivered' = {} /\ Clients' = Clients
  BY DEF UdpLookup, registry, worldHistory, Clients
<1>2. EntitiesInv' /\ Players' = Players
  BY <1>1, Unmoved
<1>3. LookedUp'
  BY <1>1 DEF UdpLookup, LookedUp, WorldTypes
<1>4. WorldTypes'
  BY <1>1, <1>2 DEF WorldTypes
<1> QED
  BY <1>1, <1>2, <1>3, <1>4
     DEF Delivered, Matched, PlayersAreClients, PlayersOf, InputsBelong

LEMMA UdpPlayerUpdateInv ==
    ASSUME WorldInv, NEW moves \in BOOLEAN, UdpPlayerUpdate(moves)
    PROVE  WorldInv'
<1> USE DEF WorldInv
<1>1. /\ UNCHANGED <<entityVars, m_clientMap, m_lastID, m_running, m_clientID,
                     main, cmd, left, playerless, cleared, leftover>>
      /\ delivered' = {} /\ Clients' = Clients
      /\ udp' = [pc |-> "receive"] /\ udp.cid \in 0..(m_lastID - 1)
  BY DEF UdpPlayerUpdate, UdpDone, registry, Clients, LookedUp
<1>2. EntitiesInv' /\ Players' = Players
  BY <1>1, Unmoved
<1> DEFINE mine == PlayersOf({udp.cid})
<1>3. m_input' = [e \in DOMAIN m_input \cup mine |->
                     IF e \in mine /\ moves THEN udp.cid ELSE InputOf(e)]
  BY DEF UdpPlayerUpdate
<1>4. \A e \in mine : e \in Players /\ e \in Ids /\ m_clientID[e] = udp.cid
  BY PlayersHaveClients DEF PlayersOf
<1>5. \A e \in DOMAIN m_input \cup mine : InputOf(e) \in -1..(m_lastID - 1)
  BY DEF InputOf, WorldTypes, NullID
<1>6. WorldTypes'
  <2> HIDE DEF mine
  <2>1. m_input' \in [DOMAIN m_input \cup mine -> -1..(m_lastID - 1)]
    BY <1>1, <1>3, <1>5
  <2>2. DOMAIN m_input' = DOMAIN m_input \cup mine
    BY <1>3
  <2> QED
    BY <1>1, <1>2, <1>4, <2>1, <2>2 DEF WorldTypes
<1>7. InputsBelong'
  <2> HIDE DEF mine
  <2> QED
    BY <1>1, <1>2, <1>3, <1>4 DEF InputsBelong, InputOf, Matched
<1> QED
  BY <1>1, <1>2, <1>6, <1>7
     DEF Delivered, LookedUp, Matched, PlayersAreClients, PlayersOf

-----------------------------------------------------------------------------
(* The new player has the new ClientID, and an id nobody has an input of.  *)
LEMMA NewPlayer ==
    ASSUME WorldInv, AddEntity(PlayerMask, -1)
    PROVE  /\ EntitiesInv'
           /\ Players' = Players \cup {m_idCounter}
           /\ m_idCounter \notin Players /\ m_idCounter \in Ids
<1> USE DEF WorldInv
<1>1. EntitiesInv'
  BY AddEntityInv
<1>2. m_idCounter \notin Existing /\ m_idCounter \in Ids
  BY DEF AddEntity, ChosenId
<1>3. FitsRequirements("Network", PlayerMask)
  BY WorldAssumption DEF FitsRequirements
<1>4. Players' = Players \cup {m_idCounter}
  BY <1>3, WorldAssumption DEF AddEntity, ChosenId, EntityModified, Players
<1> QED
  BY <1>1, <1>2, <1>4, PlayersHaveClients

LEMMA UdpConnectInv ==
    ASSUME WorldInv, NEW opens \in BOOLEAN, UdpConnect(opens)
    PROVE  WorldInv'
<1> USE DEF WorldInv
<1>1. /\ UNCHANGED <<m_running, m_input, main, cmd, left, cleared, leftover>>
      /\ delivered' = {} /\ udp' = [pc |-> "receive"] /\ udp.peer \in Peers
  BY DEF UdpConnect, UdpDone, LookedUp
<1>2. CASE ~m_running
  <2>1. /\ UNCHANGED <<entityVars, m_clientMap, m_lastID, m_clientID, playerless>>
        /\ Clients' = Clients
    BY <1>2 DEF UdpConnect, registry, Clients
  <2>2. EntitiesInv' /\ Players' = Players
    BY <2>1, Unmoved
  <2>3. WorldTypes'
    BY <1>1, <2>1, <2>2 DEF WorldTypes
  <2> QED
    BY <1>1, <2>1, <2>2, <2>3
       DEF Delivered, LookedUp, Matched, PlayersAreClients, PlayersOf,
           InputsBelong
<1>3. CASE m_running
  <2>1. /\ m_lastID' = m_lastID + 1 /\ m_lastID \in Nat
        /\ Clients' = Clients \cup {m_lastID} /\ m_lastID \notin Clients
        /\ m_clientMap' \in [Clients' -> Peers]
    BY <1>1, <1>3 DEF UdpConnect, Clients, WorldTypes
  <2>2. CASE opens
    <3>1. /\ AddEntity(PlayerMask, -1) /\ playerless' = playerless
          /\ m_clientID' = [e \in Players \cup {m_idCounter} |->
                               IF e = m_idCounter THEN m_lastID
                                                  ELSE m_clientID[e]]
      BY <1>3, <2>2 DEF UdpConnect, WorldTypes
    <3>2. WorldTypes'
      BY <1>1, <2>1, <3>1, NewPlayer DEF WorldTypes
    <3>3. PlayersAreClients'
      <4>1. /\ \A e \in Players : m_clientID'[e] = m_clientID[e]
            /\ \A e \in Players : m_clientID[e] \in 0..(m_lastID - 1)
            /\ m_clientID'[m_idCounter] = m_lastID
        BY <3>1, NewPlayer DEF WorldTypes
      <4>2. \A e \in Players' : m_clientID'[e] \in Clients' \cup cleared'
        BY <1>1, <2>1, <4>1, NewPlayer, <3>1 DEF PlayersAreClients, Matched
      <4>3. \A e, f \in Players' : m_clientID'[e] = m_clientID'[f] => e = f
        BY <2>1, <4>1, NewPlayer, <3>1 DEF PlayersAreClients, Matched
      <4>4. ASSUME NEW c \in Clients'
            PROVE  \/ PlayersOf({c})' # {}
                   \/ c \in left' \cup playerless'
        BY <1>1, <2>1, <3>1, <4>1, NewPlayer
           DEF PlayersAreClients, PlayersOf, Matched
      <4> QED
        BY <4>2, <4>3, <4>4 DEF PlayersAreClients
    <3>4. InputsBelong'
      BY <1>1, <3>1, NewPlayer DEF InputsBelong, Matched
    <3> QED
      BY <1>1, <3>1, <3>2, <3>3, <3>4, NewPlayer DEF Delivered, LookedUp, Matched
  <2>3. CASE ~opens
    <3>1. /\ UNCHANGED <<entityVars, m_clientID>>
          /\ playerless' = playerless \cup {m_lastID}
      BY <1>3, <2>3 DEF UdpConnect
    <3>2. EntitiesInv' /\ Players' = Players
      BY <3>1, Unmoved
    <3>3. WorldTypes'
      BY <1>1, <2>1, <3>1, <3>2 DEF WorldTypes
    <3> QED
      BY <1>1, <2>1, <3>1, <3>2, <3>3
         DEF Delivered, LookedUp, Matched, PlayersAreClients, PlayersOf,
             InputsBelong
  <2> QED
    BY <2>2, <2>3
<1> QED
  BY <1>2, <1>3 DEF WorldTypes

-----------------------------------------------------------------------------
LEMMA CmdClearInv ==
    ASSUME WorldInv, NEW next \in {"purge", "stop"}, CmdClear(next)
    PROVE  WorldInv'
<1> USE DEF WorldInv
<1>1. /\ UNCHANGED <<entityVars, m_lastID, m_running, m_clientID, m_input, main,
                     udp, left, playerless, leftover>>
      /\ delivered' = {} /\ cmd' = next /\ cleared' = cleared \cup Clients
      /\ m_clientMap' = [c \in {} |-> {}] /\ Clients' = {}
  BY DEF CmdClear, Clients
<1>2. EntitiesInv' /\ Players' = Players
  BY <1>1, Unmoved
<1>3. WorldTypes'
  BY <1>1, <1>2 DEF WorldTypes
<1> QED
  BY <1>1, <1>2, <1>3
     DEF Delivered, LookedUp, Matched, PlayersAreClients, PlayersOf, InputsBelong

LEMMA CmdPurgeInv ==
    ASSUME WorldInv, CmdPurge
    PROVE  WorldInv'
<1> USE DEF WorldInv
<1>1. /\ UNCHANGED <<m_clientMap, m_lastID, m_running, m_input, main, udp, left>>
      /\ delivered' = {} /\ cmd' = "idle" /\ cleared' = {}
      /\ playerless' = playerless \cup Clients /\ leftover' = DOMAIN m_input
      /\ m_clientID' = [e \in {} |-> {}] /\ Clients' = Clients
  BY DEF CmdPurge, registry, Clients
<1>2. EntitiesInv'
  BY PurgeInv DEF CmdPurge
<1>3. Players' = {}
  BY WorldAssumption DEF CmdPurge, Purge, Players
<1>4. WorldTypes'
  BY <1>1, <1>3 DEF WorldTypes
<1> QED
  BY <1>1, <1>2, <1>3, <1>4
     DEF Delivered, LookedUp, Matched, PlayersAreClients, PlayersOf, InputsBelong

LEMMA CmdStopInv ==
    ASSUME WorldInv, CmdStop \/ UNCHANGED worldVars
    PROVE  WorldInv'
<1> USE DEF WorldInv
<1>1. /\ UNCHANGED <<entityVars, m_clientMap, m_lastID, m_clientID, m_input,
                     main, udp, left, playerless, cleared, leftover>>
      /\ delivered' \in {{}, delivered} /\ m_running' \in {FALSE, m_running}
      /\ cmd' \in {"done", cmd} /\ Clients' = Clients
  BY DEF CmdStop, worldVars, vars, registry, worldHistory, Clients
<1>2. EntitiesInv' /\ Players' = Players
  BY <1>1, Unmoved
<1>3. WorldTypes'
  BY <1>1, <1>2 DEF WorldTypes
<1> QED
  BY <1>1, <1>2, <1>3
     DEF Delivered, LookedUp, Matched, PlayersAreClients, PlayersOf, InputsBelong

(* Everything that is filed under clients, between any two steps           *)
(* (World.cpp, S_Network.cpp).                                             *)
THEOREM WorldInvariant == WorldSpec => []WorldInv
<1>1. WorldInv /\ [WorldNext]_worldVars => WorldInv'
  BY MainServerInv, MainSystemsInv, UdpLookupInv, UdpDisconnectInv,
     UdpPlayerUpdateInv, UdpConnectInv, CmdClearInv, CmdPurgeInv, CmdStopInv
     DEF WorldNext
<1> QED
  BY <1>1, WorldInitInv, PTL DEF WorldSpec

(* The world's variables keep their types.                                 *)
THEOREM WorldTypeCorrect == WorldSpec => []WorldTypeOK
BY WorldInvariant, TypesAreWorldTypes, PTL

(* Players and clients stay matched over joins, leaves, timeouts, clears   *)
(* and purges in any order (World.cpp:52-104, 121-123).                    *)
THEOREM PlayersMatchClients == WorldSpec => []PlayersAreClients
BY WorldInvariant, PTL DEF WorldInv, Matched

(* Only a purge makes an input someone else's (S_Network.cpp:17, 106-139). *)
THEOREM InputsAreTheirOwners == WorldSpec => []InputsBelong
BY WorldInvariant, PTL DEF WorldInv, Matched
=============================================================================
