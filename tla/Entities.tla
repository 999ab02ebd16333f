------------------------------ MODULE Entities ------------------------------
(***************************************************************************)
(* EntityManager and SystemManager (src/common): entities are sets of      *)
(* components under an id, systems work on the entities that have what     *)
(* they require, events wait in a queue per id for the end of a frame.     *)
(* An operation is one step: World calls all of them under one mutex.      *)
(*                                                                         *)
(* A Bitmask is the set of its components.  The component objects are kept *)
(* apart from the mask, as the code does: getComponent() reads the mask    *)
(* first and the objects then, and its callers do not test the result.     *)
(***************************************************************************)
EXTENDS Integers, SequencesExt

CONSTANTS
    Components,     \* ECS_Types.h: Component
    Factory,        \* those registered with addComponentType()
    Systems,
    Requirements,   \* S_Base::m_requiredComponents of each system
    Raised,         \* the events that systems raise during a frame
    Masks,          \* bound: the masks entities are created with
    MaxId,          \* bound: entities are created up to this id
    MaxEvents       \* bound: events an id may have waiting between frames

Ids == 0..MaxId

ASSUME ComponentsAssumption ==
    /\ Factory \subseteq Components
    /\ Masks \subseteq SUBSET Components
    /\ "Spawned" \notin Raised

(* Every system of ServerSystemManager.cpp requires something, and only    *)
(* what Server_Entity_Manager.cpp:5-13 can create.                         *)
ASSUME RequirementsAssumption ==
    /\ DOMAIN Requirements = Systems
    /\ \A s \in Systems : \A r \in Requirements[s] :
           r \subseteq Factory /\ r # {}

ASSUME EntityBoundsAssumption == MaxId \in Nat /\ MaxEvents \in Nat

VARIABLES
    m_idCounter,
    m_entities,     \* id -> mask and component objects, partial
    members,        \* S_Base::m_entities of each system
    m_events,       \* SystemManager::m_events; no queue is an empty queue
    numbered,       \* history: ids that addEntity() was asked for by number
    delivered       \* history: the events the last step handed to systems

entityVars == <<m_idCounter, m_entities, members, m_events, numbered>>

vars == <<entityVars, delivered>>

Existing == DOMAIN m_entities

Events == Raised \cup {"Spawned"}

(* "stale" is history: the entity the event was queued for is gone.        *)
Queued == [event : Events, stale : BOOLEAN]

New(event) == [event |-> event, stale |-> FALSE]

-----------------------------------------------------------------------------
(* Bitmask::matches() of one of the requirements with itself as what is    *)
(* relevant; an empty mask is compared as a whole.                         *)
FitsRequirements(s, mask) ==
    \E r \in Requirements[s] : IF r = {} THEN mask = {} ELSE r \subseteq mask

(* Mutant: a system never lets go of an entity.                            *)
MembersKept(id, mask) ==
    [s \in Systems |-> IF FitsRequirements(s, mask) THEN members[s] \cup {id}
                                                    ELSE members[s]]

(* SystemManager::entityModified().                                        *)
EntityModified(id, mask) ==
    [s \in Systems |-> IF FitsRequirements(s, mask) THEN members[s] \cup {id}
                                                    ELSE members[s] \ {id}]

(* Add one entity or replace it.                                           *)
WithEntity(id, mask, objects) ==
    [e \in Existing \cup {id} |->
        IF e = id THEN [m_bitmask |-> mask, m_components |-> objects]
                  ELSE m_entities[e]]

-----------------------------------------------------------------------------
EntitiesInit ==
    /\ m_idCounter = 0
    /\ m_entities = [e \in {} |-> {}]
    /\ members = [s \in Systems |-> {}]
    /\ m_events = [e \in Ids |-> <<>>]
    /\ numbered = {}

Init == EntitiesInit /\ delivered = {}

(* The id addEntity() uses: the next one, or the one asked for.            *)
ChosenId(l_id) == IF l_id = -1 THEN m_idCounter ELSE l_id

(* Mutant: the counter stays when the entity is there.                     *)
AddEntityDoesNotCount(mask, l_id) ==
    LET id == ChosenId(l_id) IN
    /\ id \in Ids \ Existing /\ Len(m_events[id]) < MaxEvents
    /\ m_entities' = WithEntity(id, mask \cap Factory, mask \cap Factory)
    /\ m_idCounter' = m_idCounter
    /\ members' = EntityModified(id, mask)
    /\ m_events' = [m_events EXCEPT ![id] = Append(@, New("Spawned"))]
    /\ numbered' = IF l_id = -1 THEN numbered ELSE numbered \cup {id}

(* addEntity() that succeeds: the components the factory knows are added   *)
(* one by one; the last entityModified() passes the mask that was asked    *)
(* for, whatever was created, and so decides alone who has the entity.     *)
AddEntity(mask, l_id) ==
    LET id == ChosenId(l_id) IN
    /\ id \in Ids \ Existing /\ Len(m_events[id]) < MaxEvents
    /\ m_entities' = WithEntity(id, mask \cap Factory, mask \cap Factory)
    /\ m_idCounter' = IF l_id = -1 THEN m_idCounter + 1 ELSE m_idCounter
    /\ members' = EntityModified(id, mask)
    /\ m_events' = [m_events EXCEPT ![id] = Append(@, New("Spawned"))]
    /\ numbered' = IF l_id = -1 THEN numbered ELSE numbered \cup {id}

(* emplace() fails on an id in use, that of a removed entity included; the *)
(* counter stays where it is.                                              *)
AddEntityFails(l_id) ==
    /\ ChosenId(l_id) \in Existing
    /\ UNCHANGED entityVars

AddComponent(id, c) ==
    /\ id \in Existing /\ c \in Factory \ m_entities[id].m_bitmask
    /\ LET mask == m_entities[id].m_bitmask \cup {c}
       IN  /\ m_entities' = WithEntity(id, mask,
                                       m_entities[id].m_components \cup {c})
           /\ members' = EntityModified(id, mask)
    /\ UNCHANGED <<m_idCounter, m_events, numbered>>

RemoveComponent(id, c) ==
    /\ id \in Existing
    /\ c \in m_entities[id].m_bitmask \cap m_entities[id].m_components
    /\ LET mask == m_entities[id].m_bitmask \ {c}
       IN  /\ m_entities' = WithEntity(id, mask,
                                       m_entities[id].m_components \ {c})
           /\ members' = EntityModified(id, mask)
    /\ UNCHANGED <<m_idCounter, m_events, numbered>>

(* removeEntity() of each: an id stays in m_entities without components,   *)
(* and its events stay queued.  World models the Removed_Entity message.   *)
RemoveEntities(ids) ==
    /\ ids \subseteq Existing
    /\ m_entities' = [e \in Existing |->
           IF e \in ids THEN [m_bitmask |-> {}, m_components |-> {}]
                        ELSE m_entities[e]]
    /\ members' = [s \in Systems |-> members[s] \ ids]
    /\ UNCHANGED <<m_idCounter, m_events, numbered>>

(* Mutant: the systems keep their entities.                                *)
PurgeEntitiesOnly ==
    /\ m_idCounter' = 0
    /\ m_entities' = [e \in {} |-> {}]
    /\ m_events' = [e \in Ids |-> [i \in DOMAIN m_events[e] |->
                                      [m_events[e][i] EXCEPT !.stale = TRUE]]]
    /\ numbered' = {}
    /\ UNCHANGED members

(* purge(): ids start again from 0, what is queued under them stays.       *)
Purge ==
    /\ m_idCounter' = 0
    /\ m_entities' = [e \in {} |-> {}]
    /\ members' = [s \in Systems |-> {}]
    /\ m_events' = [e \in Ids |-> [i \in DOMAIN m_events[e] |->
                                      [m_events[e][i] EXCEPT !.stale = TRUE]]]
    /\ numbered' = {}

-----------------------------------------------------------------------------
(* SystemManager::update().                                                *)

(* Systems raise events for entities they have.                            *)
Raisable == UNION {members[s] : s \in Systems}

Raise(raised) ==
    [e \in Ids |-> IF e \in DOMAIN raised
                   THEN Append(m_events[e], New(raised[e])) ELSE m_events[e]]

(* Every queued event, to every system that has the entity.                *)
Deliveries(queues) ==
    UNION {[system : {s \in Systems : e \in members[s]},
            entity : {e}, queued : ToSet(queues[e])] : e \in Ids}

(* Mutant: one event of each queue per frame.                              *)
HandleOneEvent(queues) ==
    /\ delivered' = Deliveries([e \in Ids |-> IF queues[e] = <<>> THEN <<>>
                                              ELSE <<Head(queues[e])>>])
    /\ m_events' = [e \in Ids |-> IF queues[e] = <<>> THEN <<>>
                                                      ELSE Tail(queues[e])]

(* handleEvents(): the queues are emptied.                                 *)
HandleEvents(queues) ==
    /\ delivered' = Deliveries(queues)
    /\ m_events' = [e \in Ids |-> <<>>]

Update(raised) ==
    /\ HandleEvents(Raise(raised))
    /\ UNCHANGED <<m_idCounter, m_entities, members, numbered>>

-----------------------------------------------------------------------------
Operations ==
    \/ \E mask \in Masks, l_id \in Ids \cup {-1} : AddEntity(mask, l_id)
    \/ \E l_id \in Ids \cup {-1} : AddEntityFails(l_id)
    \/ \E id \in Existing, c \in Components :
           AddComponent(id, c) \/ RemoveComponent(id, c)
    \/ \E id \in Existing : RemoveEntities({id})
    \/ Purge

Next ==
    \/ Operations /\ delivered' = {}
    \/ \E ids \in SUBSET Raisable : \E raised \in [ids -> Raised] : Update(raised)

Spec == Init /\ [][Next]_vars

-----------------------------------------------------------------------------
(* Properties.                                                             *)

(* Masks and objects are components that exist, members have ids in use,   *)
(* queues hold events.                                                     *)
EntitiesTypeOK ==
    /\ m_idCounter \in Nat
    /\ Existing \subseteq Ids
    /\ m_entities \in [Existing -> [m_bitmask : SUBSET Factory,
                                    m_components : SUBSET Factory]]
    /\ members \in [Systems -> SUBSET Existing]
    /\ m_events \in [Ids -> Seq(Queued)]
    /\ numbered \subseteq Ids

TypeOK ==
    /\ EntitiesTypeOK
    /\ delivered \subseteq [system : Systems, entity : Ids, queued : Queued]

(* addEntity() without a number finds its id free, unless that very id was *)
(* asked for by number before, after which every such call fails until the *)
(* next purge (Entity_Manager.cpp:8-10).                                   *)
CounterFree == m_idCounter \in Existing => m_idCounter \in numbered

(* The ids start again at 0 with a purge while queues keep what they hold  *)
(* (Entity_Manager.cpp:150, System_Manager.cpp:58): an entity is handed an *)
(* event of the previous bearer of its id only if that is the Spawned of   *)
(* addEntity(), the one event that is not queued within a frame.           *)
StaleEventsAreSpawns ==
    \A d \in delivered : d.queued.stale => d.queued.event = "Spawned"

(* A system has exactly the entities whose component objects meet one of   *)
(* its requirements, after every operation: it finds the components that   *)
(* every one of them names, whatever addEntity() was asked for and the     *)
(* factory could make.  Of other components it promises nothing: S_Timers  *)
(* takes C_Attacker untested and does not require it (S_Timers.cpp:10-13,  *)
(* 42-43; System_Manager.cpp:34-56, Entity_Manager.cpp:7-18, 72-90,        *)
(* 98-152).                                                                *)
View == INSTANCE EntityView WITH
    has <- [e \in Ids |-> IF e \in Existing THEN m_entities[e].m_components
                                            ELSE {}],
    view <- members

ImplementsView == View!Spec
=============================================================================
