--------------------------- MODULE EntitiesProofs ---------------------------
(***************************************************************************)
(* Proofs about Entities, for every component factory and every set of     *)
(* systems whose requirements the factory can meet.  One invariant carries *)
(* them all: a mask says which component objects exist, a system has the   *)
(* entities whose mask meets its requirements, an id at or above the       *)
(* counter was asked for by number, and between frames the queues hold     *)
(* Spawned events alone.                                                   *)
(***************************************************************************)
EXTENDS Entities, TLAPS

(* The mask is what getComponent() tests, the objects are what it finds.   *)
MasksTrue ==
    \A e \in Existing : m_entities[e].m_bitmask = m_entities[e].m_components

MembersFit ==
    \A s \in Systems :
        members[s] =
            {e \in Existing : FitsRequirements(s, m_entities[e].m_bitmask)}

NumberedAhead == \A e \in Existing : e >= m_idCounter => e \in numbered

SpawnsQueued ==
    \A e \in Ids : \A i \in DOMAIN m_events[e] :
        m_events[e][i].event = "Spawned"

EntitiesInv ==
    /\ EntitiesTypeOK
    /\ MasksTrue /\ MembersFit /\ NumberedAhead /\ SpawnsQueued

-----------------------------------------------------------------------------
(* A mask the file asks for and the part of it the factory can create meet *)
(* the same requirements.                                                  *)
LEMMA FactoryDecides ==
    ASSUME NEW s \in Systems, NEW mask
    PROVE  FitsRequirements(s, mask \cap Factory) = FitsRequirements(s, mask)
BY RequirementsAssumption DEF FitsRequirements

(* The empty mask of a removed entity meets none.                          *)
LEMMA NothingFitsNobody ==
    ASSUME NEW s \in Systems
    PROVE  ~FitsRequirements(s, {})
BY RequirementsAssumption DEF FitsRequirements

(* What an operation leaves when it gives one id a mask with its objects   *)
(* and tells the systems.                                                  *)
LEMMA WithEntityKeeps ==
    ASSUME EntitiesTypeOK, MasksTrue, MembersFit,
           NEW id \in Ids, NEW mask \in SUBSET Factory,
           m_entities' = WithEntity(id, mask, mask),
           members' = EntityModified(id, mask)
    PROVE  /\ Existing' = Existing \cup {id}
           /\ Existing' \subseteq Ids
           /\ m_entities' \in [Existing' -> [m_bitmask : SUBSET Factory,
                                             m_components : SUBSET Factory]]
           /\ members' \in [Systems -> SUBSET Existing']
           /\ MasksTrue' /\ MembersFit'
<1>1. /\ Existing' = Existing \cup {id}
      /\ Existing' \subseteq Ids
      /\ m_entities' \in [Existing' -> [m_bitmask : SUBSET Factory,
                                        m_components : SUBSET Factory]]
  BY DEF WithEntity, EntitiesTypeOK, Existing
<1>2. members' \in [Systems -> SUBSET Existing']
  BY <1>1 DEF EntityModified, EntitiesTypeOK
<1>3. MasksTrue'
  BY <1>1 DEF WithEntity, MasksTrue, Existing
<1>4. MembersFit'
  <2> SUFFICES ASSUME NEW s \in Systems
               PROVE  members'[s] = {e \in Existing' :
                        FitsRequirements(s, m_entities'[e].m_bitmask)}
    BY DEF MembersFit, FitsRequirements
  <2>1. /\ m_entities'[id].m_bitmask = mask
        /\ \A e \in Existing \ {id} : m_entities'[e] = m_entities[e]
    BY <1>1 DEF WithEntity, Existing
  <2>2. members[s] =
            {e \in Existing : FitsRequirements(s, m_entities[e].m_bitmask)}
    BY DEF MembersFit
  <2>3. members'[s] = IF FitsRequirements(s, mask) THEN members[s] \cup {id}
                                                   ELSE members[s] \ {id}
    BY DEF EntityModified
  <2> QED
    BY <1>1, <2>1, <2>2, <2>3
<1> QED
  BY <1>1, <1>2, <1>3, <1>4

LEMMA NewQueued ==
    ASSUME NEW event \in Events
    PROVE  New(event) \in Queued
BY DEF New, Queued

-----------------------------------------------------------------------------
LEMMA InitInv == Init => EntitiesInv
BY NothingFitsNobody, EntityBoundsAssumption
   DEF Init, EntitiesInit, EntitiesInv, EntitiesTypeOK, Existing, MasksTrue,
       MembersFit, NumberedAhead, SpawnsQueued

LEMMA AddEntityInv ==
    ASSUME EntitiesInv, NEW mask, NEW l_id \in Ids \cup {-1},
           AddEntity(mask, l_id)
    PROVE  EntitiesInv'
<1> DEFINE id == ChosenId(l_id)
<1> USE DEF EntitiesInv
<1>1. /\ id \in Ids /\ id \notin Existing
      /\ id \in Nat
  BY EntityBoundsAssumption DEF AddEntity, Ids
<1>2. members' = EntityModified(id, mask \cap Factory)
  <2>1. members' = EntityModified(id, mask)
    BY DEF AddEntity
  <2>2. \A s \in Systems :
            FitsRequirements(s, mask \cap Factory) = FitsRequirements(s, mask)
    BY FactoryDecides
  <2> QED
    BY <2>1, <2>2 DEF EntityModified
<1>3. m_entities' = WithEntity(id, mask \cap Factory, mask \cap Factory)
  BY DEF AddEntity
<1>4. /\ Existing' = Existing \cup {id}
      /\ Existing' \subseteq Ids
      /\ m_entities' \in [Existing' -> [m_bitmask : SUBSET Factory,
                                        m_components : SUBSET Factory]]
      /\ members' \in [Systems -> SUBSET Existing']
      /\ MasksTrue' /\ MembersFit'
  <2>1. mask \cap Factory \in SUBSET Factory
    OBVIOUS
  <2> QED
    BY <1>1, <1>2, <1>3, <2>1, WithEntityKeeps
<1>5. /\ m_events' \in [Ids -> Seq(Queued)]
      /\ SpawnsQueued'
  <2>1. New("Spawned") \in Queued /\ New("Spawned").event = "Spawned"
    BY NewQueued DEF Events, New
  <2>2. m_events' = [m_events EXCEPT ![id] = Append(@, New("Spawned"))]
    BY DEF AddEntity
  <2>3. m_events \in [Ids -> Seq(Queued)]
    BY DEF EntitiesTypeOK
  <2> QED
    BY <1>1, <2>1, <2>2, <2>3 DEF SpawnsQueued
<1>6. /\ m_idCounter' \in Nat
      /\ numbered' \subseteq Ids
      /\ NumberedAhead'
  BY <1>1, <1>4 DEF AddEntity, EntitiesTypeOK, NumberedAhead, ChosenId, Ids
<1> QED
  BY <1>4, <1>5, <1>6 DEF EntitiesTypeOK

(* addComponent() and removeComponent().                                   *)
LEMMA ComponentInv ==
    ASSUME EntitiesInv, NEW id \in Existing, NEW c,
           AddComponent(id, c) \/ RemoveComponent(id, c)
    PROVE  EntitiesInv'
<1> USE DEF EntitiesInv
<1>1. /\ id \in Ids
      /\ m_entities[id].m_bitmask = m_entities[id].m_components
      /\ m_entities[id].m_bitmask \in SUBSET Factory
  BY DEF EntitiesTypeOK, MasksTrue
<1>2. PICK mask \in SUBSET Factory :
          /\ m_entities' = WithEntity(id, mask, mask)
          /\ members' = EntityModified(id, mask)
  BY <1>1 DEF AddComponent, RemoveComponent
<1>3. UNCHANGED <<m_idCounter, m_events, numbered>>
  BY DEF AddComponent, RemoveComponent
<1>4. /\ Existing' = Existing \cup {id}
      /\ m_entities' \in [Existing' -> [m_bitmask : SUBSET Factory,
                                        m_components : SUBSET Factory]]
      /\ members' \in [Systems -> SUBSET Existing']
      /\ MasksTrue' /\ MembersFit'
  <2>1. EntitiesTypeOK /\ MasksTrue /\ MembersFit
    OBVIOUS
  <2> QED
    BY <1>1, <1>2, <2>1, WithEntityKeeps
<1>5. Existing' = Existing
  BY <1>4
<1> QED
  BY <1>3, <1>4, <1>5 DEF EntitiesTypeOK, NumberedAhead, SpawnsQueued

LEMMA RemoveEntitiesInv ==
    ASSUME EntitiesInv, NEW ids, RemoveEntities(ids)
    PROVE  EntitiesInv'
<1> USE DEF EntitiesInv
<1>1. /\ Existing' = Existing
      /\ m_entities' \in [Existing' -> [m_bitmask : SUBSET Factory,
                                        m_components : SUBSET Factory]]
      /\ MasksTrue'
  BY DEF RemoveEntities, EntitiesTypeOK, MasksTrue, Existing
<1>2. members' \in [Systems -> SUBSET Existing']
  BY <1>1 DEF RemoveEntities, EntitiesTypeOK
<1>3. MembersFit'
  <2> SUFFICES ASSUME NEW s \in Systems
               PROVE  members'[s] = {e \in Existing' :
                        FitsRequirements(s, m_entities'[e].m_bitmask)}
    BY DEF MembersFit, FitsRequirements
  <2>1. \A e \in Existing : m_entities'[e].m_bitmask =
            IF e \in ids THEN {} ELSE m_entities[e].m_bitmask
    BY DEF RemoveEntities
  <2>2. members'[s] = members[s] \ ids
    BY DEF RemoveEntities
  <2>3. members[s] =
            {e \in Existing : FitsRequirements(s, m_entities[e].m_bitmask)}
    BY DEF MembersFit
  <2> QED
    BY <1>1, <2>1, <2>2, <2>3, NothingFitsNobody
<1> QED
  BY <1>1, <1>2, <1>3
     DEF RemoveEntities, EntitiesTypeOK, NumberedAhead, SpawnsQueued

LEMMA PurgeInv ==
    ASSUME EntitiesInv, Purge
    PROVE  EntitiesInv'
<1> USE DEF EntitiesInv
<1> DEFINE Gone(queued) == [queued EXCEPT !.stale = TRUE]
<1>1. \A queued \in Queued :
          Gone(queued) \in Queued /\ Gone(queued).event = queued.event
  BY DEF Queued
<1>2. ASSUME NEW e \in Ids
      PROVE  /\ m_events'[e] \in Seq(Queued)
             /\ \A i \in DOMAIN m_events'[e] :
                   m_events'[e][i].event = "Spawned"
  <2>1. /\ m_events[e] \in Seq(Queued)
        /\ \A i \in DOMAIN m_events[e] : m_events[e][i].event = "Spawned"
    BY DEF EntitiesTypeOK, SpawnsQueued
  <2>2. /\ Len(m_events[e]) \in Nat
        /\ DOMAIN m_events[e] = 1..Len(m_events[e])
        /\ \A i \in DOMAIN m_events[e] : m_events[e][i] \in Queued
    BY <2>1
  <2> HIDE DEF Gone
  <2>3. m_events'[e] = [i \in DOMAIN m_events[e] |-> Gone(m_events[e][i])]
    BY Zenon DEF Purge, Gone
  <2>4. m_events'[e] \in [1..Len(m_events[e]) -> Queued]
    BY <1>1, <2>2, <2>3
  <2>5. m_events'[e] \in Seq(Queued)
    BY <2>2, <2>4
  <2>6. \A i \in DOMAIN m_events'[e] : m_events'[e][i].event = "Spawned"
    BY <1>1, <2>1, <2>2, <2>3
  <2> QED
    BY <2>5, <2>6
<1>3. /\ m_events' \in [Ids -> Seq(Queued)]
      /\ SpawnsQueued'
  <2>1. m_events' = [e \in Ids |-> m_events'[e]]
    BY DEF Purge
  <2> QED
    BY <1>2, <2>1 DEF SpawnsQueued
<1> QED
  BY <1>3 DEF Purge, EntitiesTypeOK, Existing, MasksTrue, MembersFit,
              NumberedAhead

LEMMA OperationsInv ==
    ASSUME EntitiesInv, Operations
    PROVE  EntitiesInv'
<1>1. ASSUME NEW l_id, AddEntityFails(l_id) PROVE EntitiesInv'
  BY <1>1 DEF AddEntityFails, entityVars, EntitiesInv, EntitiesTypeOK, Existing,
              MasksTrue, MembersFit, NumberedAhead, SpawnsQueued
<1> QED
  BY <1>1, AddEntityInv, ComponentInv, RemoveEntitiesInv, PurgeInv
     DEF Operations

(* A frame: the queues at the end of it, and what they hold.               *)
LEMMA UpdateInv ==
    ASSUME EntitiesInv, NEW ids \in SUBSET Raisable, NEW raised \in [ids -> Raised],
           Update(raised)
    PROVE  /\ EntitiesInv'
           /\ delivered' \subseteq
                  [system : Systems, entity : Ids, queued : Queued]
           /\ \A d \in delivered' :
                  d.queued.stale => d.queued.event = "Spawned"
<1> DEFINE queues == Raise(raised)
<1>1. EntitiesInv'
  BY DEF Update, HandleEvents, EntitiesInv, EntitiesTypeOK, Existing, MasksTrue,
         MembersFit, NumberedAhead, SpawnsQueued
<1>2. \A e \in Ids :
          /\ queues[e] \in Seq(Queued)
          /\ \A i \in DOMAIN queues[e] :
                queues[e][i].stale => queues[e][i].event = "Spawned"
  <2> SUFFICES ASSUME NEW e \in Ids
               PROVE  /\ queues[e] \in Seq(Queued)
                      /\ \A i \in DOMAIN queues[e] :
                            queues[e][i].stale => queues[e][i].event = "Spawned"
    OBVIOUS
  <2>1. /\ m_events[e] \in Seq(Queued)
        /\ \A i \in DOMAIN m_events[e] : m_events[e][i].event = "Spawned"
    BY DEF EntitiesInv, EntitiesTypeOK, SpawnsQueued
  <2>2. CASE e \in DOMAIN raised
    <3>1. /\ New(raised[e]) \in Queued
          /\ New(raised[e]).stale = FALSE
      BY <2>2, NewQueued DEF Events, New
    <3>2. queues[e] = Append(m_events[e], New(raised[e]))
      BY <2>2 DEF Raise
    <3> QED
      BY <2>1, <3>1, <3>2
  <2>3. CASE e \notin DOMAIN raised
    BY <2>1, <2>3 DEF Raise
  <2> QED
    BY <2>2, <2>3
<1>3. delivered' = Deliveries(queues)
  BY DEF Update, HandleEvents
<1>4. ASSUME NEW d \in delivered'
      PROVE  /\ d \in [system : Systems, entity : Ids, queued : Queued]
             /\ d.queued.stale => d.queued.event = "Spawned"
  <2>1. PICK e \in Ids : d \in [system : {s \in Systems : e \in members[s]},
                                entity : {e}, queued : ToSet(queues[e])]
    BY <1>3, <1>4 DEF Deliveries
  <2>2. PICK i \in DOMAIN queues[e] : d.queued = queues[e][i]
    BY <2>1 DEF ToSet
  <2>3. queues[e][i] \in Queued
    BY <1>2, <2>2
  <2> QED
    BY <1>2, <2>1, <2>2, <2>3
<1> QED
  BY <1>1, <1>3, <1>4

-----------------------------------------------------------------------------
(* The state of the entity manager with what the last step delivered.      *)
FrameInv == EntitiesInv /\ TypeOK /\ StaleEventsAreSpawns

LEMMA FrameStep == FrameInv /\ [Next]_vars => FrameInv'
<1> SUFFICES ASSUME FrameInv, [Next]_vars PROVE FrameInv'
  OBVIOUS
<1>1. EntitiesInv' => EntitiesTypeOK'
  BY DEF EntitiesInv
<1>2. CASE Operations /\ delivered' = {}
  BY <1>1, <1>2, OperationsInv DEF FrameInv, TypeOK, StaleEventsAreSpawns
<1>3. ASSUME NEW ids \in SUBSET Raisable, NEW raised \in [ids -> Raised],
             Update(raised)
      PROVE  FrameInv'
  BY <1>1, <1>3, UpdateInv DEF FrameInv, TypeOK, StaleEventsAreSpawns
<1>4. CASE UNCHANGED vars
  BY <1>4 DEF vars, entityVars, FrameInv, EntitiesInv, EntitiesTypeOK, Existing,
              MasksTrue, MembersFit, NumberedAhead, SpawnsQueued, TypeOK,
              StaleEventsAreSpawns
<1> QED
  BY <1>2, <1>3, <1>4 DEF Next

(* Between any two operations masks, component objects and the systems'    *)
(* lists of entities agree (Entity_Manager.cpp, System_Manager.cpp:34-56). *)
THEOREM FrameInvariant == Spec => []FrameInv
<1>1. Init => FrameInv
  BY InitInv DEF Init, FrameInv, EntitiesInv, TypeOK, StaleEventsAreSpawns
<1> QED
  BY <1>1, FrameStep, PTL DEF Spec

(* The variables of the entity manager keep their types.                   *)
THEOREM EntitiesTypeCorrect == Spec => []TypeOK
BY FrameInvariant, PTL DEF FrameInv

(* A purge never makes a system see, under a reused id, an event other     *)
(* than the Spawned of the previous bearer (Entity_Manager.cpp:150).       *)
THEOREM OnlySpawnsOutliveAPurge == Spec => []StaleEventsAreSpawns
BY FrameInvariant, PTL DEF FrameInv

(* The id addEntity() is about to use is free, or was asked for by number  *)
(* (Entity_Manager.cpp:8-10).                                              *)
THEOREM CounterStaysFree == Spec => []CounterFree
<1>1. FrameInv => CounterFree
  BY DEF FrameInv, EntitiesInv, EntitiesTypeOK, NumberedAhead, CounterFree
<1> QED
  BY <1>1, FrameInvariant, PTL
-----------------------------------------------------------------------------
(* The refinement: what a getComponent() of each id would find.            *)
Found == [e \in Ids |-> IF e \in Existing THEN m_entities[e].m_components
                                          ELSE {}]

Viewed == members = [s \in Systems |-> View!Sees(s, Found)]

LEMMA SystemsSeeWhatIsFound ==
    ASSUME EntitiesInv
    PROVE  Viewed
<1>1. members = [s \in Systems |-> members[s]]
  BY DEF EntitiesInv, EntitiesTypeOK
<1>2. ASSUME NEW s \in Systems
      PROVE  members[s] = View!Sees(s, Found)
  <2>1. members[s] =
            {e \in Existing : FitsRequirements(s, m_entities[e].m_bitmask)}
    BY DEF EntitiesInv, MembersFit
  <2>2. \A e \in Ids : (\E r \in Requirements[s] : r \subseteq Found[e])
            <=> e \in Existing /\ FitsRequirements(s, m_entities[e].m_bitmask)
    BY RequirementsAssumption
       DEF Found, EntitiesInv, MasksTrue, FitsRequirements
  <2>3. Existing \subseteq Ids
    BY DEF EntitiesInv, EntitiesTypeOK
  <2> QED
    BY <2>1, <2>2, <2>3 DEF View!Sees
<1> QED
  BY <1>1, <1>2 DEF Viewed

(* An operation changes what is found of one entity, or of all.            *)
LEMMA OperationsChangeOne ==
    ASSUME EntitiesInv, EntitiesInv', Operations
    PROVE  \/ UNCHANGED Found
           \/ Found' = [e \in Ids |-> {}]
           \/ \E e \in Ids, components \in SUBSET Components :
                 Found' = [Found EXCEPT ![e] = components]
<1> DEFINE ChangesOne ==
      \E e \in Ids, components \in SUBSET Components :
          Found' = [Found EXCEPT ![e] = components]
<1>1. ASSUME NEW id \in Ids, NEW mask, NEW objects \in SUBSET Factory,
             m_entities' = WithEntity(id, mask, objects)
      PROVE  ChangesOne
  <2>1. /\ Existing' = Existing \cup {id}
        /\ \A e \in Existing' : m_entities'[e].m_components =
               IF e = id THEN objects ELSE m_entities[e].m_components
    BY <1>1 DEF WithEntity, Existing
  <2>2. Found' = [Found EXCEPT ![id] = objects]
    BY <2>1 DEF Found
  <2>3. objects \in SUBSET Components
    BY ComponentsAssumption
  <2> QED
    BY <2>2, <2>3
<1>2. ASSUME NEW id \in Existing
      PROVE  id \in Ids /\ m_entities[id].m_components \in SUBSET Factory
  BY DEF EntitiesInv, EntitiesTypeOK
<1>3. ASSUME NEW mask \in Masks, NEW l_id \in Ids \cup {-1},
             AddEntity(mask, l_id)
      PROVE  ChangesOne
  <2>1. /\ ChosenId(l_id) \in Ids
        /\ mask \cap Factory \in SUBSET Factory
        /\ m_entities' = WithEntity(ChosenId(l_id), mask \cap Factory,
                                    mask \cap Factory)
    BY <1>3 DEF AddEntity
  <2> QED
    BY <1>1, <2>1
<1>4. ASSUME NEW l_id, AddEntityFails(l_id) PROVE UNCHANGED Found
  BY <1>4 DEF AddEntityFails, entityVars, Found, Existing
<1>5. ASSUME NEW id \in Existing, NEW c,
             AddComponent(id, c) \/ RemoveComponent(id, c)
      PROVE  ChangesOne
  <2>1. CASE AddComponent(id, c)
    <3>1. m_entities[id].m_components \cup {c} \in SUBSET Factory
      BY <1>2, <2>1 DEF AddComponent
    <3> QED
      BY <1>1, <1>2, <2>1, <3>1 DEF AddComponent
  <2>2. CASE RemoveComponent(id, c)
    <3>1. m_entities[id].m_components \ {c} \in SUBSET Factory
      BY <1>2
    <3> QED
      BY <1>1, <1>2, <2>2, <3>1 DEF RemoveComponent
  <2> QED
    BY <1>5, <2>1, <2>2
<1>6. ASSUME NEW id \in Existing, RemoveEntities({id}) PROVE ChangesOne
  <2>1. m_entities' = WithEntity(id, {}, {})
    BY <1>6 DEF RemoveEntities, WithEntity
  <2> QED
    BY <1>1, <1>2, <2>1
<1>7. ASSUME Purge PROVE Found' = [e \in Ids |-> {}]
  BY <1>7 DEF Purge, Found, Existing
<1> QED
  BY <1>3, <1>4, <1>5, <1>6, <1>7 DEF Operations

LEMMA ViewStep ==
    ASSUME EntitiesInv, EntitiesInv', Viewed, Viewed', [Next]_vars
    PROVE  [View!Next]_<<Found, members>>
<1>1. CASE UNCHANGED Found
  BY <1>1 DEF Viewed
<1>2. CASE Found' = [e \in Ids |-> {}]
  BY <1>2 DEF Viewed, View!Next, View!Clear, Found, View!Sees
<1>3. ASSUME NEW e \in Ids, NEW components \in SUBSET Components,
             Found' = [Found EXCEPT ![e] = components]
      PROVE  View!Next
  <2>1. View!Change(e)
    BY <1>3 DEF View!Change, Found
  <2> QED
    BY <2>1 DEF Viewed, View!Next, Found, View!Sees
<1>4. CASE \E raised : Update(raised)
  <2>1. UNCHANGED Found
    BY <1>4 DEF Update, Found, Existing
  <2> QED
    BY <1>1, <2>1
<1>5. CASE UNCHANGED vars
  <2>1. UNCHANGED Found
    BY <1>5 DEF vars, entityVars, Found, Existing
  <2> QED
    BY <1>1, <2>1
<1> QED
  BY <1>1, <1>2, <1>3, <1>4, <1>5, OperationsChangeOne DEF Next

(* The entity manager and its systems are an EntityView: every operation   *)
(* leaves each system with exactly the entities whose components meet a    *)
(* requirement of it (Entity_Manager.cpp:7-152, System_Manager.cpp:34).    *)
THEOREM ViewImplemented == Spec => ImplementsView
<1>1. Init => View!Init
  BY DEF Init, EntitiesInit, Existing, View!Init
<1>2. EntitiesInv => Viewed
  BY SystemsSeeWhatIsFound
<1>3. FrameInv => EntitiesInv
  BY DEF FrameInv
<1>4. EntitiesInv /\ EntitiesInv' /\ Viewed /\ Viewed' /\ [Next]_vars
          => [View!Next]_<<Found, members>>
  BY ViewStep
<1> QED
  BY <1>1, <1>2, <1>3, <1>4, FrameInvariant, PTL
     DEF Spec, ImplementsView, View!Spec, Found
=============================================================================
