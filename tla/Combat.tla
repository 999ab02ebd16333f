------------------------------- MODULE Combat -------------------------------
(***************************************************************************)
(* The life of the entities that fight: S_State, S_Combat, S_Timers, the   *)
(* messages of S_Network::update() and S_Collision::entityCollisions().    *)
(*                                                                         *)
(* SystemManager::update() runs each system once, in the order of a hash   *)
(* table, and then hands out the queued events.  A step is the update() of *)
(* one system, or one Being_Attacked message; the systems that only move   *)
(* things (S_Movement, S_Control, S_Combat::update()) have no step.  Where *)
(* entities stand, whom an area of attack covers and what the clients have *)
(* sent is chosen anew in every frame.  A frame is one critical section of *)
(* the server's mutex, but the "health" command does not take it.          *)
(***************************************************************************)
EXTENDS Integers

CONSTANTS
    Players,        \* entities with Client, Health and Attacker
    Victims,        \* the other entities with Health
    Attackers,      \* the other entities with Attacker
    MaxHealth, HurtDuration, DeathDuration,     \* C_Health
    AttackDuration,                             \* C_Attacker
    Typed,          \* what the operator enters as health
    MaxStep         \* bound: milliseconds of a frame

HasHealth == Players \cup Victims
HasAttacker == Players \cup Attackers
Entities == HasHealth \cup Attackers

(* Monsters may have both components.  A player without Attacker would be  *)
(* the end of the process: S_Timers.cpp:42 does not test what it gets.     *)
ASSUME ConstantsAssumption ==
    /\ Players \cap (Victims \cup Attackers) = {}
    /\ MaxHealth \in Nat \ {0}
    /\ HurtDuration \in Nat \ {0}
    /\ DeathDuration \in Nat \ {0}
    /\ AttackDuration \in Nat
    /\ Typed \subseteq Int
    /\ MaxStep \in Nat \ {0}

VARIABLES
    m_state,        \* C_State of each entity
    m_health,       \* C_Health, of those that have it
    hurtTimer,      \* the timer of C_Health
    attackTimer,    \* the timer of C_Attacker
    m_attacked,     \* the attackers that count as having hit
    becameIdle,     \* the entities with a Became_Idle in their queue
    pending,        \* what this frame has still to run
    overlaps,       \* the Being_Attacked messages S_Collision has still to send
    l_dT,           \* the milliseconds of this frame
    sinceDeath,     \* history: milliseconds that the entity has been dying
    sinceHits,      \* history: milliseconds since an attacker's last two hits
    typedSince      \* history: health entered since the entity was last well

components == <<m_state, m_health, hurtTimer, attackTimer, m_attacked>>
history == <<sinceDeath, sinceHits, typedSince>>
vars == <<components, becameIdle, pending, overlaps, l_dT, history>>

EntityState == {"Idle", "Walking", "Hurt", "Attacking", "Dying"}

Systems == {"Network", "State", "Collision", "Timers"}

Least(x, y) == IF x < y THEN x ELSE y

(* Bounds: histories count no further than the properties look.            *)
DeathHorizon == DeathDuration + MaxStep
HitHorizon == AttackDuration

-----------------------------------------------------------------------------
(* Who has been hit before is not known: C_Attacker does not initialize    *)
(* m_attacked.                                                             *)
Init ==
    /\ m_state = [e \in Entities |-> "Idle"]
    /\ m_health = [e \in HasHealth |-> MaxHealth]
    /\ hurtTimer = [e \in HasHealth |-> 0]
    /\ attackTimer = [e \in HasAttacker |-> 0]
    /\ m_attacked \in SUBSET HasAttacker
    /\ becameIdle = {} /\ pending = {} /\ overlaps = {}
    /\ l_dT = 0
    /\ sinceDeath = [e \in HasHealth |-> 0]
    /\ sinceHits = [e \in HasAttacker |-> <<HitHorizon, HitHorizon>>]
    /\ typedSince = {}

(* World::update().                                                        *)
BeginFrame(dT) ==
    /\ pending = {}
    /\ pending' = Systems \cup {"Events"}
    /\ l_dT' = dT
    /\ sinceDeath' = [e \in HasHealth |->
                         IF m_state[e] = "Dying"
                         THEN Least(sinceDeath[e] + dT, DeathHorizon) ELSE 0]
    /\ sinceHits' = [e \in HasAttacker |->
                        [i \in 1..2 |-> Least(sinceHits[e][i] + dT, HitHorizon)]]
    /\ UNCHANGED <<components, becameIdle, overlaps, typedSince>>

(* One system has run; a collision in progress is finished first.          *)
Run(system) ==
    /\ system \in pending /\ overlaps = {}
    /\ pending' = pending \ {system}
    /\ UNCHANGED l_dT

-----------------------------------------------------------------------------
(* S_State::changeState().                                                 *)
ChangeState(state, l_state, l_force) ==
    IF state = "Dying" /\ ~l_force THEN state ELSE l_state

(* S_State::notify() on Move, Attack and Hurt.                             *)
Moved(state) ==
    IF state = "Attacking" THEN state ELSE ChangeState(state, "Walking", FALSE)

Attacked(state) == ChangeState(state, "Attacking", FALSE)

Hurt(state) == ChangeState(state, "Hurt", FALSE)

(* S_Network::update(): Move comes before Attack.                          *)
NetworkUpdate(moving, attacking) ==
    /\ Run("Network")
    /\ m_state' = [e \in Entities |->
           LET moved == IF e \in moving THEN Moved(m_state[e]) ELSE m_state[e]
           IN  IF e \in attacking THEN Attacked(moved) ELSE moved]
    /\ UNCHANGED <<m_health, hurtTimer, attackTimer, m_attacked, becameIdle,
                   overlaps, history>>

(* S_State::update() and S_Movement::notify(): of those that walk, the     *)
(* ones without velocity are told to become idle, after this frame.        *)
StateUpdate(still) ==
    /\ Run("State")
    /\ becameIdle' = becameIdle \cup {e \in still : m_state[e] = "Walking"}
    /\ UNCHANGED <<components, overlaps, history>>

(* S_Collision::entityCollisions(): some areas of attack cover others, in  *)
(* whatever state their owners are.                                        *)
CollisionUpdate(covered) ==
    /\ Run("Collision")
    /\ overlaps' = covered
    /\ UNCHANGED <<components, becameIdle, history>>

-----------------------------------------------------------------------------
(* S_Combat::notify() of one message; the order is that of m_entities.     *)
Reduced(health) == IF health > 1 THEN health - 1 ELSE 0

(* Mutant: the flag is set and never asked.                                *)
HitsAgain(sender, receiver) == receiver \in HasHealth

(* The attack that the message stands for does harm.                       *)
Hits(sender, receiver) == receiver \in HasHealth /\ sender \notin m_attacked

Hit(sender, receiver) ==
    LET health == Reduced(m_health[receiver])
    IN  /\ m_health' = [m_health EXCEPT ![receiver] = health]
        /\ m_attacked' = m_attacked \cup {sender}
        /\ m_state' = [m_state EXCEPT ![receiver] =
                          IF health = 0 THEN ChangeState(@, "Dying", TRUE)
                                        ELSE Hurt(@)]
        /\ UNCHANGED sinceDeath
        /\ sinceHits' = [sinceHits EXCEPT ![sender] = <<0, @[1]>>]

BeingAttacked(sender, receiver) ==
    /\ <<sender, receiver>> \in overlaps
    /\ overlaps' = overlaps \ {<<sender, receiver>>}
    /\ IF Hits(sender, receiver)
       THEN Hit(sender, receiver) /\ UNCHANGED typedSince
       ELSE UNCHANGED <<m_health, m_attacked, m_state, history>>
    /\ UNCHANGED <<hurtTimer, attackTimer, becameIdle, pending, l_dT>>

-----------------------------------------------------------------------------
(* S_Timers::update().  Only entities with Health are timed: the second    *)
(* mask of its constructor, State and Attacker, is built and not pushed.   *)
Timed(state) == {e \in HasHealth : m_state[e] = state}

(* Mutant: the duration itself is not yet too long.                        *)
ExpiredLate(state, timer, duration) ==
    {e \in Timed(state) : timer[e] + l_dT > duration}

Expired(state, timer, duration) ==
    {e \in Timed(state) : timer[e] + l_dT >= duration}

(* Mutant: what died stays dead.                                           *)
ResetNoHealth(respawned) == m_health

ResetHealth(respawned) ==
    [e \in HasHealth |-> IF e \in respawned THEN MaxHealth ELSE m_health[e]]

(* Mutant: a timer that has expired runs on.                               *)
AdvancedOnly(timer, running, expired) ==
    [e \in DOMAIN timer |-> IF e \in running THEN timer[e] + l_dT ELSE timer[e]]

(* The timer runs in the given states and is reset where it has expired.   *)
Advanced(timer, running, expired) ==
    [e \in DOMAIN timer |-> IF e \in expired THEN 0
                            ELSE IF e \in running THEN timer[e] + l_dT
                            ELSE timer[e]]

TimersUpdate ==
    LET recovered == Expired("Hurt", hurtTimer, HurtDuration)
        respawned == Expired("Dying", hurtTimer, DeathDuration)
        finished == Expired("Attacking", attackTimer, AttackDuration)
    IN  /\ Run("Timers")
        /\ hurtTimer' = Advanced(hurtTimer, Timed("Hurt") \cup Timed("Dying"),
                                 recovered \cup respawned)
        /\ attackTimer' = Advanced(attackTimer, Timed("Attacking"), finished)
        /\ m_attacked' = m_attacked \ finished
        /\ m_health' = ResetHealth(respawned)
        /\ m_state' = [e \in Entities |->
               IF e \in recovered \cup respawned \cup finished
               THEN ChangeState(m_state[e], "Idle", TRUE) ELSE m_state[e]]
        /\ typedSince' = typedSince \ respawned
        /\ sinceDeath' = [e \in HasHealth |-> IF e \in respawned THEN 0
                                              ELSE sinceDeath[e]]
        /\ UNCHANGED <<becameIdle, overlaps, sinceHits>>

(* Mutant: the event is as strong as a timer.                              *)
BecomesIdleForced(state) == ChangeState(state, "Idle", TRUE)

(* S_State::handleEvent().                                                 *)
BecomesIdle(state) == ChangeState(state, "Idle", FALSE)

HandleEvents ==
    /\ Run("Events") /\ pending = {"Events"}
    /\ m_state' = [e \in Entities |-> IF e \in becameIdle
                                      THEN BecomesIdle(m_state[e])
                                      ELSE m_state[e]]
    /\ becameIdle' = {}
    /\ UNCHANGED <<m_health, hurtTimer, attackTimer, m_attacked, overlaps,
                   history>>

(* World::commandLine(), "health <entity> <value>", at any moment.         *)
SetHealth(e, value) ==
    /\ m_health' = [m_health EXCEPT ![e] = value]
    /\ typedSince' = typedSince \cup {e}
    /\ UNCHANGED <<m_state, hurtTimer, attackTimer, m_attacked, becameIdle,
                   pending, overlaps, l_dT, sinceDeath, sinceHits>>

-----------------------------------------------------------------------------
Next ==
    \/ \E dT \in 0..MaxStep : BeginFrame(dT)
    \/ \E moving, attacking \in SUBSET Players : NetworkUpdate(moving, attacking)
    \/ \E still \in SUBSET Entities : StateUpdate(still)
    \/ \E covered \in SUBSET {o \in HasAttacker \X Entities : o[1] # o[2]} :
           CollisionUpdate(covered)
    \/ \E a \in HasAttacker, v \in Entities : BeingAttacked(a, v)
    \/ TimersUpdate
    \/ HandleEvents
    \/ \E e \in HasHealth, value \in Typed : SetHealth(e, value)

Spec == Init /\ [][Next]_vars

-----------------------------------------------------------------------------
(* Properties.                                                             *)

TypeOK ==
    /\ m_state \in [Entities -> EntityState]
    /\ m_health \in [HasHealth -> Int]
    /\ hurtTimer \in [HasHealth -> 0..(HurtDuration + DeathDuration)]
    /\ attackTimer \in [HasAttacker -> 0..AttackDuration]
    /\ m_attacked \subseteq HasAttacker
    /\ becameIdle \subseteq Entities
    /\ pending \subseteq Systems \cup {"Events"}
    /\ overlaps \subseteq HasAttacker \X Entities
    /\ l_dT \in 0..MaxStep
    /\ sinceDeath \in [HasHealth -> Nat]
    /\ sinceHits \in [HasAttacker -> [1..2 -> Nat]]
    /\ typedSince \subseteq HasHealth

(* Whatever the order of messages, timers and events in a frame, an entity *)
(* is dying exactly when its health is used up, and never has less than    *)
(* none, unless the operator has entered a value (S_Combat.cpp:59-64,      *)
(* S_Timers.cpp:29-34, S_State.cpp:36).                                    *)
DyingIsHavingNoHealth ==
    \A e \in HasHealth \ typedSince :
        /\ m_state[e] = "Dying" <=> m_health[e] = 0
        /\ m_health[e] \in 0..MaxHealth

(* The timer that Hurt leaves behind when a move or an attack ends it early*)
(* shortens the next death (S_Timers.cpp:19-27), by less than HurtDuration *)
(* and one frame; nothing else ends one (S_State.cpp:33, 96).              *)
DeathLasts ==
    [][\A e \in HasHealth : m_state[e] = "Dying" /\ m_state'[e] # "Dying" =>
          sinceDeath[e] > DeathDuration - HurtDuration - MaxStep]_vars

(* Further hits, moves and the operator's health do not keep anyone dead:  *)
(* a death has less than one frame more than DeathDuration, whatever the   *)
(* timer held when it began (S_Timers.cpp:24-40, S_Combat.cpp:62-65).      *)
DeathsEnd ==
    \A e \in HasHealth : sinceDeath[e] < DeathDuration + MaxStep

(* An attacker need not attack to hit (S_Collision.cpp:52-68), an attack   *)
(* that is interrupted keeps its time, and m_attacked outlives it          *)
(* (S_Combat.cpp:57-60, S_Timers.cpp:37-43): two hits may follow at once,  *)
(* but a third, in the same frame or a later one, comes no sooner after    *)
(* the first than an attack takes.                                         *)
HitsTakeTime ==
    [][\A a \in HasAttacker, v \in Entities :
          BeingAttacked(a, v) /\ Hits(a, v)
          => sinceHits[a][2] >= AttackDuration]_vars
=============================================================================
