---------------------------- MODULE CombatProofs ----------------------------
(***************************************************************************)
(* Proofs about Combat, for all sets of entities and all durations.  In    *)
(* order:                                                                  *)
(*   1. types, with the fact that only players come to attack, on which    *)
(*      S_Timers relies when it uses their C_Attacker untested;            *)
(*   2. dying and having no health are the same;                           *)
(*   3. how the shared timer of Hurt and Dying relates to the true time of *)
(*      a death;                                                           *)
(*   4. how the timer of an attack relates to the last two hits.           *)
(* In 3 and 4 a frame has counted its time in the histories when it begins *)
(* and in the timers when S_Timers has run: Ahead is what is in between.   *)
(***************************************************************************)
EXTENDS Combat, TLAPS

(* Only S_Network::update() makes anyone attack (S_Network.cpp:25-27).     *)
PlayersAttack == \A e \in Entities : m_state[e] = "Attacking" => e \in Players

TypeInv == TypeOK /\ PlayersAttack

-----------------------------------------------------------------------------
LEMMA SetsOfEntities ==
    /\ Players \subseteq HasHealth /\ Players \subseteq HasAttacker
    /\ HasHealth \subseteq Entities /\ HasAttacker \subseteq Entities
BY DEF HasHealth, HasAttacker, Entities

(* changeState() with and without force.                                   *)
LEMMA StateChanges ==
    ASSUME NEW state \in EntityState
    PROVE  /\ Moved(state) \in EntityState
           /\ Attacked(state) \in EntityState
           /\ Hurt(state) \in EntityState
           /\ BecomesIdle(state) \in EntityState
           /\ state = "Dying" => /\ Moved(state) = "Dying"
                                 /\ Attacked(state) = "Dying"
                                 /\ Hurt(state) = "Dying"
                                 /\ BecomesIdle(state) = "Dying"
           /\ state # "Dying" => /\ Moved(state) # "Dying"
                                 /\ Attacked(state) # "Dying"
                                 /\ Hurt(state) = "Hurt"
                                 /\ BecomesIdle(state) = "Idle"
           /\ Moved(state) = "Attacking" => state = "Attacking"
BY DEF Moved, Attacked, Hurt, BecomesIdle, ChangeState, EntityState

(* What a timer is after S_Timers: reset where it expired, else below the  *)
(* duration it runs against.                                               *)
LEMMA HurtTimerAdvanced ==
    ASSUME TypeOK, TimersUpdate, NEW e \in HasHealth
    PROVE  \/ /\ m_state[e] = "Dying"
              /\ hurtTimer[e] + l_dT >= DeathDuration
              /\ hurtTimer'[e] = 0 /\ m_state'[e] = "Idle"
              /\ m_health'[e] = MaxHealth /\ e \notin typedSince'
              /\ sinceDeath'[e] = 0
           \/ /\ m_state[e] = "Dying"
              /\ hurtTimer[e] + l_dT < DeathDuration
              /\ hurtTimer'[e] = hurtTimer[e] + l_dT /\ m_state'[e] = "Dying"
              /\ m_health'[e] = m_health[e]
              /\ e \in typedSince <=> e \in typedSince'
              /\ sinceDeath'[e] = sinceDeath[e]
           \/ /\ m_state[e] # "Dying" /\ m_state'[e] # "Dying"
              /\ \/ hurtTimer'[e] = 0
                 \/ hurtTimer'[e] = hurtTimer[e]
                 \/ /\ hurtTimer'[e] = hurtTimer[e] + l_dT
                    /\ hurtTimer'[e] < HurtDuration
              /\ m_health'[e] = m_health[e]
              /\ e \in typedSince <=> e \in typedSince'
              /\ sinceDeath'[e] = sinceDeath[e]
<1> USE ConstantsAssumption, SetsOfEntities
<1>1. /\ hurtTimer[e] \in Nat /\ l_dT \in Nat
      /\ DOMAIN hurtTimer = HasHealth
      /\ HurtDuration \in Nat /\ DeathDuration \in Nat
  BY DEF TypeOK
<1>2. CASE m_state[e] = "Dying"
  <2>1. /\ e \in Timed("Dying") /\ e \notin Timed("Hurt")
        /\ e \notin Timed("Attacking")
    BY <1>2 DEF Timed
  <2>2. CASE hurtTimer[e] + l_dT >= DeathDuration
    <3>1. e \in Expired("Dying", hurtTimer, DeathDuration)
      BY <2>1, <2>2 DEF Expired
    <3> QED
      BY <1>1, <1>2, <2>2, <3>1
         DEF TimersUpdate, Advanced, ResetHealth, ChangeState
  <2>3. CASE hurtTimer[e] + l_dT < DeathDuration
    <3>1. /\ e \notin Expired("Dying", hurtTimer, DeathDuration)
          /\ e \notin Expired("Hurt", hurtTimer, HurtDuration)
          /\ e \notin Expired("Attacking", attackTimer, AttackDuration)
      BY <1>1, <2>1, <2>3 DEF Expired
    <3> QED
      BY <1>1, <1>2, <2>1, <2>3, <3>1 DEF TimersUpdate, Advanced, ResetHealth
  <2> QED
    BY <1>1, <2>2, <2>3
<1>3. CASE m_state[e] # "Dying"
  <2>1. /\ e \notin Timed("Dying")
        /\ e \notin Expired("Dying", hurtTimer, DeathDuration)
    BY <1>3 DEF Timed, Expired
  <2>2. m_state'[e] # "Dying"
    BY <1>3 DEF TimersUpdate, ChangeState
  <2>3. /\ m_health'[e] = m_health[e]
        /\ e \in typedSince <=> e \in typedSince'
        /\ sinceDeath'[e] = sinceDeath[e]
    BY <2>1 DEF TimersUpdate, ResetHealth
  <2>4. CASE e \in Expired("Hurt", hurtTimer, HurtDuration)
    BY <1>1, <1>3, <2>2, <2>3, <2>4 DEF TimersUpdate, Advanced
  <2>5. CASE e \notin Expired("Hurt", hurtTimer, HurtDuration)
    <3>1. e \in Timed("Hurt") => hurtTimer[e] + l_dT < HurtDuration
      BY <1>1, <2>5 DEF Expired
    <3> QED
      BY <1>1, <1>3, <2>1, <2>2, <2>3, <2>5, <3>1 DEF TimersUpdate, Advanced
  <2> QED
    BY <2>4, <2>5
<1> QED
  BY <1>2, <1>3

LEMMA AttackTimerAdvanced ==
    ASSUME TypeInv, TimersUpdate, NEW a \in HasAttacker
    PROVE  \/ /\ a \in HasHealth /\ m_state[a] = "Attacking"
              /\ attackTimer[a] + l_dT >= AttackDuration
              /\ attackTimer'[a] = 0
              /\ a \notin m_attacked'
           \/ /\ \/ attackTimer'[a] = attackTimer[a]
                 \/ /\ attackTimer'[a] = attackTimer[a] + l_dT
                    /\ attackTimer'[a] < AttackDuration
              /\ a \in m_attacked <=> a \in m_attacked'
<1> USE ConstantsAssumption, SetsOfEntities
<1>1. /\ attackTimer[a] \in Nat /\ l_dT \in Nat /\ AttackDuration \in Nat
      /\ DOMAIN attackTimer = HasAttacker
  BY DEF TypeInv, TypeOK
<1>2. CASE a \in Expired("Attacking", attackTimer, AttackDuration)
  BY <1>1, <1>2 DEF Expired, Timed, TimersUpdate, Advanced
<1>3. CASE a \notin Expired("Attacking", attackTimer, AttackDuration)
  <2>1. a \in Timed("Attacking") => attackTimer[a] + l_dT < AttackDuration
    BY <1>1, <1>3 DEF Expired
  <2> QED
    BY <1>1, <1>3, <2>1 DEF TimersUpdate, Advanced
<1> QED
  BY <1>2, <1>3
-----------------------------------------------------------------------------
LEMMA InitTypeInv == Init => TypeInv
BY ConstantsAssumption
   DEF Init, TypeInv, TypeOK, PlayersAttack, EntityState, HitHorizon, Systems

LEMMA BeginFrameType ==
    ASSUME TypeInv, NEW dT \in 0..MaxStep, BeginFrame(dT)
    PROVE  TypeInv'
<1>1. DeathHorizon \in Nat /\ HitHorizon \in Nat /\ dT \in Nat
  BY ConstantsAssumption DEF DeathHorizon, HitHorizon
<1>2. sinceDeath' \in [HasHealth -> Nat]
  <2>1. \A e \in HasHealth : Least(sinceDeath[e] + dT, DeathHorizon) \in Nat
    BY <1>1 DEF Least, TypeInv, TypeOK
  <2> QED
    BY <2>1 DEF BeginFrame
<1>3. sinceHits' \in [HasAttacker -> [1..2 -> Nat]]
  <2>1. \A a \in HasAttacker, i \in 1..2 : sinceHits[a][i] \in Nat
    BY DEF TypeInv, TypeOK
  <2>2. \A a \in HasAttacker, i \in 1..2 :
            Least(sinceHits[a][i] + dT, HitHorizon) \in Nat
    BY <1>1, <2>1 DEF Least
  <2>3. sinceHits' = [a \in HasAttacker |->
                        [i \in 1..2 |-> Least(sinceHits[a][i] + dT, HitHorizon)]]
    BY DEF BeginFrame
  <2> QED
    BY <2>2, <2>3
<1>4. /\ l_dT' \in 0..MaxStep
      /\ pending' \subseteq Systems \cup {"Events"}
      /\ UNCHANGED <<components, becameIdle, overlaps, typedSince>>
  BY DEF BeginFrame
<1> QED
  BY <1>2, <1>3, <1>4 DEF components, TypeInv, TypeOK, PlayersAttack

LEMMA NetworkUpdateType ==
    ASSUME TypeInv, NEW moving \in SUBSET Players,
           NEW attacking \in SUBSET Players, NetworkUpdate(moving, attacking)
    PROVE  TypeInv'
<1>1. ASSUME NEW e \in Entities
      PROVE  /\ m_state'[e] \in EntityState
             /\ m_state'[e] = "Attacking" => e \in Players
  <2>1. m_state[e] \in EntityState /\ (m_state[e] = "Attacking" => e \in Players)
    BY DEF TypeInv, TypeOK, PlayersAttack
  <2> DEFINE moved == IF e \in moving THEN Moved(m_state[e]) ELSE m_state[e]
  <2>2. moved \in EntityState /\ (moved = "Attacking" => e \in Players)
    BY <2>1, StateChanges
  <2>3. m_state'[e] = IF e \in attacking THEN Attacked(moved) ELSE moved
    BY DEF NetworkUpdate
  <2> QED
    BY <2>2, <2>3, StateChanges
<1>2. m_state' \in [Entities -> EntityState]
  BY <1>1 DEF NetworkUpdate
<1> QED
  BY <1>1, <1>2 DEF NetworkUpdate, Run, history, TypeInv, TypeOK, PlayersAttack

LEMMA BeingAttackedType ==
    ASSUME TypeInv, NEW a \in HasAttacker, NEW v \in Entities,
           BeingAttacked(a, v)
    PROVE  TypeInv'
<1>1. CASE Hits(a, v)
  <2>1. v \in HasHealth /\ m_health[v] \in Int /\ m_state[v] \in EntityState
    BY <1>1 DEF Hits, TypeInv, TypeOK
  <2>2. Hit(a, v) /\ UNCHANGED typedSince
    BY <1>1 DEF BeingAttacked
  <2>3. /\ Reduced(m_health[v]) \in Int
        /\ Hurt(m_state[v]) \in EntityState
        /\ ChangeState(m_state[v], "Dying", TRUE) = "Dying"
        /\ Hurt(m_state[v]) # "Attacking"
    BY <2>1 DEF Reduced, Hurt, ChangeState, EntityState
  <2>4. m_health' \in [HasHealth -> Int]
    BY <2>1, <2>2, <2>3 DEF Hit, TypeInv, TypeOK
  <2>5. m_state' \in [Entities -> EntityState] /\ PlayersAttack'
    BY <2>2, <2>3 DEF Hit, TypeInv, TypeOK, PlayersAttack, EntityState
  <2>6. sinceHits' \in [HasAttacker -> [1..2 -> Nat]]
    BY <2>2 DEF Hit, TypeInv, TypeOK
  <2> QED
    BY <2>2, <2>4, <2>5, <2>6 DEF BeingAttacked, Hit, TypeInv, TypeOK
<1>2. CASE ~Hits(a, v)
  BY <1>2 DEF BeingAttacked, history, TypeInv, TypeOK, PlayersAttack
<1> QED
  BY <1>1, <1>2

LEMMA TimersUpdateType ==
    ASSUME TypeInv, TimersUpdate
    PROVE  TypeInv'
<1> USE ConstantsAssumption, SetsOfEntities
<1> TypeOK
  BY DEF TypeInv
<1>1. hurtTimer' \in [HasHealth -> 0..(HurtDuration + DeathDuration)]
  <2>1. \A e \in HasHealth : hurtTimer[e] \in 0..(HurtDuration + DeathDuration)
    BY DEF TypeOK
  <2>2. \A e \in HasHealth : hurtTimer'[e] \in 0..(HurtDuration + DeathDuration)
    BY <2>1, HurtTimerAdvanced DEF TypeOK
  <2> QED
    BY <2>2 DEF TimersUpdate, Advanced, TypeOK
<1>2. attackTimer' \in [HasAttacker -> 0..AttackDuration]
  <2>1. \A a \in HasAttacker : attackTimer[a] \in 0..AttackDuration
    BY DEF TypeOK
  <2>2. \A a \in HasAttacker : attackTimer'[a] \in 0..AttackDuration
    BY <2>1, AttackTimerAdvanced DEF TypeOK
  <2> QED
    BY <2>2 DEF TimersUpdate, Advanced, TypeOK
<1>3. m_state' \in [Entities -> EntityState] /\ PlayersAttack'
  BY DEF TimersUpdate, ChangeState, TypeInv, TypeOK, PlayersAttack, EntityState
<1>4. /\ m_health' \in [HasHealth -> Int]
      /\ sinceDeath' \in [HasHealth -> Nat]
  BY DEF TimersUpdate, ResetHealth, TypeOK
<1> QED
  BY <1>1, <1>2, <1>3, <1>4 DEF TimersUpdate, Run, TypeInv, TypeOK

LEMMA EventsType ==
    ASSUME TypeInv, HandleEvents
    PROVE  TypeInv'
<1>1. m_state' \in [Entities -> EntityState] /\ PlayersAttack'
  BY DEF HandleEvents, BecomesIdle, ChangeState, TypeInv, TypeOK, PlayersAttack,
         EntityState
<1> QED
  BY <1>1 DEF HandleEvents, Run, history, TypeInv, TypeOK

LEMMA TypeStep == TypeInv /\ [Next]_vars => TypeInv'
<1> SUFFICES ASSUME TypeInv, [Next]_vars PROVE TypeInv'
  OBVIOUS
<1>1. ASSUME NEW still \in SUBSET Entities, StateUpdate(still) PROVE TypeInv'
  BY <1>1 DEF StateUpdate, Run, components, history, TypeInv, TypeOK,
              PlayersAttack
<1>2. ASSUME NEW covered \in SUBSET {o \in HasAttacker \X Entities : o[1] # o[2]},
             CollisionUpdate(covered)
      PROVE  TypeInv'
  BY <1>2 DEF CollisionUpdate, Run, components, history, TypeInv, TypeOK,
              PlayersAttack
<1>3. ASSUME NEW e \in HasHealth, NEW value \in Typed, SetHealth(e, value)
      PROVE  TypeInv'
  BY <1>3, ConstantsAssumption DEF SetHealth, TypeInv, TypeOK, PlayersAttack
<1>4. CASE UNCHANGED vars
  BY <1>4 DEF vars, components, history, TypeInv, TypeOK, PlayersAttack
<1> QED
  BY <1>1, <1>2, <1>3, <1>4, BeginFrameType, NetworkUpdateType,
     BeingAttackedType, TimersUpdateType, EventsType DEF Next

(* Types, and that only players are ever in the state Attacking, for which *)
(* S_Timers takes their C_Attacker without a test (S_Timers.cpp:36-43).    *)
THEOREM CombatTypeInvariant == Spec => []TypeInv
BY InitTypeInv, TypeStep, PTL DEF Spec

(* TypeOK, which the run checks.                                           *)
THEOREM CombatTypeCorrect == Spec => []TypeOK
BY CombatTypeInvariant, PTL DEF TypeInv

-----------------------------------------------------------------------------
(* What a step can do to an entity's state and health.                     *)
LEMMA DyingStep ==
    ASSUME TypeInv, DyingIsHavingNoHealth, [Next]_vars
    PROVE  DyingIsHavingNoHealth'
<1> USE ConstantsAssumption, SetsOfEntities
<1> SUFFICES ASSUME NEW e \in HasHealth, e \notin typedSince'
             PROVE  /\ m_state'[e] = "Dying" <=> m_health'[e] = 0
                    /\ m_health'[e] \in 0..MaxHealth
  BY DEF DyingIsHavingNoHealth
<1>1. /\ m_state[e] \in EntityState /\ m_health[e] \in Int
      /\ e \notin typedSince => /\ m_state[e] = "Dying" <=> m_health[e] = 0
                                /\ m_health[e] \in 0..MaxHealth
  BY DEF TypeInv, TypeOK, DyingIsHavingNoHealth
<1>2. CASE UNCHANGED <<m_health, typedSince>>
           /\ (m_state'[e] = "Dying" <=> m_state[e] = "Dying")
  BY <1>1, <1>2
<1>3. ASSUME NEW moving, NEW attacking, NetworkUpdate(moving, attacking)
      PROVE  UNCHANGED <<m_health, typedSince>>
             /\ (m_state'[e] = "Dying" <=> m_state[e] = "Dying")
  <2> DEFINE moved == IF e \in moving THEN Moved(m_state[e]) ELSE m_state[e]
  <2>1. moved \in EntityState /\ (moved = "Dying" <=> m_state[e] = "Dying")
    BY <1>1, StateChanges
  <2>2. m_state'[e] = IF e \in attacking THEN Attacked(moved) ELSE moved
    BY <1>3 DEF NetworkUpdate
  <2>3. m_state'[e] = "Dying" <=> moved = "Dying"
    BY <2>1, <2>2, StateChanges
  <2> QED
    BY <1>3, <2>1, <2>3 DEF NetworkUpdate, history
<1>4. ASSUME HandleEvents
      PROVE  UNCHANGED <<m_health, typedSince>>
             /\ (m_state'[e] = "Dying" <=> m_state[e] = "Dying")
  BY <1>1, <1>4, StateChanges DEF HandleEvents, history
<1>5. CASE \/ \E dT : BeginFrame(dT)
           \/ \E still : StateUpdate(still)
           \/ \E covered : CollisionUpdate(covered)
           \/ UNCHANGED vars
  BY <1>2, <1>5 DEF BeginFrame, StateUpdate, CollisionUpdate, vars, components,
                    history
<1>6. ASSUME NEW a \in HasAttacker, NEW v \in Entities, BeingAttacked(a, v)
      PROVE  /\ m_state'[e] = "Dying" <=> m_health'[e] = 0
             /\ m_health'[e] \in 0..MaxHealth
  <2>1. e \notin typedSince
    BY <1>6 DEF BeingAttacked, history
  <2>2. CASE Hits(a, v) /\ e = v
    <3>1. /\ m_health'[e] = Reduced(m_health[e])
          /\ m_state'[e] = IF Reduced(m_health[e]) = 0 THEN "Dying"
                                                       ELSE Hurt(m_state[e])
      BY <1>6, <2>2 DEF BeingAttacked, Hit, TypeInv, TypeOK, ChangeState
    <3>2. /\ Reduced(m_health[e]) \in 0..MaxHealth
          /\ Reduced(m_health[e]) # 0 => m_health[e] # 0
      BY <1>1, <2>1 DEF Reduced
    <3> QED
      BY <1>1, <2>1, <3>1, <3>2, StateChanges
  <2>3. CASE Hits(a, v) /\ e # v
    <3>1. m_health'[e] = m_health[e] /\ m_state'[e] = m_state[e]
      BY <1>6, <2>3 DEF BeingAttacked, Hit, TypeInv, TypeOK
    <3> QED
      BY <1>1, <2>1, <3>1
  <2>4. CASE ~Hits(a, v)
    BY <1>1, <1>6, <2>1, <2>4 DEF BeingAttacked
  <2> QED
    BY <2>2, <2>3, <2>4
<1>7. ASSUME TimersUpdate
      PROVE  /\ m_state'[e] = "Dying" <=> m_health'[e] = 0
             /\ m_health'[e] \in 0..MaxHealth
  BY <1>1, <1>7, HurtTimerAdvanced DEF TypeInv
<1>8. ASSUME NEW f, NEW value, SetHealth(f, value)
      PROVE  /\ m_state'[e] = "Dying" <=> m_health'[e] = 0
             /\ m_health'[e] \in 0..MaxHealth
  BY <1>1, <1>8 DEF SetHealth, TypeInv, TypeOK
<1> QED
  BY <1>2, <1>3, <1>4, <1>5, <1>6, <1>7, <1>8 DEF Next

(* An entity is dying exactly when it has no health left, whatever order   *)
(* the systems, messages and events of a frame take, as long as nobody     *)
(* types (S_Combat.cpp:59-64, S_Timers.cpp:29-34, S_State.cpp:36).         *)
THEOREM DyingExactlyWithoutHealth == Spec => []DyingIsHavingNoHealth
<1>1. Init => DyingIsHavingNoHealth
  BY ConstantsAssumption, SetsOfEntities DEF Init, DyingIsHavingNoHealth
<1>2. TypeInv /\ DyingIsHavingNoHealth /\ [Next]_vars => DyingIsHavingNoHealth'
  BY DyingStep
<1> QED
  BY <1>1, <1>2, CombatTypeInvariant, PTL DEF Spec
-----------------------------------------------------------------------------
(* The milliseconds of this frame that S_Timers has still to count.        *)
Ahead == IF "Timers" \in pending THEN l_dT ELSE 0

(* What Hurt leaves in the timer of someone who is not dying; how far the  *)
(* timer of a death is from the truth, above and below.                    *)
DeathTimed ==
    \A e \in HasHealth :
        IF m_state[e] = "Dying"
        THEN /\ hurtTimer[e] + Ahead < sinceDeath[e] + HurtDuration + MaxStep
                  \/ sinceDeath[e] = DeathHorizon
             /\ sinceDeath[e] <= hurtTimer[e] + Ahead
             /\ hurtTimer[e] < DeathDuration \/ sinceDeath[e] <= Ahead
        ELSE hurtTimer[e] < HurtDuration /\ sinceDeath[e] = 0

(* Every step but the beginning of a frame and S_Timers: the timers and    *)
(* the clock stand still, nobody comes back to life, and hits are those of *)
(* attackers that do not count as having hit.                              *)
Quiet ==
    /\ Ahead' = Ahead
    /\ UNCHANGED <<hurtTimer, attackTimer, sinceDeath>>
    /\ \A e \in HasHealth : m_state[e] = "Dying" => m_state'[e] = "Dying"
    /\ \A a \in HasAttacker :
          \/ /\ sinceHits'[a] = sinceHits[a]
             /\ a \in m_attacked' <=> a \in m_attacked
          \/ /\ a \notin m_attacked /\ a \in m_attacked'
             /\ sinceHits'[a] = <<0, sinceHits[a][1]>>

LEMMA QuietStep ==
    ASSUME TypeInv, [Next]_vars
    PROVE  (\E dT \in 0..MaxStep : BeginFrame(dT)) \/ TimersUpdate \/ Quiet
<1> USE SetsOfEntities
<1>1. \A e \in Entities : m_state[e] \in EntityState
  BY DEF TypeInv, TypeOK
<1>2. ASSUME NEW system, system # "Timers", Run(system) PROVE Ahead' = Ahead
  BY <1>2 DEF Run, Ahead
<1>3. ASSUME NEW moving, NEW attacking, NetworkUpdate(moving, attacking)
      PROVE  Quiet
  <2>1. ASSUME NEW e \in HasHealth, m_state[e] = "Dying"
        PROVE  m_state'[e] = "Dying"
    <3>1. Moved("Dying") = "Dying" /\ Attacked("Dying") = "Dying"
      BY DEF Moved, Attacked, ChangeState
    <3> QED
      BY <1>3, <2>1, <3>1 DEF NetworkUpdate
  <2> QED
    BY <1>2, <1>3, <2>1 DEF NetworkUpdate, Quiet, history
<1>4. ASSUME NEW still, StateUpdate(still) PROVE Quiet
  BY <1>2, <1>4 DEF StateUpdate, Quiet, components, history
<1>5. ASSUME NEW covered, CollisionUpdate(covered) PROVE Quiet
  BY <1>2, <1>5 DEF CollisionUpdate, Quiet, components, history
<1>6. ASSUME NEW a \in HasAttacker, NEW v \in Entities, BeingAttacked(a, v)
      PROVE  Quiet
  <2>1. CASE Hits(a, v)
    <3>1. Hit(a, v)
      BY <1>6, <2>1 DEF BeingAttacked
    <3>2. \A e \in HasHealth : m_state[e] = "Dying" => m_state'[e] = "Dying"
      BY <1>1, <3>1, StateChanges DEF Hit, ChangeState, TypeInv, TypeOK
    <3>3. \A b \in HasAttacker :
             \/ /\ sinceHits'[b] = sinceHits[b]
                /\ b \in m_attacked' <=> b \in m_attacked
             \/ /\ b \notin m_attacked /\ b \in m_attacked'
                /\ sinceHits'[b] = <<0, sinceHits[b][1]>>
      BY <2>1, <3>1 DEF Hit, Hits, TypeInv, TypeOK
    <3> QED
      BY <1>6, <3>1, <3>2, <3>3 DEF BeingAttacked, Hit, Quiet, Ahead
  <2>2. CASE ~Hits(a, v)
    BY <1>6, <2>2 DEF BeingAttacked, Quiet, Ahead, history
  <2> QED
    BY <2>1, <2>2
<1>7. ASSUME HandleEvents PROVE Quiet
  <2>1. ASSUME NEW e \in HasHealth, m_state[e] = "Dying"
        PROVE  m_state'[e] = "Dying"
    BY <1>7, <2>1 DEF HandleEvents, BecomesIdle, ChangeState
  <2> QED
    BY <1>2, <1>7, <2>1 DEF HandleEvents, Quiet, history
<1>8. ASSUME NEW e, NEW value, SetHealth(e, value) PROVE Quiet
  BY <1>8 DEF SetHealth, Quiet, Ahead
<1>9. CASE UNCHANGED vars
  BY <1>9 DEF vars, Quiet, Ahead, components, history
<1> QED
  BY <1>3, <1>4, <1>5, <1>6, <1>7, <1>8, <1>9 DEF Next

LEMMA DeathTimedStep ==
    ASSUME TypeInv, DeathTimed, [Next]_vars
    PROVE  /\ DeathTimed'
           /\ \A e \in HasHealth : m_state[e] = "Dying" /\ m_state'[e] # "Dying" =>
                 sinceDeath[e] > DeathDuration - HurtDuration - MaxStep
<1> USE ConstantsAssumption, SetsOfEntities
<1> TypeOK
  BY DEF TypeInv
<1> SUFFICES ASSUME NEW e \in HasHealth
             PROVE  /\ IF m_state'[e] = "Dying"
                       THEN /\ \/ hurtTimer'[e] + Ahead' <
                                    sinceDeath'[e] + HurtDuration + MaxStep
                               \/ sinceDeath'[e] = DeathHorizon
                            /\ sinceDeath'[e] <= hurtTimer'[e] + Ahead'
                            /\ \/ hurtTimer'[e] < DeathDuration
                               \/ sinceDeath'[e] <= Ahead'
                       ELSE hurtTimer'[e] < HurtDuration /\ sinceDeath'[e] = 0
                    /\ m_state[e] = "Dying" /\ m_state'[e] # "Dying" =>
                       sinceDeath[e] > DeathDuration - HurtDuration - MaxStep
  BY DEF DeathTimed, DeathHorizon
<1>1. /\ hurtTimer[e] \in Nat /\ sinceDeath[e] \in Nat
      /\ l_dT \in Nat /\ l_dT <= MaxStep
      /\ Ahead \in Nat /\ Ahead <= MaxStep
      /\ MaxStep \in Nat /\ HurtDuration \in Nat \ {0}
      /\ DeathDuration \in Nat \ {0}
  BY DEF TypeOK, Ahead
<1>2. IF m_state[e] = "Dying"
      THEN /\ \/ hurtTimer[e] + Ahead < sinceDeath[e] + HurtDuration + MaxStep
              \/ sinceDeath[e] = DeathHorizon
           /\ sinceDeath[e] <= hurtTimer[e] + Ahead
           /\ hurtTimer[e] < DeathDuration \/ sinceDeath[e] <= Ahead
      ELSE hurtTimer[e] < HurtDuration /\ sinceDeath[e] = 0
  BY DEF DeathTimed
<1>3. ASSUME NEW dT \in 0..MaxStep, BeginFrame(dT)
      PROVE  /\ UNCHANGED <<m_state, hurtTimer>>
             /\ Ahead = 0 /\ Ahead' = dT
             /\ sinceDeath'[e] = IF m_state[e] = "Dying"
                                 THEN Least(sinceDeath[e] + dT, DeathHorizon)
                                 ELSE 0
  BY <1>3 DEF BeginFrame, Ahead, components, Systems
<1>4. CASE \E dT \in 0..MaxStep : BeginFrame(dT)
  BY <1>1, <1>2, <1>3, <1>4 DEF Least, DeathHorizon
<1>5. CASE TimersUpdate
  <2>1. Ahead = l_dT /\ Ahead' = 0
    BY <1>5 DEF TimersUpdate, Run, Ahead
  <2> QED
    BY <1>1, <1>2, <1>5, <2>1, HurtTimerAdvanced DEF DeathHorizon
<1>6. CASE Quiet
  BY <1>1, <1>2, <1>6 DEF Quiet, DeathHorizon
<1> QED
  BY <1>4, <1>5, <1>6, QuietStep

(* The timer and the true time of a death never drift apart further.       *)
THEOREM DeathTimedInvariant == Spec => []DeathTimed
<1>1. Init => DeathTimed
  BY ConstantsAssumption, SetsOfEntities DEF Init, DeathTimed
<1>2. TypeInv /\ DeathTimed /\ [Next]_vars => DeathTimed'
  BY DeathTimedStep
<1> QED
  BY <1>1, <1>2, CombatTypeInvariant, PTL DEF Spec

(* A death is shorter than DeathDuration by less than HurtDuration and one *)
(* frame (S_Timers.cpp:19-34).                                             *)
THEOREM DeathsLastAsLong == Spec => DeathLasts
<1>1. TypeInv /\ DeathTimed /\ [Next]_vars =>
        \A e \in HasHealth : m_state[e] = "Dying" /\ m_state'[e] # "Dying" =>
            sinceDeath[e] > DeathDuration - HurtDuration - MaxStep
  BY DeathTimedStep
<1> QED
  BY <1>1, CombatTypeInvariant, DeathTimedInvariant, PTL DEF Spec, DeathLasts

(* A death is longer than DeathDuration by less than one frame             *)
(* (S_Timers.cpp:24-40).                                                   *)
THEOREM NobodyStaysDead == Spec => []DeathsEnd
<1>1. TypeInv /\ DeathTimed => DeathsEnd
  <2> SUFFICES ASSUME TypeInv, DeathTimed, NEW e \in HasHealth
               PROVE  sinceDeath[e] < DeathDuration + MaxStep
    BY DEF DeathsEnd
  <2>1. /\ hurtTimer[e] \in Nat /\ sinceDeath[e] \in Nat
        /\ Ahead \in Nat /\ Ahead <= MaxStep
        /\ MaxStep \in Nat \ {0} /\ DeathDuration \in Nat \ {0}
    BY ConstantsAssumption DEF TypeInv, TypeOK, Ahead
  <2> QED
    BY <2>1 DEF DeathTimed
<1> QED
  BY <1>1, CombatTypeInvariant, DeathTimedInvariant, PTL

-----------------------------------------------------------------------------
(* The timer of an attack never runs ahead of the last hit but one: an     *)
(* attacker who may hit again has waited since then, one who may not has   *)
(* waited at least as long as his timer ran.  No history counts further    *)
(* than AttackDuration.                                                    *)
HitsTimed ==
    \A a \in HasAttacker :
        LET waited(i) == sinceHits[a][i] >= AttackDuration
                           \/ sinceHits[a][i] >= attackTimer[a] + Ahead
        IN  IF a \in m_attacked THEN waited(2)
            ELSE waited(1) /\ sinceHits[a][2] >= AttackDuration

LEMMA HitsTimedStep ==
    ASSUME TypeInv, HitsTimed, [Next]_vars
    PROVE  HitsTimed'
<1> SUFFICES ASSUME NEW a \in HasAttacker
             PROVE  IF a \in m_attacked'
                    THEN \/ sinceHits'[a][2] >= AttackDuration
                         \/ sinceHits'[a][2] >= attackTimer'[a] + Ahead'
                    ELSE /\ \/ sinceHits'[a][1] >= AttackDuration
                            \/ sinceHits'[a][1] >= attackTimer'[a] + Ahead'
                         /\ sinceHits'[a][2] >= AttackDuration
  BY DEF HitsTimed
<1>1. /\ attackTimer[a] \in Nat /\ l_dT \in Nat /\ Ahead \in Nat
      /\ AttackDuration \in Nat
      /\ sinceHits[a] \in [1..2 -> Nat]
      /\ sinceHits[a][1] \in Nat /\ sinceHits[a][2] \in Nat
  BY ConstantsAssumption DEF TypeInv, TypeOK, Ahead
<1>2. IF a \in m_attacked
      THEN \/ sinceHits[a][2] >= AttackDuration
           \/ sinceHits[a][2] >= attackTimer[a] + Ahead
      ELSE /\ \/ sinceHits[a][1] >= AttackDuration
              \/ sinceHits[a][1] >= attackTimer[a] + Ahead
           /\ sinceHits[a][2] >= AttackDuration
  BY DEF HitsTimed
<1>3. CASE \E dT \in 0..MaxStep : BeginFrame(dT)
  <2>1. PICK dT \in 0..MaxStep : BeginFrame(dT)
    BY <1>3
  <2>2. /\ UNCHANGED <<m_attacked, attackTimer>>
        /\ Ahead = 0 /\ Ahead' = dT
    BY <2>1 DEF BeginFrame, Ahead, components, Systems
  <2>3. sinceHits'[a] = [i \in 1..2 |-> Least(sinceHits[a][i] + dT, HitHorizon)]
    BY <2>1 DEF BeginFrame
  <2>4. \A i \in 1..2 :
          /\ sinceHits'[a][i] \in Nat
          /\ sinceHits'[a][i] = Least(sinceHits[a][i] + dT, AttackDuration)
    BY <1>1, <2>3, ConstantsAssumption DEF Least, HitHorizon
  <2>5. /\ sinceHits'[a][1] = Least(sinceHits[a][1] + dT, AttackDuration)
        /\ sinceHits'[a][2] = Least(sinceHits[a][2] + dT, AttackDuration)
    BY <2>4
  <2> QED
    BY <1>1, <1>2, <2>2, <2>5, ConstantsAssumption DEF Least
<1>4. CASE TimersUpdate
  <2>1. /\ Ahead = l_dT /\ Ahead' = 0
        /\ sinceHits' = sinceHits
    BY <1>4 DEF TimersUpdate, Run, Ahead
  <2> QED
    BY <1>1, <1>2, <1>4, <2>1, AttackTimerAdvanced
<1>5. CASE Quiet
  BY <1>1, <1>2, <1>5 DEF Quiet
<1> QED
  BY <1>3, <1>4, <1>5, QuietStep

(* What the timer of an attack says of the hits it stands for.             *)
THEOREM HitsTimedInvariant == Spec => []HitsTimed
<1>1. Init => HitsTimed
  BY ConstantsAssumption DEF Init, HitsTimed, HitHorizon
<1>2. TypeInv /\ HitsTimed /\ [Next]_vars => HitsTimed'
  BY HitsTimedStep
<1> QED
  BY <1>1, <1>2, CombatTypeInvariant, PTL DEF Spec

(* Of any three hits of one attacker the last comes at least               *)
(* AttackDuration after the first, although nobody asks whether he is      *)
(* attacking (S_Combat.cpp:57-60, S_Timers.cpp:37-43).                     *)
THEOREM ThirdHitsWait == Spec => HitsTakeTime
<1>1. TypeInv /\ HitsTimed /\ [Next]_vars =>
        \A a \in HasAttacker, v \in Entities :
            BeingAttacked(a, v) /\ Hits(a, v)
            => sinceHits[a][2] >= AttackDuration
  BY DEF HitsTimed, Hits
<1> QED
  BY <1>1, CombatTypeInvariant, HitsTimedInvariant, PTL DEF Spec, HitsTakeTime
=============================================================================
