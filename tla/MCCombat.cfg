CONSTANTS
    Players = {p}
    Victims = {m}
    Attackers = {m}
    MaxHealth = 2
    HurtDuration = 2
    DeathDuration = 3
    AttackDuration = 2
    MaxStep = 1
    Typed = {0}
SPECIFICATION Spec
INVARIANTS TypeOK DyingIsHavingNoHealth 
PROPERTIES DeathLasts HitsTakeTime
