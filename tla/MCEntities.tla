----------------------------- MODULE MCEntities -----------------------------
(* Three of the server's systems and the components that tell them apart   *)
(* (Position and Movable, which S_Combat always requires, left out), and   *)
(* SpriteSheet, which the server's factory does not know.                  *)
EXTENDS Entities

SystemRequirements ==
    [s \in Systems |->
        CASE s = "State" -> {{"State"}}
          [] s = "Timers" -> {{"State", "Health"}}
          [] s = "Combat" -> {{"State", "Health"}, {"State", "Attacker"}}]

FileMasks == {{}, {"State", "Attacker"}, {"State", "Health", "SpriteSheet"}}
=============================================================================
