------------------------------ MODULE MCWorld -------------------------------
(* Two of the server's systems, players and the entities of the map.       *)
EXTENDS World

SystemRequirements ==
    [s \in Systems |-> CASE s = "Network" -> {{"Client"}}
                         [] s = "State" -> {{"State"}}]

PeerSymmetry == Permutations(Peers)
=============================================================================
