------------------------------ MODULE Registry ------------------------------
(***************************************************************************)
(* What the server's client map promises to everything that holds a        *)
(* ClientID: it names one peer from the moment it is given until it is     *)
(* dropped, no peer has two of them, and none is ever given again.  How    *)
(* clients arrive, fall silent or are thrown out is hidden.                *)
(***************************************************************************)
EXTENDS Naturals, Functions

CONSTANT Peers

VARIABLES
    peerOf,     \* ClientID -> peer, partial
    next        \* the ClientID that is given next

Init ==
    /\ peerOf = [c \in {} |-> {}]
    /\ next = 0

Join(peer) ==
    /\ \A c \in DOMAIN peerOf : peerOf[c] # peer
    /\ peerOf' = [c \in DOMAIN peerOf \cup {next} |->
                     IF c = next THEN peer ELSE peerOf[c]]
    /\ next' = next + 1

(* A packet, a timeout or a command takes any of them away at once.        *)
Leave(dropped) ==
    /\ peerOf' = Restrict(peerOf, DOMAIN peerOf \ dropped)
    /\ UNCHANGED next

Next ==
    \/ \E peer \in Peers : Join(peer)
    \/ \E dropped \in SUBSET DOMAIN peerOf : Leave(dropped)

Spec == Init /\ [][Next]_<<peerOf, next>>
=============================================================================
