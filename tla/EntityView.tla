----------------------------- MODULE EntityView -----------------------------
(***************************************************************************)
(* What the entity manager promises its systems: at any time a system sees *)
(* exactly the entities whose components meet one of its requirements, so  *)
(* that what it requires is there.  What a system uses beyond its          *)
(* requirements is its own risk.                                           *)
(* Ids, the id counter and what remains of a removed entity are hidden.    *)
(***************************************************************************)
CONSTANTS Ids, Components, Systems, Requirements

VARIABLES
    has,    \* the components of each id
    view    \* the entities each system works on

Sees(s, components) ==
    {e \in Ids : \E r \in Requirements[s] : r \subseteq components[e]}

Init ==
    /\ has = [e \in Ids |-> {}]
    /\ view = [s \in Systems |-> {}]

(* One entity gains or loses components.                                   *)
Change(e) ==
    \E components \in SUBSET Components :
        has' = [has EXCEPT ![e] = components]

Clear == has' = [e \in Ids |-> {}]

Next ==
    /\ Clear \/ \E e \in Ids : Change(e)
    /\ view' = [s \in Systems |-> Sees(s, has')]

Spec == Init /\ [][Next]_<<has, view>>
=============================================================================
